---------------------------- MODULE KeyIndexProofs ----------------------------
(***************************************************************************)
(* One key's records, its HotTier slot, its ColdTier entry and its commit  *)
(* entries, for every number of VPage slots, every address and every bound *)
(* on the steps.                                                           *)
(*                                                                         *)
(* KeyInv, the inductive invariant, says of every moment of a write what   *)
(* SingleLive, FreshReads and QuietConverged say between two: which        *)
(* records the key has, which write each holds, and which of lane, batch,  *)
(* winner and ColdTier carries the last write's offset.                    *)
(***************************************************************************)
EXTENDS KeyIndex, WellFoundedInduction, TLAPS

(***************************************************************************)
(* What the compact offsets (OffsetCodec) preserve, for every width of     *)
(* the fields.                                                             *)
(***************************************************************************)
\* Multiples are ordered as their factors.
LEMMA Multiples ==
    ASSUME NEW m \in Nat \ {0}, NEW a \in Int, NEW b \in Int, a < b
    PROVE  a * m + m <= b * m
<1>1. b = a + 1 + (b - a - 1) /\ b - a - 1 \in Nat
  OBVIOUS
<1>2. (b - a - 1) * m >= 0
  BY <1>1
<1>3. b * m = a * m + m + (b - a - 1) * m
  BY <1>1
<1> QED
  BY <1>2, <1>3

\* A quotient and a remainder below the divisor are found again.
LEMMA DivMod ==
    ASSUME NEW m \in Nat \ {0}, NEW q \in Nat, NEW r \in Nat, r < m
    PROVE  (q * m + r) \div m = q /\ (q * m + r) % m = r
<1> DEFINE x == q * m + r
           d == x \div m
           e == x % m
<1>1. q * m \in Nat /\ x \in Nat
  OBVIOUS
<1>2. d \in Int /\ e \in Int /\ x = d * m + e /\ 0 <= e /\ e < m
  BY <1>1
<1> HIDE DEF d, e
<1>3. d = q
  <2>1. ~(d < q)
    <3> SUFFICES ASSUME d < q PROVE FALSE
      OBVIOUS
    <3>1. d * m + m <= q * m
      BY <1>2, Multiples
    <3> QED
      BY <1>1, <1>2, <3>1
  <2>2. ~(q < d)
    <3> SUFFICES ASSUME q < d PROVE FALSE
      OBVIOUS
    <3>1. q * m + m <= d * m
      BY <1>2, Multiples
    <3> QED
      BY <1>1, <1>2, <3>1
  <2> QED
    BY <1>2, <2>1, <2>2
<1>4. e = r
  BY <1>1, <1>2, <1>3
<1> QED
  BY <1>3, <1>4 DEF d, e

\* What encode returns when it returns anything.
LEMMA EncodeCases ==
    ASSUME NEW block \in Nat, NEW page \in Nat, NEW slot \in Nat,
           encode(block, page, slot) # nullopt
    PROVE  /\ Fits(block, page, slot)
           /\ encode(block, page, slot) = Packed(block - Base, page, slot)
           /\ encode(block, page, slot) # kInvalidCompactOffset
  BY DEF encode

\* encode and decode are inverse: whatever encode accepts, decode gives back,
\* block, page and slot (offset_codec.hpp encode, decode; the HotTier mirror of
\* every put relies on it).
THEOREM RoundTrip ==
    ASSUME NEW block \in Nat, NEW page \in Nat, NEW slot \in Nat,
           encode(block, page, slot) # nullopt
    PROVE  decode(encode(block, page, slot)) = [block |-> block, page |-> page, slot |-> slot]
<1> DEFINE low == block - Base
           row == kPage * kDataOff
           w   == encode(block, page, slot)
<1>1. /\ kPage \in Nat \ {0} /\ kDataOff \in Nat \ {0} /\ kBlockLow \in Nat \ {0} /\ Base \in Nat
      /\ low \in Nat /\ low < kBlockLow /\ page < kPage /\ slot < kDataOff
  BY EncodeCases, FieldAssumption, BaseAssumption DEF Fits
<1>2. w = low * (kPage * kDataOff) + (page * kDataOff + slot)
  BY EncodeCases DEF Packed
<1> HIDE DEF low, w
<1>3. row \in Nat \ {0}
  BY <1>1
<1>4. page * kDataOff + slot \in Nat /\ page * kDataOff + slot < row
  <2>1. page * kDataOff + kDataOff <= kPage * kDataOff
    BY <1>1, Multiples
  <2> QED
    BY <1>1, <2>1
<1>5. w \div row = low
  <2> DEFINE r == page * kDataOff + slot
  <2>1. w = low * row + r /\ r \in Nat /\ r < row /\ row \in Nat \ {0} /\ low \in Nat
    BY <1>1, <1>2, <1>3, <1>4
  <2> HIDE DEF r, row
  <2>2. (low * row + r) \div row = low
    BY <2>1, DivMod
  <2> QED
    BY <2>1, <2>2
<1>6. w = (low * kPage + page) * kDataOff + slot
  BY <1>1, <1>2
<1>7. low * kPage + page \in Nat
  BY <1>1
<1>8. w \div kDataOff = low * kPage + page /\ w % kDataOff = slot
  BY <1>1, <1>6, <1>7, DivMod
<1>9. (low * kPage + page) % kPage = page
  BY <1>1, DivMod
<1>10. low % kBlockLow = low
  BY <1>1
<1>11. Base + low = block
  BY <1>1 DEF low
<1> QED
  BY <1>5, <1>8, <1>9, <1>10, <1>11 DEF decode, w

\* Two offsets never share a word: a HotTier word names one record place.
THEOREM Injective ==
    ASSUME NEW block \in Nat, NEW page \in Nat, NEW slot \in Nat,
           NEW block2 \in Nat, NEW page2 \in Nat, NEW slot2 \in Nat,
           encode(block, page, slot) # nullopt,
           encode(block, page, slot) = encode(block2, page2, slot2)
    PROVE  block = block2 /\ page = page2 /\ slot = slot2
<1>1. [block |-> block, page |-> page, slot |-> slot]
          = [block |-> block2, page |-> page2, slot |-> slot2]
  BY RoundTrip
<1> QED
  BY <1>1

\* A word fits its 32 bits (here kBlockLow * kPage * kDataOff values) and is
\* never kInvalidCompactOffset, which means that a slot has no offset.
THEOREM InWord ==
    ASSUME NEW block \in Nat, NEW page \in Nat, NEW slot \in Nat,
           encode(block, page, slot) # nullopt
    PROVE  encode(block, page, slot) \in 0 .. kInvalidCompactOffset - 1
<1> DEFINE low == block - Base
           row == kPage * kDataOff
           w   == encode(block, page, slot)
<1>1. /\ kPage \in Nat \ {0} /\ kDataOff \in Nat \ {0} /\ kBlockLow \in Nat \ {0} /\ Base \in Nat
      /\ low \in Nat /\ low < kBlockLow /\ page < kPage /\ slot < kDataOff
  BY EncodeCases, FieldAssumption, BaseAssumption DEF Fits
<1>2. w = low * row + (page * kDataOff + slot) /\ w # kInvalidCompactOffset
  BY EncodeCases DEF Packed
<1>3. page * kDataOff + kDataOff <= row
  BY <1>1, Multiples
<1>4. row \in Nat \ {0}
  BY <1>1
<1>5. low * row + row <= kBlockLow * row
  BY <1>1, <1>4, Multiples
<1>6. page * kDataOff \in Nat /\ low * row \in Nat /\ kBlockLow * row \in Nat
  BY <1>1, <1>4
<1>7. kInvalidCompactOffset = kBlockLow * row - 1
  BY DEF kInvalidCompactOffset
<1> HIDE DEF low, row, w
<1>8. w \in Nat /\ w <= kBlockLow * row - 1
  BY <1>1, <1>2, <1>3, <1>4, <1>5, <1>6
<1>9. w \in 0 .. kInvalidCompactOffset - 1
  BY <1>2, <1>4, <1>6, <1>7, <1>8
<1> QED
  BY <1>9 DEF w


(***************************************************************************)
(* The inductive invariant.                                                *)
(***************************************************************************)
Resolving == {"resolve", "verifyhot", "resolvecold", "verifycold", "resolved"}

\* Which operation is at which step, and what it writes.
Phases ==
    /\ op = "kPut" /\ pc # "idle" => new \in places
    /\ op = "kRemove" /\ pc # "idle" => new = Tombstone
    /\ pc \in {"unlock", "mirror", "pinor", "pinand", "drain"} => op = "kPut"
    /\ pc = "hotremove" => op = "kRemove"
    /\ pc = "push" => op # "update"
    /\ pc \in {"hotonly", "try"} => op = "update"
    /\ num = ops

\* The flusher's position in its batch.
Batched == IF fpc = "idle" THEN batch = <<>> /\ k = 1 ELSE k \in 1 .. Len(batch)

\* The put entries, whose records apply_batch reads.
Entries ==
    /\ \A i \in DOMAIN queue : queue[i].op = "kPut" => queue[i].off \in places
    /\ \A i \in DOMAIN batch : batch[i].op = "kPut" => batch[i].off \in places

\* Everything that is followed to a record was once the key's.
Placed ==
    /\ KeyRecords \subseteq places
    /\ \A o \in Offsets : vslot[o] <= ops
    /\ hot.fp = "key" => \E o \in places : hot = KeySlot(o) /\ ~Far(o)
    /\ rpc = "warm" => roff \in places

\* The records the key should have at each step of a write: the old one until
\* it is freed, the new one from the moment it is written.
Expected ==
    CASE op = "kPut" /\ pc \in Resolving -> ({cur} \ {Tombstone}) \cup {new}
      [] op = "kPut" /\ pc \in {"unlock", "mirror", "pinor", "pinand", "push", "drain"} -> {new}
      [] op = "kRemove" /\ pc \in {"hotremove", "push"} -> {}
      [] OTHER -> {cur} \ {Tombstone}

Live ==
    /\ KeyRecords = Expected
    /\ op = "kPut" /\ pc \in Resolving => new # cur
    /\ pc = "resolved" /\ op # "update" => off = cur

\* The writes that the records hold, and what a get has seen of them.
Fresh ==
    /\ \A o \in KeyRecords : vslot[o] >= done
    /\ op = "kPut" /\ pc # "idle" => vslot[new] = num
    /\ found # 0 => found >= began

\* Where the last write to be pushed left the key.
Target == IF pc = "drain" THEN new ELSE cur

\* No put or remove is between its first step and its push.
Settled == pc \in {"idle", "drain"} \/ op = "update"

Names(e) == e.off = Target /\ e.op = (IF Target = Tombstone THEN "kRemove" ELSE "kPut")

\* The last of the lane, the batch, the winner and ColdTier that has anything
\* to say of the key names the target.
Converging ==
    Settled =>
        /\ queue # <<>> => Names(queue[Len(queue)])
        /\ queue = <<>> /\ fpc \in {"read", "pick"} => Names(batch[Len(batch)])
        /\ queue = <<>> /\ fpc = "upsert" => winner.off = Target
        /\ queue = <<>> /\ fpc \in {"idle", "take", "release"} => cold = Target

KeyInv ==
    /\ KeyTypeOK /\ Phases /\ Batched /\ Entries /\ Placed
    /\ began <= done
    /\ ~leaked => Live /\ Fresh /\ Converging

(***************************************************************************)
(* Smallest and largest positions, for the flusher's choice of a winner.   *)
(***************************************************************************)
\* A set of natural numbers has a least element.
LEMMA LeastExists ==
    ASSUME NEW S \in SUBSET Nat, S # {}
    PROVE  \E x \in S : \A y \in S : x <= y
<1> DEFINE R == {ss \in Nat \X Nat : ss[1] < ss[2]}
<1>1. IsWellFoundedOn(R, Nat)
  BY NatLessThanWellFounded DEF OpToRel
<1> HIDE DEF R
<1>2. PICK x \in S : \A y \in S : ~(<<y, x>> \in R)
  BY <1>1, WFMin
<1>3. \A y \in S : ~(y < x)
  BY <1>2 DEF R
<1> QED
  BY <1>3

\* Min picks an element, and so does Max when the set is bounded.
LEMMA MinIn ==
    ASSUME NEW S \in SUBSET Nat, S # {}
    PROVE  Min(S) \in S
BY LeastExists DEF Min

LEMMA MaxIn ==
    ASSUME NEW n \in Nat, NEW S \in SUBSET (1 .. n), S # {}
    PROVE  Max(S) \in S /\ \A y \in S : Max(S) >= y
<1> DEFINE D == {n - x : x \in S}
<1>1. D \in SUBSET Nat /\ D # {}
  <2>1. D \in SUBSET Nat
    <3> SUFFICES ASSUME NEW d \in D PROVE d \in Nat
      OBVIOUS
    <3>1. PICK x \in S : d = n - x
      OBVIOUS
    <3>2. x \in 1 .. n
      OBVIOUS
    <3> QED
      BY <3>1, <3>2
  <2>2. PICK s \in S : TRUE
    OBVIOUS
  <2>3. n - s \in D
    BY <2>2
  <2> QED
    BY <2>1, <2>3
<1>2. PICK d \in D : \A e \in D : d <= e
  BY <1>1, LeastExists
<1>3. PICK x \in S : d = n - x
  BY <1>2
<1>4. \A y \in S : x >= y
  <2> SUFFICES ASSUME NEW y \in S PROVE x >= y
    OBVIOUS
  <2>1. n - y \in D
    OBVIOUS
  <2>2. d <= n - y
    BY <1>2, <2>1
  <2>3. x \in 1 .. n /\ y \in 1 .. n
    OBVIOUS
  <2> QED
    BY <1>3, <2>2, <2>3
<1> QED
  BY <1>3, <1>4 DEF Max

\* The winner of a batch is one of its entries or none.
LEMMA WinnerCases ==
    ASSUME NEW b \in Seq(Entry), NEW c
    PROVE  /\ Winner(b, c) \in Entry \cup {NoEntry}
           /\ Winner(b, c) = NoEntry \/ \E i \in DOMAIN b :
                  /\ Winner(b, c) = b[i]
                  /\ b[i].op = "kRemove" \/ AlivePut(b[i])
<1> DEFINE truth == {i \in DOMAIN b : AlivePut(b[i]) /\ b[i].off = c}
           walk  == {i \in DOMAIN b : b[i].op = "kRemove" \/ AlivePut(b[i])}
<1>1. /\ Len(b) \in Nat /\ DOMAIN b = 1 .. Len(b)
      /\ \A i \in DOMAIN b : b[i] \in Entry
  OBVIOUS
<1>2. Winner(b, c) = IF truth # {} THEN b[Min(truth)]
                     ELSE IF walk # {} THEN b[Max(walk)] ELSE NoEntry
  BY DEF Winner
<1>3. truth # {} => Min(truth) \in truth
  <2>1. truth \in SUBSET Nat
    BY <1>1
  <2> QED
    BY <2>1, MinIn
<1>4. walk # {} => Max(walk) \in walk
  <2>1. walk \in SUBSET (1 .. Len(b))
    BY <1>1
  <2> QED
    BY <1>1, <2>1, MaxIn
<1>5. truth \subseteq walk /\ walk \subseteq DOMAIN b
  OBVIOUS
<1> HIDE DEF truth
<1>6. CASE truth # {}
  <2>1. Winner(b, c) = b[Min(truth)] /\ Min(truth) \in walk
    BY <1>2, <1>3, <1>5, <1>6
  <2> QED
    BY <1>1, <2>1
<1>7. CASE truth = {} /\ walk # {}
  <2> HIDE DEF walk
  <2>1. Winner(b, c) = b[Max(walk)] /\ Max(walk) \in walk
    BY <1>2, <1>4, <1>7
  <2> QED
    BY <1>1, <2>1 DEF walk
<1>8. CASE truth = {} /\ walk = {}
  <2> HIDE DEF walk
  <2> QED
    BY <1>2, <1>8
<1> QED
  BY <1>6, <1>7, <1>8

\* The last entry wins when it is one that may, and no put before it is alive
\* elsewhere.
LEMMA LastWins ==
    ASSUME NEW b \in Seq(Entry), NEW c, b # <<>>,
           LET e == b[Len(b)] IN
               /\ e.op = "kRemove" \/ AlivePut(e)
               /\ \A i \in DOMAIN b : AlivePut(b[i]) => b[i].off = e.off /\ b[i].op = e.op
    PROVE  /\ Winner(b, c).off = b[Len(b)].off
           /\ Winner(b, c).op = b[Len(b)].op
<1> DEFINE truth == {i \in DOMAIN b : AlivePut(b[i]) /\ b[i].off = c}
           walk  == {i \in DOMAIN b : b[i].op = "kRemove" \/ AlivePut(b[i])}
<1>1. Len(b) \in Nat \ {0} /\ DOMAIN b = 1 .. Len(b)
  OBVIOUS
<1>2. Winner(b, c) = IF truth # {} THEN b[Min(truth)]
                     ELSE IF walk # {} THEN b[Max(walk)] ELSE NoEntry
  BY DEF Winner
<1>3. CASE truth # {}
  <2>1. truth \in SUBSET Nat
    BY <1>1
  <2> HIDE DEF truth
  <2>2. Min(truth) \in truth
    BY <1>3, <2>1, MinIn
  <2>3. Winner(b, c) = b[Min(truth)]
    BY <1>2, <1>3
  <2>4. Min(truth) \in DOMAIN b /\ AlivePut(b[Min(truth)])
    BY <2>2 DEF truth
  <2> QED
    BY <2>3, <2>4
<1>4. CASE truth = {}
  <2>1. walk \in SUBSET (1 .. Len(b)) /\ Len(b) \in walk
    BY <1>1
  <2> HIDE DEF truth, walk
  <2>2. Max(walk) \in walk /\ \A y \in walk : Max(walk) >= y
    BY <1>1, <2>1, MaxIn
  <2>3. Max(walk) = Len(b)
    <3>1. PICK m \in walk : m = Max(walk)
      BY <2>2
    <3>2. m \in 1 .. Len(b) /\ m >= Len(b)
      BY <2>1, <2>2, <3>1
    <3> QED
      BY <1>1, <3>1, <3>2
  <2> QED
    BY <1>2, <1>4, <2>1, <2>3
<1> QED
  BY <1>3, <1>4

(***************************************************************************)
(* HotTier slots.                                                          *)
(***************************************************************************)
LEMMA SlotFields ==
    /\ EmptySlot.fp = "none" /\ RivalSlot.fp = "rival"
    /\ \A o : KeySlot(o).fp = "key" /\ KeySlot(o).off = Word(o)
BY DEF EmptySlot, RivalSlot, KeySlot

\* A HotTier slot that holds an offset of the key names that offset.
LEMMA HotOffsetIs ==
    ASSUME NEW o \in Offsets, hot = KeySlot(o), ~Far(o)
    PROVE  HotOffset = o
<1> DEFINE at == {p \in Offsets : hot.fp = "key" /\ decode(hot.off) = Address[p]}
<1>1. Address[o] \in [block : Nat, page : Nat, slot : Nat]
  BY AddressAssumption DEF Offsets
<1>2. decode(Word(o)) = [block |-> Address[o].block, page |-> Address[o].page,
                         slot |-> Address[o].slot]
  BY <1>1, RoundTrip DEF Far, Word
<1>3. decode(hot.off) = Address[o] /\ hot.fp = "key"
  BY <1>1, <1>2, SlotFields
<1>4. at = {o}
  BY <1>3, AddressAssumption DEF Offsets
<1> HIDE DEF at
<1>5. HotOffset = IF at = {} THEN Tombstone ELSE CHOOSE p \in at : TRUE
  BY DEF HotOffset, at
<1> QED
  BY <1>4, <1>5

\* ... so what HotTier says of the key is a place the key was stored at.
LEMMA HotOffsetPlaced ==
    ASSUME KeyTypeOK, Placed, hot.fp = "key"
    PROVE  HotOffset \in places /\ HotOffset \in Offsets /\ HotOffset # Tombstone
<1>1. PICK o \in places : hot = KeySlot(o) /\ ~Far(o)
  BY DEF Placed
<1>2. o \in Offsets
  BY <1>1 DEF KeyTypeOK
<1>3. HotOffset = o
  BY <1>1, <1>2, HotOffsetIs
<1> QED
  BY <1>1, <1>2, <1>3, AddressAssumption DEF Offsets, Tombstone

(***************************************************************************)
(* Types.                                                                  *)
(***************************************************************************)
\* What every step records of the history.
History ==
    /\ leaked' = (leaked \/ Missed')
    /\ places' = places \cup KeyRecords'

\* The parts of KeyTypeOK.
StoreTypes ==
    /\ vslot \in [Offsets -> Other .. MaxOps + 1]
    /\ held \subseteq Pages
    /\ hot \in {EmptySlot, RivalSlot} \cup {KeySlot(o) : o \in Offsets}
    /\ hstate \in {"kUnpinned", "kPinned", "kInFlush"}
    /\ cold \in Offsets \cup {Tombstone}
LaneTypes ==
    /\ queue \in Seq(Entry) /\ batch \in Seq(Entry)
    /\ fpc \in {"idle", "read", "pick", "upsert", "take", "release"}
    /\ canonical \in Offsets \cup {Tombstone}
    /\ winner \in Entry \cup {NoEntry}
    /\ k \in 1 .. Len(batch) + 1
WriterTypes ==
    /\ pc \in {"idle", "hotonly", "try", "resolve", "verifyhot", "resolvecold",
               "verifycold", "resolved", "unlock", "mirror", "pinor", "pinand",
               "hotremove", "push", "drain"}
    /\ op \in {"kPut", "kRemove", "update"}
    /\ off \in Offsets \cup {Tombstone} /\ new \in Offsets \cup {Tombstone}
    /\ ref \in BOOLEAN
    /\ cur \in Offsets \cup {Tombstone}
CountTypes ==
    /\ ops \in 1 .. MaxOps + 1 /\ num \in 1 .. ops /\ done \in 1 .. ops
    /\ gets \in 0 .. MaxGets /\ began \in 1 .. ops /\ found \in 0 .. ops
    /\ rivals \in 0 .. MaxRivals /\ others \in 0 .. MaxOthers
ReaderTypes ==
    /\ rpc \in {"idle", "hot", "verifyhot", "cold", "verifycold", "warm"}
    /\ roff \in Offsets \cup {Tombstone}
    /\ xpc \in {"idle", "evict", "insert", "pin", "pinned"}
Followed ==
    /\ pc \in {"try", "verifyhot", "verifycold"} => off # Tombstone
    /\ rpc \in {"verifyhot", "verifycold", "warm"} => roff # Tombstone
    /\ fpc = "upsert" => winner.op = "kPut"

LEMMA WriteTypes ==
    ASSUME KeyTypeOK, Phases, Batched, Placed, Write, History
    PROVE  KeyTypeOK'
<1>0. leaked' \in BOOLEAN /\ places' \subseteq Offsets
  BY DEF KeyTypeOK, History, KeyRecords
<1>1. ASSUME NEW o \in Offsets, PutWrite(o)
      PROVE  KeyTypeOK'
  <2>1. StoreTypes'
    BY KeyBounds, <1>1 DEF PutWrite, Begin, KeyTypeOK, StoreTypes, Tombstone, Other,
       Offsets, hotVars, flushVars, readerVars, envVars
  <2>2. LaneTypes'
    BY <1>1 DEF PutWrite, Begin, KeyTypeOK, LaneTypes, Tombstone, hotVars, flushVars,
       readerVars, envVars
  <2>3. WriterTypes'
    BY <1>1 DEF PutWrite, Begin, KeyTypeOK, WriterTypes, Tombstone, hotVars, flushVars,
       readerVars, envVars
  <2>4. CountTypes'
    BY KeyBounds, <1>1 DEF PutWrite, Begin, KeyTypeOK, CountTypes, Tombstone, hotVars,
       flushVars, readerVars, envVars
  <2>5. ReaderTypes'
    BY <1>1 DEF PutWrite, Begin, KeyTypeOK, ReaderTypes, Tombstone, hotVars, flushVars,
       readerVars, envVars
  <2>6. Followed'
    BY <1>1 DEF PutWrite, Begin, KeyTypeOK, Followed, Tombstone, hotVars, flushVars,
       readerVars, envVars
  <2> QED
    BY <1>0, <2>1, <2>2, <2>3, <2>4, <2>5, <2>6 DEF KeyTypeOK, StoreTypes, LaneTypes,
       WriterTypes, CountTypes, ReaderTypes, Followed
<1>2. CASE RemoveBegin
  <2>1. StoreTypes'
    BY <1>2 DEF RemoveBegin, Begin, KeyTypeOK, StoreTypes, Tombstone, pmVars, hotVars,
       flushVars, readerVars, envVars
  <2>2. LaneTypes'
    BY <1>2 DEF RemoveBegin, Begin, KeyTypeOK, LaneTypes, Tombstone, pmVars, hotVars,
       flushVars, readerVars, envVars
  <2>3. WriterTypes'
    BY <1>2 DEF RemoveBegin, Begin, KeyTypeOK, WriterTypes, Tombstone, pmVars, hotVars,
       flushVars, readerVars, envVars
  <2>4. CountTypes'
    BY KeyBounds, <1>2 DEF RemoveBegin, Begin, KeyTypeOK, CountTypes, Tombstone, pmVars,
       hotVars, flushVars, readerVars, envVars
  <2>5. ReaderTypes'
    BY <1>2 DEF RemoveBegin, Begin, KeyTypeOK, ReaderTypes, Tombstone, pmVars, hotVars,
       flushVars, readerVars, envVars
  <2>6. Followed'
    BY <1>2 DEF RemoveBegin, Begin, KeyTypeOK, Followed, Tombstone, pmVars, hotVars,
       flushVars, readerVars, envVars
  <2> QED
    BY <1>0, <2>1, <2>2, <2>3, <2>4, <2>5, <2>6 DEF KeyTypeOK, StoreTypes, LaneTypes,
       WriterTypes, CountTypes, ReaderTypes, Followed
<1>3. CASE UpdateBegin
  <2>1. StoreTypes'
    BY <1>3 DEF UpdateBegin, Begin, KeyTypeOK, StoreTypes, Tombstone, pmVars, hotVars,
       flushVars, readerVars, envVars
  <2>2. LaneTypes'
    BY <1>3 DEF UpdateBegin, Begin, KeyTypeOK, LaneTypes, Tombstone, pmVars, hotVars,
       flushVars, readerVars, envVars
  <2>3. WriterTypes'
    BY <1>3 DEF UpdateBegin, Begin, KeyTypeOK, WriterTypes, Tombstone, pmVars, hotVars,
       flushVars, readerVars, envVars
  <2>4. CountTypes'
    BY KeyBounds, <1>3 DEF UpdateBegin, Begin, KeyTypeOK, CountTypes, Tombstone, pmVars,
       hotVars, flushVars, readerVars, envVars
  <2>5. ReaderTypes'
    BY <1>3 DEF UpdateBegin, Begin, KeyTypeOK, ReaderTypes, Tombstone, pmVars, hotVars,
       flushVars, readerVars, envVars
  <2>6. Followed'
    BY <1>3 DEF UpdateBegin, Begin, KeyTypeOK, Followed, Tombstone, pmVars, hotVars,
       flushVars, readerVars, envVars
  <2> QED
    BY <1>0, <2>1, <2>2, <2>3, <2>4, <2>5, <2>6 DEF KeyTypeOK, StoreTypes, LaneTypes,
       WriterTypes, CountTypes, ReaderTypes, Followed
<1>4. CASE ResolveHot
  <2>1. StoreTypes'
    BY <1>4 DEF ResolveHot, WriterGoto, ResolverUnchanged, KeyTypeOK, StoreTypes, Tombstone,
       pmVars, hotVars, flushVars, readerVars, envVars
  <2>2. LaneTypes'
    BY <1>4 DEF ResolveHot, WriterGoto, ResolverUnchanged, KeyTypeOK, LaneTypes, Tombstone,
       pmVars, hotVars, flushVars, readerVars, envVars
  <2>3. WriterTypes'
    BY HotOffsetPlaced, <1>4 DEF ResolveHot, WriterGoto, ResolverUnchanged, KeyTypeOK,
       WriterTypes, Tombstone, pmVars, hotVars, flushVars, readerVars, envVars
  <2>4. CountTypes'
    BY <1>4 DEF ResolveHot, WriterGoto, ResolverUnchanged, KeyTypeOK, CountTypes, Tombstone,
       pmVars, hotVars, flushVars, readerVars, envVars
  <2>5. ReaderTypes'
    BY <1>4 DEF ResolveHot, WriterGoto, ResolverUnchanged, KeyTypeOK, ReaderTypes,
       Tombstone, pmVars, hotVars, flushVars, readerVars, envVars
  <2>6. Followed'
    BY HotOffsetPlaced, <1>4 DEF ResolveHot, WriterGoto, ResolverUnchanged, KeyTypeOK,
       Followed, Tombstone, pmVars, hotVars, flushVars, readerVars, envVars
  <2> QED
    BY <1>0, <2>1, <2>2, <2>3, <2>4, <2>5, <2>6 DEF KeyTypeOK, StoreTypes, LaneTypes,
       WriterTypes, CountTypes, ReaderTypes, Followed
<1>5. CASE VerifyHot
  <2>1. StoreTypes'
    BY <1>5 DEF VerifyHot, WriterGoto, ResolverUnchanged, KeyTypeOK, StoreTypes, Tombstone,
       pmVars, hotVars, flushVars, readerVars, envVars
  <2>2. LaneTypes'
    BY <1>5 DEF VerifyHot, WriterGoto, ResolverUnchanged, KeyTypeOK, LaneTypes, Tombstone,
       pmVars, hotVars, flushVars, readerVars, envVars
  <2>3. WriterTypes'
    BY <1>5 DEF VerifyHot, WriterGoto, ResolverUnchanged, KeyTypeOK, WriterTypes, Tombstone,
       pmVars, hotVars, flushVars, readerVars, envVars
  <2>4. CountTypes'
    BY <1>5 DEF VerifyHot, WriterGoto, ResolverUnchanged, KeyTypeOK, CountTypes, Tombstone,
       pmVars, hotVars, flushVars, readerVars, envVars
  <2>5. ReaderTypes'
    BY <1>5 DEF VerifyHot, WriterGoto, ResolverUnchanged, KeyTypeOK, ReaderTypes, Tombstone,
       pmVars, hotVars, flushVars, readerVars, envVars
  <2>6. Followed'
    BY <1>5 DEF VerifyHot, WriterGoto, ResolverUnchanged, KeyTypeOK, Followed, Tombstone,
       pmVars, hotVars, flushVars, readerVars, envVars
  <2> QED
    BY <1>0, <2>1, <2>2, <2>3, <2>4, <2>5, <2>6 DEF KeyTypeOK, StoreTypes, LaneTypes,
       WriterTypes, CountTypes, ReaderTypes, Followed
<1>6. CASE ResolveCold
  <2>1. StoreTypes'
    BY <1>6 DEF ResolveCold, WriterGoto, ResolverUnchanged, KeyTypeOK, StoreTypes,
       Tombstone, pmVars, hotVars, flushVars, readerVars, envVars
  <2>2. LaneTypes'
    BY <1>6 DEF ResolveCold, WriterGoto, ResolverUnchanged, KeyTypeOK, LaneTypes, Tombstone,
       pmVars, hotVars, flushVars, readerVars, envVars
  <2>3. WriterTypes'
    BY <1>6 DEF ResolveCold, WriterGoto, ResolverUnchanged, KeyTypeOK, WriterTypes,
       Tombstone, pmVars, hotVars, flushVars, readerVars, envVars
  <2>4. CountTypes'
    BY <1>6 DEF ResolveCold, WriterGoto, ResolverUnchanged, KeyTypeOK, CountTypes,
       Tombstone, pmVars, hotVars, flushVars, readerVars, envVars
  <2>5. ReaderTypes'
    BY <1>6 DEF ResolveCold, WriterGoto, ResolverUnchanged, KeyTypeOK, ReaderTypes,
       Tombstone, pmVars, hotVars, flushVars, readerVars, envVars
  <2>6. Followed'
    BY <1>6 DEF ResolveCold, WriterGoto, ResolverUnchanged, KeyTypeOK, Followed, Tombstone,
       pmVars, hotVars, flushVars, readerVars, envVars
  <2> QED
    BY <1>0, <2>1, <2>2, <2>3, <2>4, <2>5, <2>6 DEF KeyTypeOK, StoreTypes, LaneTypes,
       WriterTypes, CountTypes, ReaderTypes, Followed
<1>7. CASE VerifyCold
  <2>1. StoreTypes'
    BY <1>7 DEF VerifyCold, WriterGoto, ResolverUnchanged, KeyTypeOK, StoreTypes, Tombstone,
       pmVars, hotVars, flushVars, readerVars, envVars
  <2>2. LaneTypes'
    BY <1>7 DEF VerifyCold, WriterGoto, ResolverUnchanged, KeyTypeOK, LaneTypes, Tombstone,
       pmVars, hotVars, flushVars, readerVars, envVars
  <2>3. WriterTypes'
    BY <1>7 DEF VerifyCold, WriterGoto, ResolverUnchanged, KeyTypeOK, WriterTypes,
       Tombstone, pmVars, hotVars, flushVars, readerVars, envVars
  <2>4. CountTypes'
    BY <1>7 DEF VerifyCold, WriterGoto, ResolverUnchanged, KeyTypeOK, CountTypes, Tombstone,
       pmVars, hotVars, flushVars, readerVars, envVars
  <2>5. ReaderTypes'
    BY <1>7 DEF VerifyCold, WriterGoto, ResolverUnchanged, KeyTypeOK, ReaderTypes,
       Tombstone, pmVars, hotVars, flushVars, readerVars, envVars
  <2>6. Followed'
    BY <1>7 DEF VerifyCold, WriterGoto, ResolverUnchanged, KeyTypeOK, Followed, Tombstone,
       pmVars, hotVars, flushVars, readerVars, envVars
  <2> QED
    BY <1>0, <2>1, <2>2, <2>3, <2>4, <2>5, <2>6 DEF KeyTypeOK, StoreTypes, LaneTypes,
       WriterTypes, CountTypes, ReaderTypes, Followed
<1>8. CASE FreeOld
  <2>1. StoreTypes'
    BY KeyBounds, <1>8 DEF FreeOld, KeyTypeOK, StoreTypes, Tombstone, Other, Free, hotVars,
       flushVars, readerVars, envVars
  <2>2. LaneTypes'
    BY <1>8 DEF FreeOld, KeyTypeOK, LaneTypes, Tombstone, hotVars, flushVars, readerVars,
       envVars
  <2>3. WriterTypes'
    BY <1>8 DEF FreeOld, KeyTypeOK, WriterTypes, Tombstone, hotVars, flushVars, readerVars,
       envVars
  <2>4. CountTypes'
    BY <1>8 DEF FreeOld, KeyTypeOK, CountTypes, Tombstone, hotVars, flushVars, readerVars,
       envVars
  <2>5. ReaderTypes'
    BY <1>8 DEF FreeOld, KeyTypeOK, ReaderTypes, Tombstone, hotVars, flushVars, readerVars,
       envVars
  <2>6. Followed'
    BY <1>8 DEF FreeOld, KeyTypeOK, Followed, Tombstone, hotVars, flushVars, readerVars,
       envVars
  <2> QED
    BY <1>0, <2>1, <2>2, <2>3, <2>4, <2>5, <2>6 DEF KeyTypeOK, StoreTypes, LaneTypes,
       WriterTypes, CountTypes, ReaderTypes, Followed
<1>9. CASE Unlock
  BY SMTT(30), <1>0, <1>9 DEF Unlock, KeyTypeOK, Tombstone, pmVars, hotVars, flushVars, readerVars,
     envVars
<1>10. CASE UpdateHotOnly
  <2>1. StoreTypes'
    BY <1>10 DEF UpdateHotOnly, WriterGoto, ResolverUnchanged, KeyTypeOK, StoreTypes,
       Tombstone, pmVars, hotVars, flushVars, readerVars, envVars
  <2>2. LaneTypes'
    BY <1>10 DEF UpdateHotOnly, WriterGoto, ResolverUnchanged, KeyTypeOK, LaneTypes,
       Tombstone, pmVars, hotVars, flushVars, readerVars, envVars
  <2>3. WriterTypes'
    BY HotOffsetPlaced, <1>10 DEF UpdateHotOnly, WriterGoto, ResolverUnchanged, KeyTypeOK,
       WriterTypes, Tombstone, pmVars, hotVars, flushVars, readerVars, envVars
  <2>4. CountTypes'
    BY <1>10 DEF UpdateHotOnly, WriterGoto, ResolverUnchanged, KeyTypeOK, CountTypes,
       Tombstone, pmVars, hotVars, flushVars, readerVars, envVars
  <2>5. ReaderTypes'
    BY <1>10 DEF UpdateHotOnly, WriterGoto, ResolverUnchanged, KeyTypeOK, ReaderTypes,
       Tombstone, pmVars, hotVars, flushVars, readerVars, envVars
  <2>6. Followed'
    BY HotOffsetPlaced, <1>10 DEF UpdateHotOnly, WriterGoto, ResolverUnchanged, KeyTypeOK,
       Followed, Tombstone, pmVars, hotVars, flushVars, readerVars, envVars
  <2> QED
    BY <1>0, <2>1, <2>2, <2>3, <2>4, <2>5, <2>6 DEF KeyTypeOK, StoreTypes, LaneTypes,
       WriterTypes, CountTypes, ReaderTypes, Followed
<1>11. CASE UpdateTryHot
  <2>1. StoreTypes'
    <3>1. CASE vslot' = [vslot EXCEPT ![off] = num]
      <4>1. num \in Other .. MaxOps + 1
        BY KeyBounds DEF KeyTypeOK, Other
      <4>2. vslot' \in [Offsets -> Other .. MaxOps + 1]
        BY <3>1, <4>1 DEF KeyTypeOK
      <4> QED
        BY <4>2, <1>11 DEF StoreTypes, UpdateTryHot, WriterGoto, ResolverUnchanged,
           UpdateApply, KeyTypeOK, Tombstone, pmVars, hotVars, flushVars, readerVars,
           envVars
    <3>2. CASE UNCHANGED vslot
      BY <3>2, <1>11 DEF StoreTypes, UpdateTryHot, WriterGoto, ResolverUnchanged,
         UpdateApply, KeyTypeOK, Tombstone, pmVars, hotVars, flushVars, readerVars, envVars
    <3> QED
      BY <3>1, <3>2, <1>11 DEF UpdateTryHot, WriterGoto, ResolverUnchanged, UpdateApply,
         pmVars
  <2>2. LaneTypes'
    BY <1>11 DEF UpdateTryHot, WriterGoto, ResolverUnchanged, UpdateApply, KeyTypeOK,
       LaneTypes, Tombstone, pmVars, hotVars, flushVars, readerVars, envVars
  <2>3. WriterTypes'
    BY <1>11 DEF UpdateTryHot, WriterGoto, ResolverUnchanged, UpdateApply, KeyTypeOK,
       WriterTypes, Tombstone, pmVars, hotVars, flushVars, readerVars, envVars
  <2>4. CountTypes'
    BY <1>11 DEF UpdateTryHot, WriterGoto, ResolverUnchanged, UpdateApply, KeyTypeOK,
       CountTypes, Tombstone, pmVars, hotVars, flushVars, readerVars, envVars
  <2>5. ReaderTypes'
    BY <1>11 DEF UpdateTryHot, WriterGoto, ResolverUnchanged, UpdateApply, KeyTypeOK,
       ReaderTypes, Tombstone, pmVars, hotVars, flushVars, readerVars, envVars
  <2>6. Followed'
    BY <1>11 DEF UpdateTryHot, WriterGoto, ResolverUnchanged, UpdateApply, KeyTypeOK,
       Followed, Tombstone, pmVars, hotVars, flushVars, readerVars, envVars
  <2> QED
    BY <1>0, <2>1, <2>2, <2>3, <2>4, <2>5, <2>6 DEF KeyTypeOK, StoreTypes, LaneTypes,
       WriterTypes, CountTypes, ReaderTypes, Followed
<1>12. CASE UpdateTryCold
  <2>1. StoreTypes'
    <3>1. CASE vslot' = [vslot EXCEPT ![off] = num]
      <4>1. num \in Other .. MaxOps + 1
        BY KeyBounds DEF KeyTypeOK, Other
      <4>2. vslot' \in [Offsets -> Other .. MaxOps + 1]
        BY <3>1, <4>1 DEF KeyTypeOK
      <4> QED
        BY <4>2, <1>12 DEF StoreTypes, UpdateTryCold, WriterGoto, ResolverUnchanged,
           UpdateApply, KeyTypeOK, Tombstone, pmVars, hotVars, flushVars, readerVars,
           envVars
    <3>2. CASE UNCHANGED vslot
      BY <3>2, <1>12 DEF StoreTypes, UpdateTryCold, WriterGoto, ResolverUnchanged,
         UpdateApply, KeyTypeOK, Tombstone, pmVars, hotVars, flushVars, readerVars, envVars
    <3> QED
      BY <3>1, <3>2, <1>12 DEF UpdateTryCold, WriterGoto, ResolverUnchanged, UpdateApply,
         pmVars
  <2>2. LaneTypes'
    BY <1>12 DEF UpdateTryCold, WriterGoto, ResolverUnchanged, UpdateApply, KeyTypeOK,
       LaneTypes, Tombstone, pmVars, hotVars, flushVars, readerVars, envVars
  <2>3. WriterTypes'
    BY <1>12 DEF UpdateTryCold, WriterGoto, ResolverUnchanged, UpdateApply, KeyTypeOK,
       WriterTypes, Tombstone, pmVars, hotVars, flushVars, readerVars, envVars
  <2>4. CountTypes'
    BY <1>12 DEF UpdateTryCold, WriterGoto, ResolverUnchanged, UpdateApply, KeyTypeOK,
       CountTypes, Tombstone, pmVars, hotVars, flushVars, readerVars, envVars
  <2>5. ReaderTypes'
    BY <1>12 DEF UpdateTryCold, WriterGoto, ResolverUnchanged, UpdateApply, KeyTypeOK,
       ReaderTypes, Tombstone, pmVars, hotVars, flushVars, readerVars, envVars
  <2>6. Followed'
    BY <1>12 DEF UpdateTryCold, WriterGoto, ResolverUnchanged, UpdateApply, KeyTypeOK,
       Followed, Tombstone, pmVars, hotVars, flushVars, readerVars, envVars
  <2> QED
    BY <1>0, <2>1, <2>2, <2>3, <2>4, <2>5, <2>6 DEF KeyTypeOK, StoreTypes, LaneTypes,
       WriterTypes, CountTypes, ReaderTypes, Followed
<1>13. CASE EncodeFails
  BY SMTT(30), <1>0, <1>13 DEF EncodeFails, MirrorUnchanged, KeyTypeOK, Tombstone, pmVars, hotVars,
     flushVars, readerVars, envVars
<1>14. CASE HotStore
  <2>1. StoreTypes'
    BY <1>14 DEF HotStore, MirrorUnchanged, KeyTypeOK, StoreTypes, Tombstone, Phases,
       pmVars, flushVars, readerVars, envVars
  <2>2. LaneTypes'
    BY <1>14 DEF HotStore, MirrorUnchanged, KeyTypeOK, LaneTypes, Tombstone, pmVars,
       flushVars, readerVars, envVars
  <2>3. WriterTypes'
    BY <1>14 DEF HotStore, MirrorUnchanged, KeyTypeOK, WriterTypes, Tombstone, pmVars,
       flushVars, readerVars, envVars
  <2>4. CountTypes'
    BY <1>14 DEF HotStore, MirrorUnchanged, KeyTypeOK, CountTypes, Tombstone, pmVars,
       flushVars, readerVars, envVars
  <2>5. ReaderTypes'
    BY <1>14 DEF HotStore, MirrorUnchanged, KeyTypeOK, ReaderTypes, Tombstone, pmVars,
       flushVars, readerVars, envVars
  <2>6. Followed'
    BY <1>14 DEF HotStore, MirrorUnchanged, KeyTypeOK, Followed, Tombstone, pmVars,
       flushVars, readerVars, envVars
  <2> QED
    BY <1>0, <2>1, <2>2, <2>3, <2>4, <2>5, <2>6 DEF KeyTypeOK, StoreTypes, LaneTypes,
       WriterTypes, CountTypes, ReaderTypes, Followed
<1>15. CASE PinOr
  BY SMTT(30), <1>0, <1>15 DEF PinOr, MirrorUnchanged, KeyTypeOK, Tombstone, pmVars, flushVars,
     readerVars, envVars
<1>16. CASE PinAnd
  BY SMTT(30), <1>0, <1>16 DEF PinAnd, MirrorUnchanged, KeyTypeOK, Tombstone, pmVars, flushVars,
     readerVars, envVars
<1>17. CASE PinFails
  BY SMTT(30), <1>0, <1>17 DEF PinFails, MirrorUnchanged, KeyTypeOK, Tombstone, pmVars, hotVars,
     flushVars, readerVars, envVars
<1>18. CASE HotRemove
  BY SMTT(30), <1>0, <1>18 DEF HotRemove, MirrorUnchanged, KeyTypeOK, Tombstone, pmVars, flushVars,
     readerVars, envVars
<1>19. CASE Push
  <2>1. StoreTypes'
    BY <1>19 DEF Push, Return, KeyTypeOK, StoreTypes, Tombstone, pmVars, hotVars, flushVars,
       readerVars, envVars
  <2>2. LaneTypes'
    BY <1>19 DEF Push, Return, KeyTypeOK, LaneTypes, Tombstone, Phases, Entry, pmVars,
       hotVars, flushVars, readerVars, envVars
  <2>3. WriterTypes'
    BY <1>19 DEF Push, Return, KeyTypeOK, WriterTypes, Tombstone, pmVars, hotVars,
       flushVars, readerVars, envVars
  <2>4. CountTypes'
    BY <1>19 DEF Push, Return, KeyTypeOK, CountTypes, Tombstone, Phases, pmVars, hotVars,
       flushVars, readerVars, envVars
  <2>5. ReaderTypes'
    BY <1>19 DEF Push, Return, KeyTypeOK, ReaderTypes, Tombstone, pmVars, hotVars,
       flushVars, readerVars, envVars
  <2>6. Followed'
    BY <1>19 DEF Push, Return, KeyTypeOK, Followed, Tombstone, pmVars, hotVars, flushVars,
       readerVars, envVars
  <2> QED
    BY <1>0, <2>1, <2>2, <2>3, <2>4, <2>5, <2>6 DEF KeyTypeOK, StoreTypes, LaneTypes,
       WriterTypes, CountTypes, ReaderTypes, Followed
<1>20. CASE DrainWait
  <2>1. StoreTypes'
    BY <1>20 DEF DrainWait, Return, KeyTypeOK, StoreTypes, Tombstone, pmVars, hotVars,
       flushVars, readerVars, envVars
  <2>2. LaneTypes'
    BY <1>20 DEF DrainWait, Return, KeyTypeOK, LaneTypes, Tombstone, pmVars, hotVars,
       flushVars, readerVars, envVars
  <2>3. WriterTypes'
    BY <1>20 DEF DrainWait, Return, KeyTypeOK, WriterTypes, Tombstone, pmVars, hotVars,
       flushVars, readerVars, envVars
  <2>4. CountTypes'
    BY <1>20 DEF DrainWait, Return, KeyTypeOK, CountTypes, Tombstone, Phases, pmVars,
       hotVars, flushVars, readerVars, envVars
  <2>5. ReaderTypes'
    BY <1>20 DEF DrainWait, Return, KeyTypeOK, ReaderTypes, Tombstone, pmVars, hotVars,
       flushVars, readerVars, envVars
  <2>6. Followed'
    BY <1>20 DEF DrainWait, Return, KeyTypeOK, Followed, Tombstone, pmVars, hotVars,
       flushVars, readerVars, envVars
  <2> QED
    BY <1>0, <2>1, <2>2, <2>3, <2>4, <2>5, <2>6 DEF KeyTypeOK, StoreTypes, LaneTypes,
       WriterTypes, CountTypes, ReaderTypes, Followed
<1> QED
  BY <1>1, <1>2, <1>3, <1>4, <1>5, <1>6, <1>7, <1>8, <1>9, <1>10, <1>11, <1>12, <1>13,
     <1>14, <1>15, <1>16, <1>17, <1>18, <1>19, <1>20 DEF Write

LEMMA FlushTypes ==
    ASSUME KeyTypeOK, Phases, Batched, Placed, Flush, History
    PROVE  KeyTypeOK'
<1>0. leaked' \in BOOLEAN /\ places' \subseteq Offsets
  BY DEF KeyTypeOK, History, KeyRecords
<1>1. CASE DrainLane
  <2>1. StoreTypes'
    BY <1>1 DEF DrainLane, KeyTypeOK, StoreTypes, Tombstone, pmVars, hotVars, writerVars,
       readerVars, envVars
  <2>2. LaneTypes'
    BY <1>1 DEF DrainLane, KeyTypeOK, LaneTypes, Tombstone, Batched, pmVars, hotVars,
       writerVars, readerVars, envVars
  <2>3. WriterTypes'
    BY <1>1 DEF DrainLane, KeyTypeOK, WriterTypes, Tombstone, pmVars, hotVars, writerVars,
       readerVars, envVars
  <2>4. CountTypes'
    BY <1>1 DEF DrainLane, KeyTypeOK, CountTypes, Tombstone, pmVars, hotVars, writerVars,
       readerVars, envVars
  <2>5. ReaderTypes'
    BY <1>1 DEF DrainLane, KeyTypeOK, ReaderTypes, Tombstone, pmVars, hotVars, writerVars,
       readerVars, envVars
  <2>6. Followed'
    BY <1>1 DEF DrainLane, KeyTypeOK, Followed, Tombstone, pmVars, hotVars, writerVars,
       readerVars, envVars
  <2> QED
    BY <1>0, <2>1, <2>2, <2>3, <2>4, <2>5, <2>6 DEF KeyTypeOK, StoreTypes, LaneTypes,
       WriterTypes, CountTypes, ReaderTypes, Followed
<1>2. CASE ReadSlot
  <2>1. StoreTypes'
    BY <1>2 DEF ReadSlot, KeyTypeOK, StoreTypes, Tombstone, pmVars, hotVars, writerVars,
       readerVars, envVars
  <2>2. LaneTypes'
    BY HotOffsetPlaced, <1>2 DEF ReadSlot, KeyTypeOK, LaneTypes, Tombstone, HotOffset,
       pmVars, hotVars, writerVars, readerVars, envVars
  <2>3. WriterTypes'
    BY <1>2 DEF ReadSlot, KeyTypeOK, WriterTypes, Tombstone, pmVars, hotVars, writerVars,
       readerVars, envVars
  <2>4. CountTypes'
    BY <1>2 DEF ReadSlot, KeyTypeOK, CountTypes, Tombstone, pmVars, hotVars, writerVars,
       readerVars, envVars
  <2>5. ReaderTypes'
    BY <1>2 DEF ReadSlot, KeyTypeOK, ReaderTypes, Tombstone, pmVars, hotVars, writerVars,
       readerVars, envVars
  <2>6. Followed'
    BY <1>2 DEF ReadSlot, KeyTypeOK, Followed, Tombstone, pmVars, hotVars, writerVars,
       readerVars, envVars
  <2> QED
    BY <1>0, <2>1, <2>2, <2>3, <2>4, <2>5, <2>6 DEF KeyTypeOK, StoreTypes, LaneTypes,
       WriterTypes, CountTypes, ReaderTypes, Followed
<1>3. CASE PickWinner
  <2>1. StoreTypes'
    BY <1>3 DEF PickWinner, KeyTypeOK, StoreTypes, Tombstone, hotVars, writerVars,
       readerVars, envVars
  <2>2. LaneTypes'
    BY WinnerCases, <1>3 DEF PickWinner, KeyTypeOK, LaneTypes, Tombstone, hotVars,
       writerVars, readerVars, envVars
  <2>3. WriterTypes'
    BY <1>3 DEF PickWinner, KeyTypeOK, WriterTypes, Tombstone, hotVars, writerVars,
       readerVars, envVars
  <2>4. CountTypes'
    BY <1>3 DEF PickWinner, KeyTypeOK, CountTypes, Tombstone, hotVars, writerVars,
       readerVars, envVars
  <2>5. ReaderTypes'
    BY <1>3 DEF PickWinner, KeyTypeOK, ReaderTypes, Tombstone, hotVars, writerVars,
       readerVars, envVars
  <2>6. Followed'
    BY <1>3 DEF PickWinner, KeyTypeOK, Followed, Tombstone, hotVars, writerVars, readerVars,
       envVars
  <2> QED
    BY <1>0, <2>1, <2>2, <2>3, <2>4, <2>5, <2>6 DEF KeyTypeOK, StoreTypes, LaneTypes,
       WriterTypes, CountTypes, ReaderTypes, Followed
<1>4. CASE BulkUpsert
  <2>1. StoreTypes'
    BY SMTT(30), <1>4 DEF BulkUpsert, KeyTypeOK, StoreTypes, Tombstone, Entry, NoEntry, hotVars,
       writerVars, readerVars, envVars
  <2>2. LaneTypes'
    BY <1>4 DEF BulkUpsert, KeyTypeOK, LaneTypes, Tombstone, hotVars, writerVars,
       readerVars, envVars
  <2>3. WriterTypes'
    BY <1>4 DEF BulkUpsert, KeyTypeOK, WriterTypes, Tombstone, hotVars, writerVars,
       readerVars, envVars
  <2>4. CountTypes'
    BY <1>4 DEF BulkUpsert, KeyTypeOK, CountTypes, Tombstone, hotVars, writerVars,
       readerVars, envVars
  <2>5. ReaderTypes'
    BY <1>4 DEF BulkUpsert, KeyTypeOK, ReaderTypes, Tombstone, hotVars, writerVars,
       readerVars, envVars
  <2>6. Followed'
    BY <1>4 DEF BulkUpsert, KeyTypeOK, Followed, Tombstone, hotVars, writerVars, readerVars,
       envVars
  <2> QED
    BY <1>0, <2>1, <2>2, <2>3, <2>4, <2>5, <2>6 DEF KeyTypeOK, StoreTypes, LaneTypes,
       WriterTypes, CountTypes, ReaderTypes, Followed
<1>5. CASE TakeSlot
  <2>1. StoreTypes'
    BY <1>5 DEF TakeSlot, NextEntry, KeyTypeOK, StoreTypes, Tombstone, pmVars, writerVars,
       readerVars, envVars
  <2>2. LaneTypes'
    <3>1. k \in 1 .. Len(batch) /\ Len(batch) \in Nat
      BY <1>5 DEF TakeSlot, KeyTypeOK, Batched
    <3>2. CASE UNCHANGED <<batch, k, canonical, winner>>
      BY <3>2, <1>5 DEF LaneTypes, TakeSlot, NextEntry, KeyTypeOK, Tombstone, pmVars,
         writerVars, readerVars, envVars
    <3>3. CASE NextEntry /\ k = Len(batch)
      <4>1. batch' = <<>> /\ k' = 1 /\ canonical' = Tombstone /\ winner' = NoEntry /\ fpc' = "idle"
        BY <3>3 DEF NextEntry
      <4>2. UNCHANGED queue
        BY <1>5 DEF TakeSlot
      <4> QED
        BY <4>1, <4>2 DEF LaneTypes, KeyTypeOK
    <3>4. CASE NextEntry /\ k # Len(batch)
      <4>1. k' = k + 1 /\ UNCHANGED <<queue, batch, canonical, winner>> /\ fpc' = "take"
        BY <3>4, <1>5 DEF TakeSlot, NextEntry
      <4>2. k' \in 1 .. Len(batch') + 1
        BY <3>1, <4>1
      <4> QED
        BY <4>1, <4>2 DEF LaneTypes, KeyTypeOK
    <3> QED
      BY <3>2, <3>3, <3>4, <1>5 DEF TakeSlot
  <2>3. WriterTypes'
    BY <1>5 DEF TakeSlot, NextEntry, KeyTypeOK, WriterTypes, Tombstone, pmVars, writerVars,
       readerVars, envVars
  <2>4. CountTypes'
    BY <1>5 DEF TakeSlot, NextEntry, KeyTypeOK, CountTypes, Tombstone, pmVars, writerVars,
       readerVars, envVars
  <2>5. ReaderTypes'
    BY <1>5 DEF TakeSlot, NextEntry, KeyTypeOK, ReaderTypes, Tombstone, pmVars, writerVars,
       readerVars, envVars
  <2>6. Followed'
    BY <1>5 DEF TakeSlot, NextEntry, KeyTypeOK, Followed, Tombstone, pmVars, writerVars,
       readerVars, envVars
  <2> QED
    BY <1>0, <2>1, <2>2, <2>3, <2>4, <2>5, <2>6 DEF KeyTypeOK, StoreTypes, LaneTypes,
       WriterTypes, CountTypes, ReaderTypes, Followed
<1>6. CASE ReleaseSlot
  <2>1. StoreTypes'
    BY <1>6 DEF ReleaseSlot, NextEntry, KeyTypeOK, StoreTypes, Tombstone, pmVars,
       writerVars, readerVars, envVars
  <2>2. LaneTypes'
    <3>1. k \in 1 .. Len(batch) /\ Len(batch) \in Nat
      BY <1>6 DEF ReleaseSlot, KeyTypeOK, Batched
    <3>2. CASE UNCHANGED <<batch, k, canonical, winner>>
      BY <3>2, <1>6 DEF LaneTypes, ReleaseSlot, NextEntry, KeyTypeOK, Tombstone, pmVars,
         writerVars, readerVars, envVars
    <3>3. CASE NextEntry /\ k = Len(batch)
      <4>1. batch' = <<>> /\ k' = 1 /\ canonical' = Tombstone /\ winner' = NoEntry /\ fpc' = "idle"
        BY <3>3 DEF NextEntry
      <4>2. UNCHANGED queue
        BY <1>6 DEF ReleaseSlot
      <4> QED
        BY <4>1, <4>2 DEF LaneTypes, KeyTypeOK
    <3>4. CASE NextEntry /\ k # Len(batch)
      <4>1. k' = k + 1 /\ UNCHANGED <<queue, batch, canonical, winner>> /\ fpc' = "take"
        BY <3>4, <1>6 DEF ReleaseSlot, NextEntry
      <4>2. k' \in 1 .. Len(batch') + 1
        BY <3>1, <4>1
      <4> QED
        BY <4>1, <4>2 DEF LaneTypes, KeyTypeOK
    <3> QED
      BY <3>2, <3>3, <3>4, <1>6 DEF ReleaseSlot
  <2>3. WriterTypes'
    BY <1>6 DEF ReleaseSlot, NextEntry, KeyTypeOK, WriterTypes, Tombstone, pmVars,
       writerVars, readerVars, envVars
  <2>4. CountTypes'
    BY <1>6 DEF ReleaseSlot, NextEntry, KeyTypeOK, CountTypes, Tombstone, pmVars,
       writerVars, readerVars, envVars
  <2>5. ReaderTypes'
    BY <1>6 DEF ReleaseSlot, NextEntry, KeyTypeOK, ReaderTypes, Tombstone, pmVars,
       writerVars, readerVars, envVars
  <2>6. Followed'
    BY <1>6 DEF ReleaseSlot, NextEntry, KeyTypeOK, Followed, Tombstone, pmVars, writerVars,
       readerVars, envVars
  <2> QED
    BY <1>0, <2>1, <2>2, <2>3, <2>4, <2>5, <2>6 DEF KeyTypeOK, StoreTypes, LaneTypes,
       WriterTypes, CountTypes, ReaderTypes, Followed
<1> QED
  BY <1>1, <1>2, <1>3, <1>4, <1>5, <1>6 DEF Flush

LEMMA GetTypes ==
    ASSUME KeyTypeOK, Phases, Batched, Placed, Get, History
    PROVE  KeyTypeOK'
<1>0. leaked' \in BOOLEAN /\ places' \subseteq Offsets
  BY DEF KeyTypeOK, History, KeyRecords
<1>1. CASE GetBegin
  BY KeyBounds, <1>0, <1>1 DEF GetBegin, KeyTypeOK, Tombstone, pmVars, hotVars, flushVars,
     writerVars, envVars
<1>2. CASE GetHot
  <2>1. StoreTypes'
    BY <1>2 DEF GetHot, ReaderUnchanged, KeyTypeOK, StoreTypes, Tombstone, pmVars,
       flushVars, writerVars, envVars
  <2>2. LaneTypes'
    BY <1>2 DEF GetHot, ReaderUnchanged, KeyTypeOK, LaneTypes, Tombstone, pmVars, flushVars,
       writerVars, envVars
  <2>3. WriterTypes'
    BY <1>2 DEF GetHot, ReaderUnchanged, KeyTypeOK, WriterTypes, Tombstone, pmVars,
       flushVars, writerVars, envVars
  <2>4. CountTypes'
    BY <1>2 DEF GetHot, ReaderUnchanged, KeyTypeOK, CountTypes, Tombstone, pmVars,
       flushVars, writerVars, envVars
  <2>5. ReaderTypes'
    BY HotOffsetPlaced, <1>2 DEF GetHot, ReaderUnchanged, KeyTypeOK, ReaderTypes, Tombstone,
       pmVars, flushVars, writerVars, envVars
  <2>6. Followed'
    BY HotOffsetPlaced, <1>2 DEF GetHot, ReaderUnchanged, KeyTypeOK, Followed, Tombstone,
       pmVars, flushVars, writerVars, envVars
  <2> QED
    BY <1>0, <2>1, <2>2, <2>3, <2>4, <2>5, <2>6 DEF KeyTypeOK, StoreTypes, LaneTypes,
       WriterTypes, CountTypes, ReaderTypes, Followed
<1>3. CASE GetVerifyHot
  <2>1. StoreTypes'
    BY <1>3 DEF GetVerifyHot, ReaderUnchanged, KeyTypeOK, StoreTypes, Tombstone, pmVars,
       flushVars, writerVars, envVars
  <2>2. LaneTypes'
    BY <1>3 DEF GetVerifyHot, ReaderUnchanged, KeyTypeOK, LaneTypes, Tombstone, pmVars,
       flushVars, writerVars, envVars
  <2>3. WriterTypes'
    BY <1>3 DEF GetVerifyHot, ReaderUnchanged, KeyTypeOK, WriterTypes, Tombstone, pmVars,
       flushVars, writerVars, envVars
  <2>4. CountTypes'
    BY <1>3 DEF GetVerifyHot, ReaderUnchanged, KeyTypeOK, CountTypes, Tombstone, Placed,
       Readable, HoldsKey, pmVars, flushVars, writerVars, envVars
  <2>5. ReaderTypes'
    BY <1>3 DEF GetVerifyHot, ReaderUnchanged, KeyTypeOK, ReaderTypes, Tombstone, pmVars,
       flushVars, writerVars, envVars
  <2>6. Followed'
    BY <1>3 DEF GetVerifyHot, ReaderUnchanged, KeyTypeOK, Followed, Tombstone, pmVars,
       flushVars, writerVars, envVars
  <2> QED
    BY <1>0, <2>1, <2>2, <2>3, <2>4, <2>5, <2>6 DEF KeyTypeOK, StoreTypes, LaneTypes,
       WriterTypes, CountTypes, ReaderTypes, Followed
<1>4. CASE GetCold
  <2>1. StoreTypes'
    BY <1>4 DEF GetCold, ReaderUnchanged, KeyTypeOK, StoreTypes, Tombstone, pmVars,
       flushVars, writerVars, envVars
  <2>2. LaneTypes'
    BY <1>4 DEF GetCold, ReaderUnchanged, KeyTypeOK, LaneTypes, Tombstone, pmVars,
       flushVars, writerVars, envVars
  <2>3. WriterTypes'
    BY <1>4 DEF GetCold, ReaderUnchanged, KeyTypeOK, WriterTypes, Tombstone, pmVars,
       flushVars, writerVars, envVars
  <2>4. CountTypes'
    BY <1>4 DEF GetCold, ReaderUnchanged, KeyTypeOK, CountTypes, Tombstone, pmVars,
       flushVars, writerVars, envVars
  <2>5. ReaderTypes'
    BY <1>4 DEF GetCold, ReaderUnchanged, KeyTypeOK, ReaderTypes, Tombstone, pmVars,
       flushVars, writerVars, envVars
  <2>6. Followed'
    BY <1>4 DEF GetCold, ReaderUnchanged, KeyTypeOK, Followed, Tombstone, pmVars, flushVars,
       writerVars, envVars
  <2> QED
    BY <1>0, <2>1, <2>2, <2>3, <2>4, <2>5, <2>6 DEF KeyTypeOK, StoreTypes, LaneTypes,
       WriterTypes, CountTypes, ReaderTypes, Followed
<1>5. CASE GetVerifyCold
  <2>1. StoreTypes'
    BY <1>5 DEF GetVerifyCold, ReaderUnchanged, KeyTypeOK, StoreTypes, Tombstone, pmVars,
       flushVars, writerVars, envVars
  <2>2. LaneTypes'
    BY <1>5 DEF GetVerifyCold, ReaderUnchanged, KeyTypeOK, LaneTypes, Tombstone, pmVars,
       flushVars, writerVars, envVars
  <2>3. WriterTypes'
    BY <1>5 DEF GetVerifyCold, ReaderUnchanged, KeyTypeOK, WriterTypes, Tombstone, pmVars,
       flushVars, writerVars, envVars
  <2>4. CountTypes'
    BY <1>5 DEF GetVerifyCold, ReaderUnchanged, KeyTypeOK, CountTypes, Tombstone, Placed,
       Readable, HoldsKey, pmVars, flushVars, writerVars, envVars
  <2>5. ReaderTypes'
    BY <1>5 DEF GetVerifyCold, ReaderUnchanged, KeyTypeOK, ReaderTypes, Tombstone, pmVars,
       flushVars, writerVars, envVars
  <2>6. Followed'
    BY <1>5 DEF GetVerifyCold, ReaderUnchanged, KeyTypeOK, Followed, Tombstone, pmVars,
       flushVars, writerVars, envVars
  <2> QED
    BY <1>0, <2>1, <2>2, <2>3, <2>4, <2>5, <2>6 DEF KeyTypeOK, StoreTypes, LaneTypes,
       WriterTypes, CountTypes, ReaderTypes, Followed
<1>6. CASE Warm
  <2>1. StoreTypes'
    BY <1>6 DEF Warm, ReaderUnchanged, KeyTypeOK, StoreTypes, Tombstone, pmVars, flushVars,
       writerVars, envVars
  <2>2. LaneTypes'
    BY <1>6 DEF Warm, ReaderUnchanged, KeyTypeOK, LaneTypes, Tombstone, pmVars, flushVars,
       writerVars, envVars
  <2>3. WriterTypes'
    BY <1>6 DEF Warm, ReaderUnchanged, KeyTypeOK, WriterTypes, Tombstone, pmVars, flushVars,
       writerVars, envVars
  <2>4. CountTypes'
    BY <1>6 DEF Warm, ReaderUnchanged, KeyTypeOK, CountTypes, Tombstone, pmVars, flushVars,
       writerVars, envVars
  <2>5. ReaderTypes'
    BY <1>6 DEF Warm, ReaderUnchanged, KeyTypeOK, ReaderTypes, Tombstone, pmVars, flushVars,
       writerVars, envVars
  <2>6. Followed'
    BY <1>6 DEF Warm, ReaderUnchanged, KeyTypeOK, Followed, Tombstone, pmVars, flushVars,
       writerVars, envVars
  <2> QED
    BY <1>0, <2>1, <2>2, <2>3, <2>4, <2>5, <2>6 DEF KeyTypeOK, StoreTypes, LaneTypes,
       WriterTypes, CountTypes, ReaderTypes, Followed
<1> QED
  BY <1>1, <1>2, <1>3, <1>4, <1>5, <1>6 DEF Get

LEMMA RivalTypes ==
    ASSUME KeyTypeOK, Phases, Batched, Placed, Rival, History
    PROVE  KeyTypeOK'
<1>0. leaked' \in BOOLEAN /\ places' \subseteq Offsets
  BY DEF KeyTypeOK, History, KeyRecords
<1>1. CASE RivalProbe
  BY KeyBounds, <1>0, <1>1 DEF RivalProbe, RivalUnchanged, KeyTypeOK, Tombstone, pmVars,
     hotVars, flushVars, writerVars, readerVars
<1>2. CASE RivalEvict
  BY SMTT(30), <1>0, <1>2 DEF RivalEvict, RivalUnchanged, KeyTypeOK, Tombstone, pmVars, flushVars,
     writerVars, readerVars
<1>3. CASE RivalInsert
  BY SMTT(30), <1>0, <1>3 DEF RivalInsert, RivalUnchanged, KeyTypeOK, Tombstone, pmVars, flushVars,
     writerVars, readerVars
<1>4. CASE RivalPin
  BY SMTT(30), <1>0, <1>4 DEF RivalPin, RivalUnchanged, KeyTypeOK, Tombstone, pmVars, flushVars,
     writerVars, readerVars
<1>5. CASE RivalUnpin
  BY SMTT(30), <1>0, <1>5 DEF RivalUnpin, RivalUnchanged, KeyTypeOK, Tombstone, pmVars, flushVars,
     writerVars, readerVars
<1> QED
  BY <1>1, <1>2, <1>3, <1>4, <1>5 DEF Rival

LEMMA OthersTypes ==
    ASSUME KeyTypeOK, Phases, Batched, Placed, Others, History
    PROVE  KeyTypeOK'
<1>0. leaked' \in BOOLEAN /\ places' \subseteq Offsets
  BY DEF KeyTypeOK, History, KeyRecords
<1>1. ASSUME NEW o \in Offsets, OtherPut(o)
      PROVE  KeyTypeOK'
  BY KeyBounds, <1>0, <1>1 DEF OtherPut, OtherUnchanged, KeyTypeOK, Tombstone, Other, Free,
     hotVars, flushVars, writerVars, readerVars
<1>2. ASSUME NEW o \in Offsets, OtherFree(o)
      PROVE  KeyTypeOK'
  BY KeyBounds, <1>0, <1>2 DEF OtherFree, OtherUnchanged, KeyTypeOK, Tombstone, Other, Free,
     hotVars, flushVars, writerVars, readerVars
<1>3. ASSUME NEW p \in Pages, OtherLock(p)
      PROVE  KeyTypeOK'
  BY KeyBounds, <1>0, <1>3 DEF OtherLock, OtherUnchanged, KeyTypeOK, Tombstone, hotVars,
     flushVars, writerVars, readerVars
<1>4. ASSUME NEW p \in Pages, OtherUnlock(p)
      PROVE  KeyTypeOK'
  BY <1>0, <1>4 DEF OtherUnlock, OtherUnchanged, KeyTypeOK, Tombstone, hotVars, flushVars,
     writerVars, readerVars
<1> QED
  BY <1>1, <1>2, <1>3, <1>4 DEF Others


(***************************************************************************)
(* What each actor leaves alone.                                           *)
(***************************************************************************)
LEMMA WriteFrame ==
    ASSUME Write
    PROVE  UNCHANGED <<held, cold, flushVars, readerVars, envVars>>
<1>1. ASSUME NEW o \in Offsets, PutWrite(o)
      PROVE  UNCHANGED <<held, cold, flushVars, readerVars, envVars>>
  BY <1>1 DEF PutWrite, Begin, hotVars, flushVars, readerVars, envVars
<1>2. CASE RemoveBegin
  BY <1>2 DEF RemoveBegin, Begin, pmVars, hotVars, flushVars, readerVars, envVars
<1>3. CASE UpdateBegin
  BY <1>3 DEF UpdateBegin, Begin, pmVars, hotVars, flushVars, readerVars, envVars
<1>4. CASE ResolveHot
  BY <1>4 DEF ResolveHot, WriterGoto, ResolverUnchanged, pmVars, hotVars, flushVars,
     readerVars, envVars
<1>5. CASE VerifyHot
  BY <1>5 DEF VerifyHot, WriterGoto, ResolverUnchanged, pmVars, hotVars, flushVars,
     readerVars, envVars
<1>6. CASE ResolveCold
  BY <1>6 DEF ResolveCold, WriterGoto, ResolverUnchanged, pmVars, hotVars, flushVars,
     readerVars, envVars
<1>7. CASE VerifyCold
  BY <1>7 DEF VerifyCold, WriterGoto, ResolverUnchanged, pmVars, hotVars, flushVars,
     readerVars, envVars
<1>8. CASE FreeOld
  BY <1>8 DEF FreeOld, hotVars, flushVars, readerVars, envVars
<1>9. CASE Unlock
  BY <1>9 DEF Unlock, pmVars, hotVars, flushVars, readerVars, envVars
<1>10. CASE UpdateHotOnly
  BY <1>10 DEF UpdateHotOnly, WriterGoto, ResolverUnchanged, pmVars, hotVars, flushVars,
     readerVars, envVars
<1>11. CASE UpdateTryHot
  BY <1>11 DEF UpdateTryHot, WriterGoto, ResolverUnchanged, UpdateApply, pmVars, hotVars,
     flushVars, readerVars, envVars
<1>12. CASE UpdateTryCold
  BY <1>12 DEF UpdateTryCold, WriterGoto, ResolverUnchanged, UpdateApply, pmVars, hotVars,
     flushVars, readerVars, envVars
<1>13. CASE EncodeFails
  BY <1>13 DEF EncodeFails, MirrorUnchanged, pmVars, hotVars, flushVars, readerVars, envVars
<1>14. CASE HotStore
  BY <1>14 DEF HotStore, MirrorUnchanged, pmVars, flushVars, readerVars, envVars
<1>15. CASE PinOr
  BY <1>15 DEF PinOr, MirrorUnchanged, pmVars, flushVars, readerVars, envVars
<1>16. CASE PinAnd
  BY <1>16 DEF PinAnd, MirrorUnchanged, pmVars, flushVars, readerVars, envVars
<1>17. CASE PinFails
  BY <1>17 DEF PinFails, MirrorUnchanged, pmVars, hotVars, flushVars, readerVars, envVars
<1>18. CASE HotRemove
  BY <1>18 DEF HotRemove, MirrorUnchanged, pmVars, flushVars, readerVars, envVars
<1>19. CASE Push
  BY <1>19 DEF Push, Return, pmVars, hotVars, flushVars, readerVars, envVars
<1>20. CASE DrainWait
  BY <1>20 DEF DrainWait, Return, pmVars, hotVars, flushVars, readerVars, envVars
<1> QED
  BY <1>1, <1>2, <1>3, <1>4, <1>5, <1>6, <1>7, <1>8, <1>9, <1>10, <1>11, <1>12, <1>13,
     <1>14, <1>15, <1>16, <1>17, <1>18, <1>19, <1>20 DEF Write

LEMMA FlushFrame ==
    ASSUME Flush
    PROVE  UNCHANGED <<vslot, held, hot, writerVars, readerVars, envVars>>
<1>1. CASE DrainLane
  BY <1>1 DEF DrainLane, pmVars, hotVars, writerVars, readerVars, envVars
<1>2. CASE ReadSlot
  BY <1>2 DEF ReadSlot, pmVars, hotVars, writerVars, readerVars, envVars
<1>3. CASE PickWinner
  BY <1>3 DEF PickWinner, hotVars, writerVars, readerVars, envVars
<1>4. CASE BulkUpsert
  BY <1>4 DEF BulkUpsert, hotVars, writerVars, readerVars, envVars
<1>5. CASE TakeSlot
  BY <1>5 DEF TakeSlot, NextEntry, pmVars, writerVars, readerVars, envVars
<1>6. CASE ReleaseSlot
  BY <1>6 DEF ReleaseSlot, NextEntry, pmVars, writerVars, readerVars, envVars
<1> QED
  BY <1>1, <1>2, <1>3, <1>4, <1>5, <1>6 DEF Flush

LEMMA GetFrame ==
    ASSUME Get
    PROVE  UNCHANGED <<pmVars, hstate, queue, flushVars, writerVars, envVars>>
<1>1. CASE GetBegin
  BY <1>1 DEF GetBegin, pmVars, hotVars, flushVars, writerVars, envVars
<1>2. CASE GetHot
  BY <1>2 DEF GetHot, ReaderUnchanged, pmVars, flushVars, writerVars, envVars
<1>3. CASE GetVerifyHot
  BY <1>3 DEF GetVerifyHot, ReaderUnchanged, pmVars, flushVars, writerVars, envVars
<1>4. CASE GetCold
  BY <1>4 DEF GetCold, ReaderUnchanged, pmVars, flushVars, writerVars, envVars
<1>5. CASE GetVerifyCold
  BY <1>5 DEF GetVerifyCold, ReaderUnchanged, pmVars, flushVars, writerVars, envVars
<1>6. CASE Warm
  BY <1>6 DEF Warm, ReaderUnchanged, pmVars, flushVars, writerVars, envVars
<1> QED
  BY <1>1, <1>2, <1>3, <1>4, <1>5, <1>6 DEF Get

LEMMA RivalFrame ==
    ASSUME Rival
    PROVE  UNCHANGED <<pmVars, queue, flushVars, writerVars, readerVars, others>>
<1>1. CASE RivalProbe
  BY <1>1 DEF RivalProbe, RivalUnchanged, pmVars, hotVars, flushVars, writerVars, readerVars
<1>2. CASE RivalEvict
  BY <1>2 DEF RivalEvict, RivalUnchanged, pmVars, flushVars, writerVars, readerVars
<1>3. CASE RivalInsert
  BY <1>3 DEF RivalInsert, RivalUnchanged, pmVars, flushVars, writerVars, readerVars
<1>4. CASE RivalPin
  BY <1>4 DEF RivalPin, RivalUnchanged, pmVars, flushVars, writerVars, readerVars
<1>5. CASE RivalUnpin
  BY <1>5 DEF RivalUnpin, RivalUnchanged, pmVars, flushVars, writerVars, readerVars
<1> QED
  BY <1>1, <1>2, <1>3, <1>4, <1>5 DEF Rival

LEMMA OthersFrame ==
    ASSUME Others
    PROVE  UNCHANGED <<cold, hotVars, queue, flushVars, writerVars, readerVars, xpc, rivals>>
<1>1. ASSUME NEW o \in Offsets, OtherPut(o)
      PROVE  UNCHANGED <<cold, hotVars, queue, flushVars, writerVars, readerVars, xpc, rivals>>
  BY <1>1 DEF OtherPut, OtherUnchanged, hotVars, flushVars, writerVars, readerVars
<1>2. ASSUME NEW o \in Offsets, OtherFree(o)
      PROVE  UNCHANGED <<cold, hotVars, queue, flushVars, writerVars, readerVars, xpc, rivals>>
  BY <1>2 DEF OtherFree, OtherUnchanged, hotVars, flushVars, writerVars, readerVars
<1>3. ASSUME NEW p \in Pages, OtherLock(p)
      PROVE  UNCHANGED <<cold, hotVars, queue, flushVars, writerVars, readerVars, xpc, rivals>>
  BY <1>3 DEF OtherLock, OtherUnchanged, hotVars, flushVars, writerVars, readerVars
<1>4. ASSUME NEW p \in Pages, OtherUnlock(p)
      PROVE  UNCHANGED <<cold, hotVars, queue, flushVars, writerVars, readerVars, xpc, rivals>>
  BY <1>4 DEF OtherUnlock, OtherUnchanged, hotVars, flushVars, writerVars, readerVars
<1> QED
  BY <1>1, <1>2, <1>3, <1>4 DEF Others

\* Other keys neither write nor free a record of this one.
LEMMA OthersRecords ==
    ASSUME KeyTypeOK, Others
    PROVE  /\ KeyRecords' = KeyRecords
           /\ \A o \in Offsets : vslot'[o] # vslot[o] => vslot'[o] \in {Free, Other} /\ vslot[o] <= 0
<1>1. ASSUME NEW o \in Offsets, OtherPut(o) \/ OtherFree(o)
      PROVE  \A p \in Offsets :
                 vslot'[p] # vslot[p] => vslot'[p] \in {Free, Other} /\ vslot[p] \in {Free, Other}
  BY <1>1 DEF OtherPut, OtherFree, KeyTypeOK
<1>2. ASSUME NEW p \in Pages, OtherLock(p) \/ OtherUnlock(p)
      PROVE  UNCHANGED vslot
  BY <1>2 DEF OtherLock, OtherUnlock
<1>3. \A p \in Offsets :
          vslot'[p] # vslot[p] => vslot'[p] \in {Free, Other} /\ vslot[p] \in {Free, Other}
  BY <1>1, <1>2 DEF Others
<1>4. \A p \in Offsets : vslot'[p] > 0 <=> vslot[p] > 0
  BY <1>3 DEF Free, Other
<1> QED
  BY <1>3, <1>4 DEF Free, Other, KeyRecords, HoldsKey

(***************************************************************************)
(* The writer's phases, the flusher's position, and the places.            *)
(***************************************************************************)
LEMMA WritePhases ==
    ASSUME KeyTypeOK, Phases, Placed, Write, History
    PROVE  Phases'
<1>1. ASSUME NEW o \in Offsets, PutWrite(o)
      PROVE  Phases'
  <2>1. o \in KeyRecords'
    BY <1>1 DEF PutWrite, Begin, KeyRecords, HoldsKey, KeyTypeOK
  <2> QED
    BY <2>1, <1>1 DEF PutWrite, Begin, Phases, History, writerVars
<1>2. CASE RemoveBegin
  BY <1>2 DEF RemoveBegin, Begin, Phases, History, KeyTypeOK, pmVars, writerVars
<1>3. CASE UpdateBegin
  BY <1>3 DEF UpdateBegin, Begin, Phases, History, KeyTypeOK, pmVars, writerVars
<1>4. CASE ResolveHot
  BY <1>4 DEF ResolveHot, WriterGoto, ResolverUnchanged, Phases, History, KeyTypeOK, pmVars,
     writerVars
<1>5. CASE VerifyHot
  BY <1>5 DEF VerifyHot, WriterGoto, ResolverUnchanged, Phases, History, KeyTypeOK, pmVars,
     writerVars
<1>6. CASE ResolveCold
  BY <1>6 DEF ResolveCold, WriterGoto, ResolverUnchanged, Phases, History, KeyTypeOK,
     pmVars, writerVars
<1>7. CASE VerifyCold
  BY <1>7 DEF VerifyCold, WriterGoto, ResolverUnchanged, Phases, History, KeyTypeOK, pmVars,
     writerVars
<1>8. CASE FreeOld
  BY <1>8 DEF FreeOld, Phases, History, KeyTypeOK, pmVars, writerVars
<1>9. CASE Unlock
  BY <1>9 DEF Unlock, Phases, History, KeyTypeOK, pmVars, writerVars
<1>10. CASE UpdateHotOnly
  BY <1>10 DEF UpdateHotOnly, WriterGoto, ResolverUnchanged, Phases, History, KeyTypeOK,
     pmVars, writerVars
<1>11. CASE UpdateTryHot
  BY <1>11 DEF UpdateTryHot, WriterGoto, ResolverUnchanged, UpdateApply, Phases, History,
     KeyTypeOK, pmVars, writerVars
<1>12. CASE UpdateTryCold
  BY <1>12 DEF UpdateTryCold, WriterGoto, ResolverUnchanged, UpdateApply, Phases, History,
     KeyTypeOK, pmVars, writerVars
<1>13. CASE EncodeFails
  BY <1>13 DEF EncodeFails, MirrorUnchanged, Phases, History, KeyTypeOK, pmVars, writerVars
<1>14. CASE HotStore
  BY <1>14 DEF HotStore, MirrorUnchanged, Phases, History, KeyTypeOK, pmVars, writerVars
<1>15. CASE PinOr
  BY <1>15 DEF PinOr, MirrorUnchanged, Phases, History, KeyTypeOK, pmVars, writerVars
<1>16. CASE PinAnd
  BY <1>16 DEF PinAnd, MirrorUnchanged, Phases, History, KeyTypeOK, pmVars, writerVars
<1>17. CASE PinFails
  BY <1>17 DEF PinFails, MirrorUnchanged, Phases, History, KeyTypeOK, pmVars, writerVars
<1>18. CASE HotRemove
  BY <1>18 DEF HotRemove, MirrorUnchanged, Phases, History, KeyTypeOK, pmVars, writerVars
<1>19. CASE Push
  BY <1>19 DEF Push, Return, Phases, History, KeyTypeOK, pmVars, writerVars, MustDrain
<1>20. CASE DrainWait
  BY <1>20 DEF DrainWait, Return, Phases, History, KeyTypeOK, pmVars, writerVars
<1> QED
  BY <1>1, <1>2, <1>3, <1>4, <1>5, <1>6, <1>7, <1>8, <1>9, <1>10, <1>11, <1>12, <1>13,
     <1>14, <1>15, <1>16, <1>17, <1>18, <1>19, <1>20 DEF Write

LEMMA PhasesKept ==
    ASSUME Phases, History, UNCHANGED writerVars
    PROVE  Phases'
BY DEF Phases, History, writerVars

LEMMA FlushBatched ==
    ASSUME KeyTypeOK, Batched, Flush
    PROVE  Batched'
<1>1. CASE DrainLane
  BY <1>1 DEF DrainLane, Batched, KeyTypeOK, flushVars
<1>2. CASE ReadSlot
  BY <1>2 DEF ReadSlot, Batched, KeyTypeOK, flushVars
<1>3. CASE PickWinner
  BY <1>3 DEF PickWinner, Batched, KeyTypeOK, flushVars
<1>4. CASE BulkUpsert
  BY <1>4 DEF BulkUpsert, Batched, KeyTypeOK, flushVars
<1>5. CASE TakeSlot
  BY <1>5 DEF TakeSlot, NextEntry, Batched, KeyTypeOK, flushVars
<1>6. CASE ReleaseSlot
  BY SMTT(30), <1>6 DEF ReleaseSlot, NextEntry, Batched, KeyTypeOK, flushVars
<1> QED
  BY <1>1, <1>2, <1>3, <1>4, <1>5, <1>6 DEF Flush

LEMMA BatchedKept ==
    ASSUME Batched, UNCHANGED flushVars
    PROVE  Batched'
BY DEF Batched, flushVars

LEMMA EntriesNext ==
    ASSUME KeyTypeOK, Phases, Entries, Next
    PROVE  Entries'
<1>0. places \subseteq places'
  BY DEF Next
<1>1. CASE UNCHANGED <<queue, batch>>
  BY <1>0, <1>1 DEF Entries
<1>2. CASE Push
  <2>1. UNCHANGED batch
    BY <1>2 DEF Push, flushVars
  <2>2. queue \in Seq(Entry) /\ queue' = Append(queue, [op |-> op, off |-> new, ref |-> ref])
    BY <1>2 DEF Push, KeyTypeOK
  <2>3. op = "kPut" => new \in places
    BY <1>2 DEF Push, Phases
  <2>4. ASSUME NEW i \in DOMAIN queue', queue'[i].op = "kPut"
        PROVE  queue'[i].off \in places
    <3>1. CASE i \in DOMAIN queue
      <4>1. queue'[i] = queue[i]
        BY <2>2, <3>1
      <4> QED
        BY <2>4, <3>1, <4>1 DEF Entries
    <3>2. CASE i \notin DOMAIN queue
      <4>1. queue'[i] = [op |-> op, off |-> new, ref |-> ref]
        BY <2>2, <3>2
      <4>2. queue'[i].op = op /\ queue'[i].off = new
        BY <4>1
      <4> QED
        BY <2>3, <2>4, <4>2
    <3> QED
      BY <3>1, <3>2
  <2> QED
    BY <1>0, <2>1, <2>4 DEF Entries
<1>3. CASE DrainLane
  <2>1. batch' = queue /\ queue' = <<>>
    BY <1>3 DEF DrainLane
  <2> QED
    BY <1>0, <2>1 DEF Entries
<1>4. CASE queue' = queue /\ batch' = <<>>
  BY <1>0, <1>4 DEF Entries
<1>5. ASSUME Write
      PROVE  Push \/ UNCHANGED <<queue, batch>>
  BY <1>5 DEF Write, PutWrite, RemoveBegin, UpdateBegin, ResolveHot, VerifyHot, ResolveCold,
     VerifyCold, FreeOld, Unlock, UpdateHotOnly, UpdateTryHot, UpdateTryCold, UpdateApply,
     EncodeFails, HotStore, PinOr, PinAnd, PinFails, HotRemove, DrainWait, Return,
     ResolverUnchanged, MirrorUnchanged, flushVars
<1>6. ASSUME Flush
      PROVE  DrainLane \/ UNCHANGED <<queue, batch>> \/ (queue' = queue /\ batch' = <<>>)
  BY <1>6 DEF Flush, ReadSlot, PickWinner, BulkUpsert, TakeSlot, ReleaseSlot, NextEntry
<1>7. ASSUME Get \/ Rival \/ Others
      PROVE  UNCHANGED <<queue, batch>>
  BY <1>7, GetFrame, RivalFrame, OthersFrame DEF flushVars
<1> QED
  BY <1>1, <1>2, <1>3, <1>4, <1>5, <1>6, <1>7 DEF Next

\* A step that leaves HotTier and the reader alone keeps the places.
LEMMA PlacedKept ==
    ASSUME KeyTypeOK, Placed, History, UNCHANGED <<hot, rpc, roff>>,
           ops' >= ops, ops' \in Int, \A o \in Offsets : vslot'[o] # vslot[o] => vslot'[o] <= ops'
    PROVE  Placed'
<1>1. KeyRecords' \subseteq places' /\ places \subseteq places'
  BY DEF History
<1>2. \A o \in Offsets : vslot'[o] <= ops'
  <2> SUFFICES ASSUME NEW o \in Offsets PROVE vslot'[o] <= ops'
    OBVIOUS
  <2>1. vslot[o] \in Int /\ ops \in Int /\ vslot[o] <= ops
    BY KeyBounds DEF Placed, KeyTypeOK, Other
  <2>2. vslot'[o] = vslot[o] \/ vslot'[o] <= ops'
    OBVIOUS
  <2> QED
    BY <2>1, <2>2
<1> QED
  BY <1>1, <1>2 DEF Placed

\* A step that changes HotTier's slot puts a place of the key into it, or none.
LEMMA PlacedHot ==
    ASSUME KeyTypeOK, Placed, History, UNCHANGED <<vslot, ops>>,
           rpc' = "warm" => rpc = "warm", UNCHANGED roff,
           hot' = hot \/ hot' \in {EmptySlot, RivalSlot}
               \/ \E o \in places : hot' = KeySlot(o) /\ ~Far(o)
    PROVE  Placed'
<1>1. KeyRecords' \subseteq places' /\ places \subseteq places'
  BY DEF History
<1>2. \A o \in Offsets : vslot'[o] <= ops'
  BY DEF Placed
<1>3. hot'.fp = "key" => \E o \in places : hot' = KeySlot(o) /\ ~Far(o)
  BY SlotFields DEF Placed
<1> QED
  BY <1>1, <1>2, <1>3 DEF Placed

LEMMA WritePlaced ==
    ASSUME KeyTypeOK, Phases, Placed, Write, History
    PROVE  Placed'
<1>1. ASSUME NEW o \in Offsets, PutWrite(o)
      PROVE  Placed'
  <2>1. ops' >= ops /\ ops' \in Int /\ \A p \in Offsets : vslot'[p] # vslot[p] => vslot'[p] <= ops'
    BY <1>1 DEF PutWrite, Begin, KeyTypeOK, pmVars, Free
  <2> QED
    BY <2>1, PlacedKept, <1>1 DEF PutWrite, Begin, hotVars, readerVars
<1>2. CASE RemoveBegin
  <2>1. ops' >= ops /\ ops' \in Int /\ \A p \in Offsets : vslot'[p] # vslot[p] => vslot'[p] <= ops'
    BY <1>2 DEF RemoveBegin, Begin, KeyTypeOK, pmVars, Free
  <2> QED
    BY <2>1, PlacedKept, <1>2 DEF RemoveBegin, Begin, hotVars, readerVars
<1>3. CASE UpdateBegin
  <2>1. ops' >= ops /\ ops' \in Int /\ \A p \in Offsets : vslot'[p] # vslot[p] => vslot'[p] <= ops'
    BY <1>3 DEF UpdateBegin, Begin, KeyTypeOK, pmVars, Free
  <2> QED
    BY <2>1, PlacedKept, <1>3 DEF UpdateBegin, Begin, hotVars, readerVars
<1>4. CASE ResolveHot
  <2>1. ops' >= ops /\ ops' \in Int /\ \A p \in Offsets : vslot'[p] # vslot[p] => vslot'[p] <= ops'
    BY <1>4 DEF ResolveHot, WriterGoto, ResolverUnchanged, KeyTypeOK, pmVars, Free
  <2> QED
    BY <2>1, PlacedKept, <1>4 DEF ResolveHot, WriterGoto, ResolverUnchanged, hotVars,
       readerVars
<1>5. CASE VerifyHot
  <2>1. ops' >= ops /\ ops' \in Int /\ \A p \in Offsets : vslot'[p] # vslot[p] => vslot'[p] <= ops'
    BY <1>5 DEF VerifyHot, WriterGoto, ResolverUnchanged, KeyTypeOK, pmVars, Free
  <2> QED
    BY <2>1, PlacedKept, <1>5 DEF VerifyHot, WriterGoto, ResolverUnchanged, hotVars,
       readerVars
<1>6. CASE ResolveCold
  <2>1. ops' >= ops /\ ops' \in Int /\ \A p \in Offsets : vslot'[p] # vslot[p] => vslot'[p] <= ops'
    BY <1>6 DEF ResolveCold, WriterGoto, ResolverUnchanged, KeyTypeOK, pmVars, Free
  <2> QED
    BY <2>1, PlacedKept, <1>6 DEF ResolveCold, WriterGoto, ResolverUnchanged, hotVars,
       readerVars
<1>7. CASE VerifyCold
  <2>1. ops' >= ops /\ ops' \in Int /\ \A p \in Offsets : vslot'[p] # vslot[p] => vslot'[p] <= ops'
    BY <1>7 DEF VerifyCold, WriterGoto, ResolverUnchanged, KeyTypeOK, pmVars, Free
  <2> QED
    BY <2>1, PlacedKept, <1>7 DEF VerifyCold, WriterGoto, ResolverUnchanged, hotVars,
       readerVars
<1>8. CASE FreeOld
  <2>1. ops' >= ops /\ ops' \in Int /\ \A p \in Offsets : vslot'[p] # vslot[p] => vslot'[p] <= ops'
    BY <1>8 DEF FreeOld, KeyTypeOK, pmVars, Free
  <2> QED
    BY <2>1, PlacedKept, <1>8 DEF FreeOld, hotVars, readerVars
<1>9. CASE Unlock
  <2>1. ops' >= ops /\ ops' \in Int /\ \A p \in Offsets : vslot'[p] # vslot[p] => vslot'[p] <= ops'
    BY <1>9 DEF Unlock, KeyTypeOK, pmVars, Free
  <2> QED
    BY <2>1, PlacedKept, <1>9 DEF Unlock, hotVars, readerVars
<1>10. CASE UpdateHotOnly
  <2>1. ops' >= ops /\ ops' \in Int /\ \A p \in Offsets : vslot'[p] # vslot[p] => vslot'[p] <= ops'
    BY <1>10 DEF UpdateHotOnly, WriterGoto, ResolverUnchanged, KeyTypeOK, pmVars, Free
  <2> QED
    BY <2>1, PlacedKept, <1>10 DEF UpdateHotOnly, WriterGoto, ResolverUnchanged, hotVars,
       readerVars
<1>11. CASE UpdateTryHot
  <2>1. ops' >= ops /\ ops' \in Int /\ \A p \in Offsets : vslot'[p] # vslot[p] => vslot'[p] <= ops'
    BY <1>11 DEF UpdateTryHot, WriterGoto, ResolverUnchanged, UpdateApply, KeyTypeOK,
       pmVars, Free
  <2> QED
    BY <2>1, PlacedKept, <1>11 DEF UpdateTryHot, WriterGoto, ResolverUnchanged, UpdateApply,
       hotVars, readerVars
<1>12. CASE UpdateTryCold
  <2>1. ops' >= ops /\ ops' \in Int /\ \A p \in Offsets : vslot'[p] # vslot[p] => vslot'[p] <= ops'
    BY SMTT(30), <1>12 DEF UpdateTryCold, WriterGoto, ResolverUnchanged, UpdateApply, KeyTypeOK,
       pmVars, Free
  <2> QED
    BY <2>1, PlacedKept, <1>12 DEF UpdateTryCold, WriterGoto, ResolverUnchanged,
       UpdateApply, hotVars, readerVars
<1>13. CASE EncodeFails
  <2>1. ops' >= ops /\ ops' \in Int /\ \A p \in Offsets : vslot'[p] # vslot[p] => vslot'[p] <= ops'
    BY <1>13 DEF EncodeFails, MirrorUnchanged, KeyTypeOK, pmVars, Free
  <2> QED
    BY <2>1, PlacedKept, <1>13 DEF EncodeFails, MirrorUnchanged, hotVars, readerVars
<1>14. CASE HotStore
  BY <1>14, PlacedHot DEF HotStore, MirrorUnchanged, Phases, pmVars, readerVars
<1>15. CASE PinOr
  <2>1. ops' >= ops /\ ops' \in Int /\ \A p \in Offsets : vslot'[p] # vslot[p] => vslot'[p] <= ops'
    BY <1>15 DEF PinOr, MirrorUnchanged, KeyTypeOK, pmVars, Free
  <2> QED
    BY <2>1, PlacedKept, <1>15 DEF PinOr, MirrorUnchanged, hotVars, readerVars
<1>16. CASE PinAnd
  <2>1. ops' >= ops /\ ops' \in Int /\ \A p \in Offsets : vslot'[p] # vslot[p] => vslot'[p] <= ops'
    BY <1>16 DEF PinAnd, MirrorUnchanged, KeyTypeOK, pmVars, Free
  <2> QED
    BY <2>1, PlacedKept, <1>16 DEF PinAnd, MirrorUnchanged, hotVars, readerVars
<1>17. CASE PinFails
  <2>1. ops' >= ops /\ ops' \in Int /\ \A p \in Offsets : vslot'[p] # vslot[p] => vslot'[p] <= ops'
    BY <1>17 DEF PinFails, MirrorUnchanged, KeyTypeOK, pmVars, Free
  <2> QED
    BY <2>1, PlacedKept, <1>17 DEF PinFails, MirrorUnchanged, hotVars, readerVars
<1>18. CASE HotRemove
  BY <1>18, PlacedHot DEF HotRemove, MirrorUnchanged, pmVars, readerVars
<1>19. CASE Push
  <2>1. ops' >= ops /\ ops' \in Int /\ \A p \in Offsets : vslot'[p] # vslot[p] => vslot'[p] <= ops'
    BY <1>19 DEF Push, Return, KeyTypeOK, pmVars, Free
  <2> QED
    BY <2>1, PlacedKept, <1>19 DEF Push, Return, hotVars, readerVars
<1>20. CASE DrainWait
  <2>1. ops' >= ops /\ ops' \in Int /\ \A p \in Offsets : vslot'[p] # vslot[p] => vslot'[p] <= ops'
    BY <1>20 DEF DrainWait, Return, KeyTypeOK, pmVars, Free
  <2> QED
    BY <2>1, PlacedKept, <1>20 DEF DrainWait, Return, hotVars, readerVars
<1> QED
  BY <1>1, <1>2, <1>3, <1>4, <1>5, <1>6, <1>7, <1>8, <1>9, <1>10, <1>11, <1>12, <1>13,
     <1>14, <1>15, <1>16, <1>17, <1>18, <1>19, <1>20 DEF Write

LEMMA GetPlaced ==
    ASSUME KeyTypeOK, Placed, Get, History
    PROVE  Placed'
<1>1. CASE GetBegin
  <2>1. UNCHANGED <<vslot, ops, hot>> /\ (rpc' = "warm" => roff' \in places)
    BY <1>1 DEF GetBegin, Placed, Readable, KeyRecords, KeyTypeOK, Tombstone, pmVars,
       hotVars, writerVars
  <2> QED
    BY <2>1 DEF Placed, History, KeyTypeOK, KeyRecords, HoldsKey
<1>2. CASE GetHot
  <2>1. UNCHANGED <<vslot, ops, hot>> /\ (rpc' = "warm" => roff' \in places)
    BY <1>2 DEF GetHot, ReaderUnchanged, Placed, Readable, KeyRecords, KeyTypeOK, Tombstone,
       pmVars, hotVars, writerVars
  <2> QED
    BY <2>1 DEF Placed, History, KeyTypeOK, KeyRecords, HoldsKey
<1>3. CASE GetVerifyHot
  <2>1. UNCHANGED <<vslot, ops, hot>> /\ (rpc' = "warm" => roff' \in places)
    BY <1>3 DEF GetVerifyHot, ReaderUnchanged, Placed, Readable, KeyRecords, KeyTypeOK,
       Tombstone, pmVars, hotVars, writerVars
  <2> QED
    BY <2>1 DEF Placed, History, KeyTypeOK, KeyRecords, HoldsKey
<1>4. CASE GetCold
  <2>1. UNCHANGED <<vslot, ops, hot>> /\ (rpc' = "warm" => roff' \in places)
    BY <1>4 DEF GetCold, ReaderUnchanged, Placed, Readable, KeyRecords, KeyTypeOK,
       Tombstone, pmVars, hotVars, writerVars
  <2> QED
    BY <2>1 DEF Placed, History, KeyTypeOK, KeyRecords, HoldsKey
<1>5. CASE GetVerifyCold
  <2>1. UNCHANGED <<vslot, ops, hot>> /\ (rpc' = "warm" => roff' \in places)
    BY <1>5 DEF GetVerifyCold, ReaderUnchanged, Placed, Readable, KeyRecords, KeyTypeOK,
       Tombstone, pmVars, hotVars, writerVars
  <2> QED
    BY <2>1 DEF Placed, History, KeyTypeOK, KeyRecords, HoldsKey
<1>6. CASE Warm
  <2>1. hot' = hot \/ (hot' = KeySlot(roff) /\ ~Far(roff) /\ roff \in places)
    BY <1>6 DEF Warm, Placed
  <2> QED
    BY <2>1, <1>6, PlacedHot DEF Warm, ReaderUnchanged, pmVars, writerVars
<1> QED
  BY <1>1, <1>2, <1>3, <1>4, <1>5, <1>6 DEF Get

LEMMA FlushPlaced ==
    ASSUME KeyTypeOK, Placed, Flush, History
    PROVE  Placed'
BY FlushFrame, PlacedHot DEF writerVars, readerVars

LEMMA RivalPlaced ==
    ASSUME KeyTypeOK, Placed, Rival, History
    PROVE  Placed'
<1>1. hot' = hot \/ hot' \in {EmptySlot, RivalSlot}
  BY DEF Rival, RivalProbe, RivalEvict, RivalInsert, RivalPin, RivalUnpin, hotVars
<1> QED
  BY <1>1, RivalFrame, PlacedHot DEF pmVars, writerVars, readerVars

LEMMA OthersPlaced ==
    ASSUME KeyTypeOK, Placed, Others, History
    PROVE  Placed'
<1>0. ops \in Int /\ ops >= 1
  BY KeyBounds DEF KeyTypeOK
<1>1. \A o \in Offsets : vslot'[o] # vslot[o] => vslot'[o] <= ops
  BY <1>0, OthersRecords DEF Free, Other
<1> QED
  BY <1>1, OthersFrame, PlacedKept DEF KeyTypeOK, hotVars, writerVars, readerVars


(***************************************************************************)
(* The key's records, as long as no resolver missed the live one.          *)
(***************************************************************************)
LEMMA SameRecords ==
    ASSUME UNCHANGED vslot
    PROVE  KeyRecords' = KeyRecords
BY DEF KeyRecords, HoldsKey

\* The three ways a write changes the records.
LEMMA RecordAdded ==
    ASSUME KeyTypeOK, NEW o \in Offsets, NEW n \in Nat \ {0}, vslot' = [vslot EXCEPT ![o] = n]
    PROVE  KeyRecords' = KeyRecords \cup {o}
BY DEF KeyTypeOK, KeyRecords, HoldsKey

LEMMA RecordFreed ==
    ASSUME KeyTypeOK, NEW o \in Offsets, vslot' = [vslot EXCEPT ![o] = Free]
    PROVE  KeyRecords' = KeyRecords \ {o}
BY SMTT(30) DEF KeyTypeOK, KeyRecords, HoldsKey, Free

\* Where the resolver may find the key: the record that is written is locked.
LEMMA FoundIsOld ==
    ASSUME KeyTypeOK, Phases, Live, pc \in {"verifyhot", "verifycold"}, op # "update", Readable(off)
    PROVE  off = cur
<1>1. off \in KeyRecords
  BY DEF Readable, KeyRecords, KeyTypeOK, Tombstone
<1>2. op = "kPut" => off # new
  BY DEF Readable, Locked, HoldsLock
<1> QED
  BY <1>1, <1>2 DEF Live, Expected, Resolving, KeyTypeOK

LEMMA WriteLive ==
    ASSUME KeyTypeOK, Phases, Live, Write, ~Missed'
    PROVE  Live'
<1>1. ASSUME NEW o \in Offsets, PutWrite(o)
      PROVE  Live'
  <2>1. KeyRecords' = KeyRecords \cup {o}
    <3>1. ops + 1 \in Nat \ {0}
      BY KeyBounds DEF KeyTypeOK
    <3> QED
      BY <3>1, <1>1, RecordAdded DEF PutWrite
  <2>2. KeyRecords = {cur} \ {Tombstone} /\ o # Tombstone /\ o \notin KeyRecords
    BY <1>1 DEF PutWrite, Begin, Live, Expected, KeyRecords, HoldsKey, Free, Offsets,
       Tombstone, Resolving
  <2> QED
    BY <2>1, <2>2, <1>1 DEF PutWrite, Begin, Live, Expected, Resolving, KeyTypeOK
<1>2. CASE RemoveBegin
  <2>1. KeyRecords' = KeyRecords
    BY SameRecords, <1>2 DEF RemoveBegin, Begin, pmVars
  <2> QED
    BY <2>1, <1>2 DEF RemoveBegin, Begin, Live, Expected, Resolving, Phases, KeyTypeOK,
       Tombstone, Offsets
<1>3. CASE UpdateBegin
  <2>1. KeyRecords' = KeyRecords
    BY SameRecords, <1>3 DEF UpdateBegin, Begin, pmVars
  <2> QED
    BY <2>1, <1>3 DEF UpdateBegin, Begin, Live, Expected, Resolving, Phases, KeyTypeOK,
       Tombstone, Offsets
<1>4. CASE ResolveHot
  <2>1. KeyRecords' = KeyRecords
    BY SameRecords, <1>4 DEF ResolveHot, WriterGoto, ResolverUnchanged, pmVars
  <2> QED
    BY <2>1, <1>4 DEF ResolveHot, WriterGoto, ResolverUnchanged, Live, Expected, Resolving,
       Phases, KeyTypeOK, Tombstone, Offsets
<1>5. CASE VerifyHot
  <2>1. KeyRecords' = KeyRecords
    BY SameRecords, <1>5 DEF VerifyHot, ResolverUnchanged, pmVars
  <2>2. Readable(off) /\ op # "update" => off = cur
    BY FoundIsOld, <1>5 DEF VerifyHot
  <2> QED
    BY <2>1, <2>2, <1>5 DEF VerifyHot, WriterGoto, ResolverUnchanged, Live, Expected,
       Resolving
<1>6. CASE ResolveCold
  <2>1. KeyRecords' = KeyRecords
    BY SameRecords, <1>6 DEF ResolveCold, ResolverUnchanged, pmVars
  <2>2. cold = Tombstone /\ op # "update" => cur = Tombstone
    <3> SUFFICES ASSUME cold = Tombstone, op # "update" PROVE cur = Tombstone
      OBVIOUS
    <3>1. KeyRecords \ {new} = {}
      BY <2>1, <1>6 DEF ResolveCold, WriterGoto, ResolverUnchanged, Missed, OldRecord
    <3>2. cur \in KeyRecords \/ cur = Tombstone
      BY <1>6 DEF ResolveCold, Live, Expected, Resolving, KeyTypeOK
    <3>3. cur # new \/ cur = Tombstone
      BY <1>6 DEF ResolveCold, Live, Phases, Resolving, KeyTypeOK
    <3> QED
      BY <3>1, <3>2, <3>3
  <2> QED
    BY <2>1, <2>2, <1>6 DEF ResolveCold, WriterGoto, ResolverUnchanged, Live, Expected,
       Resolving
<1>7. CASE VerifyCold
  <2>1. KeyRecords' = KeyRecords
    BY SameRecords, <1>7 DEF VerifyCold, ResolverUnchanged, pmVars
  <2>2. Readable(off) /\ op # "update" => off = cur
    BY FoundIsOld, <1>7 DEF VerifyCold
  <2>3. ~Readable(off) /\ op # "update" => cur = Tombstone
    <3> SUFFICES ASSUME ~Readable(off), op # "update" PROVE cur = Tombstone
      OBVIOUS
    <3>1. KeyRecords \ {new} = {}
      BY <2>1, <1>7 DEF VerifyCold, WriterGoto, ResolverUnchanged, Missed, OldRecord
    <3>2. cur \in KeyRecords \/ cur = Tombstone
      BY <1>7 DEF VerifyCold, Live, Expected, Resolving, KeyTypeOK
    <3>3. cur # new \/ cur = Tombstone
      BY <1>7 DEF VerifyCold, Live, Phases, Resolving, KeyTypeOK
    <3> QED
      BY <3>1, <3>2, <3>3
  <2> QED
    BY <2>1, <2>2, <2>3, <1>7 DEF VerifyCold, WriterGoto, ResolverUnchanged, Live, Expected,
       Resolving
<1>8. CASE FreeOld
  <2>1. KeyRecords' = KeyRecords \ {cur} /\ off = cur
    <3>1. off = cur
      BY <1>8 DEF FreeOld, Live
    <3>2. CASE off = Tombstone
      <4>1. Tombstone \notin KeyRecords
        BY DEF KeyRecords, Offsets, Tombstone
      <4> QED
        BY <3>1, <3>2, <4>1, <1>8, SameRecords DEF FreeOld
    <3>3. CASE off # Tombstone
      <4>1. off \in Offsets /\ vslot' = [vslot EXCEPT ![off] = Free]
        BY <3>3, <1>8 DEF FreeOld, KeyTypeOK
      <4> QED
        BY <3>1, <4>1, RecordFreed
    <3> QED
      BY <3>1, <3>2, <3>3
  <2>2. CASE op = "kPut"
    <3>1. KeyRecords' = {new}
      BY <2>1, <2>2, <1>8 DEF FreeOld, Live, Expected, Resolving
    <3> QED
      BY <2>2, <3>1, <1>8 DEF FreeOld, Live, Expected, Resolving
  <2>3. CASE op = "kRemove"
    <3>1. KeyRecords' = {}
      BY <2>1, <2>3, <1>8 DEF FreeOld, Live, Expected, Resolving
    <3> QED
      BY <2>3, <3>1, <1>8 DEF FreeOld, Live, Expected, Resolving
  <2> QED
    BY <2>2, <2>3, <1>8 DEF FreeOld
<1>9. CASE Unlock
  <2>1. KeyRecords' = KeyRecords
    BY SameRecords, <1>9 DEF Unlock, pmVars
  <2> QED
    BY <2>1, <1>9 DEF Unlock, Live, Expected, Resolving, Phases, KeyTypeOK, Tombstone,
       Offsets
<1>10. CASE UpdateHotOnly
  <2>1. KeyRecords' = KeyRecords
    BY SameRecords, <1>10 DEF UpdateHotOnly, WriterGoto, ResolverUnchanged, pmVars
  <2> QED
    BY <2>1, <1>10 DEF UpdateHotOnly, WriterGoto, ResolverUnchanged, Live, Expected,
       Resolving, Phases, KeyTypeOK, Tombstone, Offsets
<1>11. CASE UpdateTryHot
  <2>1. op = "update"
    BY <1>11 DEF UpdateTryHot, Phases
  <2>2. KeyRecords' = KeyRecords
    <3>1. CASE UNCHANGED vslot
      BY <3>1, SameRecords
    <3>2. CASE Readable(off) /\ off # Tombstone /\ UpdateApply(off)
      <4>1. off \in Offsets /\ num \in Nat \ {0} /\ vslot' = [vslot EXCEPT ![off] = num]
        BY <3>2, KeyBounds DEF KeyTypeOK, UpdateApply
      <4>2. off \in KeyRecords
        BY <3>2, <4>1 DEF Readable, KeyRecords
      <4>3. KeyRecords' = KeyRecords \cup {off}
        BY <4>1, RecordAdded
      <4> QED
        BY <4>2, <4>3
    <3> QED
      BY <3>1, <3>2, <1>11 DEF UpdateTryHot, ResolverUnchanged, pmVars, KeyTypeOK
  <2> QED
    BY <2>1, <2>2, <1>11 DEF UpdateTryHot, WriterGoto, ResolverUnchanged, UpdateApply, Live,
       Expected, Resolving
<1>12. CASE UpdateTryCold
  <2>1. op = "update"
    BY <1>12 DEF UpdateTryCold, Phases
  <2>2. KeyRecords' = KeyRecords
    <3>1. CASE UNCHANGED vslot
      BY <3>1, SameRecords
    <3>2. CASE Readable(off) /\ off # Tombstone /\ UpdateApply(off)
      <4>1. off \in Offsets /\ num \in Nat \ {0} /\ vslot' = [vslot EXCEPT ![off] = num]
        BY <3>2, KeyBounds DEF KeyTypeOK, UpdateApply
      <4>2. off \in KeyRecords
        BY <3>2, <4>1 DEF Readable, KeyRecords
      <4>3. KeyRecords' = KeyRecords \cup {off}
        BY <4>1, RecordAdded
      <4> QED
        BY <4>2, <4>3
    <3> QED
      BY <3>1, <3>2, <1>12 DEF UpdateTryCold, ResolverUnchanged, pmVars, KeyTypeOK
  <2> QED
    BY <2>1, <2>2, <1>12 DEF UpdateTryCold, WriterGoto, ResolverUnchanged, UpdateApply,
       Live, Expected, Resolving
<1>13. CASE EncodeFails
  <2>1. KeyRecords' = KeyRecords
    BY SameRecords, <1>13 DEF EncodeFails, MirrorUnchanged, pmVars
  <2> QED
    BY <2>1, <1>13 DEF EncodeFails, MirrorUnchanged, Live, Expected, Resolving, Phases,
       KeyTypeOK, Tombstone, Offsets
<1>14. CASE HotStore
  <2>1. KeyRecords' = KeyRecords
    BY SameRecords, <1>14 DEF HotStore, MirrorUnchanged, pmVars
  <2> QED
    BY <2>1, <1>14 DEF HotStore, MirrorUnchanged, Live, Expected, Resolving, Phases,
       KeyTypeOK, Tombstone, Offsets
<1>15. CASE PinOr
  <2>1. KeyRecords' = KeyRecords
    BY SameRecords, <1>15 DEF PinOr, MirrorUnchanged, pmVars
  <2> QED
    BY <2>1, <1>15 DEF PinOr, MirrorUnchanged, Live, Expected, Resolving, Phases, KeyTypeOK,
       Tombstone, Offsets
<1>16. CASE PinAnd
  <2>1. KeyRecords' = KeyRecords
    BY SameRecords, <1>16 DEF PinAnd, MirrorUnchanged, pmVars
  <2> QED
    BY <2>1, <1>16 DEF PinAnd, MirrorUnchanged, Live, Expected, Resolving, Phases,
       KeyTypeOK, Tombstone, Offsets
<1>17. CASE PinFails
  <2>1. KeyRecords' = KeyRecords
    BY SameRecords, <1>17 DEF PinFails, MirrorUnchanged, pmVars
  <2> QED
    BY <2>1, <1>17 DEF PinFails, MirrorUnchanged, Live, Expected, Resolving, Phases,
       KeyTypeOK, Tombstone, Offsets
<1>18. CASE HotRemove
  <2>1. KeyRecords' = KeyRecords
    BY SameRecords, <1>18 DEF HotRemove, MirrorUnchanged, pmVars
  <2> QED
    BY <2>1, <1>18 DEF HotRemove, MirrorUnchanged, Live, Expected, Resolving, Phases,
       KeyTypeOK, Tombstone, Offsets
<1>19. CASE Push
  <2>1. KeyRecords' = KeyRecords
    BY SameRecords, <1>19 DEF Push, pmVars
  <2>2. KeyRecords = {new} \ {Tombstone} /\ (op = "kPut" => KeyRecords = {new})
    <3>1. op = "kPut" => new # Tombstone
      BY <1>19 DEF Push, Phases, KeyTypeOK, Offsets, Tombstone
    <3> QED
      BY <3>1, <1>19 DEF Push, Live, Expected, Resolving, Phases, KeyTypeOK
  <2>3. CASE MustDrain
    BY <2>1, <2>2, <2>3, <1>19 DEF Push, MustDrain, Live, Expected, Resolving
  <2>4. CASE ~MustDrain
    BY <2>1, <2>2, <2>4, <1>19 DEF Push, Return, Live, Expected, Resolving
  <2> QED
    BY <2>3, <2>4
<1>20. CASE DrainWait
  <2>1. KeyRecords' = KeyRecords
    BY SameRecords, <1>20 DEF DrainWait, Return, pmVars
  <2> QED
    BY <2>1, <1>20 DEF DrainWait, Return, Live, Expected, Resolving, Phases, KeyTypeOK,
       Tombstone, Offsets
<1> QED
  BY <1>1, <1>2, <1>3, <1>4, <1>5, <1>6, <1>7, <1>8, <1>9, <1>10, <1>11, <1>12, <1>13,
     <1>14, <1>15, <1>16, <1>17, <1>18, <1>19, <1>20 DEF Write

LEMMA LiveKept ==
    ASSUME Live, UNCHANGED writerVars, KeyRecords' = KeyRecords
    PROVE  Live'
BY DEF Live, Expected, writerVars


(***************************************************************************)
(* What the records hold and a get returns.                                *)
(***************************************************************************)
LEMMA WriteFresh ==
    ASSUME KeyTypeOK, Phases, Live, Fresh, Write
    PROVE  Fresh'
<1>0. UNCHANGED <<found, began>>
  BY WriteFrame DEF readerVars
<1>1. ASSUME NEW o \in Offsets, PutWrite(o)
      PROVE  Fresh'
  <2>1. ops + 1 \in Nat \ {0} /\ done <= ops + 1 /\ done \in Int
    BY KeyBounds DEF KeyTypeOK
  <2>2. KeyRecords' = KeyRecords \cup {o}
    BY <2>1, <1>1, RecordAdded DEF PutWrite
  <2>3. vslot'[o] = ops + 1 /\ \A p \in Offsets \ {o} : vslot'[p] = vslot[p]
    BY <1>1 DEF PutWrite, KeyTypeOK
  <2>4. KeyRecords \subseteq Offsets
    BY DEF KeyRecords
  <2> QED
    BY <1>0, <2>1, <2>2, <2>3, <2>4, <1>1 DEF PutWrite, Begin, Fresh
<1>2. CASE RemoveBegin
  <2>1. UNCHANGED <<vslot, done>> /\ KeyRecords' = KeyRecords
    BY SameRecords, <1>2 DEF RemoveBegin, Begin, pmVars
  <2> QED
    BY <1>0, <2>1, <1>2 DEF RemoveBegin, Begin, Fresh
<1>3. CASE UpdateBegin
  <2>1. UNCHANGED <<vslot, done>> /\ KeyRecords' = KeyRecords
    BY SameRecords, <1>3 DEF UpdateBegin, Begin, pmVars
  <2> QED
    BY <1>0, <2>1, <1>3 DEF UpdateBegin, Begin, Fresh
<1>4. CASE ResolveHot
  <2>1. UNCHANGED <<vslot, done, num>> /\ KeyRecords' = KeyRecords
    BY SameRecords, <1>4 DEF ResolveHot, WriterGoto, ResolverUnchanged, pmVars
  <2> QED
    BY <1>0, <2>1, <1>4 DEF ResolveHot, WriterGoto, ResolverUnchanged, Fresh
<1>5. CASE VerifyHot
  <2>1. UNCHANGED <<vslot, done, num>> /\ KeyRecords' = KeyRecords
    BY SameRecords, <1>5 DEF VerifyHot, WriterGoto, ResolverUnchanged, pmVars
  <2> QED
    BY <1>0, <2>1, <1>5 DEF VerifyHot, WriterGoto, ResolverUnchanged, Fresh
<1>6. CASE ResolveCold
  <2>1. UNCHANGED <<vslot, done, num>> /\ KeyRecords' = KeyRecords
    BY SameRecords, <1>6 DEF ResolveCold, WriterGoto, ResolverUnchanged, pmVars
  <2> QED
    BY <1>0, <2>1, <1>6 DEF ResolveCold, WriterGoto, ResolverUnchanged, Fresh
<1>7. CASE VerifyCold
  <2>1. UNCHANGED <<vslot, done, num>> /\ KeyRecords' = KeyRecords
    BY SameRecords, <1>7 DEF VerifyCold, WriterGoto, ResolverUnchanged, pmVars
  <2> QED
    BY <1>0, <2>1, <1>7 DEF VerifyCold, WriterGoto, ResolverUnchanged, Fresh
<1>8. CASE FreeOld
  <2>1. off = cur /\ (op = "kPut" => off # new)
    BY <1>8 DEF FreeOld, Live, Resolving
  <2>2. \A p \in Offsets \ {off} : vslot'[p] = vslot[p]
    BY <1>8 DEF FreeOld, KeyTypeOK
  <2>3. KeyRecords' \subseteq KeyRecords \ {off}
    <3> SUFFICES ASSUME NEW p \in KeyRecords' PROVE p \in KeyRecords /\ p # off
      OBVIOUS
    <3>1. p \in Offsets /\ vslot'[p] > 0
      BY DEF KeyRecords, HoldsKey
    <3>2. p # off
      BY <3>1, <1>8 DEF FreeOld, KeyTypeOK, Free, Tombstone, Offsets
    <3> QED
      BY <2>2, <3>1, <3>2 DEF KeyRecords, HoldsKey
  <2>4. op = "kPut" => new \in Offsets
    BY <1>8 DEF FreeOld, Phases, KeyTypeOK
  <2>5. KeyRecords \subseteq Offsets
    BY DEF KeyRecords
  <2> QED
    BY <1>0, <2>1, <2>2, <2>3, <2>4, <2>5, <1>8 DEF FreeOld, Fresh
<1>9. CASE Unlock
  <2>1. UNCHANGED <<vslot, done, num>> /\ KeyRecords' = KeyRecords
    BY SameRecords, <1>9 DEF Unlock, pmVars
  <2> QED
    BY <1>0, <2>1, <1>9 DEF Unlock, Fresh
<1>10. CASE UpdateHotOnly
  <2>1. UNCHANGED <<vslot, done, num>> /\ KeyRecords' = KeyRecords
    BY SameRecords, <1>10 DEF UpdateHotOnly, WriterGoto, ResolverUnchanged, pmVars
  <2> QED
    BY <1>0, <2>1, <1>10 DEF UpdateHotOnly, WriterGoto, ResolverUnchanged, Fresh
<1>11. CASE UpdateTryHot
  <2>1. op = "update"
    BY <1>11 DEF UpdateTryHot, Phases
  <2>2. CASE Readable(off) /\ off # Tombstone /\ UpdateApply(off)
    <3>1. off \in Offsets /\ num \in Nat \ {0} /\ vslot' = [vslot EXCEPT ![off] = num]
      BY <2>2, KeyBounds DEF KeyTypeOK, UpdateApply
    <3>2. off \in KeyRecords /\ KeyRecords \subseteq {cur}
      BY <2>1, <2>2, <3>1 DEF Readable, KeyRecords, Live, Expected
    <3>3. KeyRecords' = {off}
      BY <3>1, <3>2, RecordAdded
    <3>4. vslot'[off] = num
      BY <3>1 DEF KeyTypeOK
    <3> QED
      BY <1>0, <2>1, <2>2, <3>1, <3>3, <3>4 DEF UpdateApply, Fresh
  <2>3. CASE ResolverUnchanged
    <3>1. UNCHANGED <<vslot, done, num, op>> /\ KeyRecords' = KeyRecords
      BY SameRecords, <2>3 DEF ResolverUnchanged, pmVars
    <3> QED
      BY <1>0, <2>1, <3>1 DEF Fresh
  <2> QED
    BY <2>2, <2>3, <1>11 DEF UpdateTryHot, KeyTypeOK
<1>12. CASE UpdateTryCold
  <2>1. op = "update"
    BY <1>12 DEF UpdateTryCold, Phases
  <2>2. CASE Readable(off) /\ off # Tombstone /\ UpdateApply(off)
    <3>1. off \in Offsets /\ num \in Nat \ {0} /\ vslot' = [vslot EXCEPT ![off] = num]
      BY <2>2, KeyBounds DEF KeyTypeOK, UpdateApply
    <3>2. off \in KeyRecords /\ KeyRecords \subseteq {cur}
      BY <2>1, <2>2, <3>1 DEF Readable, KeyRecords, Live, Expected
    <3>3. KeyRecords' = {off}
      BY <3>1, <3>2, RecordAdded
    <3>4. vslot'[off] = num
      BY <3>1 DEF KeyTypeOK
    <3> QED
      BY <1>0, <2>1, <2>2, <3>1, <3>3, <3>4 DEF UpdateApply, Fresh
  <2>3. CASE ResolverUnchanged
    <3>1. UNCHANGED <<vslot, done, num, op>> /\ KeyRecords' = KeyRecords
      BY SameRecords, <2>3 DEF ResolverUnchanged, pmVars
    <3> QED
      BY <1>0, <2>1, <3>1 DEF Fresh
  <2> QED
    BY <2>2, <2>3, <1>12 DEF UpdateTryCold, KeyTypeOK
<1>13. CASE EncodeFails
  <2>1. UNCHANGED <<vslot, done, num>> /\ KeyRecords' = KeyRecords
    BY SameRecords, <1>13 DEF EncodeFails, MirrorUnchanged, pmVars
  <2> QED
    BY <1>0, <2>1, <1>13 DEF EncodeFails, MirrorUnchanged, Fresh
<1>14. CASE HotStore
  <2>1. UNCHANGED <<vslot, done, num>> /\ KeyRecords' = KeyRecords
    BY SameRecords, <1>14 DEF HotStore, MirrorUnchanged, pmVars
  <2> QED
    BY <1>0, <2>1, <1>14 DEF HotStore, MirrorUnchanged, Fresh
<1>15. CASE PinOr
  <2>1. UNCHANGED <<vslot, done, num>> /\ KeyRecords' = KeyRecords
    BY SameRecords, <1>15 DEF PinOr, MirrorUnchanged, pmVars
  <2> QED
    BY <1>0, <2>1, <1>15 DEF PinOr, MirrorUnchanged, Fresh
<1>16. CASE PinAnd
  <2>1. UNCHANGED <<vslot, done, num>> /\ KeyRecords' = KeyRecords
    BY SameRecords, <1>16 DEF PinAnd, MirrorUnchanged, pmVars
  <2> QED
    BY <1>0, <2>1, <1>16 DEF PinAnd, MirrorUnchanged, Fresh
<1>17. CASE PinFails
  <2>1. UNCHANGED <<vslot, done, num>> /\ KeyRecords' = KeyRecords
    BY SameRecords, <1>17 DEF PinFails, MirrorUnchanged, pmVars
  <2> QED
    BY <1>0, <2>1, <1>17 DEF PinFails, MirrorUnchanged, Fresh
<1>18. CASE HotRemove
  <2>1. UNCHANGED <<vslot, done, num>> /\ KeyRecords' = KeyRecords
    BY SameRecords, <1>18 DEF HotRemove, MirrorUnchanged, pmVars
  <2> QED
    BY <1>0, <2>1, <1>18 DEF HotRemove, MirrorUnchanged, Fresh
<1>19. CASE Push
  <2>1. UNCHANGED vslot /\ KeyRecords' = KeyRecords /\ UNCHANGED <<op, new, num>>
    BY SameRecords, <1>19 DEF Push, pmVars
  <2>2. op \in {"kPut", "kRemove"} /\ KeyRecords = (IF op = "kPut" THEN {new} ELSE {})
    BY <1>19 DEF Push, Phases, Live, Expected, Resolving, KeyTypeOK
  <2>3. op = "kPut" => vslot[new] = num
    BY <1>19 DEF Push, Fresh
  <2>4. done' \in {done, num} /\ num \in Int
    BY <1>19 DEF Push, Return, KeyTypeOK
  <2> QED
    BY <1>0, <2>1, <2>2, <2>3, <2>4 DEF Fresh
<1>20. CASE DrainWait
  <2>1. UNCHANGED vslot /\ KeyRecords' = KeyRecords /\ UNCHANGED <<op, new, num>>
    BY SameRecords, <1>20 DEF DrainWait, pmVars
  <2>2. op \in {"kPut", "kRemove"} /\ KeyRecords = (IF op = "kPut" THEN {new} ELSE {})
    BY <1>20 DEF DrainWait, Phases, Live, Expected, Resolving, KeyTypeOK
  <2>3. op = "kPut" => vslot[new] = num
    BY <1>20 DEF DrainWait, Fresh
  <2>4. done' \in {done, num} /\ num \in Int
    BY <1>20 DEF DrainWait, Return, KeyTypeOK
  <2> QED
    BY <1>0, <2>1, <2>2, <2>3, <2>4 DEF Fresh
<1> QED
  BY <1>1, <1>2, <1>3, <1>4, <1>5, <1>6, <1>7, <1>8, <1>9, <1>10, <1>11, <1>12, <1>13,
     <1>14, <1>15, <1>16, <1>17, <1>18, <1>19, <1>20 DEF Write

LEMMA GetFresh ==
    ASSUME KeyTypeOK, Fresh, began <= done, Get
    PROVE  Fresh'
<1>1. UNCHANGED <<vslot, done, op, pc, new, num>> /\ KeyRecords' = KeyRecords
  BY GetFrame, SameRecords DEF pmVars, writerVars
<1>2. CASE GetBegin
  BY <1>1, <1>2 DEF GetBegin, Fresh
<1>3. CASE UNCHANGED <<found, began>>
  BY <1>1, <1>3 DEF Fresh
<1>4. CASE Readable(roff) /\ roff # Tombstone /\ found' = vslot[roff] /\ UNCHANGED began
  <2>1. roff \in KeyRecords /\ vslot[roff] \in Int /\ began \in Int /\ done \in Int
    BY <1>4, KeyBounds DEF Readable, KeyRecords, KeyTypeOK, Other
  <2>2. vslot[roff] >= began
    BY <2>1 DEF Fresh
  <2> QED
    BY <1>1, <1>4, <2>2 DEF Fresh
<1> QED
  BY <1>2, <1>3, <1>4 DEF Get, GetHot, GetVerifyHot, GetCold, GetVerifyCold, Warm,
     ReaderUnchanged,
     KeyTypeOK

LEMMA FreshKept ==
    ASSUME Fresh, UNCHANGED <<writerVars, found, began>>, KeyRecords' = KeyRecords,
           \A o \in KeyRecords : vslot'[o] = vslot[o],
           op = "kPut" /\ pc # "idle" => vslot'[new] = vslot[new]
    PROVE  Fresh'
BY DEF Fresh, writerVars

\* A get that runs began no later than the last completed write.
LEMMA BeganNext ==
    ASSUME KeyTypeOK, Phases, began <= done, Next
    PROVE  began' <= done'
<1>0. done \in Int /\ num \in Int /\ done <= num
  BY KeyBounds DEF KeyTypeOK, Phases
<1>1. CASE Write
  <2>1. done' \in {done, num}
    BY <1>1 DEF Write, PutWrite, RemoveBegin, UpdateBegin, ResolveHot, VerifyHot,
       ResolveCold,
       VerifyCold, FreeOld, Unlock, UpdateHotOnly, UpdateTryHot, UpdateTryCold, UpdateApply,
       EncodeFails, HotStore, PinOr, PinAnd, PinFails, HotRemove, Push, DrainWait, Return,
       ResolverUnchanged, MirrorUnchanged
  <2>2. UNCHANGED began
    BY <1>1, WriteFrame DEF readerVars
  <2> QED
    BY <1>0, <2>1, <2>2 DEF KeyTypeOK
<1>2. CASE Get
  <2>1. UNCHANGED done
    BY <1>2, GetFrame DEF writerVars
  <2>2. began' \in {began, done}
    BY <1>2 DEF Get, GetBegin, GetHot, GetVerifyHot, GetCold, GetVerifyCold, Warm,
       ReaderUnchanged
  <2> QED
    BY <1>0, <2>1, <2>2
<1>3. CASE Flush \/ Rival \/ Others
  BY <1>3, FlushFrame, RivalFrame, OthersFrame DEF writerVars, readerVars
<1> QED
  BY <1>1, <1>2, <1>3 DEF Next

(***************************************************************************)
(* The way of an offset from the lane to ColdTier.                         *)
(***************************************************************************)
LEMMA WriteConverging ==
    ASSUME KeyTypeOK, Phases, Converging, Write
    PROVE  Converging'
<1>0. UNCHANGED <<fpc, batch, winner, cold>>
  BY WriteFrame DEF flushVars
<1>1. ASSUME NEW o \in Offsets, PutWrite(o)
      PROVE  Converging'
  <2>1. Settled' => Settled /\ Target' = Target /\ UNCHANGED queue
    BY <1>1 DEF PutWrite, Begin, Settled, Target, Phases, writerVars
  <2> QED
    BY <1>0, <2>1 DEF Converging, Names
<1>2. CASE RemoveBegin
  <2>1. Settled' => Settled /\ Target' = Target /\ UNCHANGED queue
    BY <1>2 DEF RemoveBegin, Begin, Settled, Target, Phases, writerVars
  <2> QED
    BY <1>0, <2>1 DEF Converging, Names
<1>3. CASE UpdateBegin
  <2>1. Settled' => Settled /\ Target' = Target /\ UNCHANGED queue
    BY <1>3 DEF UpdateBegin, Begin, Settled, Target, Phases, writerVars
  <2> QED
    BY <1>0, <2>1 DEF Converging, Names
<1>4. CASE ResolveHot
  <2>1. Settled' => Settled /\ Target' = Target /\ UNCHANGED queue
    BY <1>4 DEF ResolveHot, WriterGoto, ResolverUnchanged, Settled, Target, Phases,
       writerVars
  <2> QED
    BY <1>0, <2>1 DEF Converging, Names
<1>5. CASE VerifyHot
  <2>1. Settled' => Settled /\ Target' = Target /\ UNCHANGED queue
    BY <1>5 DEF VerifyHot, WriterGoto, ResolverUnchanged, Settled, Target, Phases,
       writerVars
  <2> QED
    BY <1>0, <2>1 DEF Converging, Names
<1>6. CASE ResolveCold
  <2>1. Settled' => Settled /\ Target' = Target /\ UNCHANGED queue
    BY <1>6 DEF ResolveCold, WriterGoto, ResolverUnchanged, Settled, Target, Phases,
       writerVars
  <2> QED
    BY <1>0, <2>1 DEF Converging, Names
<1>7. CASE VerifyCold
  <2>1. Settled' => Settled /\ Target' = Target /\ UNCHANGED queue
    BY <1>7 DEF VerifyCold, WriterGoto, ResolverUnchanged, Settled, Target, Phases,
       writerVars
  <2> QED
    BY <1>0, <2>1 DEF Converging, Names
<1>8. CASE FreeOld
  <2>1. Settled' => Settled /\ Target' = Target /\ UNCHANGED queue
    BY <1>8 DEF FreeOld, Settled, Target, Phases, writerVars
  <2> QED
    BY <1>0, <2>1 DEF Converging, Names
<1>9. CASE Unlock
  <2>1. Settled' => Settled /\ Target' = Target /\ UNCHANGED queue
    BY <1>9 DEF Unlock, Settled, Target, Phases, writerVars
  <2> QED
    BY <1>0, <2>1 DEF Converging, Names
<1>10. CASE UpdateHotOnly
  <2>1. Settled' => Settled /\ Target' = Target /\ UNCHANGED queue
    BY <1>10 DEF UpdateHotOnly, WriterGoto, ResolverUnchanged, Settled, Target, Phases,
       writerVars
  <2> QED
    BY <1>0, <2>1 DEF Converging, Names
<1>11. CASE UpdateTryHot
  <2>1. Settled' => Settled /\ Target' = Target /\ UNCHANGED queue
    BY <1>11 DEF UpdateTryHot, WriterGoto, ResolverUnchanged, UpdateApply, Settled, Target,
       Phases, writerVars
  <2> QED
    BY <1>0, <2>1 DEF Converging, Names
<1>12. CASE UpdateTryCold
  <2>1. Settled' => Settled /\ Target' = Target /\ UNCHANGED queue
    BY <1>12 DEF UpdateTryCold, WriterGoto, ResolverUnchanged, UpdateApply, Settled, Target,
       Phases, writerVars
  <2> QED
    BY <1>0, <2>1 DEF Converging, Names
<1>13. CASE EncodeFails
  <2>1. Settled' => Settled /\ Target' = Target /\ UNCHANGED queue
    BY <1>13 DEF EncodeFails, MirrorUnchanged, Settled, Target, Phases, writerVars
  <2> QED
    BY <1>0, <2>1 DEF Converging, Names
<1>14. CASE HotStore
  <2>1. Settled' => Settled /\ Target' = Target /\ UNCHANGED queue
    BY <1>14 DEF HotStore, MirrorUnchanged, Settled, Target, Phases, writerVars
  <2> QED
    BY <1>0, <2>1 DEF Converging, Names
<1>15. CASE PinOr
  <2>1. Settled' => Settled /\ Target' = Target /\ UNCHANGED queue
    BY <1>15 DEF PinOr, MirrorUnchanged, Settled, Target, Phases, writerVars
  <2> QED
    BY <1>0, <2>1 DEF Converging, Names
<1>16. CASE PinAnd
  <2>1. Settled' => Settled /\ Target' = Target /\ UNCHANGED queue
    BY <1>16 DEF PinAnd, MirrorUnchanged, Settled, Target, Phases, writerVars
  <2> QED
    BY <1>0, <2>1 DEF Converging, Names
<1>17. CASE PinFails
  <2>1. Settled' => Settled /\ Target' = Target /\ UNCHANGED queue
    BY <1>17 DEF PinFails, MirrorUnchanged, Settled, Target, Phases, writerVars
  <2> QED
    BY <1>0, <2>1 DEF Converging, Names
<1>18. CASE HotRemove
  <2>1. Settled' => Settled /\ Target' = Target /\ UNCHANGED queue
    BY <1>18 DEF HotRemove, MirrorUnchanged, Settled, Target, Phases, writerVars
  <2> QED
    BY <1>0, <2>1 DEF Converging, Names
<1>19. CASE Push
  <2>1. queue' = Append(queue, [op |-> op, off |-> new, ref |-> ref]) /\ queue \in Seq(Entry)
    BY <1>19 DEF Push, KeyTypeOK
  <2>2. [op |-> op, off |-> new, ref |-> ref] \in Entry
    BY <1>19 DEF Push, Phases, KeyTypeOK, Entry
  <2>3. queue'[Len(queue')] = [op |-> op, off |-> new, ref |-> ref] /\ queue' # <<>>
    BY <2>1, <2>2
  <2>4. Target' = new
    BY <1>19 DEF Push, Return, Target
  <2>5. (new = Tombstone /\ op = "kRemove") \/ (new # Tombstone /\ op = "kPut")
    BY <1>19 DEF Push, Phases, KeyTypeOK, Offsets, Tombstone
  <2>6. queue'[Len(queue')].off = new /\ queue'[Len(queue')].op = op
    BY <2>3
  <2> QED
    BY <2>3, <2>4, <2>5, <2>6 DEF Converging, Names
<1>20. CASE DrainWait
  <2>1. Settled' => Settled /\ Target' = Target /\ UNCHANGED queue
    BY <1>20 DEF DrainWait, Return, Settled, Target, Phases, writerVars
  <2> QED
    BY <1>0, <2>1 DEF Converging, Names
<1> QED
  BY <1>1, <1>2, <1>3, <1>4, <1>5, <1>6, <1>7, <1>8, <1>9, <1>10, <1>11, <1>12, <1>13,
     <1>14, <1>15, <1>16, <1>17, <1>18, <1>19, <1>20 DEF Write

LEMMA FlushConverging ==
    ASSUME KeyTypeOK, Phases, Batched, Entries, Live, Converging, Flush
    PROVE  Converging'
<1>0. Settled' = Settled /\ Target' = Target
  BY FlushFrame DEF Settled, Target, writerVars
<1>1. CASE DrainLane
  BY <1>0, <1>1 DEF DrainLane, Converging, Names, Batched
<1>2. CASE ReadSlot
  BY <1>0, <1>2 DEF ReadSlot, Converging, Names
<1>3. CASE PickWinner
  <2>1. UNCHANGED <<queue, batch>> /\ batch \in Seq(Entry) /\ batch # <<>>
    BY <1>3 DEF PickWinner, Batched, KeyTypeOK
  <2>2. SUFFICES ASSUME Settled, queue = <<>>
                 PROVE  /\ fpc' = "upsert" => winner'.off = Target
                        /\ fpc' = "take" => cold' = Target
    BY <1>0, <2>1, <1>3 DEF PickWinner, Converging, Names
  <2> DEFINE last == batch[Len(batch)]
             w    == Winner(batch, canonical)
  <2>3. Names(last)
    BY <2>2, <1>3 DEF PickWinner, Converging
  <2>4. KeyRecords = {Target} \ {Tombstone} /\ Target \in Offsets \cup {Tombstone}
    <3>1. pc = "drain" => op = "kPut" /\ new \in Offsets /\ new # Tombstone
      BY DEF Phases, KeyTypeOK, Offsets, Tombstone
    <3> QED
      BY <2>2, <3>1 DEF Live, Expected, Resolving, Settled, Target, KeyTypeOK
  <2>5. last \in Entry /\ \A i \in DOMAIN batch : batch[i] \in Entry
    BY <2>1
  <2>6. last.op = "kRemove" \/ AlivePut(last)
    BY <2>3, <2>4 DEF Names, AlivePut, KeyRecords
  <2>7. \A i \in DOMAIN batch : AlivePut(batch[i]) => batch[i].off = last.off /\ batch[i].op = last.op
    <3> SUFFICES ASSUME NEW i \in DOMAIN batch, AlivePut(batch[i])
                 PROVE  batch[i].off = last.off /\ batch[i].op = last.op
      OBVIOUS
    <3>1. batch[i].op = "kPut" /\ HoldsKey(batch[i].off)
      BY DEF AlivePut
    <3>2. batch[i].off \in KeyRecords
      <4>1. batch[i].off \in Offsets \cup {Tombstone}
        BY <2>5 DEF Entry
      <4>2. batch[i].off # Tombstone
        BY <3>1 DEF Entries, KeyTypeOK, Offsets, Tombstone
      <4> QED
        BY <3>1, <4>1, <4>2 DEF KeyRecords
    <3> QED
      BY <2>3, <2>4, <3>1, <3>2 DEF Names
  <2>8. w.off = last.off /\ w.op = last.op
    BY <2>1, <2>6, <2>7, LastWins
  <2> HIDE DEF last, w
  <2>9. /\ winner' = w
        /\ cold' = IF w.op = "kRemove" THEN Tombstone ELSE cold
        /\ fpc' = IF w.op = "kPut" THEN "upsert" ELSE "take"
    BY <1>3 DEF PickWinner, w
  <2> QED
    BY <2>3, <2>8, <2>9 DEF Names
<1>4. CASE BulkUpsert
  BY <1>0, <1>4 DEF BulkUpsert, Converging, Names
<1>5. CASE TakeSlot
  <2>1. fpc \in {"take", "release"} /\ fpc' \in {"idle", "take", "release"}
      /\ UNCHANGED <<queue, cold>>
    BY <1>5 DEF TakeSlot, NextEntry, pmVars
  <2> QED
    BY <1>0, <2>1 DEF Converging, Names
<1>6. CASE ReleaseSlot
  <2>1. fpc \in {"take", "release"} /\ fpc' \in {"idle", "take", "release"}
      /\ UNCHANGED <<queue, cold>>
    BY <1>6 DEF ReleaseSlot, NextEntry, pmVars
  <2> QED
    BY <1>0, <2>1 DEF Converging, Names
<1> QED
  BY <1>1, <1>2, <1>3, <1>4, <1>5, <1>6 DEF Flush

LEMMA ConvergingKept ==
    ASSUME Converging, UNCHANGED <<writerVars, queue, flushVars, cold>>
    PROVE  Converging'
BY DEF Converging, Settled, Target, Names, writerVars, flushVars


(***************************************************************************)
(* The theorems.                                                           *)
(***************************************************************************)
LEMMA InitKeyInv == Init => KeyInv
<1> SUFFICES ASSUME Init PROVE KeyInv
  OBVIOUS
<1>1. 0 \in Offsets /\ Tombstone \notin Offsets
  BY AddressAssumption DEF Offsets, Tombstone
<1>2. KeyRecords = {0}
  BY <1>1 DEF Init, KeyRecords, HoldsKey, Free
<1>3. KeyTypeOK
  <2>1. vslot \in [Offsets -> Other .. MaxOps + 1]
    BY KeyBounds DEF Init, Other, Free
  <2>2. /\ queue \in Seq(Entry) /\ batch \in Seq(Entry) /\ k \in 1 .. Len(batch) + 1
        /\ ops \in 1 .. MaxOps + 1 /\ gets \in 0 .. MaxGets
        /\ rivals \in 0 .. MaxRivals /\ others \in 0 .. MaxOthers
    BY KeyBounds DEF Init
  <2> QED
    BY <1>1, <2>1, <2>2 DEF Init, KeyTypeOK, Tombstone
<1>4. Phases /\ Batched
  BY DEF Init, Phases, Batched
<1>5. Entries
  BY DEF Init, Entries
<1>6. Placed
  <2>1. hot.fp # "key"
    BY SlotFields DEF Init
  <2> QED
    BY <1>2, <2>1 DEF Init, Placed, Free
<1>7. Live /\ Fresh
  BY <1>1, <1>2 DEF Init, Live, Expected, Resolving, Fresh
<1>8. Converging
  BY DEF Init, Converging, Target
<1> QED
  BY <1>3, <1>4, <1>5, <1>6, <1>7, <1>8 DEF KeyInv, Init

LEMMA NextKeyInv == KeyInv /\ [Next]_vars => KeyInv'
<1> SUFFICES ASSUME KeyInv, [Next]_vars PROVE KeyInv'
  OBVIOUS
<1>1. /\ KeyTypeOK /\ Phases /\ Batched /\ Entries /\ Placed /\ began <= done
      /\ ~leaked => Live /\ Fresh /\ Converging
  BY DEF KeyInv
<1>2. CASE UNCHANGED vars
  <2>1. /\ UNCHANGED <<vslot, held, hot, hstate, cold, queue, fpc, batch, canonical, winner, k>>
        /\ UNCHANGED <<pc, op, off, new, ref, ops, num, done, cur, rpc, roff, gets, began, found>>
        /\ UNCHANGED <<xpc, rivals, others, places, leaked>>
    BY <1>2 DEF vars, pmVars, hotVars, flushVars, writerVars, readerVars, envVars
  <2>2. KeyRecords' = KeyRecords
    BY <2>1, SameRecords
  <2>3. KeyTypeOK' /\ Phases' /\ Batched' /\ Entries' /\ began' <= done'
    BY <1>1, <2>1 DEF KeyTypeOK, Phases, Batched, Entries
  <2>4. Placed'
    BY <1>1, <2>1, <2>2 DEF Placed
  <2>5. ~leaked' => Live' /\ Fresh' /\ Converging'
    BY <1>1, <2>1, <2>2 DEF Live, Expected, Fresh, Converging, Settled, Target, Names
  <2> QED
    BY <2>3, <2>4, <2>5 DEF KeyInv
<1>3. CASE Next
  <2>1. History /\ (Write \/ Flush \/ Get \/ Rival \/ Others)
    BY <1>3 DEF Next, History
  <2>2. KeyTypeOK'
    BY <1>1, <2>1, WriteTypes, FlushTypes, GetTypes, RivalTypes, OthersTypes
  <2>3. Phases'
    <3>1. ~Write => UNCHANGED writerVars
      BY <2>1, FlushFrame, GetFrame, RivalFrame, OthersFrame
    <3> QED
      BY <1>1, <2>1, <3>1, WritePhases, PhasesKept
  <2>4. Batched'
    <3>1. ~Flush => UNCHANGED flushVars
      BY <2>1, WriteFrame, GetFrame, RivalFrame, OthersFrame
    <3> QED
      BY <1>1, <3>1, FlushBatched, BatchedKept
  <2>5. Entries' /\ began' <= done'
    BY <1>1, <1>3, EntriesNext, BeganNext
  <2>6. Placed'
    BY <1>1, <2>1, WritePlaced, FlushPlaced, GetPlaced, RivalPlaced, OthersPlaced
  <2>7. ASSUME ~leaked'
        PROVE  Live' /\ Fresh' /\ Converging'
    <3>1. ~leaked /\ ~Missed'
      BY <2>1, <2>7 DEF History
    <3>2. Live /\ Fresh /\ Converging
      BY <1>1, <3>1
    <3>3. CASE Write
      BY <1>1, <3>1, <3>2, <3>3, WriteLive, WriteFresh, WriteConverging
    <3>4. CASE Flush
      <4>1. UNCHANGED <<vslot, writerVars, found, began>> /\ KeyRecords' = KeyRecords
        BY <3>4, FlushFrame, SameRecords DEF readerVars
      <4> QED
        BY <1>1, <3>2, <3>4, <4>1, LiveKept, FreshKept, FlushConverging
    <3>5. CASE Get
      <4>1. UNCHANGED <<vslot, cold, writerVars, queue, flushVars>> /\ KeyRecords' = KeyRecords
        BY <3>5, GetFrame, SameRecords DEF pmVars
      <4> QED
        BY <1>1, <3>2, <3>5, <4>1, LiveKept, GetFresh, ConvergingKept
    <3>6. CASE Rival
      <4>1. UNCHANGED <<vslot, cold, writerVars, queue, flushVars, found, began>>
            /\ KeyRecords' = KeyRecords
        BY <3>6, RivalFrame, SameRecords DEF pmVars, readerVars
      <4> QED
        BY <3>2, <4>1, LiveKept, FreshKept, ConvergingKept
    <3>7. CASE Others
      <4>1. UNCHANGED <<cold, writerVars, queue, flushVars, found, began>> /\ KeyRecords' = KeyRecords
        BY <1>1, <3>7, OthersFrame, OthersRecords DEF readerVars
      <4>2. \A o \in KeyRecords : vslot'[o] = vslot[o]
        <5> SUFFICES ASSUME NEW o \in KeyRecords PROVE vslot'[o] = vslot[o]
          OBVIOUS
        <5>1. o \in Offsets /\ vslot[o] > 0 /\ vslot[o] \in Int
          BY <1>1 DEF KeyRecords, HoldsKey, KeyTypeOK, Other
        <5>2. vslot'[o] # vslot[o] => vslot[o] <= 0
          BY <1>1, <3>7, <5>1, OthersRecords
        <5> QED
          BY <5>1, <5>2
      <4>3. op = "kPut" /\ pc # "idle" => new \in KeyRecords
        <5>1. num \in Int /\ num > 0
          BY <1>1, KeyBounds DEF KeyTypeOK
        <5> QED
          BY <1>1, <3>2, <5>1 DEF Fresh, Phases, KeyTypeOK, KeyRecords, HoldsKey
      <4> QED
        BY <3>2, <4>1, <4>2, <4>3, LiveKept, FreshKept, ConvergingKept
    <3> QED
      BY <2>1, <3>3, <3>4, <3>5, <3>6, <3>7
  <2> QED
    BY <2>2, <2>3, <2>4, <2>5, <2>6, <2>7 DEF KeyInv
<1> QED
  BY <1>2, <1>3

\* KeyInv holds of every state.
THEOREM KeyInvariance == Spec => []KeyInv
<1>1. Init => KeyInv
  BY InitKeyInv
<1>2. KeyInv /\ [Next]_vars => KeyInv'
  BY NextKeyInv
<1> QED
  BY <1>1, <1>2, PTL DEF Spec

\* Between two writes the key has the one live VPage slot its last write left
\* it in, unless a resolver missed one (Client::put, remove, update,
\* free_occupied_slot).
THEOREM OneRecord == Spec => []SingleLive
<1>1. KeyInv => SingleLive
  BY DEF KeyInv, SingleLive, Live, Expected, Resolving
<1> QED
  BY <1>1, KeyInvariance, PTL

\* A get returns no value older than the last write completed before it began
\* (Client::get, verify_and_read_offset).
THEOREM NoStaleRead == Spec => []FreshReads
<1>1. KeyInv => FreshReads
  BY DEF KeyInv, FreshReads, Fresh
<1> QED
  BY <1>1, KeyInvariance, PTL

\* ColdTier has the key's live record once the commit entries are applied
\* (apply_batch).
THEOREM BatchesConverge == Spec => []QuietConverged
<1>1. KeyInv => QuietConverged
  BY DEF KeyInv, QuietConverged, Quiet, Converging, Settled, Target
<1> QED
  BY <1>1, KeyInvariance, PTL

\* HotTier's offset is one the key was stored at, and no step follows a
\* tombstone (encode, decode, mirror_write_with_offset, Client::get).
THEOREM HotLeadsHome == Spec => []HotNamesKey
<1>1. KeyInv => HotNamesKey
  BY HotOffsetPlaced DEF KeyInv, HotNamesKey
<1> QED
  BY <1>1, KeyInvariance, PTL

=============================================================================
