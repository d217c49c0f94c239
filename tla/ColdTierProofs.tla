--------------------------- MODULE ColdTierProofs ---------------------------
(***************************************************************************)
(* ColdTier keeps what it acknowledged, for every number of keys, buckets  *)
(* and entries, every group and every number of power failures.            *)
(***************************************************************************)
EXTENDS ColdTier, FiniteSetTheorems, NaturalsInduction, WellFoundedInduction, TLAPS


EntryRec == [key: Keys, off: 1..Tombstone]
Headers == [occ: SUBSET Slots, next: 0..NumOverflow]
Ops == [entries: Seq(EntryRec), n: Nat, at: (0..(NumMain + NumOverflow)) \X (0..NumSlots),
        tail: Buckets \cup {0}, dirty: Seq(Buckets), flipped: Nat,
        spots: SUBSET (Buckets \X Slots), bits: [Buckets -> SUBSET Slots]]
Readers == [pc: {"idle", "header", "scan", "done"}, key: Keys \cup {NoKey},
            bucket: Buckets \cup {0}, hdr: Headers, allowed: SUBSET (0..MaxWrites),
            result: 0..MaxWrites]

Single == {"upsert", "persistOffset", "storeKey", "storeOffset", "persistEntry", "publish",
           "persistHeader", "link", "persistLink", "remove"}
Bulk == {"stage", "attach", "drain", "flip"}
Placed == {"persistOffset", "storeKey", "storeOffset", "persistEntry", "publish",
           "persistHeader", "link", "persistLink", "attach"}

\* The types, whatever failures there were.
Typed ==
    /\ mem \in Memory /\ pm \in Memory
    /\ pc \in Single \cup Bulk \cup {"idle"}
    /\ op \in Ops /\ reader \in Readers
    /\ may \in [Keys -> SUBSET (0..MaxWrites)]
    /\ writes \in 0..MaxWrites
    /\ op.n <= Len(op.entries)
    /\ op.flipped <= Len(op.dirty)
    /\ pc = "idle" => op = NoOp
    /\ pc \in Single \cup {"stage", "attach"} => op.n < Len(op.entries)
    /\ pc \in Placed => op.at \in Buckets \X Slots
    /\ pc \in {"storeKey", "link", "persistLink", "attach"} => op.tail # 0 /\ op.at[1] > NumMain
    /\ pc \in {"upsert", "remove"} => op.tail = 0
    /\ pc \in Single /\ op.tail # 0 => op.at[1] > NumMain
    /\ reader.pc \in {"header", "scan"} => reader.key \in Keys /\ reader.bucket \in Buckets

Reach(m, b) == Range(Chain(m, b))
OccAt(m, x) == m.hdr[x].occ
NextAt(m, x) == m.hdr[x].next

NoBits == [b \in Buckets |-> {}]
\* The entries of k in its chain that are published in m or claimed in bits.
Holding(m, bits, k) ==
    {z \in Buckets \X Slots : /\ z[1] \in Reach(m, Home[k])
                              /\ z[2] \in m.hdr[z[1]].occ \cup bits[z[1]]
                              /\ m.key[z[1]][z[2]] = k}
Pub(m, k) == Holding(m, NoBits, k)
Liv(k) == Holding(mem, op.bits, k)
OffAt(m, z) == m.off[z[1]][z[2]]
Seen(o) == IF o = Tombstone THEN Miss ELSE o

\* Links lead to younger buckets that were handed out, and no two to the same.
Links ==
    /\ \A x \in Buckets : NextAt(mem, x) # NoOverflow =>
          /\ overflow_bucket_of(NextAt(mem, x)) > x
          /\ NextAt(mem, x) <= mem.alloc
    /\ \A x, y \in Buckets : NextAt(mem, x) # NoOverflow /\ NextAt(mem, x) = NextAt(mem, y) => x = y
    /\ \A x \in Buckets : x > NumMain + mem.alloc => mem.hdr[x] = [occ |-> {}, next |-> NoOverflow]

\* The media lag behind: no bit, no link that is not in memory.
Behind ==
    \A x \in Buckets : /\ pm.hdr[x].occ \subseteq mem.hdr[x].occ
                       /\ NextAt(pm, x) \in {NoOverflow, NextAt(mem, x)}

DirtyHeaders ==
    CASE pc = "persistHeader" -> {op.at[1]}
      [] pc = "persistLink" -> {op.tail}
      [] pc \in Bulk -> Range(op.dirty)
      [] OTHER -> {}
DirtySpots ==
    CASE pc \in {"persistOffset", "storeOffset", "persistEntry"} -> {op.at}
      [] pc \in {"stage", "attach", "drain"} -> op.spots
      [] OTHER -> {}
\* Outside what the writer has yet to persist the two agree.
Synced ==
    /\ \A x \in Buckets : x \notin DirtyHeaders => pm.hdr[x] = mem.hdr[x]
    /\ \A x \in Buckets, s \in Slots : <<x, s>> \notin DirtySpots =>
          pm.key[x][s] = mem.key[x][s] /\ pm.off[x][s] = mem.off[x][s]

Values ==
    /\ \A k \in Keys : \A y, z \in Liv(k) : y = z
    /\ \A k \in Keys : \A z \in Liv(k) : Seen(OffAt(mem, z)) \in may[k]
    /\ \A x \in Buckets : \A s \in mem.hdr[x].occ : pm.key[x][s] = mem.key[x][s]
    /\ \A k \in Keys : \A z \in Pub(mem, k) : Seen(OffAt(pm, z)) \in may[k]
    /\ \A k \in Keys : Pub(pm, k) = {} => Miss \in may[k]

\* The offsets in memory were handed out, and those still to be stored are new.
Fresh ==
    /\ \A x \in Buckets, s \in Slots : {mem.off[x][s], pm.off[x][s]} \subseteq 0..writes \cup {Tombstone}
    /\ \A i \in 1..Len(op.entries) : op.entries[i].off \in 1..writes \cup {Tombstone}
    /\ pc # "idle" => \A i \in 1..Len(op.entries) : Seen(op.entries[i].off) \in may[op.entries[i].key]
    /\ pc \in Bulk \cup {"upsert"} =>
          \A i \in 1..Len(op.entries) : op.entries[i].off # Tombstone
    /\ pc \in Bulk \cup {"upsert"} =>
          \A i \in 1..Len(op.entries) : (i > op.n /\ ~(pc = "attach" /\ i = op.n + 1)) =>
             \A x \in Buckets, s \in Slots : op.entries[i].off \notin {mem.off[x][s], pm.off[x][s]}

Unlinked(x) == \A y \in Buckets : overflow_bucket_of(NextAt(mem, y)) # x
\* A new bucket, before it is attached.
NewBucket(k) ==
    LET new == op.at[1]
    IN  /\ op.at[2] = 1
        /\ new = NumMain + mem.alloc /\ mem.alloc > 0
        /\ NextAt(mem, new) = NoOverflow
        /\ Unlinked(new)
        /\ NextAt(mem, op.tail) = NoOverflow
        /\ op.tail \in Reach(mem, Home[k])

Singly ==
    pc \in Single =>
    LET e == op.entries[1]
    IN  /\ op.n = 0 /\ Len(op.entries) = 1
        /\ op.bits = NoBits
        /\ pc = "remove" => e.off = Tombstone
        /\ pc = "persistOffset" => op.at \in Pub(mem, e.key) /\ OffAt(mem, op.at) = e.off
        /\ pc \in {"storeOffset", "persistEntry", "publish"} /\ op.tail = 0 =>
              /\ op.at[1] \in Reach(mem, Home[e.key])
              /\ op.at[2] \notin mem.hdr[op.at[1]].occ
        /\ pc = "persistHeader" /\ op.tail = 0 => op.at \in Pub(mem, e.key)
        /\ pc \in {"storeKey", "storeOffset", "persistEntry", "publish", "link"} => Pub(mem, e.key) = {}
        /\ pc = "persistHeader" /\ op.tail # 0 => Pub(mem, e.key) = {}
        /\ pc \in {"storeOffset", "persistEntry", "publish", "persistHeader", "link", "persistLink"} =>
              mem.key[op.at[1]][op.at[2]] = e.key
        /\ pc \in {"persistEntry", "publish", "persistHeader", "link", "persistLink"} =>
              OffAt(mem, op.at) = e.off
        /\ pc \in {"storeKey", "storeOffset", "persistEntry", "publish", "persistHeader", "link"} /\ op.tail # 0 =>
              /\ NewBucket(e.key)
              /\ mem.hdr[op.at[1]].occ = IF pc \in {"persistHeader", "link"} THEN {1} ELSE {}
        /\ pc = "persistLink" => op.at \in Pub(mem, e.key)

\* A group: keys of one bucket, each once, and offsets that differ.
GroupEntries ==
    /\ op.entries # <<>>
    /\ \A i, j \in 1..Len(op.entries) :
          /\ Home[op.entries[i].key] = Home[op.entries[j].key]
          /\ (op.entries[i].key = op.entries[j].key \/ op.entries[i].off = op.entries[j].off) => i = j
\* What it claimed will be persisted and is in the chain.
GroupClaims ==
    /\ \A x \in Buckets : \A s \in op.bits[x] :
          /\ <<x, s>> \in op.spots /\ x \in Range(op.dirty)
          /\ x \in Reach(mem, Home[op.entries[1].key]) \/ (pc = "attach" /\ <<x, s>> = op.at)
    /\ op.dirty = <<>> => op.n = 0 /\ op.spots = {}
\* What it staged is live.
GroupStaged ==
    \A i \in 1..op.n : \E z \in Liv(op.entries[i].key) : OffAt(mem, z) = op.entries[i].off
\* A new bucket holds the entry it was made for.
GroupNew ==
    LET e == op.entries[op.n + 1]
    IN  /\ NewBucket(e.key)
        /\ mem.hdr[op.at[1]].occ = {} /\ op.bits[op.at[1]] = {1}
        /\ mem.key[op.at[1]][1] = e.key /\ mem.off[op.at[1]][1] = e.off
        /\ Liv(e.key) = {}
        /\ op.dirty # <<>>
GroupFlipped == \A i \in 1..op.flipped : op.bits[op.dirty[i]] \subseteq mem.hdr[op.dirty[i]].occ

Grouped ==
    /\ pc \in Bulk => GroupEntries /\ GroupClaims /\ GroupStaged
    /\ pc = "attach" => GroupNew
    /\ pc \in {"stage", "attach", "drain"} => op.flipped = 0
    /\ pc = "flip" => GroupFlipped

Ahead(z, x) == z[1] \in Reach(mem, x)
Reading ==
    /\ reader.pc \in {"header", "scan"} =>
          /\ may[reader.key] \subseteq reader.allowed
          /\ reader.bucket \in Reach(mem, Home[reader.key])
    /\ reader.pc = "header" =>
          Miss \in reader.allowed \/ \E z \in Pub(mem, reader.key) : Ahead(z, reader.bucket)
    /\ reader.pc = "scan" =>
          /\ reader.hdr.occ \subseteq mem.hdr[reader.bucket].occ
          /\ reader.hdr.next # NoOverflow => NextAt(mem, reader.bucket) = reader.hdr.next
          /\ \/ Miss \in reader.allowed
             \/ \E z \in Pub(mem, reader.key) :
                  \/ z[1] = reader.bucket /\ z[2] \in reader.hdr.occ
                  \/ reader.hdr.next # NoOverflow /\ Ahead(z, overflow_bucket_of(reader.hdr.next))
    /\ reader.pc = "done" => reader.result \in reader.allowed

Sound == Links /\ Behind /\ Synced /\ Values /\ Fresh /\ Singly /\ Grouped /\ Reading

ColdInv == Typed /\ (~rewound => Sound)

-----------------------------------------------------------------------------
(* Numbers.                                                                *)

\* A set of natural numbers has a least element.
LEMMA LeastExists ==
    ASSUME NEW S \in SUBSET Nat, S # {}
    PROVE  \E x \in S : \A y \in S : x <= y
<1> DEFINE R == {ss \in Nat \X Nat : ss[1] < ss[2]}
<1>1. IsWellFoundedOn(R, Nat)
  BY NatLessThanWellFounded DEF OpToRel
<1> HIDE DEF R
<1>2. PICK x \in S : \A y \in S : ~(<<y, x>> \in R)
  BY <1>1, WFMin
<1>3. \A y \in S : ~(y < x)
  BY <1>2 DEF R
<1> QED
  BY <1>3

\* Induction along an interval, for a set instead of a predicate.
LEMMA Climb ==
    ASSUME NEW a \in Nat, NEW n \in Nat, NEW S,
           a \in S, \A i \in a .. n - 1 : i \in S => i + 1 \in S
    PROVE  \A i \in a .. n : i \in S
<1> SUFFICES ASSUME \E i \in a .. n : i \notin S PROVE FALSE
  OBVIOUS
<1> DEFINE T == {i \in a .. n : i \notin S}
<1>1. T \in SUBSET Nat /\ T # {}
  OBVIOUS
<1>2. PICK x \in T : \A y \in T : x <= y
  BY <1>1, LeastExists
<1>3. x # a /\ x - 1 \in a .. n - 1 /\ x - 1 \notin T
  BY <1>2
<1>4. x - 1 \in S
  BY <1>3
<1>5. (x - 1) + 1 \in S
  BY <1>3, <1>4
<1> QED
  BY <1>2, <1>5

\* First picks an element, the least.
LEMMA FirstIn ==
    ASSUME NEW S \in SUBSET Nat, S # {}
    PROVE  First(S) \in S /\ \A y \in S : First(S) <= y
BY LeastExists DEF First

-----------------------------------------------------------------------------
(* What Chain computes.                                                    *)

IsWalk(m, b, n, w) ==
    w = [i \in 0..n |-> IF i = 0 THEN <<b>> ELSE Longer(m, w[i-1])]

LEMMA WalkExists ==
    ASSUME NEW m, NEW b, NEW n \in Nat
    PROVE  \E w : IsWalk(m, b, n, w)
<1> DEFINE S == {i \in Nat : \E w : IsWalk(m, b, i, w)}
<1>1. 0 \in S
  <2> DEFINE w == [i \in 0..0 |-> <<b>>]
  <2>1. IsWalk(m, b, 0, w)
    BY DEF IsWalk
  <2> QED
    BY <2>1
<1>2. ASSUME NEW i \in 0 .. n - 1, i \in S PROVE i + 1 \in S
  <2>1. PICK w : IsWalk(m, b, i, w)
    BY <1>2
  <2> DEFINE v == [j \in 0 .. i + 1 |-> IF j = i + 1 THEN Longer(m, w[i]) ELSE w[j]]
  <2>2. \A j \in 0 .. i : w[j] = IF j = 0 THEN <<b>> ELSE Longer(m, w[j-1])
    BY <2>1 DEF IsWalk
  <2>3. \A j \in 0 .. i + 1 : v[j] = IF j = 0 THEN <<b>> ELSE Longer(m, v[j-1])
    <3> SUFFICES ASSUME NEW j \in 0 .. i + 1
                 PROVE  v[j] = IF j = 0 THEN <<b>> ELSE Longer(m, v[j-1])
      OBVIOUS
    <3>1. CASE j = i + 1
      <4>1. j # 0 /\ j - 1 = i /\ v[i] = w[i] /\ v[j] = Longer(m, w[i])
        BY <3>1
      <4> QED
        BY <4>1
    <3>2. CASE j \in 1 .. i
      <4>1. j # 0 /\ j # i + 1 /\ j - 1 # i + 1 /\ j - 1 \in 0 .. i + 1 /\ v[j] = w[j] /\ v[j-1] = w[j-1]
        BY <3>2
      <4> QED
        BY <4>1, <3>2, <2>2
    <3>3. CASE j = 0
      <4>1. v[0] = w[0]
        OBVIOUS
      <4> QED
        BY <4>1, <3>3, <2>2
    <3> QED
      BY <3>1, <3>2, <3>3
  <2>4. v = [j \in 0 .. i + 1 |-> v[j]]
    OBVIOUS
  <2> HIDE DEF v
  <2>5. IsWalk(m, b, i + 1, v)
    BY <2>3, <2>4 DEF IsWalk
  <2> QED
    BY <2>5
<1> HIDE DEF S
<1>3. n \in S
  BY <1>1, <1>2, Climb
<1> QED
  BY <1>3 DEF S

\* The walk behind Chain.
LEMMA ChainWalk ==
    ASSUME NEW m, NEW b
    PROVE  \E w : IsWalk(m, b, NumOverflow, w) /\ Chain(m, b) = w[NumOverflow]
<1> DEFINE w == CHOOSE v : v = [i \in 0..NumOverflow |-> IF i = 0 THEN <<b>> ELSE Longer(m, v[i-1])]
<1>1. Chain(m, b) = w[NumOverflow]
  BY DEF Chain
<1>2. \E v : v = [i \in 0..NumOverflow |-> IF i = 0 THEN <<b>> ELSE Longer(m, v[i-1])]
  <2>1. NumOverflow \in Nat
    BY ColdAssumption
  <2>2. PICK v : IsWalk(m, b, NumOverflow, v)
    BY <2>1, WalkExists
  <2> QED
    BY <2>2 DEF IsWalk
<1>3. IsWalk(m, b, NumOverflow, w)
  BY <1>2 DEF IsWalk
<1> QED
  BY <1>1, <1>3

\* A chain begins at its bucket, every bucket in it leads to the one behind it,
\* and it ends where nothing follows unless the walk was cut.
LEMMA ChainShape ==
    ASSUME NEW m \in Memory, NEW b \in Buckets
    PROVE  /\ Chain(m, b) \in Seq(Buckets)
           /\ Len(Chain(m, b)) \in 1 .. NumOverflow + 1
           /\ Chain(m, b)[1] = b
           /\ \A i \in 1 .. Len(Chain(m, b)) - 1 :
                 /\ NextAt(m, Chain(m, b)[i]) # NoOverflow
                 /\ Chain(m, b)[i+1] = overflow_bucket_of(NextAt(m, Chain(m, b)[i]))
           /\ \/ NextAt(m, Last(Chain(m, b))) = NoOverflow
              \/ Len(Chain(m, b)) = NumOverflow + 1
<1> DEFINE Good(c, n) ==
             /\ c \in Seq(Buckets)
             /\ Len(c) \in 1 .. n + 1
             /\ c[1] = b
             /\ \A i \in 1 .. Len(c) - 1 : /\ NextAt(m, c[i]) # NoOverflow
                                           /\ c[i+1] = overflow_bucket_of(NextAt(m, c[i]))
             /\ NextAt(m, Last(c)) = NoOverflow \/ Len(c) = n + 1
<1>0. NumOverflow \in Nat /\ NumMain \in Nat
  BY ColdAssumption
<1>1. PICK w : IsWalk(m, b, NumOverflow, w) /\ Chain(m, b) = w[NumOverflow]
  BY ChainWalk
<1>2. w[0] = <<b>> /\ \A i \in 1 .. NumOverflow : w[i] = Longer(m, w[i-1])
  BY <1>0, <1>1 DEF IsWalk
<1> DEFINE S == {n \in 0 .. NumOverflow : Good(w[n], n)}
<1>3. 0 \in S
  <2>1. Good(<<b>>, 0)
    BY DEF Last
  <2>2. Good(w[0], 0)
    <3> HIDE DEF Good
    <3> QED
      BY <1>2, <2>1
  <2> QED
    BY <1>0, <2>2
<1>4. ASSUME NEW n \in 0 .. NumOverflow - 1, n \in S PROVE n + 1 \in S
  <2> DEFINE c == w[n]
  <2>1. Good(c, n)
    BY <1>4
  <2>2. w[n+1] = Longer(m, c) /\ n + 1 \in 0 .. NumOverflow
    BY <1>2, <1>0
  <2>3. Last(c) \in Buckets /\ Last(c) = c[Len(c)] /\ Len(c) \in Nat
    BY <2>1 DEF Last
  <2> HIDE DEF c
  <2>4. CASE NextAt(m, Last(c)) = NoOverflow
    <3>1. w[n+1] = c
      BY <2>2, <2>4 DEF Longer, NextAt
    <3>2. Good(c, n + 1)
      BY <2>1, <2>3, <2>4
    <3> QED
      BY <3>1, <3>2, <2>2
  <2>5. CASE NextAt(m, Last(c)) # NoOverflow
    <3> DEFINE x == overflow_bucket_of(NextAt(m, Last(c)))
               d == Append(c, x)
    <3>1. w[n+1] = d
      BY <2>2, <2>5 DEF Longer, NextAt
    <3>2. NextAt(m, Last(c)) \in 1 .. NumOverflow
      BY <2>3, <2>5 DEF Memory, NextAt, NoOverflow
    <3>3. x \in Buckets
      BY <3>2, <1>0 DEF overflow_bucket_of, Buckets
    <3> HIDE DEF x
    <3>4. /\ d \in Seq(Buckets) /\ Len(d) = Len(c) + 1 /\ d[Len(c) + 1] = x
          /\ \A i \in 1 .. Len(c) : d[i] = c[i]
      BY <2>1, <3>3
    <3> HIDE DEF d
    <3>5. Len(c) = n + 1
      BY <2>1, <2>5
    <3>6. \A i \in 1 .. Len(d) - 1 : /\ NextAt(m, d[i]) # NoOverflow
                                     /\ d[i+1] = overflow_bucket_of(NextAt(m, d[i]))
      <4> SUFFICES ASSUME NEW i \in 1 .. Len(d) - 1
                   PROVE  /\ NextAt(m, d[i]) # NoOverflow
                          /\ d[i+1] = overflow_bucket_of(NextAt(m, d[i]))
        OBVIOUS
      <4>1. CASE i = Len(c)
        <5>1. d[i] = Last(c) /\ d[i+1] = x
          BY <4>1, <3>4, <2>3, <2>1
        <5> QED
          BY <5>1, <2>5 DEF x
      <4>2. CASE i \in 1 .. Len(c) - 1
        <5>1. d[i] = c[i] /\ d[i+1] = c[i+1]
          BY <4>2, <3>4, <2>3
        <5> QED
          BY <5>1, <4>2, <2>1
      <4> QED
        BY <4>1, <4>2, <3>4, <2>3
    <3>7. Good(d, n + 1)
      <4>1. d[1] = b
        BY <2>1, <3>4
      <4>2. Len(d) = (n + 1) + 1
        BY <3>4, <3>5
      <4> QED
        BY <3>4, <3>6, <4>1, <4>2
    <3> QED
      BY <3>1, <3>7, <2>2
  <2> QED
    BY <2>4, <2>5
<1> HIDE DEF S
<1>5. NumOverflow \in S
  BY <1>0, <1>3, <1>4, Climb
<1>6. Good(w[NumOverflow], NumOverflow)
  BY <1>5 DEF S
<1> QED
  BY <1>1, <1>6

\* Links lead to younger buckets.
Up(m) == \A x \in Buckets : NextAt(m, x) # NoOverflow => overflow_bucket_of(NextAt(m, x)) > x

\* Then a chain is increasing, so it ends.
LEMMA ChainUp ==
    ASSUME NEW m \in Memory, NEW b \in Buckets, Up(m)
    PROVE  /\ \A i, j \in 1 .. Len(Chain(m, b)) : i < j => Chain(m, b)[i] < Chain(m, b)[j]
           /\ NextAt(m, Last(Chain(m, b))) = NoOverflow
<1> DEFINE c == Chain(m, b)
<1>0. NumOverflow \in Nat /\ NumMain \in Nat /\ NumMain >= 1
  BY ColdAssumption
<1>1. /\ c \in Seq(Buckets) /\ Len(c) \in 1 .. NumOverflow + 1
      /\ \A i \in 1 .. Len(c) - 1 : /\ NextAt(m, c[i]) # NoOverflow
                                    /\ c[i+1] = overflow_bucket_of(NextAt(m, c[i]))
      /\ NextAt(m, Last(c)) = NoOverflow \/ Len(c) = NumOverflow + 1
  BY ChainShape
<1> HIDE DEF c
<1>2. \A i \in 1 .. Len(c) : c[i] \in Buckets /\ c[i] \in Nat
  BY <1>1, <1>0 DEF Buckets
<1>3. \A i \in 1 .. Len(c) - 1 : c[i] < c[i+1] /\ c[i+1] > NumMain
  <2> SUFFICES ASSUME NEW i \in 1 .. Len(c) - 1 PROVE c[i] < c[i+1] /\ c[i+1] > NumMain
    OBVIOUS
  <2>1. c[i] \in Buckets
    BY <1>2, <1>1
  <2>2. overflow_bucket_of(NextAt(m, c[i])) > c[i]
    BY <1>1, <2>1 DEF Up
  <2>3. NextAt(m, c[i]) \in 0 .. NumOverflow /\ NextAt(m, c[i]) # 0
    BY <2>1, <1>1 DEF Memory, NextAt, NoOverflow
  <2> QED
    BY <1>0, <1>1, <1>2, <2>2, <2>3 DEF overflow_bucket_of
<1>4. ASSUME NEW i \in 1 .. Len(c), NEW j \in 1 .. Len(c), i < j PROVE c[i] < c[j]
  <2> DEFINE S == {k \in i + 1 .. Len(c) : c[i] < c[k]}
  <2>1. i + 1 \in S
    BY <1>1, <1>3, <1>4
  <2>2. ASSUME NEW k \in i + 1 .. Len(c) - 1, k \in S PROVE k + 1 \in S
    <3>1. c[k] < c[k+1] /\ c[i] < c[k] /\ k + 1 \in i + 1 .. Len(c) /\ k \in 1 .. Len(c)
      BY <1>1, <1>3, <2>2
    <3>2. c[i] \in Nat /\ c[k] \in Nat /\ c[k+1] \in Nat
      BY <1>1, <1>2, <3>1
    <3> QED
      BY <3>1, <3>2
  <2> HIDE DEF S
  <2>3. i + 1 \in Nat /\ Len(c) \in Nat /\ j \in i + 1 .. Len(c)
    BY <1>1, <1>4
  <2>4. j \in S
    BY <2>1, <2>2, <2>3, Climb
  <2> QED
    BY <2>4 DEF S
<1>5. NextAt(m, Last(c)) = NoOverflow
  <2> SUFFICES ASSUME NextAt(m, Last(c)) # NoOverflow PROVE FALSE
    OBVIOUS
  <2>1. Len(c) = NumOverflow + 1 /\ Last(c) = c[Len(c)] /\ Last(c) \in Buckets
    BY <1>1 DEF Last
  <2>2. NextAt(m, Last(c)) \in 1 .. NumOverflow
    BY <2>1 DEF Memory, NextAt, NoOverflow
  <2> DEFINE S == {k \in 1 .. Len(c) : c[k] >= IF k = 1 THEN 1 ELSE NumMain + k - 1}
  <2>3. 1 \in S
    BY <1>1, <1>2 DEF Buckets
  <2>4. ASSUME NEW k \in 1 .. Len(c) - 1, k \in S PROVE k + 1 \in S
    <3>1. c[k] \in Nat /\ c[k+1] \in Nat /\ c[k] < c[k+1] /\ c[k+1] > NumMain /\ k + 1 \in 1 .. Len(c)
      BY <1>1, <1>2, <1>3
    <3>2. c[k+1] >= NumMain + (k + 1) - 1
      BY <2>4, <3>1, <1>0
    <3> QED
      BY <3>1, <3>2, <1>0
  <2> HIDE DEF S
  <2>5. Len(c) \in Nat /\ Len(c) \in 1 .. Len(c)
    BY <1>1
  <2>6. Len(c) \in S
    BY <2>3, <2>4, <2>5, Climb
  <2>7. c[Len(c)] >= NumMain + NumOverflow
    BY <2>6, <2>1, <2>2, <1>0 DEF S
  <2>8. overflow_bucket_of(NextAt(m, Last(c))) > Last(c)
    BY <2>1 DEF Up
  <2> QED
    BY <2>1, <2>2, <2>7, <2>8, <1>0, <1>2, <2>5 DEF overflow_bucket_of
<1> QED
  BY <1>4, <1>5 DEF c

-----------------------------------------------------------------------------
(* The buckets of a chain as a set: the least that holds b and follows the *)
(* links.                                                                  *)

LEMMA ReachBase ==
    ASSUME NEW m \in Memory, NEW b \in Buckets
    PROVE  /\ Reach(m, b) \subseteq Buckets /\ b \in Reach(m, b)
           /\ Last(Chain(m, b)) \in Reach(m, b)
<1>1. /\ Chain(m, b) \in Seq(Buckets) /\ Len(Chain(m, b)) \in 1 .. NumOverflow + 1
      /\ Chain(m, b)[1] = b
  BY ChainShape
<1>2. NumOverflow \in Nat
  BY ColdAssumption
<1> QED
  BY <1>1, <1>2 DEF Reach, Range, Last

LEMMA ReachClosed ==
    ASSUME NEW m \in Memory, NEW b \in Buckets, Up(m),
           NEW x \in Reach(m, b), NextAt(m, x) # NoOverflow
    PROVE  overflow_bucket_of(NextAt(m, x)) \in Reach(m, b)
<1> DEFINE c == Chain(m, b)
<1>1. /\ c \in Seq(Buckets) /\ Len(c) \in Nat
      /\ \A i \in 1 .. Len(c) - 1 : c[i+1] = overflow_bucket_of(NextAt(m, c[i]))
  BY ChainShape
<1>2. NextAt(m, Last(c)) = NoOverflow
  BY ChainUp
<1> HIDE DEF c
<1>3. PICK i \in 1 .. Len(c) : x = c[i]
  BY <1>1 DEF Reach, Range, c
<1>4. i # Len(c)
  BY <1>2, <1>3 DEF Last
<1>5. i + 1 \in 1 .. Len(c) /\ c[i+1] = overflow_bucket_of(NextAt(m, x))
  BY <1>1, <1>3, <1>4
<1> QED
  BY <1>1, <1>5 DEF Reach, Range, c

LEMMA ReachLeast ==
    ASSUME NEW m \in Memory, NEW b \in Buckets, NEW S, b \in S,
           \A x \in S : x \in Buckets /\ NextAt(m, x) # NoOverflow
                          => overflow_bucket_of(NextAt(m, x)) \in S
    PROVE  Reach(m, b) \subseteq S
<1> DEFINE c == Chain(m, b)
<1>1. /\ c \in Seq(Buckets) /\ Len(c) \in Nat /\ Len(c) >= 1 /\ c[1] = b
      /\ \A i \in 1 .. Len(c) - 1 : /\ NextAt(m, c[i]) # NoOverflow
                                    /\ c[i+1] = overflow_bucket_of(NextAt(m, c[i]))
  <2>1. /\ c \in Seq(Buckets) /\ Len(c) \in 1 .. NumOverflow + 1 /\ c[1] = b
        /\ \A i \in 1 .. Len(c) - 1 : /\ NextAt(m, c[i]) # NoOverflow
                                      /\ c[i+1] = overflow_bucket_of(NextAt(m, c[i]))
    BY ChainShape
  <2>2. NumOverflow \in Nat
    BY ColdAssumption
  <2> QED
    BY <2>1, <2>2
<1> HIDE DEF c
<1> DEFINE T == {i \in 1 .. Len(c) : c[i] \in S}
<1>2. 1 \in T
  BY <1>1
<1>3. ASSUME NEW i \in 1 .. Len(c) - 1, i \in T PROVE i + 1 \in T
  <2>1. c[i] \in S /\ c[i] \in Buckets /\ i + 1 \in 1 .. Len(c)
    BY <1>1, <1>3
  <2> QED
    BY <1>1, <2>1
<1> HIDE DEF T
<1>4. \A i \in 1 .. Len(c) : i \in T
  BY <1>1, <1>2, <1>3, Climb
<1>5. \A i \in 1 .. Len(c) : c[i] \in S
  BY <1>4 DEF T
<1> QED
  BY <1>1, <1>5 DEF Reach, Range, c

\* Fewer links, fewer buckets.
LEMMA ReachFewer ==
    ASSUME NEW m \in Memory, NEW n \in Memory, NEW b \in Buckets, Up(n),
           \A x \in Buckets : NextAt(m, x) \in {NoOverflow, NextAt(n, x)}
    PROVE  Reach(m, b) \subseteq Reach(n, b)
<1>1. b \in Reach(n, b) /\ Reach(n, b) \subseteq Buckets
  BY ReachBase
<1>2. \A x \in Reach(n, b) : NextAt(n, x) # NoOverflow => overflow_bucket_of(NextAt(n, x)) \in Reach(n, b)
  BY ReachClosed
<1>3. \A x \in Reach(n, b) : x \in Buckets /\ NextAt(m, x) # NoOverflow
                               => overflow_bucket_of(NextAt(m, x)) \in Reach(n, b)
  BY <1>2
<1> QED
  BY <1>1, <1>3, ReachLeast

LEMMA ReachSame ==
    ASSUME NEW m \in Memory, NEW n \in Memory, NEW b \in Buckets, Up(m),
           \A x \in Buckets : NextAt(m, x) = NextAt(n, x)
    PROVE  Up(n) /\ Reach(m, b) = Reach(n, b)
<1>1. Up(n)
  BY DEF Up
<1> QED
  BY <1>1, ReachFewer

\* Behind a bucket of a chain comes the rest of it.
LEMMA ReachSplit ==
    ASSUME NEW m \in Memory, NEW b \in Buckets, Up(m)
    PROVE  /\ NextAt(m, b) = NoOverflow => Reach(m, b) = {b}
           /\ NextAt(m, b) # NoOverflow =>
                /\ overflow_bucket_of(NextAt(m, b)) \in Buckets
                /\ Reach(m, b) = {b} \cup Reach(m, overflow_bucket_of(NextAt(m, b)))
<1>1. b \in Reach(m, b) /\ Reach(m, b) \subseteq Buckets
  BY ReachBase
<1>2. CASE NextAt(m, b) = NoOverflow
  <2>1. \A x \in {b} : x \in Buckets /\ NextAt(m, x) # NoOverflow => overflow_bucket_of(NextAt(m, x)) \in {b}
    BY <1>2
  <2>2. Reach(m, b) \subseteq {b}
    BY <2>1, ReachLeast
  <2> QED
    BY <1>1, <1>2, <2>2
<1>3. CASE NextAt(m, b) # NoOverflow
  <2> DEFINE d == overflow_bucket_of(NextAt(m, b))
             R == Reach(m, d)
  <2>1. d \in Reach(m, b) /\ d \in Buckets
    BY <1>1, <1>3, ReachClosed
  <2> HIDE DEF d
  <2>2. d \in R /\ R \subseteq Buckets
    BY <2>1, ReachBase
  <2>3. \A x \in R : NextAt(m, x) # NoOverflow => overflow_bucket_of(NextAt(m, x)) \in R
    BY <2>1, ReachClosed
  <2>4. \A x \in {b} \cup R : x \in Buckets /\ NextAt(m, x) # NoOverflow
                                => overflow_bucket_of(NextAt(m, x)) \in {b} \cup R
    BY <2>2, <2>3 DEF d
  <2>5. Reach(m, b) \subseteq {b} \cup R
    BY <2>4, ReachLeast
  <2>6. \A x \in Reach(m, b) : x \in Buckets /\ NextAt(m, x) # NoOverflow
                                 => overflow_bucket_of(NextAt(m, x)) \in Reach(m, b)
    BY ReachClosed
  <2>7. R \subseteq Reach(m, b)
    BY <2>1, <2>6, ReachLeast
  <2> QED
    BY <1>1, <1>3, <2>1, <2>5, <2>7 DEF d
<1> QED
  BY <1>2, <1>3

\* Attaching a new bucket behind the tail of a chain lengthens this chain and no
\* other.
LEMMA ReachGrown ==
    ASSUME NEW m \in Memory, NEW n \in Memory, Up(m),
           NEW tail \in Buckets, NEW new \in Buckets, new > tail, new > NumMain,
           NextAt(m, tail) = NoOverflow, NextAt(m, new) = NoOverflow,
           \A x \in Buckets : NextAt(n, x) = IF x = tail THEN new - NumMain ELSE NextAt(m, x)
    PROVE  /\ Up(n)
           /\ \A b \in Buckets :
                 Reach(n, b) = IF tail \in Reach(m, b) THEN Reach(m, b) \cup {new} ELSE Reach(m, b)
<1>0. NumMain \in Nat /\ new \in Int /\ tail \in Int
  BY ColdAssumption DEF Buckets
<1>1. overflow_bucket_of(NextAt(n, tail)) = new /\ NextAt(n, tail) # NoOverflow
  BY <1>0 DEF overflow_bucket_of, NoOverflow
<1>2. \A x \in Buckets : x # tail => NextAt(n, x) = NextAt(m, x)
  OBVIOUS
<1>3. Up(n)
  BY <1>1, <1>2 DEF Up
<1>4. ASSUME NEW b \in Buckets
      PROVE  Reach(n, b) = IF tail \in Reach(m, b) THEN Reach(m, b) \cup {new} ELSE Reach(m, b)
  <2>1. /\ b \in Reach(m, b) /\ b \in Reach(n, b)
        /\ Reach(m, b) \subseteq Buckets /\ Reach(n, b) \subseteq Buckets
    BY ReachBase
  <2>2. Reach(m, b) \subseteq Reach(n, b)
    <3>1. \A x \in Buckets : NextAt(m, x) \in {NoOverflow, NextAt(n, x)}
      BY <1>2
    <3> QED
      BY <1>3, <3>1, ReachFewer
  <2>3. \A x \in Reach(m, b) : NextAt(m, x) # NoOverflow => overflow_bucket_of(NextAt(m, x)) \in Reach(m, b)
    BY ReachClosed
  <2>4. CASE tail \in Reach(m, b)
    <3>1. new \in Reach(n, b)
      BY <1>1, <1>3, <2>2, <2>4, ReachClosed
    <3>2. \A x \in Reach(m, b) \cup {new} : x \in Buckets /\ NextAt(n, x) # NoOverflow
                => overflow_bucket_of(NextAt(n, x)) \in Reach(m, b) \cup {new}
      <4>1. NextAt(n, new) = NoOverflow
        BY <1>2, <1>0
      <4> QED
        BY <4>1, <1>1, <1>2, <2>1, <2>3
    <3>3. Reach(n, b) \subseteq Reach(m, b) \cup {new}
      BY <3>2, <2>1, ReachLeast
    <3> QED
      BY <2>2, <2>4, <3>1, <3>3
  <2>5. CASE tail \notin Reach(m, b)
    <3>1. \A x \in Reach(m, b) : x \in Buckets /\ NextAt(n, x) # NoOverflow
                => overflow_bucket_of(NextAt(n, x)) \in Reach(m, b)
      BY <1>2, <2>3, <2>5
    <3>2. Reach(n, b) \subseteq Reach(m, b)
      BY <3>1, <2>1, ReachLeast
    <3> QED
      BY <2>2, <2>5, <3>2
  <2> QED
    BY <2>4, <2>5
<1> QED
  BY <1>3, <1>4

\* No two links to the same bucket: the chains of two main buckets share none.
LEMMA ReachApart ==
    ASSUME NEW m \in Memory, Up(m),
           \A x, y \in Buckets : NextAt(m, x) # NoOverflow /\ NextAt(m, x) = NextAt(m, y) => x = y,
           NEW b \in 1..NumMain, NEW c \in 1..NumMain, b # c
    PROVE  Reach(m, b) \cap Reach(m, c) = {}
<1>0. NumMain \in Nat /\ NumOverflow \in Nat /\ b \in Buckets /\ c \in Buckets
  BY ColdAssumption DEF Buckets
<1>1. /\ b \in Reach(m, b) /\ c \in Reach(m, c)
      /\ Reach(m, b) \subseteq Buckets /\ Reach(m, c) \subseteq Buckets
  BY <1>0, ReachBase
<1>2. \A x \in Reach(m, c) : NextAt(m, x) # NoOverflow => overflow_bucket_of(NextAt(m, x)) \in Reach(m, c)
  BY <1>0, ReachClosed
<1>3. \A x \in Buckets : NextAt(m, x) \in Nat
  BY <1>0 DEF Memory, NextAt
<1>4. \A y \in Reach(m, c) : y = c \/ \E x \in Reach(m, c) : /\ NextAt(m, x) # NoOverflow
                                                          /\ y = overflow_bucket_of(NextAt(m, x))
  <2> DEFINE S == {c} \cup {y \in Buckets : \E x \in Reach(m, c) :
                       NextAt(m, x) # NoOverflow /\ y = overflow_bucket_of(NextAt(m, x))}
  <2>1. S \subseteq Reach(m, c)
    BY <1>1, <1>2
  <2>2. \A x \in S : x \in Buckets /\ NextAt(m, x) # NoOverflow => overflow_bucket_of(NextAt(m, x)) \in S
    BY <2>1, <1>1, <1>2
  <2>3. Reach(m, c) \subseteq S
    BY <1>0, <2>2, ReachLeast
  <2> QED
    BY <2>3
<1> DEFINE T == {x \in Buckets : x \notin Reach(m, c)}
<1>5. b \in T
  <2> SUFFICES ASSUME b \in Reach(m, c) PROVE FALSE
    BY <1>0
  <2>1. PICK x \in Reach(m, c) : NextAt(m, x) # NoOverflow /\ b = overflow_bucket_of(NextAt(m, x))
    BY <1>4
  <2> QED
    BY <2>1, <1>0, <1>1, <1>3 DEF overflow_bucket_of, NoOverflow
<1>6. \A x \in T : x \in Buckets /\ NextAt(m, x) # NoOverflow => overflow_bucket_of(NextAt(m, x)) \in T
  <2> SUFFICES ASSUME NEW x \in T, NextAt(m, x) # NoOverflow
               PROVE  overflow_bucket_of(NextAt(m, x)) \in T
    OBVIOUS
  <2> DEFINE y == overflow_bucket_of(NextAt(m, x))
  <2>1. y \in Buckets
    BY SMTT(30), <1>0 DEF Memory, NextAt, overflow_bucket_of, Buckets, NoOverflow
  <2>2. ASSUME y \in Reach(m, c) PROVE FALSE
    <3>1. y # c
      BY <1>0, <1>3 DEF overflow_bucket_of, NoOverflow
    <3>2. PICK z \in Reach(m, c) : NextAt(m, z) # NoOverflow /\ y = overflow_bucket_of(NextAt(m, z))
      BY <1>4, <2>2, <3>1
    <3>3. NextAt(m, z) = NextAt(m, x) /\ z \in Buckets /\ x \in Buckets
      <4>1. z \in Buckets /\ x \in Buckets
        BY <1>1
      <4>2. NextAt(m, z) \in Nat /\ NextAt(m, x) \in Nat
        BY <1>3, <4>1
      <4>3. NumMain + NextAt(m, z) = NumMain + NextAt(m, x)
        BY <3>2 DEF overflow_bucket_of
      <4> QED
        BY <1>0, <4>1, <4>2, <4>3
    <3> QED
      BY <3>2, <3>3
  <2> QED
    BY <2>1, <2>2
<1> HIDE DEF T
<1>7. Reach(m, b) \subseteq T
  BY <1>0, <1>5, <1>6, ReachLeast
<1> QED
  BY <1>7 DEF T

-----------------------------------------------------------------------------
(* The entries of a chain, in the order of the walk.                       *)

LEMMA Multiples ==
    ASSUME NEW m \in Nat \ {0}, NEW a \in Int, NEW b \in Int, a < b
    PROVE  a * m + m <= b * m
<1>1. b = a + 1 + (b - a - 1) /\ b - a - 1 \in Nat
  OBVIOUS
<1>2. (b - a - 1) * m >= 0
  BY <1>1
<1>3. b * m = a * m + m + (b - a - 1) * m
  BY <1>1
<1> QED
  BY <1>2, <1>3

LEMMA DivMod ==
    ASSUME NEW m \in Nat \ {0}, NEW q \in Nat, NEW r \in Nat, r < m
    PROVE  (q * m + r) \div m = q /\ (q * m + r) % m = r
<1> DEFINE x == q * m + r
           d == x \div m
           e == x % m
<1>1. q * m \in Nat /\ x \in Nat
  OBVIOUS
<1>2. d \in Int /\ e \in Int /\ x = d * m + e /\ 0 <= e /\ e < m
  BY <1>1
<1> HIDE DEF d, e
<1>3. d = q
  <2>1. ~(d < q)
    <3> SUFFICES ASSUME d < q PROVE FALSE
      OBVIOUS
    <3>1. d * m + m <= q * m
      BY <1>2, Multiples
    <3> QED
      BY <1>1, <1>2, <3>1
  <2>2. ~(q < d)
    <3> SUFFICES ASSUME q < d PROVE FALSE
      OBVIOUS
    <3>1. q * m + m <= d * m
      BY <1>2, Multiples
    <3> QED
      BY <1>1, <1>2, <3>1
  <2> QED
    BY <1>2, <2>1, <2>2
<1>4. e = r
  BY <1>1, <1>2, <1>3
<1> QED
  BY <1>3, <1>4 DEF d, e

\* A position is an entry of a bucket of the chain, another one another entry.
LEMMA SpotOf ==
    ASSUME NEW c \in Seq(Buckets), NEW p \in Positions(c)
    PROVE  /\ p \in Nat
           /\ \E i \in 1 .. Len(c), s \in Slots : /\ Spot(c, p) = <<c[i], s>>
                                               /\ p = (i - 1) * NumSlots + s
<1>0. NumSlots \in Nat \ {0} /\ Len(c) \in Nat
  BY ColdAssumption
<1>1. Len(c) * NumSlots \in Nat
  BY <1>0
<1>2. p \in 1 .. Len(c) * NumSlots /\ p \in Nat /\ p - 1 \in Nat
  BY <1>1 DEF Positions
<1> DEFINE q == (p - 1) \div NumSlots
           r == (p - 1) % NumSlots
<1>3. q \in Int /\ r \in Int /\ p - 1 = q * NumSlots + r /\ 0 <= r /\ r < NumSlots
  BY <1>0, <1>2
<1> HIDE DEF q, r
<1>4. q >= 0
  <2> SUFFICES ASSUME q < 0 PROVE FALSE
    BY <1>3
  <2>1. q * NumSlots + NumSlots <= 0 * NumSlots
    BY <1>0, <1>3, Multiples
  <2>2. q * NumSlots \in Int /\ 0 * NumSlots = 0
    BY <1>0, <1>3
  <2> QED
    BY <2>1, <2>2, <1>0, <1>2, <1>3
<1>5. q < Len(c)
  <2> SUFFICES ASSUME Len(c) <= q PROVE FALSE
    BY <1>0, <1>3
  <2>1. (Len(c) - 1) * NumSlots + NumSlots <= q * NumSlots
    BY <1>0, <1>3, Multiples
  <2>2. (Len(c) - 1) * NumSlots + NumSlots = Len(c) * NumSlots
    BY <1>0
  <2>3. q * NumSlots \in Int
    BY <1>0, <1>3
  <2> QED
    BY <2>1, <2>2, <2>3, <1>1, <1>2, <1>3
<1>6. q + 1 \in 1 .. Len(c) /\ r + 1 \in Slots
  BY <1>0, <1>3, <1>4, <1>5 DEF Slots
<1>7. Spot(c, p) = <<c[q + 1], r + 1>>
  BY DEF Spot, q, r
<1>8. p = ((q + 1) - 1) * NumSlots + (r + 1)
  <2>1. (q + 1) - 1 = q /\ q * NumSlots \in Int
    BY <1>0, <1>3
  <2> QED
    BY <2>1, <1>2, <1>3
<1> QED
  BY <1>2, <1>6, <1>7, <1>8

LEMMA SpotFor ==
    ASSUME NEW c \in Seq(Buckets), NEW x \in Range(c), NEW s \in Slots
    PROVE  \E p \in Positions(c) : Spot(c, p) = <<x, s>>
<1>0. NumSlots \in Nat \ {0} /\ Len(c) \in Nat /\ s \in 1 .. NumSlots
  BY ColdAssumption DEF Slots
<1>1. PICK i \in 1 .. Len(c) : x = c[i]
  BY DEF Range
<1> DEFINE p == (i - 1) * NumSlots + s
<1>2. (i - 1) * NumSlots \in Nat /\ i - 1 \in Nat /\ s - 1 \in Nat /\ s - 1 < NumSlots
  BY <1>0, <1>1
<1>3. p - 1 = (i - 1) * NumSlots + (s - 1) /\ p >= 1 /\ p \in Nat
  BY <1>0, <1>2
<1>4. (p - 1) \div NumSlots = i - 1 /\ (p - 1) % NumSlots = s - 1
  <2>1. /\ ((i - 1) * NumSlots + (s - 1)) \div NumSlots = i - 1
        /\ ((i - 1) * NumSlots + (s - 1)) % NumSlots = s - 1
    BY <1>0, <1>2, DivMod
  <2> QED
    <3> HIDE DEF p
    <3> QED
      BY <1>3, <2>1
<1>5. (i - 1) * NumSlots + NumSlots <= Len(c) * NumSlots
  <2>1. i - 1 \in Int /\ i - 1 < Len(c)
    BY <1>0, <1>1
  <2> QED
    BY <1>0, <2>1, Multiples
<1>6. p <= Len(c) * NumSlots /\ Len(c) * NumSlots \in Nat
  BY <1>0, <1>2, <1>5
<1> HIDE DEF p
<1>7. p \in Positions(c)
  BY <1>3, <1>6 DEF Positions
<1>8. Spot(c, p) = <<c[(i - 1) + 1], (s - 1) + 1>>
  BY <1>4 DEF Spot
<1>9. (i - 1) + 1 = i /\ (s - 1) + 1 = s
  BY <1>0, <1>1
<1> QED
  BY <1>1, <1>7, <1>8, <1>9

-----------------------------------------------------------------------------
(* Stores and persists.                                                    *)

LEMMA StoreKeyKnown ==
    ASSUME NEW m \in Memory, NEW z \in Buckets \X Slots, NEW k \in Keys, NEW n, n = StoreKeyAt(m, z, k)
    PROVE  /\ n \in Memory /\ n.off = m.off /\ n.hdr = m.hdr /\ n.alloc = m.alloc
           /\ n.key[z[1]][z[2]] = k
           /\ \A x \in Buckets, s \in Slots : <<x, s>> # z => n.key[x][s] = m.key[x][s]
<1>1. PICK b \in Buckets, t \in Slots : z = <<b, t>>
  OBVIOUS
<1>2. n = [m EXCEPT !.key[b][t] = k]
  BY <1>1 DEF StoreKeyAt
<1>3. n = [m EXCEPT !.key = [m.key EXCEPT ![b] = [m.key[b] EXCEPT ![t] = k]]]
  BY <1>2 DEF Memory
<1> DEFINE f == [m.key EXCEPT ![b] = [m.key[b] EXCEPT ![t] = k]]
<1>4. f \in [Buckets -> [Slots -> Keys \cup {NoKey}]]
  BY DEF Memory
<1>5. n.key = f /\ n.off = m.off /\ n.hdr = m.hdr /\ n.alloc = m.alloc /\ n \in Memory
  BY <1>3, <1>4 DEF Memory
<1>6. f[b][t] = k /\ \A x \in Buckets, s \in Slots : <<x, s>> # <<b, t>> => f[x][s] = m.key[x][s]
  BY DEF Memory
<1> HIDE DEF f
<1>7. z[1] = b /\ z[2] = t
  BY <1>1
<1> QED
  BY <1>1, <1>5, <1>6, <1>7

LEMMA StoreOffsetKnown ==
    ASSUME NEW m \in Memory, NEW z \in Buckets \X Slots, NEW o \in 0..Tombstone, NEW n,
           n = StoreOffsetAt(m, z, o)
    PROVE  /\ n \in Memory /\ n.key = m.key /\ n.hdr = m.hdr /\ n.alloc = m.alloc
           /\ n.off[z[1]][z[2]] = o
           /\ \A x \in Buckets, s \in Slots : <<x, s>> # z => n.off[x][s] = m.off[x][s]
<1>1. PICK b \in Buckets, t \in Slots : z = <<b, t>>
  OBVIOUS
<1>2. n = [m EXCEPT !.off[b][t] = o]
  BY <1>1 DEF StoreOffsetAt
<1>3. n = [m EXCEPT !.off = [m.off EXCEPT ![b] = [m.off[b] EXCEPT ![t] = o]]]
  BY <1>2 DEF Memory
<1> DEFINE f == [m.off EXCEPT ![b] = [m.off[b] EXCEPT ![t] = o]]
<1>4. f \in [Buckets -> [Slots -> 0..Tombstone]]
  BY DEF Memory
<1>5. n.off = f /\ n.key = m.key /\ n.hdr = m.hdr /\ n.alloc = m.alloc /\ n \in Memory
  BY <1>3, <1>4 DEF Memory
<1>6. f[b][t] = o /\ \A x \in Buckets, s \in Slots : <<x, s>> # <<b, t>> => f[x][s] = m.off[x][s]
  BY DEF Memory
<1> HIDE DEF f
<1>7. z[1] = b /\ z[2] = t
  BY <1>1
<1> QED
  BY <1>1, <1>5, <1>6, <1>7

LEMMA StoreEntryKnown ==
    ASSUME NEW m \in Memory, NEW z \in Buckets \X Slots, NEW e \in EntryRec, NEW n, n = StoreEntryAt(m, z, e)
    PROVE  /\ n \in Memory /\ n.hdr = m.hdr /\ n.alloc = m.alloc
           /\ n.key[z[1]][z[2]] = e.key /\ n.off[z[1]][z[2]] = e.off
           /\ \A x \in Buckets, s \in Slots : <<x, s>> # z => /\ n.key[x][s] = m.key[x][s]
                                                          /\ n.off[x][s] = m.off[x][s]
<1> DEFINE h == StoreKeyAt(m, z, e.key)
<1>1. e.key \in Keys /\ e.off \in 0..Tombstone
  BY ColdAssumption DEF EntryRec
<1>2. /\ h \in Memory /\ h.off = m.off /\ h.hdr = m.hdr /\ h.alloc = m.alloc
      /\ h.key[z[1]][z[2]] = e.key
      /\ \A x \in Buckets, s \in Slots : <<x, s>> # z => h.key[x][s] = m.key[x][s]
  BY <1>1, StoreKeyKnown
<1> HIDE DEF h
<1>3. n = StoreOffsetAt(h, z, e.off)
  BY DEF StoreEntryAt, h
<1> QED
  BY SMTT(30), <1>1, <1>2, <1>3, StoreOffsetKnown

StoreHeader(m, b, h) == [m EXCEPT !.hdr = [m.hdr EXCEPT ![b] = h]]

LEMMA HeaderStored ==
    ASSUME NEW m \in Memory, NEW b \in Buckets, NEW h \in Headers, NEW n,
           n = StoreHeader(m, b, h)
    PROVE  /\ n \in Memory /\ n.key = m.key /\ n.off = m.off /\ n.alloc = m.alloc
           /\ n.hdr[b] = h
           /\ \A x \in Buckets : x # b => n.hdr[x] = m.hdr[x]
<1> DEFINE f == [m.hdr EXCEPT ![b] = h]
<1>1. f \in [Buckets -> Headers] /\ f[b] = h /\ \A x \in Buckets : x # b => f[x] = m.hdr[x]
  BY DEF Memory, Headers
<1>2. n.hdr = f
  BY DEF Memory, StoreHeader
<1>3. n \in Memory /\ n.key = m.key /\ n.off = m.off /\ n.alloc = m.alloc
  BY <1>1 DEF Memory, Headers, StoreHeader
<1> HIDE DEF f
<1> QED
  BY <1>1, <1>2, <1>3

LEMMA AttachedKnown ==
    ASSUME mem \in Memory, NEW b \in Buckets, NEW new \in Buckets, new > NumMain, NEW n, n = Attached(b, new)
    PROVE  /\ n \in Memory /\ n.key = mem.key /\ n.off = mem.off /\ n.alloc = mem.alloc
           /\ n.hdr[b].occ = mem.hdr[b].occ /\ n.hdr[b].next = new - NumMain
           /\ new - NumMain \in 1..NumOverflow
           /\ \A x \in Buckets : x # b => n.hdr[x] = mem.hdr[x]
<1> DEFINE h == [mem.hdr[b] EXCEPT !.next = new - NumMain]
<1>1. mem.hdr[b] \in Headers
  BY DEF Memory, Headers
<1>2. new - NumMain \in 1..NumOverflow
  BY ColdAssumption DEF Buckets
<1>3. h \in Headers /\ h.occ = mem.hdr[b].occ /\ h.next = new - NumMain
  BY <1>1, <1>2 DEF Headers
<1>4. n = StoreHeader(mem, b, h)
  BY DEF Attached, Memory, StoreHeader
<1> HIDE DEF h
<1>5. /\ n \in Memory /\ n.key = mem.key /\ n.off = mem.off /\ n.alloc = mem.alloc
      /\ n.hdr[b] = h /\ \A x \in Buckets : x # b => n.hdr[x] = mem.hdr[x]
  BY <1>2, <1>3, <1>4, HeaderStored
<1> QED
  BY <1>2, <1>3, <1>5

\* fetch_or: bits are added to one header.
AddBits(m, b, bits) == [m EXCEPT !.hdr[b].occ = @ \cup bits]

LEMMA BitsKnown ==
    ASSUME NEW m \in Memory, NEW b \in Buckets, NEW bits \in SUBSET Slots, NEW n,
           n = AddBits(m, b, bits)
    PROVE  /\ n \in Memory /\ n.key = m.key /\ n.off = m.off /\ n.alloc = m.alloc
           /\ n.hdr[b].occ = m.hdr[b].occ \cup bits /\ n.hdr[b].next = m.hdr[b].next
           /\ \A x \in Buckets : x # b => n.hdr[x] = m.hdr[x]
<1> DEFINE h == [m.hdr[b] EXCEPT !.occ = @ \cup bits]
<1>1. m.hdr[b] \in Headers
  BY DEF Memory, Headers
<1>2. h \in Headers /\ h.occ = m.hdr[b].occ \cup bits /\ h.next = m.hdr[b].next
  BY <1>1 DEF Headers
<1>3. n = StoreHeader(m, b, h)
  BY DEF Memory, StoreHeader, AddBits
<1> HIDE DEF h
<1>5. /\ n \in Memory /\ n.key = m.key /\ n.off = m.off /\ n.alloc = m.alloc
      /\ n.hdr[b] = h /\ \A x \in Buckets : x # b => n.hdr[x] = m.hdr[x]
  BY <1>2, <1>3, HeaderStored
<1> QED
  BY <1>2, <1>3, <1>5

LEMMA BumpKnown ==
    ASSUME mem \in Memory, NEW m \in Memory, PoolRoom, NEW n, n = Bump(m)
    PROVE  /\ n \in Memory /\ n.key = m.key /\ n.off = m.off /\ n.hdr = m.hdr
           /\ n.alloc = mem.alloc + 1 /\ mem.alloc + 1 \in 1..NumOverflow
<1>1. mem.alloc \in 0..NumOverflow /\ NumOverflow \in Nat
  BY ColdAssumption DEF Memory
<1>2. NewIdx \in 1..NumOverflow
  BY <1>1 DEF NewIdx, PoolRoom
<1>3. n = [m EXCEPT !.alloc = NewIdx]
  BY DEF Bump
<1>4. n \in Memory /\ n.key = m.key /\ n.off = m.off /\ n.hdr = m.hdr /\ n.alloc = NewIdx
  <2>1. NewIdx \in 0..NumOverflow
    BY <1>1, <1>2
  <2> QED
    BY <2>1, <1>3 DEF Memory
<1> QED
  BY <1>2, <1>4 DEF NewIdx

LEMMA PersistEntriesKnown ==
    ASSUME mem \in Memory, pm \in Memory, NEW spots, NEW n, n = PersistEntries(spots)
    PROVE  /\ n \in Memory /\ n.hdr = pm.hdr /\ n.alloc = pm.alloc
           /\ \A x \in Buckets, s \in Slots :
                 /\ n.key[x][s] = IF <<x, s>> \in spots THEN mem.key[x][s] ELSE pm.key[x][s]
                 /\ n.off[x][s] = IF <<x, s>> \in spots THEN mem.off[x][s] ELSE pm.off[x][s]
<1> DEFINE K == [b \in Buckets |-> [s \in Slots |-> IF <<b, s>> \in spots THEN mem.key[b][s] ELSE pm.key[b][s]]]
           O == [b \in Buckets |-> [s \in Slots |-> IF <<b, s>> \in spots THEN mem.off[b][s] ELSE pm.off[b][s]]]
<1>1. n = [pm EXCEPT !.key = K, !.off = O]
  BY DEF PersistEntries, Memory
<1>2. K \in [Buckets -> [Slots -> Keys \cup {NoKey}]] /\ O \in [Buckets -> [Slots -> 0..Tombstone]]
  BY DEF Memory
<1>3. \A x \in Buckets, s \in Slots :
                 /\ K[x][s] = IF <<x, s>> \in spots THEN mem.key[x][s] ELSE pm.key[x][s]
                 /\ O[x][s] = IF <<x, s>> \in spots THEN mem.off[x][s] ELSE pm.off[x][s]
  OBVIOUS
<1> HIDE DEF K, O
<1>4. n.key = K /\ n.off = O /\ n.hdr = pm.hdr /\ n.alloc = pm.alloc /\ n \in Memory
  BY <1>1, <1>2 DEF Memory
<1> QED
  BY <1>3, <1>4

LEMMA PersistHeadersKnown ==
    ASSUME mem \in Memory, pm \in Memory, NEW bs, NEW n, n = PersistHeaders(bs)
    PROVE  /\ n \in Memory /\ n.key = pm.key /\ n.off = pm.off /\ n.alloc = pm.alloc
           /\ \A x \in Buckets : n.hdr[x] = IF x \in bs THEN mem.hdr[x] ELSE pm.hdr[x]
<1> DEFINE H == [b \in Buckets |-> IF b \in bs THEN mem.hdr[b] ELSE pm.hdr[b]]
<1>1. n = [pm EXCEPT !.hdr = H]
  BY DEF PersistHeaders, Memory
<1>2. H \in [Buckets -> Headers]
  BY DEF Memory, Headers
<1>3. \A x \in Buckets : H[x] = IF x \in bs THEN mem.hdr[x] ELSE pm.hdr[x]
  OBVIOUS
<1> HIDE DEF H
<1>4. n.key = pm.key /\ n.off = pm.off /\ n.hdr = H /\ n.alloc = pm.alloc /\ n \in Memory
  BY <1>1, <1>2 DEF Memory, Headers
<1> QED
  BY <1>3, <1>4

-----------------------------------------------------------------------------
(* What the walks of the writer and of Lookup find.                        *)

LEMMA HomeKnown ==
    ASSUME NEW k \in Keys
    PROVE  Home[k] \in 1..NumMain /\ Home[k] \in Buckets
BY ColdAssumption DEF Buckets

LEMMA HoldingIn ==
    ASSUME NEW m, NEW bits, NEW k, NEW z
    PROVE  z \in Holding(m, bits, k) <=>
             /\ z \in Buckets \X Slots
             /\ z[1] \in Reach(m, Home[k])
             /\ z[2] \in m.hdr[z[1]].occ \/ z[2] \in bits[z[1]]
             /\ m.key[z[1]][z[2]] = k
BY DEF Holding

LEMMA PubIn ==
    ASSUME NEW m, NEW k, NEW z
    PROVE  z \in Pub(m, k) <=>
             /\ z \in Buckets \X Slots
             /\ z[1] \in Reach(m, Home[k])
             /\ z[2] \in m.hdr[z[1]].occ
             /\ m.key[z[1]][z[2]] = k
BY DEF Holding, Pub, NoBits

LEMMA LivIn ==
    ASSUME NEW k, NEW z
    PROVE  z \in Liv(k) <=>
             /\ z \in Buckets \X Slots
             /\ z[1] \in Reach(mem, Home[k])
             /\ z[2] \in mem.hdr[z[1]].occ \/ z[2] \in op.bits[z[1]]
             /\ mem.key[z[1]][z[2]] = k
BY HoldingIn DEF Liv

\* Positions and entries.
LEMMA SpotKnown ==
    ASSUME NEW m \in Memory, NEW b \in Buckets
    PROVE  /\ \A p \in Positions(Chain(m, b)) :
                 /\ p \in Nat /\ Spot(Chain(m, b), p) \in Buckets \X Slots
                 /\ Spot(Chain(m, b), p)[1] \in Reach(m, b)
           /\ \A z \in Buckets \X Slots : z[1] \in Reach(m, b) =>
                 \E p \in Positions(Chain(m, b)) : Spot(Chain(m, b), p) = z
<1> DEFINE c == Chain(m, b)
<1>1. c \in Seq(Buckets) /\ Len(c) \in Nat
  BY ChainShape
<1> HIDE DEF c
<1>2. ASSUME NEW p \in Positions(c)
      PROVE  p \in Nat /\ Spot(c, p) \in Buckets \X Slots /\ Spot(c, p)[1] \in Range(c)
  <2>1. PICK i \in 1 .. Len(c), s \in Slots : Spot(c, p) = <<c[i], s>>
    BY <1>1, SpotOf
  <2>2. c[i] \in Buckets /\ c[i] \in Range(c)
    BY <1>1 DEF Range
  <2>3. p \in Nat
    BY <1>1, SpotOf
  <2> QED
    BY <2>1, <2>2, <2>3
<1>3. ASSUME NEW z \in Buckets \X Slots, z[1] \in Range(c)
      PROVE  \E p \in Positions(c) : Spot(c, p) = z
  <2>1. PICK x \in Buckets, s \in Slots : z = <<x, s>>
    OBVIOUS
  <2>2. x \in Range(c)
    BY <1>3, <2>1
  <2> QED
    BY <1>1, <2>1, <2>2, SpotFor
<1> QED
  BY <1>2, <1>3 DEF Reach, c

LEMMA EntryKnown ==
    ASSUME Typed, op.n < Len(op.entries)
    PROVE  /\ op.n + 1 \in 1 .. Len(op.entries) /\ Entry = op.entries[op.n + 1]
           /\ Entry \in EntryRec /\ Entry.key \in Keys /\ Entry.off \in 1..Tombstone /\ Entry.off \in 0..Tombstone
           /\ Home[Entry.key] \in Buckets /\ Home[Entry.key] \in 1..NumMain
<1>1. op.entries \in Seq(EntryRec) /\ op.n \in Nat
  BY DEF Typed, Ops
<1>2. op.n + 1 \in 1 .. Len(op.entries)
  BY <1>1
<1>3. Entry \in EntryRec
  BY <1>1, <1>2 DEF Entry
<1>4. Entry.key \in Keys /\ Entry.off \in 1..Tombstone
  BY <1>3 DEF EntryRec
<1>5. Entry.off \in 0..Tombstone
  BY <1>4, ColdAssumption DEF Tombstone
<1> QED
  BY <1>2, <1>3, <1>4, <1>5, HomeKnown DEF Entry

\* A match is a live entry of the key, and there is one when there is one.
LEMMA MatchKnown ==
    ASSUME Typed, op.n < Len(op.entries)
    PROVE  /\ Match # {} => MatchSpot \in Liv(Entry.key) /\ MatchSpot \in Buckets \X Slots
           /\ Match = {} => Liv(Entry.key) = {}
<1> DEFINE k == Entry.key
           c == MyChain
<1>1. mem \in Memory /\ Home[k] \in Buckets
  BY EntryKnown DEF Typed
<1>2. /\ \A p \in Positions(c) : /\ p \in Nat /\ Spot(c, p) \in Buckets \X Slots
                                 /\ Spot(c, p)[1] \in Reach(mem, Home[k])
      /\ \A z \in Buckets \X Slots : z[1] \in Reach(mem, Home[k]) => \E p \in Positions(c) : Spot(c, p) = z
  BY <1>1, SpotKnown DEF MyChain
<1> HIDE DEF c
<1>3. \A p : p \in Match <=> /\ p \in Positions(c) /\ Live(Spot(c, p)) /\ KeyAt(mem, Spot(c, p)) = k
  BY DEF Match, c
<1>4. \A p \in Match : Spot(c, p) \in Liv(k)
  BY <1>2, <1>3, LivIn DEF Live, KeyAt, slot_published
<1>5. \A z \in Liv(k) : \E p \in Match : TRUE
  <2> SUFFICES ASSUME NEW z \in Liv(k) PROVE \E p \in Match : TRUE
    OBVIOUS
  <2>1. /\ z \in Buckets \X Slots /\ z[1] \in Reach(mem, Home[k])
        /\ z[2] \in mem.hdr[z[1]].occ \/ z[2] \in op.bits[z[1]]
        /\ mem.key[z[1]][z[2]] = k
    BY LivIn
  <2>2. PICK p \in Positions(c) : Spot(c, p) = z
    BY <1>2, <2>1
  <2>3. p \in Match
    BY <2>1, <2>2, <1>3 DEF Live, KeyAt, slot_published
  <2> QED
    BY <2>3
<1>6. ASSUME Match # {} PROVE MatchSpot \in Liv(k)
  <2>1. Match \in SUBSET Nat
    BY <1>2, <1>3
  <2>2. First(Match) \in Match
    BY <1>6, <2>1, FirstIn
  <2> QED
    BY <1>4, <2>2 DEF MatchSpot, c
<1> QED
  BY <1>5, <1>6, LivIn

\* A reusable entry is one of the chain and not live.
LEMMA ReusableKnown ==
    ASSUME Typed, op.n < Len(op.entries), Reusable # {}
    PROVE  /\ ReusableSpot \in Buckets \X Slots
           /\ ReusableSpot[1] \in Reach(mem, Home[Entry.key])
           /\ ReusableSpot[2] \notin mem.hdr[ReusableSpot[1]].occ
           /\ ReusableSpot[2] \notin op.bits[ReusableSpot[1]]
<1> DEFINE k == Entry.key
           c == MyChain
<1>1. mem \in Memory /\ Home[k] \in Buckets
  BY EntryKnown DEF Typed
<1>2. \A p \in Positions(c) : /\ p \in Nat /\ Spot(c, p) \in Buckets \X Slots
                              /\ Spot(c, p)[1] \in Reach(mem, Home[k])
  BY <1>1, SpotKnown DEF MyChain
<1> HIDE DEF c
<1>3. \A p : p \in Reusable <=> p \in Positions(c) /\ ~Live(Spot(c, p))
  BY DEF Reusable, c
<1>4. Reusable \in SUBSET Nat
  BY <1>2, <1>3
<1>5. First(Reusable) \in Reusable
  BY <1>4, FirstIn
<1> QED
  BY <1>2, <1>3, <1>5 DEF ReusableSpot, c, Live, slot_published

\* The last bucket of the chain.
LEMMA TailKnown ==
    ASSUME Typed, op.n < Len(op.entries)
    PROVE  /\ Last(MyChain) \in Buckets /\ Last(MyChain) \in Reach(mem, Home[Entry.key])
           /\ Up(mem) => NextAt(mem, Last(MyChain)) = NoOverflow
<1>1. mem \in Memory /\ Home[Entry.key] \in Buckets
  BY EntryKnown DEF Typed
<1>2. Last(MyChain) \in Reach(mem, Home[Entry.key]) /\ Reach(mem, Home[Entry.key]) \subseteq Buckets
  BY <1>1, ReachBase DEF MyChain
<1>3. Up(mem) => NextAt(mem, Last(MyChain)) = NoOverflow
  BY <1>1, ChainUp DEF MyChain
<1> QED
  BY <1>2, <1>3

-----------------------------------------------------------------------------
(* Types.                                                                  *)

LEMMA NoOpKnown ==
    /\ NoOp \in Ops /\ NoOp.entries = <<>> /\ Len(NoOp.entries) = 0 /\ NoOp.n = 0 /\ NoOp.flipped = 0
    /\ NoOp.dirty = <<>> /\ Len(NoOp.dirty) = 0 /\ NoOp.bits = NoBits /\ NoOp.tail = 0 /\ NoOp.spots = {}
<1>1. <<0, 0>> \in (0..(NumMain + NumOverflow)) \X (0..NumSlots)
  BY ColdAssumption
<1>2. [b \in Buckets |-> {}] \in [Buckets -> SUBSET Slots]
  OBVIOUS
<1>3. <<>> \in Seq(EntryRec) /\ <<>> \in Seq(Buckets) /\ Len(<<>>) = 0
  OBVIOUS
<1> QED
  BY <1>1, <1>2, <1>3 DEF NoOp, Ops, NoSpot, NoBits

LEMMA NoReaderKnown ==
    NoReader \in Readers /\ NoReader.pc = "idle"
<1>1. 0 \in 0..NumOverflow /\ 0 \in 0..MaxWrites
  BY ColdAssumption
<1> QED
  BY <1>1 DEF NoReader, Readers, Headers, NoOverflow, Miss

LEMMA SeenKnown ==
    /\ \A o \in 0..Tombstone : Seen(o) \in 0..MaxWrites
    /\ \A e \in EntryRec : Visible(e) = Seen(e.off) /\ Visible(e) \in 0..MaxWrites
<1>1. \A o \in 0..Tombstone : Seen(o) \in 0..MaxWrites
  BY ColdAssumption DEF Seen, Tombstone, Miss
<1>2. \A e \in EntryRec : e.off \in 0..Tombstone
  BY ColdAssumption DEF EntryRec, Tombstone
<1> QED
  BY <1>1, <1>2 DEF Visible, Seen

LEMMA TypedBegin ==
    ASSUME Typed, NEW es \in Seq(EntryRec), es # <<>>, NEW to \in {"upsert", "stage", "remove"},
           Begin(es, to), writes' \in 0..MaxWrites
    PROVE  Typed'
<1> DEFINE begun(k) == {Visible(e) : e \in {e \in Range(es) : e.key = k}}
<1>1. \A k : begun(k) \subseteq 0..MaxWrites
  <2>1. \A e \in Range(es) : e \in EntryRec
    BY DEF Range
  <2> QED
    BY <2>1, SeenKnown
<1>2. may' \in [Keys -> SUBSET (0..MaxWrites)]
  <2>1. may' = [k \in Keys |-> may[k] \cup begun(k)]
    BY DEF Begin
  <2> HIDE DEF begun
  <2> QED
    BY <1>1, <2>1 DEF Typed
<1>3. reader' \in Readers /\ reader'.pc = reader.pc /\ reader'.key = reader.key /\ reader'.bucket = reader.bucket
  <2>1. reader' = IF reader.pc \in {"header", "scan"}
                  THEN [reader EXCEPT !.allowed = @ \cup begun(reader.key)] ELSE reader
    BY DEF Begin
  <2>2. reader \in Readers
    BY DEF Typed
  <2> HIDE DEF begun
  <2> QED
    BY <1>1, <2>1, <2>2 DEF Readers
<1>4. /\ op' \in Ops /\ op'.entries = es /\ op'.n = 0 /\ op'.flipped = 0 /\ op'.dirty = <<>> /\ op'.tail = 0
  <2>1. op' = [NoOp EXCEPT !.entries = es]
    BY DEF Begin
  <2> QED
    BY <2>1, NoOpKnown DEF Ops
<1>5. Len(es) \in Nat /\ Len(es) > 0
  OBVIOUS
<1>6. mem' = mem /\ pm' = pm /\ pc' = to
  BY DEF Begin
<1> QED
  BY <1>2, <1>3, <1>4, <1>5, <1>6 DEF Typed, Single, Bulk, Placed

LEMMA TypedReturn ==
    ASSUME Typed, NEW n \in Nat, n <= Len(op.entries), Return(n),
           mem' \in Memory, pm' \in Memory, reader' = reader, writes' = writes
    PROVE  Typed'
<1>1. op.entries \in Seq(EntryRec) /\ Len(op.entries) \in Nat
  BY DEF Typed, Ops
<1>2. \A i \in 1 .. n : Visible(op.entries[i]) \in 0..MaxWrites
  <2>1. \A i \in 1 .. n : op.entries[i] \in EntryRec
    BY <1>1
  <2> QED
    BY <2>1, SeenKnown
<1>3. may' \in [Keys -> SUBSET (0..MaxWrites)]
  <2> DEFINE A(k) == {Visible(op.entries[i]) : i \in {i \in 1..n : op.entries[i].key = k}}
             B(k) == {op.entries[i].off : i \in {i \in (n+1)..Len(op.entries) : op.entries[i].key = k}}
  <2>1. \A k : A(k) \subseteq 0..MaxWrites
    BY <1>2
  <2>2. may' = [k \in Keys |-> IF \E i \in 1..n : op.entries[i].key = k THEN A(k) ELSE may[k] \ B(k)]
    BY DEF Return
  <2> HIDE DEF A, B
  <2> QED
    BY <2>1, <2>2 DEF Typed
<1>4. pc' = "idle" /\ op' = NoOp
  BY DEF Return
<1> QED
  BY <1>3, <1>4, NoOpKnown DEF Typed, Single, Bulk, Placed

LEMMA TypedSame ==
    ASSUME Typed, mem' \in Memory, pm' \in Memory, reader' = reader, may' = may, writes' = writes,
           op' \in Ops, op'.n <= Len(op'.entries), op'.flipped <= Len(op'.dirty),
           pc' \in Single \cup Bulk,
           pc' \in Single \cup {"stage", "attach"} => op'.n < Len(op'.entries),
           pc' \in Placed => op'.at \in Buckets \X Slots,
           pc' \in {"storeKey", "link", "persistLink", "attach"} => op'.tail # 0 /\ op'.at[1] > NumMain,
           pc' \in {"upsert", "remove"} => op'.tail = 0,
           pc' \in Single /\ op'.tail # 0 => op'.at[1] > NumMain
    PROVE  Typed'
BY DEF Typed, Single, Bulk

\* The locals after a step that places op.at.
LEMMA PlacedKnown ==
    ASSUME Typed, NEW z \in Buckets \X Slots, op' = [op EXCEPT !.at = z]
    PROVE  /\ op' \in Ops /\ op'.at = z /\ op'.n = op.n /\ op'.entries = op.entries /\ op'.flipped = op.flipped
           /\ op'.dirty = op.dirty /\ op'.bits = op.bits /\ op'.spots = op.spots /\ op'.tail = op.tail
<1>1. op \in Ops
  BY DEF Typed
<1>2. z \in (0..(NumMain + NumOverflow)) \X (0..NumSlots)
  BY ColdAssumption DEF Buckets, Slots
<1> QED
  BY <1>1, <1>2 DEF Ops

LEMMA ExtendedKnown ==
    ASSUME Typed, NEW z \in Buckets \X Slots, NEW t \in Buckets, op' = [op EXCEPT !.at = z, !.tail = t]
    PROVE  /\ op' \in Ops /\ op'.at = z /\ op'.n = op.n /\ op'.entries = op.entries /\ op'.flipped = op.flipped
           /\ op'.dirty = op.dirty /\ op'.bits = op.bits /\ op'.spots = op.spots /\ op'.tail = t
<1>1. op \in Ops
  BY DEF Typed
<1>2. z \in (0..(NumMain + NumOverflow)) \X (0..NumSlots)
  BY ColdAssumption DEF Buckets, Slots
<1> QED
  BY <1>1, <1>2 DEF Ops

LEMMA NewKnown ==
    ASSUME Typed, PoolRoom
    PROVE  /\ overflow_bucket_of(NewIdx) \in Buckets /\ overflow_bucket_of(NewIdx) > NumMain
           /\ overflow_bucket_of(NewIdx) = NumMain + mem.alloc + 1
           /\ 1 \in Slots
<1>1. mem.alloc \in 0..NumOverflow
  BY DEF Typed, Memory
<1> QED
  BY <1>1, ColdAssumption DEF overflow_bucket_of, NewIdx, PoolRoom, Buckets, Slots

LEMMA DirtiedKnown ==
    ASSUME NEW d \in Seq(Buckets), NEW b \in Buckets
    PROVE  /\ Dirtied(d, b) \in Seq(Buckets) /\ Len(Dirtied(d, b)) >= Len(d)
           /\ Range(Dirtied(d, b)) = Range(d) \cup {b} /\ Dirtied(d, b) # <<>>
<1>1. CASE b \in Range(d)
  <2>1. Dirtied(d, b) = d
    BY <1>1 DEF Dirtied
  <2>2. d # <<>>
    BY <1>1 DEF Range
  <2> QED
    BY <1>1, <2>1, <2>2
<1>2. CASE b \notin Range(d)
  <2>1. Dirtied(d, b) = Append(d, b)
    BY <1>2 DEF Dirtied
  <2> QED
    BY <2>1 DEF Range
<1> QED
  BY <1>1, <1>2

-----------------------------------------------------------------------------
(* What most steps leave alone.                                            *)

LEMMA LinksUp ==
    ASSUME Links PROVE Up(mem)
BY DEF Links, Up

\* What is on the media is in memory.
LEMMA PmBehind ==
    ASSUME Typed, Links, Behind
    PROVE  Up(mem) /\ Up(pm) /\ \A b \in Buckets : Reach(pm, b) \subseteq Reach(mem, b)
<1>1. Up(mem) /\ mem \in Memory /\ pm \in Memory
  BY LinksUp DEF Typed
<1>2. Up(pm)
  BY <1>1 DEF Up, Behind
<1> QED
  BY <1>1, <1>2, ReachFewer DEF Behind

LEMMA PubBehind ==
    ASSUME Typed, Links, Behind, Values, NEW k \in Keys
    PROVE  Pub(pm, k) \subseteq Pub(mem, k)
<1> SUFFICES ASSUME NEW z \in Pub(pm, k) PROVE z \in Pub(mem, k)
  OBVIOUS
<1>1. /\ z \in Buckets \X Slots /\ z[1] \in Reach(pm, Home[k])
      /\ z[2] \in pm.hdr[z[1]].occ /\ pm.key[z[1]][z[2]] = k
  BY PubIn
<1>2. z[1] \in Reach(mem, Home[k])
  BY <1>1, PmBehind, HomeKnown
<1>3. z[1] \in Buckets /\ z[2] \in mem.hdr[z[1]].occ
  BY <1>1 DEF Behind
<1>4. mem.key[z[1]][z[2]] = k
  BY <1>1, <1>3 DEF Values
<1> QED
  BY <1>1, <1>2, <1>3, <1>4, PubIn

LEMMA PubLive ==
    ASSUME NEW k PROVE Pub(mem, k) \subseteq Liv(k)
BY PubIn, LivIn

\* Entries keep their place when links, bits and the keys under them do.
LEMMA HoldingSame ==
    ASSUME NEW m \in Memory, NEW n \in Memory, Up(m), NEW k \in Keys, NEW f, NEW g,
           \A x \in Buckets :
               /\ NextAt(m, x) = NextAt(n, x)
               /\ m.hdr[x].occ \cup f[x] = n.hdr[x].occ \cup g[x]
               /\ \A s \in m.hdr[x].occ \cup f[x] : m.key[x][s] = n.key[x][s]
    PROVE  Holding(m, f, k) = Holding(n, g, k)
<1>1. Reach(m, Home[k]) = Reach(n, Home[k])
  BY ReachSame, HomeKnown
<1> QED
  BY <1>1 DEF Holding

\* The same for what is published, and for what is live.
LEMMA PubSame ==
    ASSUME NEW m \in Memory, NEW n \in Memory, Up(m), NEW k \in Keys,
           \A x \in Buckets :
               /\ NextAt(m, x) = NextAt(n, x)
               /\ m.hdr[x].occ = n.hdr[x].occ
               /\ \A s \in m.hdr[x].occ : m.key[x][s] = n.key[x][s]
    PROVE  Pub(m, k) = Pub(n, k)
<1>1. \A x \in Buckets : NoBits[x] = {}
  BY DEF NoBits
<1>2. \A x \in Buckets : m.hdr[x].occ \cup NoBits[x] = m.hdr[x].occ
  BY <1>1
<1>3. \A x \in Buckets :
         /\ NextAt(m, x) = NextAt(n, x)
         /\ m.hdr[x].occ \cup NoBits[x] = n.hdr[x].occ \cup NoBits[x]
         /\ \A s \in m.hdr[x].occ \cup NoBits[x] : m.key[x][s] = n.key[x][s]
  BY <1>2
<1>4. Holding(m, NoBits, k) = Holding(n, NoBits, k)
  BY <1>3, HoldingSame
<1> QED
  BY <1>4 DEF Pub

LEMMA LivSame ==
    ASSUME Typed, Typed', Up(mem), NEW k \in Keys, op'.bits = op.bits,
           \A x \in Buckets :
               /\ NextAt(mem, x) = NextAt(mem', x)
               /\ mem.hdr[x].occ = mem'.hdr[x].occ
               /\ \A s \in mem.hdr[x].occ \cup op.bits[x] : mem.key[x][s] = mem'.key[x][s]
    PROVE  Liv(k)' = Liv(k)
<1>1. mem \in Memory /\ mem' \in Memory
  BY DEF Typed
<1>2. \A x \in Buckets :
         /\ NextAt(mem, x) = NextAt(mem', x)
         /\ mem.hdr[x].occ \cup op.bits[x] = mem'.hdr[x].occ \cup op'.bits[x]
         /\ \A s \in mem.hdr[x].occ \cup op.bits[x] : mem.key[x][s] = mem'.key[x][s]
  OBVIOUS
<1>3. Reach(mem, Home[k]) = Reach(mem', Home[k])
  BY <1>1, ReachSame, HomeKnown
<1>4. Holding(mem, op.bits, k) = Holding(mem', op'.bits, k)
  BY <1>2, <1>3 DEF Holding
<1> QED
  BY <1>4 DEF Liv

\* Memory only gains bits and links, and published entries keep their keys.
Grows ==
    \A x \in Buckets : /\ mem.hdr[x].occ \subseteq mem'.hdr[x].occ
                       /\ NextAt(mem, x) \in {NoOverflow, NextAt(mem', x)}
                       /\ \A s \in mem.hdr[x].occ : mem'.key[x][s] = mem.key[x][s]

LEMMA GrowsKept ==
    ASSUME Typed, Typed', Up(mem'), Grows
    PROVE  /\ \A b \in Buckets : Reach(mem, b) \subseteq Reach(mem', b)
           /\ \A k \in Keys : Pub(mem, k) \subseteq Pub(mem', k)
<1>1. mem \in Memory /\ mem' \in Memory
  BY DEF Typed
<1>2. \A b \in Buckets : Reach(mem, b) \subseteq Reach(mem', b)
  BY <1>1, ReachFewer DEF Grows
<1>3. ASSUME NEW k \in Keys, NEW z \in Pub(mem, k) PROVE z \in Pub(mem', k)
  <2>1. /\ z \in Buckets \X Slots /\ z[1] \in Reach(mem, Home[k])
        /\ z[2] \in mem.hdr[z[1]].occ /\ mem.key[z[1]][z[2]] = k
    BY PubIn
  <2>2. z[1] \in Buckets /\ z[1] \in Reach(mem', Home[k])
    BY <1>2, <2>1, HomeKnown
  <2>3. z[2] \in mem'.hdr[z[1]].occ /\ mem'.key[z[1]][z[2]] = k
    BY <2>1, <2>2 DEF Grows
  <2> QED
    BY <2>1, <2>2, <2>3, PubIn
<1> QED
  BY <1>2, <1>3

\* A lookup in progress does not mind a writer.
LEMMA ReadingKept ==
    ASSUME Typed, Typed', Up(mem'), Grows, Reading, reader' = reader,
           \A k \in Keys : may'[k] \subseteq may[k]
    PROVE  Reading'
<1>1. /\ \A b \in Buckets : Reach(mem, b) \subseteq Reach(mem', b)
      /\ \A k \in Keys : Pub(mem, k) \subseteq Pub(mem', k)
  BY GrowsKept
<1>2. reader.pc \in {"header", "scan"} => reader.key \in Keys /\ reader.bucket \in Buckets /\ Home[reader.key] \in Buckets
  BY HomeKnown DEF Typed
<1>3. ASSUME reader.pc \in {"header", "scan"}
      PROVE  may'[reader.key] \subseteq reader.allowed /\ reader.bucket \in Reach(mem', Home[reader.key])
  BY <1>1, <1>2, <1>3 DEF Reading
<1>4. ASSUME reader.pc = "header"
      PROVE  Miss \in reader.allowed \/ \E z \in Pub(mem', reader.key) : z[1] \in Reach(mem', reader.bucket)
  BY <1>1, <1>2, <1>4 DEF Reading, Ahead
<1>5. ASSUME reader.pc = "scan"
      PROVE  /\ reader.hdr.occ \subseteq mem'.hdr[reader.bucket].occ
             /\ reader.hdr.next # NoOverflow => NextAt(mem', reader.bucket) = reader.hdr.next
             /\ \/ Miss \in reader.allowed
                \/ \E z \in Pub(mem', reader.key) :
                     \/ z[1] = reader.bucket /\ z[2] \in reader.hdr.occ
                     \/ reader.hdr.next # NoOverflow /\ z[1] \in Reach(mem', overflow_bucket_of(reader.hdr.next))
  <2>1. reader.bucket \in Buckets /\ reader.key \in Keys
    BY <1>2, <1>5
  <2>2. reader.hdr.occ \subseteq mem'.hdr[reader.bucket].occ
    BY <1>5, <2>1 DEF Reading, Grows
  <2>3. reader.hdr.next # NoOverflow => NextAt(mem', reader.bucket) = reader.hdr.next
    BY <1>5, <2>1 DEF Reading, Grows
  <2>4. reader.hdr.next # NoOverflow => overflow_bucket_of(reader.hdr.next) \in Buckets
    <3>1. reader.hdr.next \in 0..NumOverflow
      BY DEF Typed, Readers, Headers
    <3> QED
      BY <3>1, ColdAssumption DEF overflow_bucket_of, Buckets, NoOverflow
  <2>5. \/ Miss \in reader.allowed
        \/ \E z \in Pub(mem, reader.key) :
             \/ z[1] = reader.bucket /\ z[2] \in reader.hdr.occ
             \/ reader.hdr.next # NoOverflow /\ z[1] \in Reach(mem, overflow_bucket_of(reader.hdr.next))
    BY <1>5 DEF Reading, Ahead
  <2> QED
    BY <1>1, <2>1, <2>2, <2>3, <2>4, <2>5
<1>6. reader.pc = "done" => reader.result \in reader.allowed
  BY DEF Reading
<1> QED
  BY <1>3, <1>4, <1>5, <1>6 DEF Reading, Ahead

\* What a step of the writer shows, it may show: at most one entry z of a key
\* that had none besides.
LEMMA ValuesGrow ==
    ASSUME Values, pm' = pm, may' = may, NEW k0 \in Keys, NEW z,
           \A k \in Keys : \A y \in Liv(k)' :
               \/ y \in Liv(k) /\ OffAt(mem', y) = OffAt(mem, y)
               \/ k = k0 /\ y = z /\ Liv(k0) \subseteq {z} /\ Seen(OffAt(mem', z)) \in may[k0],
           \A x \in Buckets : \A s \in mem'.hdr[x].occ : pm.key[x][s] = mem'.key[x][s],
           \A k \in Keys : \A y \in Pub(mem', k) : y \in Pub(mem, k) \/ Seen(OffAt(pm, y)) \in may[k]
    PROVE  Values'
<1>1. \A k \in Keys : \A y, w \in Liv(k)' : y = w
  <2> SUFFICES ASSUME NEW k \in Keys, NEW y \in Liv(k)', NEW w \in Liv(k)' PROVE y = w
    OBVIOUS
  <2>1. y \in Liv(k) \/ (k = k0 /\ y = z /\ Liv(k0) \subseteq {z})
    OBVIOUS
  <2>2. w \in Liv(k) \/ (k = k0 /\ w = z /\ Liv(k0) \subseteq {z})
    OBVIOUS
  <2> QED
    BY <2>1, <2>2 DEF Values
<1>2. \A k \in Keys : \A y \in Liv(k)' : Seen(OffAt(mem', y)) \in may[k]
  <2> SUFFICES ASSUME NEW k \in Keys, NEW y \in Liv(k)' PROVE Seen(OffAt(mem', y)) \in may[k]
    OBVIOUS
  <2> QED
    BY DEF Values
<1>3. \A k \in Keys : \A y \in Pub(mem', k) : Seen(OffAt(pm, y)) \in may[k]
  BY DEF Values
<1>4. \A k \in Keys : Pub(pm, k) = {} => Miss \in may[k]
  BY DEF Values
<1> QED
  BY <1>1, <1>2, <1>3, <1>4 DEF Values

\* Nothing that is live is touched.
LEMMA ValuesKept ==
    ASSUME Typed, Typed', Up(mem), Values, pm' = pm, may' = may, op'.bits = op.bits,
           \A x \in Buckets :
               /\ NextAt(mem, x) = NextAt(mem', x)
               /\ mem.hdr[x].occ = mem'.hdr[x].occ
               /\ \A s \in mem.hdr[x].occ \cup op.bits[x] : /\ mem.key[x][s] = mem'.key[x][s]
                                                            /\ mem.off[x][s] = mem'.off[x][s]
    PROVE  /\ Values' /\ Up(mem')
           /\ \A k \in Keys : Liv(k)' = Liv(k) /\ Pub(mem', k) = Pub(mem, k)
<1>0. mem \in Memory /\ mem' \in Memory
  BY DEF Typed
<1>1. \A k \in Keys : Liv(k)' = Liv(k)
  BY LivSame
<1>2. \A k \in Keys : Pub(mem', k) = Pub(mem, k)
  BY <1>0, PubSame
<1>3. \A k \in Keys : \A y \in Liv(k) : OffAt(mem', y) = OffAt(mem, y)
  <2> SUFFICES ASSUME NEW k \in Keys, NEW y \in Liv(k) PROVE OffAt(mem', y) = OffAt(mem, y)
    OBVIOUS
  <2>1. y[1] \in Buckets /\ y[2] \in mem.hdr[y[1]].occ \cup op.bits[y[1]]
    BY LivIn
  <2> QED
    BY <2>1 DEF OffAt
<1>4. \A x \in Buckets : \A s \in mem'.hdr[x].occ : pm.key[x][s] = mem'.key[x][s]
  BY DEF Values
<1>5. Values'
  <2>1. \A k \in Keys : \A y, w \in Liv(k)' : y = w
    BY <1>1 DEF Values
  <2>2. \A k \in Keys : \A y \in Liv(k)' : Seen(OffAt(mem', y)) \in may[k]
    BY <1>1, <1>3 DEF Values
  <2>3. \A k \in Keys : \A y \in Pub(mem', k) : Seen(OffAt(pm, y)) \in may[k]
    BY <1>2 DEF Values
  <2>4. \A k \in Keys : Pub(pm, k) = {} => Miss \in may[k]
    BY DEF Values
  <2> QED
    BY <1>4, <2>1, <2>2, <2>3, <2>4 DEF Values
<1>6. Up(mem')
  BY DEF Up
<1> QED
  BY <1>1, <1>2, <1>5, <1>6

-----------------------------------------------------------------------------
(* Persists, with and without the writer's return.                         *)

\* Each word of the media is left alone or copied from memory.
Toward ==
    \A x \in Buckets :
        /\ pm'.hdr[x] \in {pm.hdr[x], mem.hdr[x]}
        /\ \A s \in Slots : /\ pm'.key[x][s] \in {pm.key[x][s], mem.key[x][s]}
                            /\ pm'.off[x][s] \in {pm.off[x][s], mem.off[x][s]}

LEMMA TowardValues ==
    ASSUME Typed, Typed', Links, Behind, Values, Toward, mem' = mem, op'.bits = op.bits, may' = may
    PROVE  Behind' /\ Values'
<1>0. mem \in Memory /\ pm \in Memory /\ pm' \in Memory /\ Up(mem) /\ Up(pm)
  BY PmBehind DEF Typed
<1>1. Behind'
  <2> SUFFICES ASSUME NEW x \in Buckets
               PROVE  /\ pm'.hdr[x].occ \subseteq mem.hdr[x].occ
                      /\ NextAt(pm', x) \in {NoOverflow, NextAt(mem, x)}
    BY DEF Behind
  <2>1. pm'.hdr[x] = pm.hdr[x] \/ pm'.hdr[x] = mem.hdr[x]
    BY DEF Toward
  <2> QED
    BY <2>1 DEF Behind, NextAt
<1>2. \A k \in Keys : Liv(k)' = Liv(k)
  BY DEF Liv, Holding
<1>3. \A x \in Buckets : \A s \in mem.hdr[x].occ : s \in Slots /\ pm'.key[x][s] = mem.key[x][s]
  <2> SUFFICES ASSUME NEW x \in Buckets, NEW s \in mem.hdr[x].occ
               PROVE  s \in Slots /\ pm'.key[x][s] = mem.key[x][s]
    OBVIOUS
  <2>1. s \in Slots
    BY <1>0 DEF Memory
  <2>2. pm'.key[x][s] \in {pm.key[x][s], mem.key[x][s]}
    BY <2>1 DEF Toward
  <2> QED
    BY <2>1, <2>2 DEF Values
<1>4. \A k \in Keys : \A z \in Pub(mem, k) : Seen(OffAt(pm', z)) \in may[k]
  <2> SUFFICES ASSUME NEW k \in Keys, NEW z \in Pub(mem, k) PROVE Seen(OffAt(pm', z)) \in may[k]
    OBVIOUS
  <2>1. z[1] \in Buckets /\ z[2] \in Slots /\ z \in Liv(k)
    BY PubIn, PubLive
  <2>2. OffAt(pm', z) = OffAt(pm, z) \/ OffAt(pm', z) = OffAt(mem, z)
    BY <2>1 DEF Toward, OffAt
  <2> QED
    BY <2>1, <2>2 DEF Values
<1>5. ASSUME NEW k \in Keys, NEW z \in Pub(pm, k) PROVE z \in Pub(pm', k)
  <2>1. /\ z \in Buckets \X Slots /\ z[1] \in Reach(pm, Home[k])
        /\ z[2] \in pm.hdr[z[1]].occ /\ pm.key[z[1]][z[2]] = k
    BY <1>5, PubIn
  <2>2. z[1] \in Buckets /\ z[2] \in Slots
    BY <2>1
  <2>3. \A x \in Buckets : NextAt(pm, x) \in {NoOverflow, NextAt(pm', x)}
    BY DEF Toward, Behind, NextAt
  <2>4. Up(pm')
    BY <1>0, <1>1 DEF Behind, Up
  <2>5. z[1] \in Reach(pm', Home[k])
    BY <1>0, <2>1, <2>3, <2>4, ReachFewer, HomeKnown
  <2>6. z[2] \in mem.hdr[z[1]].occ
    BY <2>1, <2>2 DEF Behind
  <2>7. z[2] \in pm'.hdr[z[1]].occ
    BY <2>1, <2>2, <2>6 DEF Toward
  <2>8. pm'.key[z[1]][z[2]] = k
    BY <1>3, <2>1, <2>2, <2>6 DEF Values
  <2> QED
    BY <2>1, <2>5, <2>7, <2>8, PubIn
<1>6. \A k \in Keys : Pub(pm', k) = {} => Miss \in may[k]
  BY <1>5 DEF Values
<1>7. Values'
  <2>1. \A k \in Keys : \A y, z \in Liv(k)' : y = z
    BY <1>2 DEF Values
  <2>2. \A k \in Keys : \A z \in Liv(k)' : Seen(OffAt(mem, z)) \in may[k]
    BY <1>2 DEF Values
  <2> QED
    BY <1>3, <1>4, <1>6, <2>1, <2>2 DEF Values
<1> QED
  BY <1>1, <1>7

\* A persist, or a write-back, that the writer goes on after.
LEMMA TowardStep ==
    ASSUME Typed, Typed', Sound, Toward, Synced',
           mem' = mem, op' = op, may' = may, writes' = writes, reader' = reader,
           \/ pc' = pc
           \/ pc = "persistEntry" /\ pc' = "publish"
           \/ pc = "persistHeader" /\ pc' = "link" /\ op.tail # 0
           \/ pc = "drain" /\ pc' = "flip"
    PROVE  Sound'
<1>1. Behind' /\ Values'
  BY TowardValues DEF Sound
<1>2. Links'
  BY DEF Sound, Links, NextAt
<1>3. Reading'
  BY DEF Sound, Reading, Pub, Holding, Reach, Ahead, NextAt
<1>4. Fresh'
  <2>1. \A x \in Buckets, s \in Slots : {pm'.off[x][s]} \subseteq {mem.off[x][s], pm.off[x][s]}
    BY DEF Toward
  <2>2. Fresh
    BY DEF Sound
  <2>3. \A x \in Buckets, s \in Slots : {mem.off[x][s], pm'.off[x][s]} \subseteq 0..writes \cup {Tombstone}
    BY <2>1, <2>2 DEF Fresh
  <2>4. pc' \in Bulk \cup {"upsert"} => pc \in Bulk \cup {"upsert"} /\ (pc' = "attach" <=> pc = "attach")
    BY DEF Bulk
  <2>5. pc' # "idle" => pc # "idle"
    OBVIOUS
  <2>6. pc' \in Bulk \cup {"upsert"} =>
          \A i \in 1..Len(op.entries) : (i > op.n /\ ~(pc' = "attach" /\ i = op.n + 1)) =>
             \A x \in Buckets, s \in Slots : op.entries[i].off \notin {mem.off[x][s], pm'.off[x][s]}
    BY <2>1, <2>2, <2>4 DEF Fresh
  <2> QED
    BY <2>2, <2>3, <2>4, <2>5, <2>6 DEF Fresh
<1>5. Singly'
  <2>1. Singly
    BY DEF Sound
  <2> QED
    BY <2>1 DEF Singly, Pub, Holding, Reach, OffAt, NewBucket, NextAt, Unlinked, Single
<1>6. Grouped'
  <2>1. Grouped
    BY DEF Sound
  <2>2. pc' \in Bulk => pc \in Bulk /\ (pc' = "attach" <=> pc = "attach")
    BY DEF Bulk
  <2>3. GroupEntries' = GroupEntries
    BY DEF GroupEntries
  <2>4. pc' \in Bulk => GroupClaims' = GroupClaims
    BY <2>2 DEF GroupClaims, Reach
  <2>5. GroupStaged' = GroupStaged
    BY DEF GroupStaged, Liv, Holding, Reach, OffAt
  <2>6. GroupNew' = GroupNew
    BY DEF GroupNew, NewBucket, Liv, Holding, Reach, NextAt, Unlinked
  <2>7. GroupFlipped' = GroupFlipped
    BY DEF GroupFlipped
  <2>8. pc = "drain" => GroupFlipped
    BY <2>1 DEF Grouped, GroupFlipped
  <2> QED
    BY <2>1, <2>2, <2>3, <2>4, <2>5, <2>6, <2>7, <2>8 DEF Grouped, Bulk
<1> QED
  BY <1>1, <1>2, <1>3, <1>4, <1>5, <1>6 DEF Sound

\* The writer returns with everything it wrote on the media.
LEMMA ReturnStep ==
    ASSUME Typed, Typed', Sound, pc # "idle", NEW n \in Nat, n <= Len(op.entries), Return(n),
           mem' = mem, writes' = writes, reader' = reader,
           \A x \in Buckets : pm'.hdr[x] = mem.hdr[x],
           \A x \in Buckets, s \in Slots : pm'.key[x][s] = mem.key[x][s] /\ pm'.off[x][s] = mem.off[x][s],
           \A i \in 1..n : \/ \E z \in Pub(mem, op.entries[i].key) : OffAt(mem, z) = op.entries[i].off
                           \/ Pub(mem, op.entries[i].key) = {} /\ Seen(op.entries[i].off) = Miss,
           \A i, j \in 1..n : op.entries[i].key = op.entries[j].key => i = j,
           \A i \in n+1..Len(op.entries) : \A x \in Buckets, s \in Slots : mem.off[x][s] # op.entries[i].off
    PROVE  Sound'
<1>0. /\ mem \in Memory /\ pm' \in Memory /\ op.entries \in Seq(EntryRec) /\ Len(op.entries) \in Nat
      /\ pc' = "idle" /\ op' = NoOp /\ Up(mem)
  BY LinksUp DEF Typed, Ops, Return, Sound
<1>1. \A i \in 1..Len(op.entries) : op.entries[i] \in EntryRec /\ op.entries[i].off \in 1..Tombstone
  <2>1. \A i \in 1..Len(op.entries) : op.entries[i] \in EntryRec
    BY <1>0
  <2> QED
    BY <2>1 DEF EntryRec
<1>2. \A i \in 1..Len(op.entries) : /\ Visible(op.entries[i]) = Seen(op.entries[i].off)
                                    /\ Visible(op.entries[i]) \in may[op.entries[i].key]
  BY <1>1, SeenKnown DEF Sound, Fresh
<1>3. ASSUME NEW k \in Keys, NEW i \in 1..n, op.entries[i].key = k
      PROVE  may'[k] = {Visible(op.entries[i])}
  <2>1. may'[k] = {Visible(op.entries[j]) : j \in {j \in 1..n : op.entries[j].key = k}}
    BY <1>3 DEF Return
  <2>2. {j \in 1..n : op.entries[j].key = k} = {i}
    BY <1>3
  <2> QED
    BY <2>1, <2>2
<1>4. ASSUME NEW k \in Keys, ~\E i \in 1..n : op.entries[i].key = k
      PROVE  may'[k] = may[k] \ {op.entries[i].off : i \in {i \in (n+1)..Len(op.entries) : op.entries[i].key = k}}
  BY <1>4 DEF Return
<1>5. ASSUME NEW k \in Keys PROVE may'[k] \subseteq may[k]
  <2>1. CASE \E i \in 1..n : op.entries[i].key = k
    <3>1. PICK i \in 1..n : op.entries[i].key = k
      BY <2>1
    <3>2. i \in 1..Len(op.entries)
      BY <1>0
    <3> QED
      BY <1>2, <1>3, <3>1, <3>2
  <2>2. CASE ~\E i \in 1..n : op.entries[i].key = k
    BY <1>4, <2>2
  <2> QED
    BY <2>1, <2>2
<1>6. \A k \in Keys : Liv(k)' = Pub(mem, k) /\ Pub(mem, k) \subseteq Liv(k)
  BY <1>0, NoOpKnown, PubLive DEF Liv, Pub
<1>7. \A k \in Keys : Pub(pm', k) = Pub(mem, k)
  <2>1. \A x \in Buckets :
           /\ NextAt(mem, x) = NextAt(pm', x)
           /\ mem.hdr[x].occ = pm'.hdr[x].occ
           /\ \A s \in mem.hdr[x].occ : mem.key[x][s] = pm'.key[x][s]
    BY <1>0 DEF NextAt, Memory
  <2> QED
    BY <1>0, <2>1, PubSame
<1>8. ASSUME NEW k \in Keys, NEW z \in Pub(mem, k) PROVE Seen(OffAt(mem, z)) \in may'[k]
  <2>0. z[1] \in Buckets /\ z[2] \in Slots /\ OffAt(mem, z) = mem.off[z[1]][z[2]]
    BY PubIn DEF OffAt
  <2>1. CASE \E i \in 1..n : op.entries[i].key = k
    <3>1. PICK i \in 1..n : op.entries[i].key = k
      BY <2>1
    <3>2. PICK y \in Pub(mem, k) : OffAt(mem, y) = op.entries[i].off
      BY <3>1, <1>8
    <3>3. y = z
      BY <1>6, <1>8 DEF Sound, Values
    <3>4. i \in 1..Len(op.entries)
      BY <1>0
    <3> QED
      BY <1>2, <1>3, <3>1, <3>2, <3>3, <3>4
  <2>2. CASE ~\E i \in 1..n : op.entries[i].key = k
    <3>1. Seen(OffAt(mem, z)) \in may[k]
      BY <1>6, <1>8 DEF Sound, Values
    <3>2. ASSUME NEW i \in (n+1)..Len(op.entries) PROVE Seen(OffAt(mem, z)) # op.entries[i].off
      <4>1. i \in 1..Len(op.entries)
        BY <1>0
      <4>2. op.entries[i].off # 0
        BY SMTT(30), <1>1, <4>1, ColdAssumption DEF Tombstone
      <4>3. OffAt(mem, z) # op.entries[i].off
        BY <2>0
      <4> QED
        BY <4>2, <4>3 DEF Seen, Miss
    <3> QED
      BY <1>4, <2>2, <3>1, <3>2
  <2> QED
    BY <2>1, <2>2
<1>9. ASSUME NEW k \in Keys, Pub(mem, k) = {} PROVE Miss \in may'[k]
  <2>1. CASE \E i \in 1..n : op.entries[i].key = k
    <3>1. PICK i \in 1..n : op.entries[i].key = k
      BY <2>1
    <3>2. Seen(op.entries[i].off) = Miss
      BY <3>1, <1>9
    <3>3. i \in 1..Len(op.entries)
      BY <1>0
    <3> QED
      BY <1>2, <1>3, <3>1, <3>2, <3>3
  <2>2. CASE ~\E i \in 1..n : op.entries[i].key = k
    <3>1. Miss \in may[k]
      BY <1>9, PubBehind DEF Sound, Values
    <3>2. ASSUME NEW i \in (n+1)..Len(op.entries) PROVE Miss # op.entries[i].off
      <4>1. i \in 1..Len(op.entries)
        BY <1>0
      <4> QED
        BY SMTT(30), <1>1, <4>1, ColdAssumption DEF Tombstone, Miss
    <3> QED
      BY <1>4, <2>2, <3>1, <3>2
  <2> QED
    BY <2>1, <2>2
<1>10. Values'
  <2>1. \A k \in Keys : \A y, z \in Liv(k)' : y = z
    BY <1>6 DEF Sound, Values
  <2>2. \A k \in Keys : \A z \in Liv(k)' : Seen(OffAt(mem, z)) \in may'[k]
    BY <1>6, <1>8
  <2>3. \A x \in Buckets : \A s \in mem.hdr[x].occ : pm'.key[x][s] = mem.key[x][s]
    BY <1>0 DEF Memory
  <2>4. \A k \in Keys : \A z \in Pub(mem, k) : Seen(OffAt(pm', z)) \in may'[k]
    <3>1. \A k \in Keys : \A z \in Pub(mem, k) : OffAt(pm', z) = OffAt(mem, z)
      BY PubIn DEF OffAt
    <3> QED
      BY <1>8, <3>1
  <2>5. \A k \in Keys : Pub(pm', k) = {} => Miss \in may'[k]
    BY <1>7, <1>9
  <2> QED
    BY <2>1, <2>2, <2>3, <2>4, <2>5 DEF Values
<1>11. Links' /\ Behind'
  BY DEF Sound, Links, Behind, NextAt
<1>12. Synced'
  BY DEF Synced
<1>13. Reading'
  <2>1. Grows /\ Up(mem')
    BY <1>0 DEF Grows
  <2> QED
    BY <1>5, <2>1, ReadingKept DEF Sound
<1>14. Fresh'
  <2>1. \A x \in Buckets, s \in Slots : {mem.off[x][s], pm'.off[x][s]} \subseteq 0..writes \cup {Tombstone}
    BY DEF Sound, Fresh
  <2>2. \A i \in 1..Len(op'.entries) : FALSE
    BY <1>0, NoOpKnown
  <2> QED
    BY <1>0, <2>1, <2>2 DEF Fresh, Bulk
<1>15. Singly' /\ Grouped'
  BY <1>0 DEF Singly, Grouped, Single, Bulk
<1> QED
  BY <1>10, <1>11, <1>12, <1>13, <1>14, <1>15 DEF Sound

-----------------------------------------------------------------------------
(* The steps, one lemma for each.                                          *)

LEMMA ColdInit == Init => ColdInv
<1> SUFFICES ASSUME Init PROVE ColdInv
  OBVIOUS
<1>0. 0 \in 0..NumOverflow /\ 0 \in 0..MaxWrites /\ 0 \in 0..Tombstone /\ NumMain \in Nat
  BY ColdAssumption DEF Tombstone
<1>1. Zeroed \in Memory
  BY <1>0 DEF Zeroed, Memory, NoKey, Miss, NoOverflow
<1>2. Typed
  BY <1>0, <1>1, NoOpKnown, NoReaderKnown DEF Init, Typed, Single, Bulk, Placed, Miss
<1>3. \A x \in Buckets : mem.hdr[x] = [occ |-> {}, next |-> NoOverflow] /\ pm = mem
  BY DEF Init, Zeroed
<1>4. Links /\ Behind
  BY <1>3 DEF Links, Behind, NextAt
<1>5. Synced
  BY DEF Init, Synced
<1>6. \A k \in Keys : Liv(k) = {} /\ Pub(mem, k) = {} /\ Pub(pm, k) = {}
  <2>1. \A x \in Buckets : op.bits[x] = {}
    BY NoOpKnown DEF Init, NoBits
  <2> QED
    BY <1>3, <2>1, LivIn, PubIn
<1>7. Values
  BY <1>3, <1>6 DEF Values, Init
<1>8. Fresh
  <2>1. \A x \in Buckets, s \in Slots : mem.off[x][s] = 0 /\ pm.off[x][s] = 0
    BY DEF Init, Zeroed, Miss
  <2>2. \A i \in 1..Len(op.entries) : FALSE
    BY NoOpKnown DEF Init
  <2> QED
    BY <2>1, <2>2 DEF Fresh, Init, Bulk
<1>9. Singly /\ Grouped /\ Reading
  BY NoReaderKnown DEF Init, Singly, Grouped, Single, Bulk, Reading
<1> QED
  BY <1>2, <1>4, <1>5, <1>7, <1>8, <1>9 DEF ColdInv, Sound

\* A writer takes the lock.
LEMMA BeginStep ==
    ASSUME ColdInv, NEW es \in Seq(EntryRec), es # <<>>, NEW to \in {"upsert", "stage", "remove"},
           Begin(es, to), writes' \in 0..MaxWrites, writes <= writes', rewound' = rewound,
           \A i \in 1..Len(es) : es[i].off \in 1..writes' \cup {Tombstone},
           to # "remove" => \A i \in 1..Len(es) : es[i].off \in writes+1..writes',
           to # "stage" => Len(es) = 1,
           to = "remove" => es[1].off = Tombstone,
           to = "stage" => \A i, j \in 1..Len(es) :
               /\ Home[es[i].key] = Home[es[j].key]
               /\ (es[i].key = es[j].key \/ es[i].off = es[j].off) => i = j
    PROVE  ColdInv'
<1>1. Typed /\ Typed'
  BY TypedBegin DEF ColdInv
<1> SUFFICES ASSUME ~rewound PROVE Sound'
  BY <1>1 DEF ColdInv
<1>2. Sound
  BY DEF ColdInv
<1> DEFINE begun(k) == {Visible(e) : e \in {e \in Range(es) : e.key = k}}
<1>3. /\ mem' = mem /\ pm' = pm /\ pc = "idle" /\ pc' = to /\ op = NoOp
      /\ op' = [NoOp EXCEPT !.entries = es]
      /\ may' = [k \in Keys |-> may[k] \cup begun(k)]
      /\ reader' = IF reader.pc \in {"header", "scan"}
                   THEN [reader EXCEPT !.allowed = @ \cup begun(reader.key)] ELSE reader
  BY <1>1 DEF Begin, Typed
<1>4. /\ op'.entries = es /\ op'.n = 0 /\ op'.flipped = 0 /\ op'.bits = NoBits /\ op'.dirty = <<>>
      /\ op'.spots = {} /\ op'.tail = 0 /\ op.bits = NoBits
  BY <1>3, NoOpKnown DEF Ops
<1>5. \A i \in 1..Len(es) : es[i].key \in Keys /\ Seen(es[i].off) \in begun(es[i].key)
  <2> SUFFICES ASSUME NEW i \in 1..Len(es) PROVE es[i].key \in Keys /\ Seen(es[i].off) \in begun(es[i].key)
    OBVIOUS
  <2>1. es[i] \in EntryRec /\ es[i] \in Range(es)
    BY DEF Range
  <2>2. Visible(es[i]) = Seen(es[i].off) /\ es[i].key \in Keys
    BY <2>1, SeenKnown DEF EntryRec
  <2>3. Visible(es[i]) \in begun(es[i].key)
    BY <2>1
  <2> HIDE DEF begun
  <2> QED
    BY <2>2, <2>3
<1> HIDE DEF begun
<1>6. \A k \in Keys : may'[k] = may[k] \cup begun(k)
  BY <1>3
<1>7. Links' /\ Behind'
  BY <1>2, <1>3 DEF Sound, Links, Behind, NextAt
<1>8. Synced'
  <2>1. \A x \in Buckets : pm.hdr[x] = mem.hdr[x]
    BY <1>2, <1>3 DEF Sound, Synced, DirtyHeaders, Bulk
  <2>2. \A x \in Buckets, s \in Slots : pm.key[x][s] = mem.key[x][s] /\ pm.off[x][s] = mem.off[x][s]
    BY <1>2, <1>3 DEF Sound, Synced, DirtySpots
  <2> QED
    BY <1>3, <2>1, <2>2 DEF Synced
<1>9. \A k \in Keys : Liv(k)' = Liv(k)
  BY <1>3, <1>4 DEF Liv, Holding
<1>10. Values'
  <2>0. Values
    BY <1>2 DEF Sound
  <2>1. \A k \in Keys : \A y, z \in Liv(k)' : y = z
    BY <2>0, <1>9 DEF Values
  <2>2. \A k \in Keys : \A z \in Liv(k)' : Seen(OffAt(mem, z)) \in may'[k]
    BY <2>0, <1>6, <1>9 DEF Values
  <2>3. \A k \in Keys : \A z \in Pub(mem, k) : Seen(OffAt(pm, z)) \in may'[k]
    BY <2>0, <1>6 DEF Values
  <2>4. \A k \in Keys : Pub(pm, k) = {} => Miss \in may'[k]
    BY <2>0, <1>6 DEF Values
  <2> QED
    BY <2>0, <2>1, <2>2, <2>3, <2>4, <1>3 DEF Values
<1>11. Fresh'
  <2>0. writes \in Nat /\ writes' \in Nat /\ writes' <= MaxWrites /\ MaxWrites \in Nat
    BY <1>1, ColdAssumption DEF Typed
  <2>1. \A x \in Buckets, s \in Slots : {mem.off[x][s], pm.off[x][s]} \subseteq 0..writes \cup {Tombstone}
    BY <1>2 DEF Sound, Fresh
  <2>2. \A x \in Buckets, s \in Slots : {mem.off[x][s], pm.off[x][s]} \subseteq 0..writes' \cup {Tombstone}
    BY <2>0, <2>1
  <2>3. \A i \in 1..Len(es) : Seen(es[i].off) \in may'[es[i].key]
    BY <1>5, <1>6
  <2>4. ASSUME to # "remove", NEW i \in 1..Len(es)
        PROVE  /\ es[i].off # Tombstone
               /\ \A x \in Buckets, s \in Slots : es[i].off \notin {mem.off[x][s], pm.off[x][s]}
    <3>1. es[i].off \in writes+1..writes' /\ es[i].off # Tombstone /\ es[i].off \notin 0..writes
      BY <2>0, <2>4 DEF Tombstone
    <3> QED
      BY <2>1, <3>1
  <2>5. pc' \in Bulk \cup {"upsert"} => to # "remove" /\ pc' # "attach"
    BY <1>3 DEF Bulk
  <2> QED
    BY <1>3, <1>4, <2>2, <2>3, <2>4, <2>5 DEF Fresh
<1>12. Singly'
  BY <1>3, <1>4 DEF Singly, Single
<1>13. Grouped'
  <2>1. ASSUME to = "stage" PROVE GroupEntries' /\ GroupClaims' /\ GroupStaged'
    <3>1. GroupEntries'
      BY <1>4, <2>1 DEF GroupEntries
    <3>2. GroupClaims'
      BY <1>4 DEF GroupClaims, NoBits
    <3>3. GroupStaged'
      BY <1>4 DEF GroupStaged
    <3> QED
      BY <3>1, <3>2, <3>3
  <2> QED
    BY <1>3, <1>4, <2>1 DEF Grouped, Bulk
<1>14. Reading'
  <2>0. Reading /\ reader \in Readers
    BY <1>1, <1>2 DEF Sound, Typed
  <2>1. /\ reader'.pc = reader.pc /\ reader'.key = reader.key /\ reader'.bucket = reader.bucket
        /\ reader'.hdr = reader.hdr /\ reader'.result = reader.result /\ reader.allowed \subseteq reader'.allowed
        /\ reader.pc \in {"header", "scan"} => reader'.allowed = reader.allowed \cup begun(reader.key)
    BY <2>0, <1>3 DEF Readers
  <2>2. reader.pc \in {"header", "scan"} => may'[reader.key] \subseteq reader'.allowed
    <3>1. reader.pc \in {"header", "scan"} => reader.key \in Keys
      BY <1>1 DEF Typed
    <3> QED
      BY <3>1, <2>0, <2>1, <1>6 DEF Reading
  <2> QED
    BY <2>0, <2>1, <2>2, <1>3 DEF Reading, Ahead, Reach, Pub, Holding, NextAt
<1> QED
  BY <1>7, <1>8, <1>10, <1>11, <1>12, <1>13, <1>14 DEF Sound

\* The steps of a lookup change only the reader.
LEMMA ReaderFrame ==
    ASSUME ColdInv, reader' \in Readers, reader'.pc \in {"header", "scan"} => reader'.key \in Keys /\ reader'.bucket \in Buckets,
           UNCHANGED <<mem, pm, pc, op, may, writes, rewound>>, ~rewound => Reading'
    PROVE  ColdInv'
<1>1. Typed'
  BY DEF ColdInv, Typed
<1> SUFFICES ASSUME ~rewound PROVE Sound'
  BY <1>1 DEF ColdInv
<1>2. Sound
  BY DEF ColdInv
<1>3. Links' /\ Behind'
  BY <1>2 DEF Sound, Links, Behind, NextAt
<1>4. Synced'
  BY <1>2 DEF Sound, Synced, DirtyHeaders, DirtySpots
<1>5. Values'
  BY <1>2 DEF Sound, Values, Liv, Pub, Holding, Reach, OffAt
<1>6. Fresh'
  BY <1>2 DEF Sound, Fresh
<1>7. Singly'
  BY <1>2 DEF Sound, Singly, Pub, Holding, Reach, OffAt, NewBucket, NextAt, Unlinked
<1>8. Grouped'
  <2>1. Grouped
    BY <1>2 DEF Sound
  <2>2. GroupEntries' = GroupEntries /\ GroupFlipped' = GroupFlipped
    BY DEF GroupEntries, GroupFlipped
  <2>3. GroupClaims' = GroupClaims
    BY DEF GroupClaims, Reach
  <2>4. GroupStaged' = GroupStaged
    BY DEF GroupStaged, Liv, Holding, Reach, OffAt
  <2>5. GroupNew' = GroupNew
    BY DEF GroupNew, NewBucket, Liv, Holding, Reach, NextAt, Unlinked
  <2> QED
    BY <2>1, <2>2, <2>3, <2>4, <2>5 DEF Grouped
<1> QED
  BY <1>3, <1>4, <1>5, <1>6, <1>7, <1>8 DEF Sound

LEMMA LookupStep ==
    ASSUME ColdInv, NEW k \in Keys, lookup(k) PROVE ColdInv'
<1>1. reader' = [NoReader EXCEPT !.pc = "header", !.key = k, !.bucket = Home[k], !.allowed = may[k]]
  BY DEF lookup
<1>2. may[k] \in SUBSET (0..MaxWrites) /\ Home[k] \in Buckets
  BY HomeKnown DEF ColdInv, Typed
<1>3. /\ reader' \in Readers /\ reader'.pc = "header" /\ reader'.key = k /\ reader'.bucket = Home[k]
      /\ reader'.allowed = may[k]
  BY <1>1, <1>2, NoReaderKnown DEF Readers
<1>4. UNCHANGED <<mem, pm, pc, op, may, writes, rewound>>
  BY DEF lookup
<1>5. ASSUME ~rewound PROVE Reading'
  <2>0. Sound /\ Typed
    BY <1>5 DEF ColdInv
  <2>1. Pub(mem, k) = {} => Miss \in may[k]
    BY <2>0, PubBehind DEF Sound, Values
  <2>2. Home[k] \in Reach(mem, Home[k])
    BY <2>0, <1>2, ReachBase DEF Typed
  <2>3. Miss \in may[k] \/ \E z \in Pub(mem, k) : z[1] \in Reach(mem, Home[k])
    BY <2>1, PubIn
  <2> QED
    BY <1>3, <1>4, <2>2, <2>3 DEF Reading, Ahead
<1> QED
  BY <1>2, <1>3, <1>4, <1>5, ReaderFrame

LEMMA LoadHeaderStep ==
    ASSUME ColdInv, LoadHeader PROVE ColdInv'
<1>0. reader \in Readers /\ mem \in Memory /\ reader.pc = "header" /\ reader.key \in Keys /\ reader.bucket \in Buckets
  BY DEF ColdInv, Typed, LoadHeader
<1> DEFINE h == mem.hdr[reader.bucket]
<1>1. h \in Headers
  BY <1>0 DEF Memory, Headers
<1>2. reader' = [reader EXCEPT !.pc = "scan", !.hdr = h]
  BY DEF LoadHeader
<1> HIDE DEF h
<1>3. /\ reader' \in Readers /\ reader'.pc = "scan" /\ reader'.key = reader.key /\ reader'.bucket = reader.bucket
      /\ reader'.allowed = reader.allowed /\ reader'.hdr = h
  BY <1>0, <1>1, <1>2 DEF Readers
<1>4. UNCHANGED <<mem, pm, pc, op, may, writes, rewound>>
  BY DEF LoadHeader, counts
<1>5. ASSUME ~rewound PROVE Reading'
  <2>0. Sound /\ Typed /\ Reading
    BY <1>5 DEF ColdInv, Sound
  <2>1. may[reader.key] \subseteq reader.allowed /\ reader.bucket \in Reach(mem, Home[reader.key])
    BY <1>0, <2>0 DEF Reading
  <2>2. Up(mem)
    BY <2>0, LinksUp DEF Sound
  <2>3. \/ Miss \in reader.allowed
        \/ \E z \in Pub(mem, reader.key) :
             \/ z[1] = reader.bucket /\ z[2] \in h.occ
             \/ h.next # NoOverflow /\ z[1] \in Reach(mem, overflow_bucket_of(h.next))
    <3>1. CASE Miss \in reader.allowed
      BY <3>1
    <3>2. CASE \E z \in Pub(mem, reader.key) : z[1] \in Reach(mem, reader.bucket)
      <4>1. PICK z \in Pub(mem, reader.key) : z[1] \in Reach(mem, reader.bucket)
        BY <3>2
      <4>2. z[2] \in mem.hdr[z[1]].occ
        BY <4>1, PubIn
      <4>3. NextAt(mem, reader.bucket) = h.next
        BY DEF NextAt, h
      <4>4. z[1] = reader.bucket \/ (h.next # NoOverflow /\ z[1] \in Reach(mem, overflow_bucket_of(h.next)))
        BY <1>0, <2>2, <4>1, <4>3, ReachSplit
      <4> QED
        BY <4>1, <4>2, <4>4 DEF h
    <3> QED
      BY <1>0, <2>0, <3>1, <3>2 DEF Reading, Ahead
  <2> QED
    BY <1>3, <1>4, <2>1, <2>3 DEF Reading, Ahead, NextAt, h
<1> QED
  BY <1>0, <1>3, <1>4, <1>5, ReaderFrame

LEMMA ScanBucketStep ==
    ASSUME ColdInv, ScanBucket PROVE ColdInv'
<1>0. /\ reader \in Readers /\ mem \in Memory /\ reader.pc = "scan" /\ reader.key \in Keys
      /\ reader.bucket \in Buckets /\ reader.hdr \in Headers
  BY DEF ColdInv, Typed, ScanBucket, Readers
<1>1. UNCHANGED <<mem, pm, pc, op, may, writes, rewound>>
  BY DEF ScanBucket, counts
<1>2. Found \in SUBSET Slots /\ Found \in SUBSET Nat
  BY <1>0 DEF Found, Headers, Slots
<1>3. CASE Found # {}
  <2> DEFINE s == First(Found)
             off == mem.off[reader.bucket][s]
  <2>1. s \in Found
    BY <1>2, <1>3, FirstIn
  <2> HIDE DEF s
  <2>2. s \in Slots /\ s \in reader.hdr.occ /\ mem.key[reader.bucket][s] = reader.key
    BY <1>2, <2>1 DEF Found
  <2>3. off \in 0..Tombstone
    BY <1>0, <2>2 DEF Memory
  <2>4. reader' = [reader EXCEPT !.pc = "done", !.result = Seen(off)]
    BY <1>3 DEF ScanBucket, Seen, s
  <2> HIDE DEF off
  <2>5. reader' \in Readers /\ reader'.pc = "done" /\ reader'.result = Seen(off) /\ reader'.allowed = reader.allowed
    BY <1>0, <2>3, <2>4, SeenKnown DEF Readers
  <2>6. ASSUME ~rewound PROVE Reading'
    <3>0. Sound /\ Typed /\ Reading /\ Values
      BY <2>6 DEF ColdInv, Sound
    <3>1. /\ may[reader.key] \subseteq reader.allowed /\ reader.bucket \in Reach(mem, Home[reader.key])
          /\ reader.hdr.occ \subseteq mem.hdr[reader.bucket].occ
      BY <1>0, <3>0 DEF Reading
    <3> DEFINE z == <<reader.bucket, s>>
    <3>2. z \in Buckets \X Slots /\ z[1] = reader.bucket /\ z[2] = s
      BY <1>0, <2>2
    <3>3. z \in Pub(mem, reader.key) /\ OffAt(mem, z) = off
      BY <2>2, <3>1, <3>2, PubIn DEF OffAt, off
    <3>4. Seen(off) \in may[reader.key]
      BY <1>0, <3>0, <3>3, PubLive DEF Values
    <3> QED
      BY <2>5, <3>1, <3>4 DEF Reading
  <2> QED
    BY <1>1, <2>5, <2>6, ReaderFrame
<1>4. CASE Found = {} /\ reader.hdr.next = NoOverflow
  <2>1. reader' = [reader EXCEPT !.pc = "done", !.result = Miss]
    BY <1>4 DEF ScanBucket
  <2>2. reader' \in Readers /\ reader'.pc = "done" /\ reader'.result = Miss /\ reader'.allowed = reader.allowed
    <3>1. Miss \in 0..MaxWrites
      BY ColdAssumption DEF Miss
    <3> QED
      BY <1>0, <2>1, <3>1 DEF Readers
  <2>3. ASSUME ~rewound PROVE Reading'
    <3>0. Reading
      BY <2>3 DEF ColdInv, Sound
    <3>1. \A z \in Pub(mem, reader.key) : ~(z[1] = reader.bucket /\ z[2] \in reader.hdr.occ)
      BY <1>4, PubIn DEF Found
    <3>2. Miss \in reader.allowed
      BY <1>0, <1>4, <3>0, <3>1 DEF Reading
    <3> QED
      BY <2>2, <3>2 DEF Reading
  <2> QED
    BY <1>1, <2>2, <2>3, ReaderFrame
<1>5. CASE Found = {} /\ reader.hdr.next # NoOverflow
  <2> DEFINE d == overflow_bucket_of(reader.hdr.next)
  <2>1. reader' = [reader EXCEPT !.pc = "header", !.bucket = d]
    BY <1>5 DEF ScanBucket
  <2>2. d \in Buckets
    BY <1>0, <1>5, ColdAssumption DEF overflow_bucket_of, Buckets, NoOverflow, Headers
  <2> HIDE DEF d
  <2>3. /\ reader' \in Readers /\ reader'.pc = "header" /\ reader'.bucket = d /\ reader'.key = reader.key
        /\ reader'.allowed = reader.allowed
    BY <1>0, <2>1, <2>2 DEF Readers
  <2>4. ASSUME ~rewound PROVE Reading'
    <3>0. Reading /\ Up(mem)
      BY <2>4, LinksUp DEF ColdInv, Sound
    <3>1. \A z \in Pub(mem, reader.key) : ~(z[1] = reader.bucket /\ z[2] \in reader.hdr.occ)
      BY <1>5, PubIn DEF Found
    <3>2. Miss \in reader.allowed \/ \E z \in Pub(mem, reader.key) : z[1] \in Reach(mem, d)
      BY <1>0, <3>0, <3>1 DEF Reading, d, Ahead
    <3>3. NextAt(mem, reader.bucket) = reader.hdr.next /\ reader.bucket \in Reach(mem, Home[reader.key])
      BY <1>0, <1>5, <3>0 DEF Reading
    <3>4. d \in Reach(mem, Home[reader.key])
      BY <1>0, <1>5, <3>0, <3>3, ReachClosed, HomeKnown DEF d
    <3>5. may[reader.key] \subseteq reader.allowed
      BY <1>0, <3>0 DEF Reading
    <3> QED
      BY <1>1, <2>3, <3>2, <3>4, <3>5 DEF Reading, Ahead
  <2> QED
    BY <1>0, <1>1, <2>2, <2>3, <2>4, ReaderFrame
<1> QED
  BY <1>3, <1>4, <1>5

LEMMA LookupReturnStep ==
    ASSUME ColdInv, LookupReturn PROVE ColdInv'
<1>1. reader' = NoReader /\ UNCHANGED <<mem, pm, pc, op, may, writes, rewound>>
  BY DEF LookupReturn, counts
<1>2. Reading'
  BY <1>1, NoReaderKnown DEF Reading
<1> QED
  BY <1>1, <1>2, NoReaderKnown, ReaderFrame

\* A power failure leaves what is on the media.
LEMMA PowerFailStep ==
    ASSUME ColdInv, PowerFail PROVE ColdInv'
<1>0. /\ mem' = pm /\ pm' = pm /\ pc' = "idle" /\ op' = NoOp /\ reader' = NoReader /\ may' = may
      /\ writes' = writes /\ rewound' = (rewound \/ pm.alloc # mem.alloc)
  BY DEF PowerFail
<1>1. Typed /\ Typed'
  BY <1>0, NoOpKnown, NoReaderKnown DEF ColdInv, Typed, Single, Bulk, Placed
<1> SUFFICES ASSUME ~rewound' PROVE Sound'
  BY <1>1 DEF ColdInv
<1>2. Sound /\ pm.alloc = mem.alloc
  BY <1>0 DEF ColdInv
<1>3. mem \in Memory /\ pm \in Memory
  BY <1>1 DEF Typed
<1>4. Links'
  <2>0. Links /\ Behind
    BY <1>2 DEF Sound
  <2>1. \A x \in Buckets : NextAt(pm, x) = NoOverflow \/ NextAt(pm, x) = NextAt(mem, x)
    BY <2>0 DEF Behind
  <2>2. \A x \in Buckets : NextAt(pm, x) # NoOverflow =>
          overflow_bucket_of(NextAt(pm, x)) > x /\ NextAt(pm, x) <= pm.alloc
    BY <1>2, <2>0, <2>1 DEF Links
  <2>3. \A x, y \in Buckets : NextAt(pm, x) # NoOverflow /\ NextAt(pm, x) = NextAt(pm, y) => x = y
    BY <2>0, <2>1 DEF Links
  <2>4. ASSUME NEW x \in Buckets, x > NumMain + pm.alloc
        PROVE  pm.hdr[x] = [occ |-> {}, next |-> NoOverflow]
    <3>1. mem.hdr[x] = [occ |-> {}, next |-> NoOverflow]
      BY <1>2, <2>0, <2>4 DEF Links
    <3>2. pm.hdr[x] \in [occ: SUBSET Slots, next: 0..NumOverflow]
      BY <1>3 DEF Memory
    <3>3. pm.hdr[x].occ = {} /\ pm.hdr[x].next = NoOverflow
      BY <2>0, <3>1 DEF Behind, NextAt
    <3> QED
      BY <3>2, <3>3
  <2> QED
    BY <1>0, <2>2, <2>3, <2>4 DEF Links
<1>5. Behind' /\ Synced'
  BY <1>0 DEF Behind, Synced
<1>6. \A k \in Keys : Liv(k)' = Pub(pm, k) /\ Pub(pm, k) \subseteq Pub(mem, k) /\ Pub(mem, k) \subseteq Liv(k)
  BY <1>0, <1>1, <1>2, NoOpKnown, PubLive, PubBehind DEF Liv, Pub, Sound
<1>7. Values'
  <2>0. Values
    BY <1>2 DEF Sound
  <2>1. \A k \in Keys : \A y, z \in Liv(k)' : y = z
    BY <2>0, <1>6 DEF Values
  <2>2. \A k \in Keys : \A z \in Pub(pm, k) : Seen(OffAt(pm, z)) \in may[k]
    BY <2>0, <1>6 DEF Values
  <2>3. \A k \in Keys : Pub(pm, k) = {} => Miss \in may[k]
    BY <2>0 DEF Values
  <2> QED
    BY <1>0, <1>6, <2>1, <2>2, <2>3 DEF Values
<1>8. Fresh'
  <2>1. \A x \in Buckets, s \in Slots : {pm.off[x][s]} \subseteq 0..writes \cup {Tombstone}
    BY <1>2 DEF Sound, Fresh
  <2>2. \A i \in 1..Len(op'.entries) : FALSE
    BY <1>0, NoOpKnown
  <2> QED
    BY <1>0, <2>1, <2>2 DEF Fresh, Bulk
<1>9. Singly' /\ Grouped' /\ Reading'
  BY <1>0, NoReaderKnown DEF Singly, Grouped, Single, Bulk, Reading
<1> QED
  BY <1>4, <1>5, <1>7, <1>8, <1>9 DEF Sound

\* One word moves to the media.
LEMMA WriteBackStep ==
    ASSUME ColdInv, WriteBack PROVE ColdInv'
<1>0. UNCHANGED <<mem, pc, op, reader, may, writes, rewound>> /\ mem \in Memory /\ pm \in Memory
  BY DEF WriteBack, counts, ColdInv, Typed
<1>1. /\ pm' \in Memory
      /\ \A x \in Buckets :
           /\ pm'.hdr[x] \in {pm.hdr[x], mem.hdr[x]}
           /\ \A s \in Slots : /\ pm'.key[x][s] \in {pm.key[x][s], mem.key[x][s]}
                               /\ pm'.off[x][s] \in {pm.off[x][s], mem.off[x][s]}
  <2>1. CASE \E b \in Buckets, s \in Slots : pm' = [pm EXCEPT !.key[b][s] = mem.key[b][s]]
    <3>1. PICK b \in Buckets, s \in Slots : pm' = [pm EXCEPT !.key[b][s] = mem.key[b][s]]
      BY <2>1
    <3> DEFINE f == [pm.key EXCEPT ![b] = [pm.key[b] EXCEPT ![s] = mem.key[b][s]]]
    <3>2. /\ f \in [Buckets -> [Slots -> Keys \cup {NoKey}]]
          /\ \A x \in Buckets, t \in Slots : f[x][t] \in {pm.key[x][t], mem.key[x][t]}
      BY <1>0 DEF Memory
    <3>3. pm' = [pm EXCEPT !.key = f]
      BY <3>1, <1>0 DEF Memory
    <3> HIDE DEF f
    <3>4. pm' \in Memory /\ pm'.key = f /\ pm'.off = pm.off /\ pm'.hdr = pm.hdr
      BY <3>2, <3>3, <1>0 DEF Memory
    <3> QED
      BY <3>2, <3>4
  <2>2. CASE \E b \in Buckets, s \in Slots : pm' = [pm EXCEPT !.off[b][s] = mem.off[b][s]]
    <3>1. PICK b \in Buckets, s \in Slots : pm' = [pm EXCEPT !.off[b][s] = mem.off[b][s]]
      BY <2>2
    <3> DEFINE f == [pm.off EXCEPT ![b] = [pm.off[b] EXCEPT ![s] = mem.off[b][s]]]
    <3>2. /\ f \in [Buckets -> [Slots -> 0..Tombstone]]
          /\ \A x \in Buckets, t \in Slots : f[x][t] \in {pm.off[x][t], mem.off[x][t]}
      BY <1>0 DEF Memory
    <3>3. pm' = [pm EXCEPT !.off = f]
      BY <3>1, <1>0 DEF Memory
    <3> HIDE DEF f
    <3>4. pm' \in Memory /\ pm'.off = f /\ pm'.key = pm.key /\ pm'.hdr = pm.hdr
      BY <3>2, <3>3, <1>0 DEF Memory
    <3> QED
      BY <3>2, <3>4
  <2>3. CASE \E b \in Buckets : pm' = [pm EXCEPT !.hdr[b] = mem.hdr[b]]
    <3>1. PICK b \in Buckets : pm' = [pm EXCEPT !.hdr[b] = mem.hdr[b]]
      BY <2>3
    <3> DEFINE f == [pm.hdr EXCEPT ![b] = mem.hdr[b]]
    <3>2. f \in [Buckets -> Headers] /\ \A x \in Buckets : f[x] \in {pm.hdr[x], mem.hdr[x]}
      BY <1>0 DEF Memory, Headers
    <3>3. pm' = [pm EXCEPT !.hdr = f]
      BY <3>1, <1>0 DEF Memory
    <3> HIDE DEF f
    <3>4. pm' \in Memory /\ pm'.hdr = f /\ pm'.key = pm.key /\ pm'.off = pm.off
      BY <3>2, <3>3, <1>0 DEF Memory, Headers
    <3> QED
      BY <3>2, <3>4
  <2>4. CASE pm' = [pm EXCEPT !.alloc = mem.alloc]
    <3>1. pm' \in Memory /\ pm'.hdr = pm.hdr /\ pm'.key = pm.key /\ pm'.off = pm.off
      BY <2>4, <1>0 DEF Memory
    <3> QED
      BY <3>1
  <2> QED
    BY <2>1, <2>2, <2>3, <2>4 DEF WriteBack
<1>2. Typed /\ Typed'
  BY <1>0, <1>1 DEF ColdInv, Typed
<1> SUFFICES ASSUME ~rewound PROVE Sound'
  BY <1>0, <1>2 DEF ColdInv
<1>3. Sound
  BY DEF ColdInv
<1>4. Toward
  BY <1>1 DEF Toward
<1>5. Synced'
  <2>1. DirtyHeaders' = DirtyHeaders /\ DirtySpots' = DirtySpots
    BY <1>0 DEF DirtyHeaders, DirtySpots
  <2>2. \A x \in Buckets : x \notin DirtyHeaders => pm'.hdr[x] = mem.hdr[x]
    BY <1>1, <1>3 DEF Sound, Synced
  <2>3. \A x \in Buckets, s \in Slots : <<x, s>> \notin DirtySpots =>
          pm'.key[x][s] = mem.key[x][s] /\ pm'.off[x][s] = mem.off[x][s]
    BY <1>1, <1>3 DEF Sound, Synced
  <2> QED
    BY <1>0, <2>1, <2>2, <2>3 DEF Synced
<1> QED
  BY <1>0, <1>2, <1>3, <1>4, <1>5, TowardStep

-----------------------------------------------------------------------------
(* The writer takes the lock.                                              *)

LEMMA UpsertStep ==
    ASSUME ColdInv, NEW k \in Keys, upsert(k) PROVE ColdInv'
<1> DEFINE e == [key |-> k, off |-> writes + 1]
           es == <<e>>
<1>0. /\ writes \in 0..MaxWrites /\ writes < MaxWrites /\ writes' = writes + 1 /\ rewound' = rewound
      /\ Begin(es, "upsert")
  BY DEF upsert, counts, ColdInv, Typed
<1>1. e \in EntryRec /\ e.off = writes + 1 /\ MaxWrites \in Nat
  BY <1>0, ColdAssumption DEF EntryRec, Tombstone
<1> HIDE DEF e
<1>2. es \in Seq(EntryRec) /\ es # <<>> /\ Len(es) = 1 /\ es[1] = e
  BY <1>1
<1> HIDE DEF es
<1>3. writes' \in 0..MaxWrites /\ writes <= writes'
  BY <1>0, <1>1
<1>4. \A i \in 1..Len(es) : es[i].off \in writes+1..writes' /\ es[i].off \in 1..writes' \cup {Tombstone}
  BY <1>0, <1>1, <1>2
<1> QED
  BY <1>0, <1>2, <1>3, <1>4, BeginStep

LEMMA RemoveStep ==
    ASSUME ColdInv, NEW k \in Keys, remove(k) PROVE ColdInv'
<1> DEFINE e == [key |-> k, off |-> Tombstone]
           es == <<e>>
<1>0. /\ writes \in 0..MaxWrites /\ writes' = writes /\ rewound' = rewound
      /\ Begin(es, "remove")
  BY DEF remove, ColdInv, Typed
<1>1. e \in EntryRec /\ e.off = Tombstone /\ MaxWrites \in Nat
  BY ColdAssumption DEF EntryRec, Tombstone
<1> HIDE DEF e
<1>2. es \in Seq(EntryRec) /\ es # <<>> /\ Len(es) = 1 /\ es[1] = e
  BY <1>1
<1> HIDE DEF es
<1>3. writes' \in 0..MaxWrites /\ writes <= writes'
  BY <1>0, <1>1
<1>4. \A i \in 1..Len(es) : es[i].off \in 1..writes' \cup {Tombstone}
  BY <1>1, <1>2
<1> QED
  BY <1>0, <1>1, <1>2, <1>3, <1>4, BeginStep

LEMMA BulkUpsertStep ==
    ASSUME ColdInv, NEW ks \in Groups, bulk_upsert(ks) PROVE ColdInv'
<1> DEFINE es == [i \in DOMAIN ks |-> [key |-> ks[i], off |-> writes + i]]
<1>0. /\ writes \in 0..MaxWrites /\ writes + Len(ks) <= MaxWrites /\ writes' = writes + Len(ks)
      /\ rewound' = rewound /\ IsInjective(ks) /\ \A i \in DOMAIN ks : Home[ks[i]] = Home[ks[1]]
      /\ Begin(es, "stage")
  BY DEF bulk_upsert, counts, ColdInv, Typed
<1>1. PICK n \in 1..MaxGroup : ks \in [1..n -> Keys]
  BY DEF Groups
<1>2. n \in Nat /\ n >= 1 /\ DOMAIN ks = 1..n /\ Len(ks) = n /\ MaxWrites \in Nat
  BY <1>1, ColdAssumption
<1>3. es \in [1..n -> EntryRec] /\ \A i \in 1..n : es[i].key = ks[i] /\ es[i].off = writes + i
  BY <1>0, <1>1, <1>2 DEF EntryRec, Tombstone
<1> HIDE DEF es
<1>4. es \in Seq(EntryRec) /\ Len(es) = n /\ es # <<>>
  BY <1>2, <1>3
<1>5. writes' \in 0..MaxWrites /\ writes <= writes'
  BY <1>0, <1>2
<1>6. \A i \in 1..Len(es) : es[i].off \in writes+1..writes' /\ es[i].off \in 1..writes' \cup {Tombstone}
  BY <1>0, <1>2, <1>3, <1>4
<1>7. \A i, j \in 1..n : ks[i] = ks[j] => i = j
  BY <1>0, <1>2 DEF IsInjective
<1>8. \A i, j \in 1..Len(es) :
         /\ Home[es[i].key] = Home[es[j].key]
         /\ (es[i].key = es[j].key \/ es[i].off = es[j].off) => i = j
  BY SMTT(30), <1>0, <1>2, <1>3, <1>4, <1>7
<1> QED
  BY <1>0, <1>4, <1>5, <1>6, <1>8, BeginStep

-----------------------------------------------------------------------------
(* The writer returns.                                                     *)

\* A single entry is written, or the key is not there to be removed.
LEMMA OneReturned ==
    ASSUME ColdInv, pc \in Single, Return(1), mem' = mem, pm' \in Memory,
           UNCHANGED <<reader, writes, rewound>>,
           ~rewound =>
             /\ \A x \in Buckets : pm'.hdr[x] = mem.hdr[x]
             /\ \A x \in Buckets, s \in Slots : pm'.key[x][s] = mem.key[x][s] /\ pm'.off[x][s] = mem.off[x][s]
             /\ \/ op.at \in Pub(mem, op.entries[1].key) /\ OffAt(mem, op.at) = op.entries[1].off
                \/ Pub(mem, op.entries[1].key) = {} /\ op.entries[1].off = Tombstone
    PROVE  ColdInv'
<1>1. Typed /\ mem' \in Memory /\ Len(op.entries) \in Nat /\ 1 <= Len(op.entries)
  BY DEF ColdInv, Typed, Ops
<1>2. Typed'
  BY <1>1, TypedReturn
<1> SUFFICES ASSUME ~rewound PROVE Sound'
  BY <1>2 DEF ColdInv
<1>3. Sound /\ Len(op.entries) = 1 /\ pc # "idle"
  BY DEF ColdInv, Sound, Singly, Single
<1>4. \A i \in 1..1 : \/ \E z \in Pub(mem, op.entries[i].key) : OffAt(mem, z) = op.entries[i].off
                      \/ Pub(mem, op.entries[i].key) = {} /\ Seen(op.entries[i].off) = Miss
  BY DEF Seen
<1>5. \A i, j \in 1..1 : op.entries[i].key = op.entries[j].key => i = j
  OBVIOUS
<1>6. \A i \in 1+1..Len(op.entries) : \A x \in Buckets, s \in Slots : mem.off[x][s] # op.entries[i].off
  BY <1>3
<1> QED
  BY <1>1, <1>2, <1>3, <1>4, <1>5, <1>6, ReturnStep

LEMMA PersistOffsetStep ==
    ASSUME ColdInv, PersistOffset PROVE ColdInv'
<1>0. /\ pc = "persistOffset" /\ pm' = StoreOffsetAt(pm, op.at, mem.off[op.at[1]][op.at[2]]) /\ Return(1)
      /\ mem' = mem /\ UNCHANGED <<reader, writes, rewound>> /\ pc \in Single
  BY DEF PersistOffset, counts, Single
<1>1. mem \in Memory /\ pm \in Memory /\ op.at \in Buckets \X Slots
  BY <1>0 DEF ColdInv, Typed, Placed
<1> DEFINE o == mem.off[op.at[1]][op.at[2]]
           at == op.at
<1>2. o \in 0..Tombstone /\ at \in Buckets \X Slots /\ pm' = StoreOffsetAt(pm, at, o)
  BY <1>0, <1>1 DEF Memory
<1> HIDE DEF o, at
<1>a. /\ pm' \in Memory /\ pm'.key = pm.key /\ pm'.hdr = pm.hdr /\ pm'.off[at[1]][at[2]] = o
      /\ \A x \in Buckets, s \in Slots : <<x, s>> # at => pm'.off[x][s] = pm.off[x][s]
  BY <1>1, <1>2, StoreOffsetKnown
<1>3. /\ pm' \in Memory /\ pm'.key = pm.key /\ pm'.hdr = pm.hdr
      /\ pm'.off[op.at[1]][op.at[2]] = mem.off[op.at[1]][op.at[2]]
      /\ \A x \in Buckets, s \in Slots : <<x, s>> # op.at => pm'.off[x][s] = pm.off[x][s]
  BY <1>a DEF o, at
<1>4. ASSUME ~rewound
      PROVE  /\ \A x \in Buckets : pm'.hdr[x] = mem.hdr[x]
             /\ \A x \in Buckets, s \in Slots : pm'.key[x][s] = mem.key[x][s] /\ pm'.off[x][s] = mem.off[x][s]
             /\ op.at \in Pub(mem, op.entries[1].key) /\ OffAt(mem, op.at) = op.entries[1].off
  <2>0. Synced /\ Values /\ Singly
    BY <1>4 DEF ColdInv, Sound
  <2>1. op.at \in Pub(mem, op.entries[1].key) /\ OffAt(mem, op.at) = op.entries[1].off
    BY <1>0, <2>0 DEF Singly
  <2>2. pm.key[op.at[1]][op.at[2]] = mem.key[op.at[1]][op.at[2]]
    BY <1>1, <2>0, <2>1, PubIn DEF Values
  <2>3. DirtyHeaders = {} /\ DirtySpots = {op.at}
    BY <1>0 DEF DirtyHeaders, DirtySpots, Bulk
  <2>4. \A x \in Buckets : pm'.hdr[x] = mem.hdr[x]
    BY <1>3, <2>0, <2>3 DEF Synced
  <2>5. ASSUME NEW x \in Buckets, NEW s \in Slots
        PROVE  pm'.key[x][s] = mem.key[x][s] /\ pm'.off[x][s] = mem.off[x][s]
    <3>1. CASE <<x, s>> = op.at
      <4>1. op.at[1] = x /\ op.at[2] = s
        BY <3>1
      <4> QED
        BY <1>3, <2>2, <4>1
    <3>2. CASE <<x, s>> # op.at
      BY <1>3, <2>0, <2>3, <3>2 DEF Synced
    <3> QED
      BY <3>1, <3>2
  <2> QED
    BY <2>1, <2>4, <2>5
<1> QED
  BY <1>0, <1>3, <1>4, OneReturned

\* A header that is persisted last.
LEMMA LastHeader ==
    ASSUME ColdInv, pc \in {"persistHeader", "persistLink"}, NEW b, b = IF pc = "persistHeader" THEN op.at[1] ELSE op.tail,
           pm' = PersistHeaders({b}), pc = "persistHeader" => op.tail = 0,
           Return(1), mem' = mem, UNCHANGED <<reader, writes, rewound>>
    PROVE  ColdInv'
<1>0. mem \in Memory /\ pm \in Memory /\ pc \in Single
  BY DEF ColdInv, Typed, Single
<1>1. /\ pm' \in Memory /\ pm'.key = pm.key /\ pm'.off = pm.off
      /\ \A x \in Buckets : pm'.hdr[x] = IF x \in {b} THEN mem.hdr[x] ELSE pm.hdr[x]
  BY <1>0, PersistHeadersKnown
<1>2. ASSUME ~rewound
      PROVE  /\ \A x \in Buckets : pm'.hdr[x] = mem.hdr[x]
             /\ \A x \in Buckets, s \in Slots : pm'.key[x][s] = mem.key[x][s] /\ pm'.off[x][s] = mem.off[x][s]
             /\ op.at \in Pub(mem, op.entries[1].key) /\ OffAt(mem, op.at) = op.entries[1].off
  <2>0. Synced /\ Singly
    BY <1>2 DEF ColdInv, Sound
  <2>1. op.at \in Pub(mem, op.entries[1].key) /\ OffAt(mem, op.at) = op.entries[1].off
    BY <1>0, <2>0 DEF Singly
  <2>2. DirtyHeaders = {b} /\ DirtySpots = {}
    BY DEF DirtyHeaders, DirtySpots, Bulk
  <2>3. \A x \in Buckets : pm'.hdr[x] = mem.hdr[x]
    BY <1>1, <2>0, <2>2 DEF Synced
  <2>4. \A x \in Buckets, s \in Slots : pm'.key[x][s] = mem.key[x][s] /\ pm'.off[x][s] = mem.off[x][s]
    BY <1>1, <2>0, <2>2 DEF Synced
  <2> QED
    BY <2>1, <2>3, <2>4
<1> QED
  BY <1>0, <1>1, <1>2, OneReturned

LEMMA PersistLinkStep ==
    ASSUME ColdInv, PersistLink PROVE ColdInv'
BY LastHeader DEF PersistLink, counts

LEMMA NothingToBuryStep ==
    ASSUME ColdInv, NothingToBury PROVE ColdInv'
<1>0. /\ pc = "remove" /\ Match = {} /\ Return(1) /\ pm' = pm
      /\ mem' = mem /\ UNCHANGED <<reader, writes, rewound>> /\ pc \in Single
  BY DEF NothingToBury, counts, Single
<1>1. Typed /\ pm' \in Memory /\ op.n < Len(op.entries)
  BY <1>0 DEF ColdInv, Typed
<1>2. ASSUME ~rewound
      PROVE  /\ \A x \in Buckets : pm'.hdr[x] = mem.hdr[x]
             /\ \A x \in Buckets, s \in Slots : pm'.key[x][s] = mem.key[x][s] /\ pm'.off[x][s] = mem.off[x][s]
             /\ Pub(mem, op.entries[1].key) = {} /\ op.entries[1].off = Tombstone
  <2>0. Synced /\ Singly
    BY <1>2 DEF ColdInv, Sound
  <2>1. op.n = 0 /\ op.entries[1].off = Tombstone
    BY <1>0, <2>0 DEF Singly
  <2>2. Entry = op.entries[1]
    BY <2>1 DEF Entry
  <2>3. Pub(mem, op.entries[1].key) = {}
    BY <1>0, <1>1, <2>2, MatchKnown, PubLive
  <2>4. DirtyHeaders = {} /\ DirtySpots = {}
    BY <1>0 DEF DirtyHeaders, DirtySpots, Bulk
  <2> QED
    BY <1>0, <2>0, <2>1, <2>3, <2>4 DEF Synced
<1> QED
  BY <1>0, <1>1, <1>2, OneReturned

\* Nothing was written.
LEMMA NoneReturned ==
    ASSUME ColdInv, pc \in {"upsert", "stage"}, pc = "stage" => op.dirty = <<>>,
           Return(0), mem' = mem, pm' = pm, UNCHANGED <<reader, writes, rewound>>
    PROVE  ColdInv'
<1>1. Typed /\ mem' \in Memory /\ pm' \in Memory /\ Len(op.entries) \in Nat
  BY DEF ColdInv, Typed, Ops
<1>2. Typed'
  BY <1>1, TypedReturn
<1> SUFFICES ASSUME ~rewound PROVE Sound'
  BY <1>2 DEF ColdInv
<1>3. Sound /\ pc # "idle"
  BY DEF ColdInv
<1>4. op.n = 0 /\ DirtyHeaders = {} /\ DirtySpots = {}
  <2>1. CASE pc = "upsert"
    BY <1>3, <2>1 DEF Sound, Singly, Single, DirtyHeaders, DirtySpots, Bulk
  <2>2. CASE pc = "stage"
    <3>1. op.n = 0 /\ op.spots = {}
      BY <1>3, <2>2 DEF Sound, Grouped, GroupClaims, Bulk
    <3>2. Range(op.dirty) = {}
      BY <2>2 DEF Range
    <3> QED
      BY <2>2, <3>1, <3>2 DEF DirtyHeaders, DirtySpots, Bulk
  <2> QED
    BY <2>1, <2>2
<1>5. /\ \A x \in Buckets : pm'.hdr[x] = mem.hdr[x]
      /\ \A x \in Buckets, s \in Slots : pm'.key[x][s] = mem.key[x][s] /\ pm'.off[x][s] = mem.off[x][s]
  BY <1>3, <1>4 DEF Sound, Synced
<1>6. \A i \in 1..Len(op.entries) : \A x \in Buckets, s \in Slots : mem.off[x][s] # op.entries[i].off
  <2>1. pc \in Bulk \cup {"upsert"} /\ pc # "attach" /\ \A i \in 1..Len(op.entries) : i > op.n
    BY <1>1, <1>4 DEF Bulk
  <2>2. \A i \in 1..Len(op.entries) :
             \A x \in Buckets, s \in Slots : op.entries[i].off \notin {mem.off[x][s], pm.off[x][s]}
    BY <1>3, <2>1 DEF Sound, Fresh
  <2> QED
    BY <2>2
<1>7. 0 + 1 .. Len(op.entries) = 1 .. Len(op.entries) /\ 1..0 = {}
  BY <1>1
<1>8. 0 \in Nat /\ 0 <= Len(op.entries)
  BY <1>1
<1> QED
  BY <1>1, <1>2, <1>3, <1>5, <1>6, <1>7, <1>8, ReturnStep

LEMMA ExhaustedStep ==
    ASSUME ColdInv, Exhausted PROVE ColdInv'
BY NoneReturned DEF Exhausted, counts

LEMMA DrainHeadersStep ==
    ASSUME ColdInv, DrainHeaders PROVE ColdInv'
<1>0. /\ pc = "flip" /\ op.flipped = Len(op.dirty) /\ pm' = PersistHeaders(Range(op.dirty)) /\ Return(op.n)
      /\ mem' = mem /\ reader' = reader /\ writes' = writes /\ rewound' = rewound
  BY DEF DrainHeaders, counts
<1>1. /\ Typed /\ mem' \in Memory /\ mem \in Memory /\ pm \in Memory /\ Len(op.entries) \in Nat
      /\ op.n \in Nat /\ op.n <= Len(op.entries) /\ op.dirty \in Seq(Buckets)
  BY <1>0 DEF ColdInv, Typed, Ops
<1>2. /\ pm' \in Memory /\ pm'.key = pm.key /\ pm'.off = pm.off
      /\ \A x \in Buckets : pm'.hdr[x] = IF x \in Range(op.dirty) THEN mem.hdr[x] ELSE pm.hdr[x]
  BY <1>0, <1>1, PersistHeadersKnown
<1>3. Typed'
  BY <1>0, <1>1, <1>2, TypedReturn
<1> SUFFICES ASSUME ~rewound PROVE Sound'
  BY <1>0, <1>3 DEF ColdInv
<1>4. Sound /\ pc # "idle" /\ pc \in Bulk /\ pc # "attach"
  BY <1>0 DEF ColdInv, Bulk
<1>5. DirtyHeaders = Range(op.dirty) /\ DirtySpots = {}
  BY <1>0 DEF DirtyHeaders, DirtySpots, Bulk
<1>6. \A x \in Buckets : pm'.hdr[x] = mem.hdr[x]
  BY <1>2, <1>4, <1>5 DEF Sound, Synced
<1>7. \A x \in Buckets, s \in Slots : pm'.key[x][s] = mem.key[x][s] /\ pm'.off[x][s] = mem.off[x][s]
  BY <1>2, <1>4, <1>5 DEF Sound, Synced
<1>8. GroupEntries /\ GroupClaims /\ GroupStaged /\ GroupFlipped
  BY <1>0, <1>4 DEF Sound, Grouped
<1>9. ASSUME NEW k PROVE Liv(k) \subseteq Pub(mem, k)
  <2> SUFFICES ASSUME NEW z \in Liv(k) PROVE z[2] \in mem.hdr[z[1]].occ
    BY LivIn, PubIn
  <2> SUFFICES ASSUME z[2] \in op.bits[z[1]] PROVE z[2] \in mem.hdr[z[1]].occ
    BY LivIn
  <2>1. z[1] \in Buckets
    BY LivIn
  <2>2. z[1] \in Range(op.dirty)
    BY <1>8, <2>1 DEF GroupClaims
  <2>3. PICK j \in 1..Len(op.dirty) : op.dirty[j] = z[1]
    BY <1>1, <2>2 DEF Range
  <2> QED
    BY <1>0, <1>8, <2>3 DEF GroupFlipped
<1>10. \A i \in 1..op.n : \E z \in Pub(mem, op.entries[i].key) : OffAt(mem, z) = op.entries[i].off
  BY <1>8, <1>9 DEF GroupStaged
<1>11. \A i, j \in 1..op.n : op.entries[i].key = op.entries[j].key => i = j
  <2>1. \A i \in 1..op.n : i \in 1..Len(op.entries)
    BY <1>1
  <2> QED
    BY <1>8, <2>1 DEF GroupEntries
<1>12. \A i \in op.n+1..Len(op.entries) : \A x \in Buckets, s \in Slots : mem.off[x][s] # op.entries[i].off
  <2> SUFFICES ASSUME NEW i \in op.n+1..Len(op.entries), NEW x \in Buckets, NEW s \in Slots
               PROVE  mem.off[x][s] # op.entries[i].off
    OBVIOUS
  <2>1. i \in 1..Len(op.entries) /\ i > op.n
    BY <1>1
  <2>2. op.entries[i].off \notin {mem.off[x][s], pm.off[x][s]}
    BY <1>4, <2>1 DEF Sound, Fresh
  <2> QED
    BY <2>2
<1> QED
  BY <1>0, <1>1, <1>3, <1>4, <1>6, <1>7, <1>10, <1>11, <1>12, ReturnStep

-----------------------------------------------------------------------------
(* Persists that the writer goes on after.                                 *)

LEMMA PersistEntryStep ==
    ASSUME ColdInv, PersistEntry PROVE ColdInv'
<1>0. /\ pc = "persistEntry" /\ pc' = "publish" /\ pm' = PersistEntries({op.at})
      /\ mem' = mem /\ op' = op /\ reader' = reader /\ may' = may /\ writes' = writes /\ rewound' = rewound
  BY DEF PersistEntry, counts
<1>1. Typed /\ mem \in Memory /\ pm \in Memory /\ op \in Ops
  BY DEF ColdInv, Typed
<1> DEFINE spots == {op.at}
<1>a. pm' = PersistEntries(spots)
  BY <1>0
<1> HIDE DEF spots
<1>b. /\ pm' \in Memory /\ pm'.hdr = pm.hdr
      /\ \A x \in Buckets, s \in Slots :
            /\ pm'.key[x][s] = IF <<x, s>> \in spots THEN mem.key[x][s] ELSE pm.key[x][s]
            /\ pm'.off[x][s] = IF <<x, s>> \in spots THEN mem.off[x][s] ELSE pm.off[x][s]
  BY <1>1, <1>a, PersistEntriesKnown
<1>2. /\ pm' \in Memory /\ pm'.hdr = pm.hdr
      /\ \A x \in Buckets, s \in Slots :
            /\ pm'.key[x][s] = IF <<x, s>> \in {op.at} THEN mem.key[x][s] ELSE pm.key[x][s]
            /\ pm'.off[x][s] = IF <<x, s>> \in {op.at} THEN mem.off[x][s] ELSE pm.off[x][s]
  BY <1>b DEF spots
<1>3. Typed'
  BY <1>0, <1>1, <1>2 DEF Typed, Single, Placed
<1> SUFFICES ASSUME ~rewound PROVE Sound'
  BY <1>0, <1>3 DEF ColdInv
<1>4. Sound
  BY DEF ColdInv
<1>5. Toward
  BY <1>2 DEF Toward
<1>6. Synced'
  <2>1. DirtyHeaders = {} /\ DirtySpots = {op.at}
    BY <1>0 DEF DirtyHeaders, DirtySpots, Bulk
  <2>2. \A x \in Buckets : pm'.hdr[x] = mem.hdr[x]
    BY <1>2, <1>4, <2>1 DEF Sound, Synced
  <2>3. \A x \in Buckets, s \in Slots : pm'.key[x][s] = mem.key[x][s] /\ pm'.off[x][s] = mem.off[x][s]
    BY <1>2, <1>4, <2>1 DEF Sound, Synced
  <2> QED
    BY <1>0, <2>2, <2>3 DEF Synced
<1> QED
  BY <1>0, <1>1, <1>3, <1>4, <1>5, <1>6, TowardStep

LEMMA DrainEntriesStep ==
    ASSUME ColdInv, DrainEntries PROVE ColdInv'
<1>0. /\ pc = "drain" /\ pc' = "flip" /\ pm' = PersistEntries(op.spots)
      /\ mem' = mem /\ op' = op /\ reader' = reader /\ may' = may /\ writes' = writes /\ rewound' = rewound
  BY DEF DrainEntries, counts
<1>1. Typed /\ mem \in Memory /\ pm \in Memory /\ op \in Ops
  BY DEF ColdInv, Typed
<1>2. /\ pm' \in Memory /\ pm'.hdr = pm.hdr
      /\ \A x \in Buckets, s \in Slots :
            /\ pm'.key[x][s] = IF <<x, s>> \in op.spots THEN mem.key[x][s] ELSE pm.key[x][s]
            /\ pm'.off[x][s] = IF <<x, s>> \in op.spots THEN mem.off[x][s] ELSE pm.off[x][s]
  BY <1>0, <1>1, PersistEntriesKnown
<1>3. Typed'
  BY <1>0, <1>1, <1>2 DEF Typed, Single, Bulk, Placed
<1> SUFFICES ASSUME ~rewound PROVE Sound'
  BY <1>0, <1>3 DEF ColdInv
<1>4. Sound
  BY DEF ColdInv
<1>5. Toward
  BY <1>2 DEF Toward
<1>6. Synced'
  <2>1. DirtyHeaders = Range(op.dirty) /\ DirtySpots = op.spots /\ DirtyHeaders' = Range(op.dirty)
    BY <1>0 DEF DirtyHeaders, DirtySpots, Bulk
  <2>2. \A x \in Buckets : x \notin Range(op.dirty) => pm'.hdr[x] = mem.hdr[x]
    BY <1>2, <1>4, <2>1 DEF Sound, Synced
  <2>3. ASSUME NEW x \in Buckets, NEW s \in Slots
        PROVE  pm'.key[x][s] = mem.key[x][s] /\ pm'.off[x][s] = mem.off[x][s]
    <3>1. <<x, s>> \notin op.spots => pm.key[x][s] = mem.key[x][s] /\ pm.off[x][s] = mem.off[x][s]
      BY <1>4, <2>1 DEF Sound, Synced
    <3> QED
      BY <1>2, <3>1
  <2> QED
    BY <1>0, <2>1, <2>2, <2>3 DEF Synced
<1> QED
  BY <1>0, <1>1, <1>3, <1>4, <1>5, <1>6, TowardStep

LEMMA PersistHeaderStep ==
    ASSUME ColdInv, PersistHeader PROVE ColdInv'
<1>0. /\ pc = "persistHeader" /\ pm' = PersistHeaders({op.at[1]})
      /\ mem' = mem /\ reader' = reader /\ writes' = writes /\ rewound' = rewound
  BY DEF PersistHeader, counts
<1>a. CASE ~Extending
  <2>1. Return(1) /\ op.tail = 0
    BY <1>a DEF PersistHeader, Extending
  <2> QED
    BY <1>0, <2>1, LastHeader
<1>b. CASE Extending
  <2>0. pc' = "link" /\ op' = op /\ may' = may /\ op.tail # 0
    BY <1>b DEF PersistHeader, Extending
  <2>1. Typed /\ mem \in Memory /\ pm \in Memory /\ op \in Ops
    BY DEF ColdInv, Typed
  <2>2. /\ pm' \in Memory /\ pm'.key = pm.key /\ pm'.off = pm.off
        /\ \A x \in Buckets : pm'.hdr[x] = IF x \in {op.at[1]} THEN mem.hdr[x] ELSE pm.hdr[x]
    BY <1>0, <2>1, PersistHeadersKnown
  <2>3. op.at[1] > NumMain /\ op.n < Len(op.entries) /\ op.at \in Buckets \X Slots
    BY <1>0, <2>0 DEF ColdInv, Typed, Single, Placed
  <2>4. Typed'
    BY <1>0, <2>0, <2>1, <2>2, <2>3 DEF Typed, Single, Placed
  <2> SUFFICES ASSUME ~rewound PROVE Sound'
    BY <1>0, <2>4 DEF ColdInv
  <2>5. Sound
    BY DEF ColdInv
  <2>6. Toward
    BY <2>2 DEF Toward
  <2>7. Synced'
    <3>1. DirtyHeaders = {op.at[1]} /\ DirtySpots = {}
      BY <1>0 DEF DirtyHeaders, DirtySpots, Bulk
    <3>2. \A x \in Buckets : pm'.hdr[x] = mem.hdr[x]
      BY <2>2, <2>5, <3>1 DEF Sound, Synced
    <3>3. \A x \in Buckets, s \in Slots : pm'.key[x][s] = mem.key[x][s] /\ pm'.off[x][s] = mem.off[x][s]
      BY <2>2, <2>5, <3>1 DEF Sound, Synced
    <3> QED
      BY <1>0, <3>2, <3>3 DEF Synced
  <2> QED
    BY <1>0, <2>0, <2>1, <2>4, <2>5, <2>6, <2>7, TowardStep
<1> QED
  BY <1>a, <1>b

\* The pool is used up in the middle of a group: what was staged is drained.
LEMMA StageExhaustedStep ==
    ASSUME ColdInv, StageExhausted PROVE ColdInv'
<1>0. /\ pc = "stage" /\ mem' = mem /\ pm' = pm /\ reader' = reader /\ writes' = writes /\ rewound' = rewound
  BY DEF StageExhausted, counts
<1>a. CASE op.dirty = <<>>
  BY <1>0, <1>a, NoneReturned DEF StageExhausted
<1>b. CASE op.dirty # <<>>
  <2>0. pc' = "drain" /\ op' = op /\ may' = may
    BY <1>b DEF StageExhausted
  <2>1. Typed
    BY DEF ColdInv
  <2>2. Typed'
    BY <1>0, <2>0, <2>1 DEF Typed, Single, Bulk, Placed
  <2> SUFFICES ASSUME ~rewound PROVE Sound'
    BY <1>0, <2>2 DEF ColdInv
  <2>3. Sound
    BY DEF ColdInv
  <2>4. Links' /\ Behind'
    BY <1>0, <2>3 DEF Sound, Links, Behind, NextAt
  <2>5. Synced'
    <3>1. DirtyHeaders' = DirtyHeaders /\ DirtySpots' = DirtySpots
      BY <1>0, <2>0 DEF DirtyHeaders, DirtySpots, Bulk
    <3> QED
      BY <1>0, <2>3, <3>1 DEF Sound, Synced
  <2>6. Values'
    BY <1>0, <2>0, <2>3 DEF Sound, Values, Liv, Pub, Holding, Reach, OffAt
  <2>7. Fresh'
    BY <1>0, <2>0, <2>3 DEF Sound, Fresh, Bulk
  <2>8. Singly'
    BY <2>0 DEF Singly, Single
  <2>9. Grouped'
    <3>1. GroupEntries /\ GroupClaims /\ GroupStaged /\ op.flipped = 0
      BY <1>0, <2>3 DEF Sound, Grouped, Bulk
    <3>2. GroupEntries'
      BY <2>0, <3>1 DEF GroupEntries
    <3>3. GroupClaims'
      BY <1>0, <2>0, <3>1 DEF GroupClaims, Reach
    <3>4. GroupStaged'
      BY <1>0, <2>0, <3>1 DEF GroupStaged, Liv, Holding, Reach, OffAt
    <3> QED
      BY <2>0, <3>1, <3>2, <3>3, <3>4 DEF Grouped
  <2>10. Reading'
    BY <1>0, <2>0, <2>3 DEF Sound, Reading, Pub, Holding, Reach, Ahead, NextAt
  <2> QED
    BY <2>3, <2>4, <2>5, <2>6, <2>7, <2>8, <2>9, <2>10 DEF Sound
<1> QED
  BY <1>a, <1>b

-----------------------------------------------------------------------------
(* Stores into entries, one by one.                                        *)

\* Chains hold buckets that were handed out.
LEMMA ReachAlloc ==
    ASSUME Typed, Links, NEW b \in 1..NumMain
    PROVE  \A x \in Reach(mem, b) : x \in Buckets /\ x <= NumMain + mem.alloc
<1>1. /\ mem \in Memory /\ mem.alloc \in Nat /\ NumMain \in Nat /\ NumOverflow \in Nat
      /\ mem.alloc <= NumOverflow /\ \A x \in Buckets : NextAt(mem, x) \in 0..NumOverflow
  BY ColdAssumption DEF Typed, Memory, NextAt
<1> DEFINE S == 1..(NumMain + mem.alloc)
<1>2. b \in S /\ b \in Buckets
  BY <1>1 DEF Buckets
<1>3. \A x \in S : x \in Buckets /\ NextAt(mem, x) # NoOverflow => overflow_bucket_of(NextAt(mem, x)) \in S
  BY <1>1 DEF Links, overflow_bucket_of, NoOverflow
<1>4. Reach(mem, b) \subseteq S
  <2> HIDE DEF S
  <2> QED
    BY <1>1, <1>2, <1>3, ReachLeast
<1> QED
  BY <1>1, <1>4 DEF Buckets

\* A bucket that nothing leads to is in its own chain only.
LEMMA UnlinkedOut ==
    ASSUME NEW m \in Memory, NEW new, NEW b \in Buckets, b # new,
           \A y \in Buckets : overflow_bucket_of(NextAt(m, y)) # new
    PROVE  new \notin Reach(m, b)
<1> DEFINE S == Buckets \ {new}
<1>1. b \in S /\ \A x \in S : x \in Buckets /\ NextAt(m, x) # NoOverflow => overflow_bucket_of(NextAt(m, x)) \in S
  <2> SUFFICES ASSUME NEW x \in Buckets, NextAt(m, x) # NoOverflow PROVE overflow_bucket_of(NextAt(m, x)) \in Buckets
    OBVIOUS
  <2>1. NextAt(m, x) \in 1..NumOverflow
    BY ColdAssumption DEF Memory, NextAt, NoOverflow
  <2> QED
    BY <2>1, ColdAssumption DEF overflow_bucket_of, Buckets
<1>2. Reach(m, b) \subseteq S
  <2> HIDE DEF S
  <2> QED
    BY <1>1, ReachLeast
<1> QED
  BY <1>2

LEMMA NewOut ==
    ASSUME Typed, NEW k0 \in Keys, NewBucket(k0), op.at[1] > NumMain
    PROVE  \A k \in Keys : op.at[1] \notin Reach(mem, Home[k])
<1> SUFFICES ASSUME NEW k \in Keys PROVE op.at[1] \notin Reach(mem, Home[k])
  OBVIOUS
<1>1. mem \in Memory /\ Home[k] \in Buckets /\ Home[k] # op.at[1]
  BY HomeKnown, ColdAssumption DEF Typed
<1> QED
  BY <1>1, UnlinkedOut DEF NewBucket, Unlinked

LEMMA SingleLive ==
    ASSUME Singly, pc \in Single, NEW k PROVE Liv(k) = Pub(mem, k)
BY DEF Singly, Liv, Pub

LEMMA SyncedStored ==
    ASSUME Synced, pm' = pm, mem'.hdr = mem.hdr, NEW z,
           \A x \in Buckets, s \in Slots : <<x, s>> # z => /\ mem'.key[x][s] = mem.key[x][s]
                                                           /\ mem'.off[x][s] = mem.off[x][s],
           DirtyHeaders \subseteq DirtyHeaders', DirtySpots \cup {z} \subseteq DirtySpots'
    PROVE  Synced'
<1>1. \A x \in Buckets : x \notin DirtyHeaders' => pm'.hdr[x] = mem'.hdr[x]
  BY DEF Synced
<1>2. ASSUME NEW x \in Buckets, NEW s \in Slots, <<x, s>> \notin DirtySpots'
      PROVE  pm'.key[x][s] = mem'.key[x][s] /\ pm'.off[x][s] = mem'.off[x][s]
  <2>1. <<x, s>> # z /\ <<x, s>> \notin DirtySpots
    BY <1>2
  <2> QED
    BY <2>1 DEF Synced
<1> QED
  BY <1>1, <1>2 DEF Synced

LEMMA FreshStored ==
    ASSUME Typed, Fresh, pc # "idle", writes' = writes, may' = may, pm' = pm, op'.entries = op.entries,
           NEW o \in 0..writes \cup {Tombstone},
           \A x \in Buckets, s \in Slots : mem'.off[x][s] \in {mem.off[x][s], o},
           pc' \in Bulk \cup {"upsert"} =>
              /\ pc \in Bulk \cup {"upsert"}
              /\ \A i \in 1..Len(op.entries) : (i > op'.n /\ ~(pc' = "attach" /\ i = op'.n + 1)) =>
                    i > op.n /\ ~(pc = "attach" /\ i = op.n + 1) /\ op.entries[i].off # o
    PROVE  Fresh'
<1>1. \A x \in Buckets, s \in Slots : {mem'.off[x][s], pm.off[x][s]} \subseteq 0..writes \cup {Tombstone}
  BY DEF Fresh
<1>2. \A i \in 1..Len(op.entries) : op.entries[i].off \in 1..writes \cup {Tombstone}
  BY DEF Fresh
<1>3. \A i \in 1..Len(op.entries) : Seen(op.entries[i].off) \in may[op.entries[i].key]
  BY DEF Fresh
<1>4. pc' \in Bulk \cup {"upsert"} => \A i \in 1..Len(op.entries) : op.entries[i].off # Tombstone
  BY DEF Fresh
<1>5. ASSUME pc' \in Bulk \cup {"upsert"}, NEW i \in 1..Len(op.entries),
             i > op'.n /\ ~(pc' = "attach" /\ i = op'.n + 1), NEW x \in Buckets, NEW s \in Slots
      PROVE  op.entries[i].off \notin {mem'.off[x][s], pm.off[x][s]}
  <2>1. i > op.n /\ ~(pc = "attach" /\ i = op.n + 1) /\ op.entries[i].off # o /\ pc \in Bulk \cup {"upsert"}
    BY <1>5
  <2>2. op.entries[i].off \notin {mem.off[x][s], pm.off[x][s]}
    BY <2>1 DEF Fresh
  <2> QED
    BY <2>1, <2>2
<1> QED
  BY <1>1, <1>2, <1>3, <1>4, <1>5 DEF Fresh

\* No header is stored to, and no key under a bit.
LEMMA SameHeaders ==
    ASSUME Typed, Typed', Sound, mem'.hdr = mem.hdr, mem.alloc <= mem'.alloc,
           pm' = pm, may' = may, reader' = reader,
           \A x \in Buckets : \A s \in mem.hdr[x].occ : mem'.key[x][s] = mem.key[x][s]
    PROVE  /\ Links' /\ Behind' /\ Reading' /\ Up(mem) /\ Up(mem')
           /\ \A b \in Buckets : Reach(mem', b) = Reach(mem, b)
           /\ \A k \in Keys : Pub(mem', k) = Pub(mem, k)
<1>0. /\ mem \in Memory /\ mem' \in Memory /\ mem.alloc \in Nat /\ mem'.alloc \in Nat /\ NumMain \in Nat
      /\ Links /\ Up(mem) /\ \A x \in Buckets : NextAt(mem, x) \in Nat /\ x \in Nat
      /\ \A x \in Buckets : NextAt(mem', x) = NextAt(mem, x)
  <2>1. mem \in Memory /\ mem' \in Memory
    BY DEF Typed
  <2>2. mem.alloc \in Nat /\ mem'.alloc \in Nat /\ NumMain \in Nat /\ NumOverflow \in Nat
    BY <2>1, ColdAssumption DEF Memory
  <2>3. Links /\ Up(mem)
    BY LinksUp DEF Sound
  <2>4. \A x \in Buckets : NextAt(mem, x) \in Nat /\ x \in Nat
    BY <2>1, <2>2 DEF Memory, NextAt, Buckets
  <2>5. \A x \in Buckets : NextAt(mem', x) = NextAt(mem, x)
    BY DEF NextAt
  <2> QED
    BY <2>1, <2>2, <2>3, <2>4, <2>5
<1>1. \A b \in Buckets : Up(mem') /\ Reach(mem', b) = Reach(mem, b)
  BY <1>0, ReachSame
<1>2. Up(mem')
  BY <1>0 DEF Up
<1>3. \A k \in Keys : Pub(mem', k) = Pub(mem, k)
  BY <1>0, PubSame
<1>4. Links'
  <2>1. \A x \in Buckets : NextAt(mem', x) # NoOverflow =>
           overflow_bucket_of(NextAt(mem', x)) > x /\ NextAt(mem', x) <= mem'.alloc
    BY <1>0 DEF Links
  <2>2. \A x, y \in Buckets : NextAt(mem', x) # NoOverflow /\ NextAt(mem', x) = NextAt(mem', y) => x = y
    BY <1>0 DEF Links
  <2>3. ASSUME NEW x \in Buckets, x > NumMain + mem'.alloc PROVE mem'.hdr[x] = [occ |-> {}, next |-> NoOverflow]
    <3>1. x > NumMain + mem.alloc
      BY <1>0, <2>3
    <3> QED
      BY <1>0, <3>1 DEF Links
  <2> QED
    BY <2>1, <2>2, <2>3 DEF Links
<1>5. Behind'
  BY DEF Sound, Behind, NextAt
<1>6. Grows
  BY DEF Grows, NextAt
<1>7. Reading'
  BY <1>2, <1>6, ReadingKept DEF Sound
<1> QED
  BY <1>0, <1>1, <1>2, <1>3, <1>4, <1>5, <1>7

\* Nothing live is stored to.
LEMMA HiddenStored ==
    ASSUME Typed, Typed', Sound, mem'.hdr = mem.hdr, mem.alloc <= mem'.alloc,
           pm' = pm, may' = may, reader' = reader, op'.bits = op.bits,
           \A x \in Buckets : \A s \in mem.hdr[x].occ \cup op.bits[x] :
               mem'.key[x][s] = mem.key[x][s] /\ mem'.off[x][s] = mem.off[x][s]
    PROVE  /\ Links' /\ Behind' /\ Values' /\ Reading'
           /\ \A b \in Buckets : Reach(mem', b) = Reach(mem, b)
           /\ \A k \in Keys : Pub(mem', k) = Pub(mem, k) /\ Liv(k)' = Liv(k)
<1>1. \A x \in Buckets : \A s \in mem.hdr[x].occ : mem'.key[x][s] = mem.key[x][s]
  OBVIOUS
<1>2. /\ Links' /\ Behind' /\ Reading' /\ Up(mem) /\ Up(mem')
      /\ \A b \in Buckets : Reach(mem', b) = Reach(mem, b)
  BY <1>1, SameHeaders
<1>3. \A x \in Buckets :
         /\ NextAt(mem, x) = NextAt(mem', x)
         /\ mem.hdr[x].occ = mem'.hdr[x].occ
         /\ \A s \in mem.hdr[x].occ \cup op.bits[x] : /\ mem.key[x][s] = mem'.key[x][s]
                                                      /\ mem.off[x][s] = mem'.off[x][s]
  BY DEF NextAt
<1>4. Values' /\ \A k \in Keys : Pub(mem', k) = Pub(mem, k) /\ Liv(k)' = Liv(k)
  BY <1>2, <1>3, ValuesKept DEF Sound
<1> QED
  BY <1>2, <1>4

\* An offset the writer may show is stored into a live entry of its key.
LEMMA OffsetStored ==
    ASSUME Typed, Typed', Sound, pm' = pm, may' = may, reader' = reader, op'.bits = op.bits,
           mem'.hdr = mem.hdr, mem'.alloc = mem.alloc, mem'.key = mem.key,
           NEW k0 \in Keys, NEW z \in Liv(k0), Seen(OffAt(mem', z)) \in may[k0],
           \A x \in Buckets, s \in Slots : <<x, s>> # z => mem'.off[x][s] = mem.off[x][s]
    PROVE  /\ Links' /\ Behind' /\ Values' /\ Reading'
           /\ \A b \in Buckets : Reach(mem', b) = Reach(mem, b)
           /\ \A k \in Keys : Pub(mem', k) = Pub(mem, k) /\ Liv(k)' = Liv(k)
           /\ \A k \in Keys : \A y \in Liv(k) : y # z => OffAt(mem', y) = OffAt(mem, y)
<1>0. mem.alloc <= mem'.alloc
  BY ColdAssumption DEF Typed, Memory
<1>1. /\ Links' /\ Behind' /\ Reading' /\ Up(mem) /\ Up(mem')
      /\ \A b \in Buckets : Reach(mem', b) = Reach(mem, b)
      /\ \A k \in Keys : Pub(mem', k) = Pub(mem, k)
  BY <1>0, SameHeaders
<1>2. \A k \in Keys : Liv(k)' = Liv(k)
  BY LivSame, <1>1 DEF NextAt
<1>3. \A k \in Keys : \A y \in Liv(k) : y # z => OffAt(mem', y) = OffAt(mem, y)
  <2> SUFFICES ASSUME NEW k \in Keys, NEW y \in Liv(k), y # z PROVE OffAt(mem', y) = OffAt(mem, y)
    OBVIOUS
  <2>1. y[1] \in Buckets /\ y[2] \in Slots /\ y = <<y[1], y[2]>>
    BY LivIn
  <2> QED
    BY <2>1 DEF OffAt
<1>4. \A k \in Keys : \A y \in Liv(k)' :
         \/ y \in Liv(k) /\ OffAt(mem', y) = OffAt(mem, y)
         \/ k = k0 /\ y = z /\ Liv(k0) \subseteq {z} /\ Seen(OffAt(mem', z)) \in may[k0]
  <2> SUFFICES ASSUME NEW k \in Keys, NEW y \in Liv(k), y = z PROVE k = k0 /\ Liv(k0) \subseteq {z}
    BY <1>2, <1>3
  <2>1. mem.key[z[1]][z[2]] = k /\ mem.key[z[1]][z[2]] = k0
    BY LivIn
  <2>2. \A w \in Liv(k0) : w = z
    BY DEF Sound, Values
  <2> QED
    BY <2>1, <2>2
<1>5. \A x \in Buckets : \A s \in mem'.hdr[x].occ : pm.key[x][s] = mem'.key[x][s]
  BY DEF Sound, Values
<1>6. \A k \in Keys : \A y \in Pub(mem', k) : y \in Pub(mem, k) \/ Seen(OffAt(pm, y)) \in may[k]
  BY <1>1
<1>7. Values'
  BY <1>4, <1>5, <1>6, ValuesGrow DEF Sound
<1> QED
  BY <1>1, <1>2, <1>3, <1>7

-----------------------------------------------------------------------------
(* upsert and remove, store by store.                                      *)

\* A match's offset is rewritten, by an update or a remove.
LEMMA MatchStored ==
    ASSUME ColdInv, pc \in {"upsert", "remove"}, Match # {}, NEW o \in 0..Tombstone, ~rewound => o = Entry.off,
           mem' = StoreOffsetAt(mem, MatchSpot, o),
           op' = [op EXCEPT !.at = MatchSpot], pc' = "persistOffset",
           UNCHANGED <<pm, reader, may, writes, rewound>>
    PROVE  ColdInv'
<1>0. Typed /\ op.n < Len(op.entries) /\ mem \in Memory /\ pm \in Memory /\ pc \in Single /\ op.tail = 0
  BY DEF ColdInv, Typed, Single
<1>1. Entry.key \in Keys /\ Entry = op.entries[op.n + 1]
  BY <1>0, EntryKnown
<1> DEFINE z == MatchSpot
<1>2. z \in Liv(Entry.key)
  BY <1>0, MatchKnown
<1>a. z \in Buckets \X Slots
  BY <1>0, MatchKnown
<1>b. mem \in Memory
  BY <1>0
<1> HIDE DEF z
<1>3. mem' = StoreOffsetAt(mem, z, o)
  BY DEF z
<1>c. op' = [op EXCEPT !.at = z]
  BY DEF z
<1>4. /\ mem' \in Memory /\ mem'.key = mem.key /\ mem'.hdr = mem.hdr /\ mem'.alloc = mem.alloc
      /\ mem'.off[z[1]][z[2]] = o
      /\ \A x \in Buckets, s \in Slots : <<x, s>> # z => mem'.off[x][s] = mem.off[x][s]
  BY <1>a, <1>b, <1>3, StoreOffsetKnown
<1>5. /\ op' \in Ops /\ op'.at = z /\ op'.n = op.n /\ op'.entries = op.entries /\ op'.flipped = op.flipped
      /\ op'.dirty = op.dirty /\ op'.bits = op.bits /\ op'.spots = op.spots /\ op'.tail = 0
  BY <1>0, <1>a, <1>c, PlacedKnown
<1>6. Typed'
  <2>1. op'.flipped <= Len(op'.dirty) /\ op'.n <= Len(op'.entries)
    BY <1>0, <1>5 DEF Typed
  <2>2. /\ mem' \in Memory /\ pm' \in Memory /\ reader' = reader /\ may' = may /\ writes' = writes /\ op' \in Ops
        /\ pc' \in Single \cup Bulk
    BY <1>0, <1>4, <1>5 DEF Single
  <2>3. op'.n < Len(op'.entries) /\ op'.at \in Buckets \X Slots /\ op'.tail = 0
    BY <1>0, <1>a, <1>5
  <2> QED
    BY <1>0, <2>1, <2>2, <2>3, TypedSame
<1> SUFFICES ASSUME ~rewound PROVE Sound'
  BY <1>6 DEF ColdInv
<1>7. Sound /\ Singly /\ Fresh
  BY DEF ColdInv, Sound
<1>8. o = Entry.off /\ op.n = 0 /\ Len(op.entries) = 1 /\ Entry = op.entries[1] /\ op.bits = NoBits
  BY <1>0, <1>1, <1>7 DEF Singly
<1>9. o \in 1..writes \cup {Tombstone} /\ Seen(o) \in may[Entry.key]
  BY <1>7, <1>8, <1>0 DEF Fresh, Single
<1>10. OffAt(mem', z) = o
  BY <1>4 DEF OffAt
<1>11. /\ Links' /\ Behind' /\ Values' /\ Reading'
       /\ \A k \in Keys : Pub(mem', k) = Pub(mem, k)
  BY <1>0, <1>1, <1>2, <1>4, <1>5, <1>6, <1>7, <1>9, <1>10, OffsetStored
<1>12. Synced'
  <2>1. DirtyHeaders = {} /\ DirtySpots = {} /\ DirtySpots' = {z}
    BY <1>5 DEF DirtyHeaders, DirtySpots, Bulk
  <2> QED
    BY <1>4, <1>7, <2>1, SyncedStored DEF Sound
<1>13. Fresh'
  <2>1. o \in 0..writes \cup {Tombstone} /\ pc # "idle" /\ pc' \notin Bulk \cup {"upsert"}
    BY <1>9 DEF Bulk
  <2>2. \A x \in Buckets, s \in Slots : mem'.off[x][s] \in {mem.off[x][s], o}
    <3> SUFFICES ASSUME NEW x \in Buckets, NEW s \in Slots, mem'.off[x][s] # mem.off[x][s] PROVE mem'.off[x][s] = o
      OBVIOUS
    <3>1. <<x, s>> = z
      BY <1>4
    <3>2. z[1] = x /\ z[2] = s
      BY <3>1
    <3> QED
      BY <1>4, <3>2
  <2> QED
    BY <1>0, <1>5, <1>7, <2>1, <2>2, FreshStored
<1>14. Singly'
  <2>1. z \in Pub(mem', op.entries[1].key)
    BY <1>0, <1>1, <1>2, <1>7, <1>8, <1>11, SingleLive
  <2> QED
    BY <1>5, <1>8, <1>10, <2>1 DEF Singly
<1>15. Grouped'
  BY DEF Grouped, Bulk
<1> QED
  BY <1>11, <1>12, <1>13, <1>14, <1>15 DEF Sound

LEMMA UpdateInPlaceStep ==
    ASSUME ColdInv, UpdateInPlace PROVE ColdInv'
<1>0. /\ pc = "upsert" /\ Match # {} /\ mem' = StoreOffsetAt(mem, MatchSpot, Entry.off)
      /\ op' = [op EXCEPT !.at = MatchSpot] /\ pc' = "persistOffset"
      /\ UNCHANGED <<pm, reader, may, writes, rewound>>
  BY DEF UpdateInPlace, counts
<1>1. Typed /\ op.n < Len(op.entries)
  BY <1>0 DEF ColdInv, Typed, Single
<1>2. Entry.off \in 0..Tombstone
  BY <1>1, EntryKnown
<1> DEFINE o == Entry.off
<1>3. o \in 0..Tombstone /\ o = Entry.off /\ mem' = StoreOffsetAt(mem, MatchSpot, o)
  BY <1>0, <1>2
<1> HIDE DEF o
<1> QED
  BY <1>0, <1>3, MatchStored

LEMMA BuryStep ==
    ASSUME ColdInv, Bury PROVE ColdInv'
<1>0. pc = "remove" /\ Match # {} /\ mem' = StoreOffsetAt(mem, MatchSpot, Tombstone)
      /\ op' = [op EXCEPT !.at = MatchSpot] /\ pc' = "persistOffset"
      /\ UNCHANGED <<pm, reader, may, writes, rewound>>
  BY DEF Bury, counts
<1> DEFINE o == Tombstone
<1>1. o \in 0..Tombstone
  BY ColdAssumption DEF Tombstone
<1>2. ~rewound => o = Entry.off
  BY <1>0 DEF ColdInv, Sound, Singly, Single, Entry
<1>3. mem' = StoreOffsetAt(mem, MatchSpot, o)
  BY <1>0
<1> HIDE DEF o
<1> QED
  BY <1>0, <1>1, <1>2, <1>3, MatchStored

\* What the writer of a single entry knows of it.
LEMMA SingleKnown ==
    ASSUME Typed, Singly, Fresh, pc \in Single
    PROVE  /\ op.n = 0 /\ Len(op.entries) = 1 /\ op.bits = NoBits
           /\ op.entries[1] \in EntryRec /\ Entry = op.entries[1] /\ Entry.key \in Keys
           /\ Entry.off \in 0..Tombstone /\ Entry.off \in 0..writes \cup {Tombstone}
           /\ Seen(Entry.off) \in may[Entry.key]
<1>1. op.n = 0 /\ Len(op.entries) = 1 /\ op.bits = NoBits
  BY DEF Singly
<1>2. op.n < Len(op.entries) /\ Entry = op.entries[1]
  BY <1>1 DEF Entry
<1>3. Entry \in EntryRec /\ Entry.key \in Keys /\ Entry.off \in 0..Tombstone
  BY <1>2, EntryKnown
<1>4. Entry.off \in 1..writes \cup {Tombstone} /\ Seen(Entry.off) \in may[Entry.key]
  BY <1>1, <1>2 DEF Fresh, Single
<1> QED
  BY <1>1, <1>2, <1>3, <1>4

\* Bits and a store elsewhere.
LEMMA Elsewhere ==
    ASSUME Typed, Typed', mem' \in Memory, NEW z \in Buckets \X Slots,
           z[2] \notin mem.hdr[z[1]].occ, z[2] \notin op.bits[z[1]],
           \A x \in Buckets, s \in Slots : <<x, s>> # z => /\ mem'.key[x][s] = mem.key[x][s]
                                                           /\ mem'.off[x][s] = mem.off[x][s]
    PROVE  \A x \in Buckets : \A s \in mem.hdr[x].occ \cup op.bits[x] :
               mem'.key[x][s] = mem.key[x][s] /\ mem'.off[x][s] = mem.off[x][s]
<1> SUFFICES ASSUME NEW x \in Buckets, NEW s \in mem.hdr[x].occ \cup op.bits[x]
             PROVE  mem'.key[x][s] = mem.key[x][s] /\ mem'.off[x][s] = mem.off[x][s]
  OBVIOUS
<1>1. mem.hdr[x].occ \subseteq Slots /\ op.bits[x] \subseteq Slots
  BY DEF Typed, Memory, Ops
<1>2. <<x, s>> # z
  OBVIOUS
<1> QED
  BY <1>1, <1>2

LEMMA ClaimStep ==
    ASSUME ColdInv, Claim PROVE ColdInv'
<1>0. /\ pc = "upsert" /\ pc \in Single /\ Match = {} /\ Reusable # {} /\ pc' = "storeOffset"
      /\ UNCHANGED <<pm, reader, may, writes, rewound>>
  BY DEF Claim, counts, Single
<1>1. Typed /\ op.n < Len(op.entries) /\ mem \in Memory /\ pm \in Memory /\ op.tail = 0
  BY <1>0 DEF ColdInv, Typed
<1> DEFINE z == ReusableSpot
           k == Entry.key
<1>2. mem' = StoreKeyAt(mem, z, k) /\ op' = [op EXCEPT !.at = z]
  BY DEF Claim
<1>3. k \in Keys
  BY <1>1, EntryKnown
<1>4. /\ z \in Buckets \X Slots /\ z[1] \in Reach(mem, Home[k])
      /\ z[2] \notin mem.hdr[z[1]].occ /\ z[2] \notin op.bits[z[1]]
  BY <1>0, <1>1, ReusableKnown
<1>5. Liv(k) = {}
  BY <1>0, <1>1, MatchKnown
<1> HIDE DEF z
<1>6. /\ op' \in Ops /\ op'.at = z /\ op'.n = op.n /\ op'.entries = op.entries /\ op'.flipped = op.flipped
      /\ op'.dirty = op.dirty /\ op'.bits = op.bits /\ op'.spots = op.spots /\ op'.tail = 0
  BY <1>1, <1>2, <1>4, PlacedKnown
<1>7. k = Entry.key
  OBVIOUS
<1> HIDE DEF k
<1>8. /\ mem' \in Memory /\ mem'.off = mem.off /\ mem'.hdr = mem.hdr /\ mem'.alloc = mem.alloc
      /\ mem'.key[z[1]][z[2]] = k
      /\ \A x \in Buckets, s \in Slots : <<x, s>> # z => mem'.key[x][s] = mem.key[x][s]
  BY <1>1, <1>2, <1>3, <1>4, StoreKeyKnown
<1>9. Typed'
  <2>1. op'.flipped <= Len(op'.dirty) /\ op'.n <= Len(op'.entries) /\ op'.n < Len(op'.entries)
    BY <1>1, <1>6 DEF Typed
  <2>2. /\ mem' \in Memory /\ pm' \in Memory /\ reader' = reader /\ may' = may /\ writes' = writes /\ op' \in Ops
        /\ pc' \in Single \cup Bulk /\ op'.at \in Buckets \X Slots /\ op'.tail = 0
    BY <1>0, <1>1, <1>4, <1>6, <1>8 DEF Single
  <2> QED
    BY <1>0, <1>1, <2>1, <2>2, TypedSame
<1> SUFFICES ASSUME ~rewound PROVE Sound'
  BY <1>0, <1>9 DEF ColdInv
<1>10. Sound /\ Singly /\ Fresh
  BY DEF ColdInv, Sound
<1>11. op.n = 0 /\ Len(op.entries) = 1 /\ op.bits = NoBits /\ k = op.entries[1].key
  BY <1>0, <1>1, <1>7, <1>10, SingleKnown
<1>12. mem.alloc <= mem'.alloc
  BY <1>1, <1>8, ColdAssumption DEF Memory
<1>13. \A x \in Buckets : \A s \in mem.hdr[x].occ \cup op.bits[x] :
          mem'.key[x][s] = mem.key[x][s] /\ mem'.off[x][s] = mem.off[x][s]
  BY <1>1, <1>4, <1>8, <1>9, Elsewhere
<1>14. /\ Links' /\ Behind' /\ Values' /\ Reading'
       /\ \A b \in Buckets : Reach(mem', b) = Reach(mem, b)
       /\ \A j \in Keys : Pub(mem', j) = Pub(mem, j)
  BY <1>0, <1>1, <1>6, <1>8, <1>9, <1>10, <1>12, <1>13, HiddenStored
<1>15. Synced'
  <2>1. DirtyHeaders = {} /\ DirtySpots = {} /\ DirtySpots' = {z}
    BY <1>0, <1>6 DEF DirtyHeaders, DirtySpots, Bulk
  <2> QED
    BY <1>0, <1>8, <1>10, <2>1, SyncedStored DEF Sound
<1>16. Fresh'
  <2>2. pc' \notin Bulk \cup {"upsert"} /\ pc # "idle"
    BY <1>0 DEF Bulk
  <2>3. Entry.off \in 0..writes \cup {Tombstone}
    BY <1>0, <1>1, <1>10, SingleKnown
  <2>4. \A x \in Buckets, s \in Slots : mem'.off[x][s] \in {mem.off[x][s], Entry.off}
    BY <1>8
  <2> QED
    BY <1>0, <1>1, <1>6, <1>10, <2>2, <2>3, <2>4, FreshStored
<1>17. Singly'
  <2>1. Pub(mem', k) = {}
    BY <1>0, <1>3, <1>5, <1>10, <1>14, SingleLive
  <2>2. z[1] \in Reach(mem', Home[k])
    BY <1>3, <1>4, <1>14, HomeKnown
  <2> QED
    BY <1>0, <1>4, <1>6, <1>8, <1>11, <2>1, <2>2 DEF Singly
<1>18. Grouped'
  BY <1>0 DEF Grouped, Bulk
<1> QED
  BY <1>14, <1>15, <1>16, <1>17, <1>18 DEF Sound

\* A bucket from the pool is not in any chain yet.
LEMMA PoolNew ==
    ASSUME Typed, Links, PoolRoom, NEW new, new = overflow_bucket_of(NewIdx), NEW t \in Buckets,
           NextAt(mem, t) = NoOverflow, NEW k \in Keys, t \in Reach(mem, Home[k])
    PROVE  /\ new \in Buckets /\ new > NumMain /\ new = NumMain + mem.alloc + 1
           /\ NextAt(mem, new) = NoOverflow /\ mem.hdr[new].occ = {} /\ Unlinked(new)
           /\ \A j \in Keys : new \notin Reach(mem, Home[j])
<1>1. /\ mem \in Memory /\ mem.alloc \in Nat /\ NumMain \in Nat
      /\ \A x \in Buckets : NextAt(mem, x) \in 0..NumOverflow
  BY SMTT(30), ColdAssumption DEF Typed, Memory, NextAt
<1>2. new \in Buckets /\ new > NumMain /\ new = NumMain + mem.alloc + 1
  BY NewKnown
<1>3. mem.hdr[new] = [occ |-> {}, next |-> NoOverflow]
  BY <1>1, <1>2 DEF Links
<1>4. Unlinked(new)
  <2> SUFFICES ASSUME NEW y \in Buckets PROVE overflow_bucket_of(NextAt(mem, y)) # new
    BY DEF Unlinked
  <2>1. NextAt(mem, y) <= mem.alloc
    BY <1>1 DEF Links, NoOverflow
  <2> QED
    BY <1>1, <1>2, <2>1 DEF overflow_bucket_of
<1>5. ASSUME NEW j \in Keys PROVE new \notin Reach(mem, Home[j])
  <2>1. Home[j] \in 1..NumMain
    BY HomeKnown
  <2>2. new \in Reach(mem, Home[j]) => new <= NumMain + mem.alloc
    BY <2>1, ReachAlloc
  <2> QED
    BY <1>1, <1>2, <2>2
<1> QED
  BY <1>2, <1>3, <1>4, <1>5 DEF NextAt

LEMMA ExtendStep ==
    ASSUME ColdInv, Extend PROVE ColdInv'
<1>0. /\ pc = "upsert" /\ pc \in Single /\ Match = {} /\ PoolRoom /\ pc' = "storeKey" /\ mem' = Bump(mem)
      /\ UNCHANGED <<pm, reader, may, writes, rewound>>
  BY DEF Extend, counts, Single
<1>1. Typed /\ op.n < Len(op.entries) /\ mem \in Memory /\ pm \in Memory
  BY <1>0 DEF ColdInv, Typed
<1>a. PICK new, t, k : new = overflow_bucket_of(NewIdx) /\ t = Last(MyChain) /\ k = Entry.key
  OBVIOUS
<1> DEFINE z == <<new, 1>>
<1>2. op' = [op EXCEPT !.at = z, !.tail = t]
  BY <1>a DEF Extend
<1>3. k \in Keys /\ Liv(k) = {}
  BY <1>0, <1>1, <1>a, EntryKnown, MatchKnown
<1>4. t \in Buckets /\ t \in Reach(mem, Home[k]) /\ (Up(mem) => NextAt(mem, t) = NoOverflow)
  BY <1>1, <1>a, TailKnown
<1>5. new \in Buckets /\ new > NumMain /\ new = NumMain + mem.alloc + 1 /\ 1 \in Slots
  BY <1>0, <1>1, <1>a, NewKnown
<1>6. z \in Buckets \X Slots /\ z[1] = new /\ z[2] = 1
  BY <1>5
<1> HIDE DEF z
<1>7. /\ op' \in Ops /\ op'.at = z /\ op'.n = op.n /\ op'.entries = op.entries /\ op'.flipped = op.flipped
      /\ op'.dirty = op.dirty /\ op'.bits = op.bits /\ op'.spots = op.spots /\ op'.tail = t
  BY <1>1, <1>2, <1>4, <1>6, ExtendedKnown
<1>8. /\ mem' \in Memory /\ mem'.key = mem.key /\ mem'.off = mem.off /\ mem'.hdr = mem.hdr
      /\ mem'.alloc = mem.alloc + 1
  BY <1>0, <1>1, BumpKnown
<1>9. Typed'
  <2>1. op'.flipped <= Len(op'.dirty) /\ op'.n <= Len(op'.entries) /\ op'.n < Len(op'.entries)
    BY <1>1, <1>7 DEF Typed
  <2>2. /\ mem' \in Memory /\ pm' \in Memory /\ reader' = reader /\ may' = may /\ writes' = writes /\ op' \in Ops
        /\ pc' \in Single \cup Bulk /\ op'.at \in Buckets \X Slots
    BY <1>0, <1>1, <1>6, <1>7, <1>8 DEF Single
  <2>3. op'.tail # 0 /\ op'.at[1] > NumMain
    BY <1>4, <1>5, <1>6, <1>7, ColdAssumption DEF Buckets
  <2> QED
    BY <1>0, <1>1, <2>1, <2>2, <2>3, TypedSame
<1> SUFFICES ASSUME ~rewound PROVE Sound'
  BY <1>0, <1>9 DEF ColdInv
<1>10. Sound /\ Singly /\ Fresh /\ Links /\ Up(mem)
  BY LinksUp DEF ColdInv, Sound
<1>11. op.n = 0 /\ Len(op.entries) = 1 /\ op.bits = NoBits /\ k = op.entries[1].key
  BY <1>0, <1>1, <1>a, <1>10, SingleKnown
<1>12. mem.alloc <= mem'.alloc /\ mem.alloc \in Nat /\ NumMain \in Nat
  BY <1>1, <1>8, ColdAssumption DEF Memory
<1>13. /\ NextAt(mem, new) = NoOverflow /\ mem.hdr[new].occ = {} /\ Unlinked(new)
  BY <1>0, <1>1, <1>a, <1>3, <1>4, <1>10, PoolNew
<1>14. /\ Links' /\ Behind' /\ Values' /\ Reading'
       /\ \A b \in Buckets : Reach(mem', b) = Reach(mem, b)
       /\ \A j \in Keys : Pub(mem', j) = Pub(mem, j)
  BY <1>0, <1>1, <1>7, <1>8, <1>9, <1>10, <1>12, HiddenStored
<1>15. Synced'
  <2>1. DirtyHeaders = {} /\ DirtySpots = {}
    BY <1>0 DEF DirtyHeaders, DirtySpots, Bulk
  <2> QED
    BY <1>0, <1>8, <1>10, <2>1 DEF Sound, Synced
<1>16. Fresh'
  <2>1. pc' \notin Bulk \cup {"upsert"} /\ pc # "idle"
    BY <1>0 DEF Bulk
  <2>2. Entry.off \in 0..writes \cup {Tombstone}
    BY <1>0, <1>1, <1>10, SingleKnown
  <2>3. \A x \in Buckets, s \in Slots : mem'.off[x][s] \in {mem.off[x][s], Entry.off}
    BY <1>8
  <2> QED
    BY <1>0, <1>1, <1>7, <1>10, <2>1, <2>2, <2>3, FreshStored
<1>17. Singly'
  <2>1. Pub(mem', k) = {}
    BY <1>0, <1>3, <1>10, <1>14, SingleLive
  <2>2. t \in Reach(mem', Home[k])
    BY <1>3, <1>4, <1>14, HomeKnown
  <2>3. NewBucket(k)'
    <3>1. op'.at[1] = new /\ op'.at[2] = 1 /\ op'.tail = t
      BY <1>6, <1>7
    <3>2. new = NumMain + mem'.alloc /\ mem'.alloc > 0
      BY <1>5, <1>8, <1>12
    <3>3. NextAt(mem', new) = NoOverflow /\ NextAt(mem', t) = NoOverflow
      BY <1>4, <1>8, <1>10, <1>13 DEF NextAt
    <3>5. \A y \in Buckets : overflow_bucket_of(NextAt(mem', y)) # new
      BY <1>8, <1>13 DEF Unlinked, NextAt
    <3> QED
      BY <2>2, <3>1, <3>2, <3>3, <3>5 DEF NewBucket, Unlinked
  <2>4. mem'.hdr[op'.at[1]].occ = {}
    BY <1>6, <1>7, <1>8, <1>13
  <2> QED
    BY <1>0, <1>7, <1>11, <2>1, <2>3, <2>4 DEF Singly
<1>18. Grouped'
  BY <1>0 DEF Grouped, Bulk
<1> QED
  BY <1>14, <1>15, <1>16, <1>17, <1>18 DEF Sound

\* The entry being filled is not visible.
LEMMA AtHidden ==
    ASSUME Typed, Singly, pc \in {"storeKey", "storeOffset"}
    PROVE  /\ op.at \in Buckets \X Slots
           /\ op.at[2] \notin mem.hdr[op.at[1]].occ /\ op.at[2] \notin op.bits[op.at[1]]
<1>1. op.at \in Buckets \X Slots /\ op.at[1] \in Buckets
  BY DEF Typed, Placed
<1>2. op.bits = NoBits
  BY DEF Singly, Single
<1>3. op.at[2] \notin op.bits[op.at[1]]
  BY <1>1, <1>2 DEF NoBits
<1>4. op.at[2] \notin mem.hdr[op.at[1]].occ
  <2>1. CASE op.tail = 0
    BY <2>1 DEF Typed, Singly, Single
  <2>2. CASE op.tail # 0
    BY <2>2 DEF Singly, Single
  <2> QED
    BY <2>1, <2>2
<1> QED
  BY <1>1, <1>3, <1>4

LEMMA NewBucketKept ==
    ASSUME Typed, Typed', NEW k \in Keys, NewBucket(k), op' = op, mem'.alloc = mem.alloc,
           op.tail \in Reach(mem', Home[k]),
           \A x \in Buckets : NextAt(mem', x) = NextAt(mem, x), op.at[1] \in Buckets, op.tail \in Buckets
    PROVE  NewBucket(k)'
<1>1. Unlinked(op.at[1])'
  BY DEF NewBucket, Unlinked
<1> QED
  BY <1>1 DEF NewBucket

LEMMA FillStep ==
    ASSUME ColdInv, \/ StoreKey /\ pc = "storeKey" /\ pc' = "storeOffset"
                    \/ StoreOffset /\ pc = "storeOffset" /\ pc' = "persistEntry"
    PROVE  ColdInv'
<1>0. /\ pc \in Single /\ pc' \in Single /\ pc \in {"storeKey", "storeOffset"}
      /\ UNCHANGED <<pm, op, reader, may, writes, rewound>>
  BY DEF StoreKey, StoreOffset, counts, Single
<1>1. Typed /\ op.n < Len(op.entries) /\ mem \in Memory /\ pm \in Memory /\ op \in Ops
  BY <1>0 DEF ColdInv, Typed
<1>2. Entry.key \in Keys /\ Entry.off \in 0..Tombstone
  BY <1>1, EntryKnown
<1>3. PICK z, k, o : z = op.at /\ k = Entry.key /\ o = Entry.off
  OBVIOUS
<1>4. z \in Buckets \X Slots
  BY <1>0, <1>1, <1>3 DEF Typed, Placed
<1>5. /\ mem' \in Memory /\ mem'.hdr = mem.hdr /\ mem'.alloc = mem.alloc
      /\ \A x \in Buckets, s \in Slots : <<x, s>> # z => /\ mem'.key[x][s] = mem.key[x][s]
                                                         /\ mem'.off[x][s] = mem.off[x][s]
      /\ \A x \in Buckets, s \in Slots : mem'.off[x][s] \in {mem.off[x][s], o}
      /\ pc = "storeKey" => mem'.key[z[1]][z[2]] = k
      /\ pc = "storeOffset" => mem'.key = mem.key /\ mem'.off[z[1]][z[2]] = o
  <2>1. CASE StoreKey
    <3>1. mem' = StoreKeyAt(mem, z, k) /\ pc = "storeKey"
      BY <1>3, <2>1 DEF StoreKey
    <3>2. k \in Keys
      BY <1>2, <1>3
    <3>3. /\ mem' \in Memory /\ mem'.off = mem.off /\ mem'.hdr = mem.hdr /\ mem'.alloc = mem.alloc
          /\ mem'.key[z[1]][z[2]] = k
          /\ \A x \in Buckets, s \in Slots : <<x, s>> # z => mem'.key[x][s] = mem.key[x][s]
      BY <1>1, <1>4, <3>1, <3>2, StoreKeyKnown
    <3> QED
      BY <3>1, <3>3
  <2>2. CASE StoreOffset
    <3>1. mem' = StoreOffsetAt(mem, z, o) /\ pc = "storeOffset"
      BY <1>3, <2>2 DEF StoreOffset
    <3>2. o \in 0..Tombstone
      BY <1>2, <1>3
    <3>3. /\ mem' \in Memory /\ mem'.key = mem.key /\ mem'.hdr = mem.hdr /\ mem'.alloc = mem.alloc
          /\ mem'.off[z[1]][z[2]] = o
          /\ \A x \in Buckets, s \in Slots : <<x, s>> # z => mem'.off[x][s] = mem.off[x][s]
      BY <1>1, <1>4, <3>1, <3>2, StoreOffsetKnown
    <3>4. \A x \in Buckets, s \in Slots : mem'.off[x][s] \in {mem.off[x][s], o}
      <4> SUFFICES ASSUME NEW x \in Buckets, NEW s \in Slots, <<x, s>> = z PROVE mem'.off[x][s] = o
        BY <3>3
      <4>1. z[1] = x /\ z[2] = s
        OBVIOUS
      <4> QED
        BY <3>3, <4>1
    <3> QED
      BY <3>1, <3>3, <3>4
  <2> QED
    BY <2>1, <2>2
<1>6. op.at[1] > NumMain \/ op.tail = 0
  BY <1>0, <1>1 DEF Typed
<1>7. Typed'
  <2>1. op.flipped <= Len(op.dirty) /\ op.n <= Len(op.entries)
    BY <1>1 DEF Typed
  <2>2. /\ mem' \in Memory /\ pm' \in Memory /\ reader' = reader /\ may' = may /\ writes' = writes /\ op' = op
        /\ pc' \in {"storeOffset", "persistEntry"} /\ op.at \in Buckets \X Slots
    BY <1>0, <1>1, <1>3, <1>4, <1>5
  <2> QED
    BY <1>0, <1>1, <1>6, <2>1, <2>2, TypedSame
<1> SUFFICES ASSUME ~rewound PROVE Sound'
  BY <1>0, <1>7 DEF ColdInv
<1>8. Sound /\ Singly /\ Fresh /\ Synced
  BY DEF ColdInv, Sound
<1>9. op.n = 0 /\ Len(op.entries) = 1 /\ op.bits = NoBits /\ k = op.entries[1].key /\ o = op.entries[1].off
  BY <1>0, <1>1, <1>3, <1>8, SingleKnown
<1>10. mem.alloc <= mem'.alloc
  BY <1>1, <1>5, ColdAssumption DEF Memory
<1>11. z[2] \notin mem.hdr[z[1]].occ /\ z[2] \notin op.bits[z[1]]
  BY <1>0, <1>1, <1>3, <1>8, AtHidden
<1>12. \A x \in Buckets : \A s \in mem.hdr[x].occ \cup op.bits[x] :
          mem'.key[x][s] = mem.key[x][s] /\ mem'.off[x][s] = mem.off[x][s]
  BY <1>1, <1>4, <1>5, <1>7, <1>11, Elsewhere
<1>13. /\ Links' /\ Behind' /\ Values' /\ Reading'
       /\ \A b \in Buckets : Reach(mem', b) = Reach(mem, b)
       /\ \A j \in Keys : Pub(mem', j) = Pub(mem, j)
  <2>1. op'.bits = op.bits
    BY <1>0
  <2> QED
    BY <1>0, <1>1, <1>5, <1>7, <1>8, <1>10, <1>12, <2>1, HiddenStored
<1>14. Synced'
  <2>1. DirtyHeaders = {} /\ DirtySpots \subseteq {z} /\ DirtySpots' = {z}
    BY <1>0, <1>3 DEF DirtyHeaders, DirtySpots, Bulk
  <2> QED
    BY <1>0, <1>5, <1>8, <2>1, SyncedStored
<1>15. Fresh'
  <2>1. pc' \notin Bulk \cup {"upsert"} /\ pc # "idle" /\ op'.entries = op.entries
    BY <1>0 DEF Bulk
  <2>2. o \in 0..writes \cup {Tombstone}
    BY <1>0, <1>1, <1>3, <1>8, SingleKnown
  <2> QED
    BY <1>0, <1>1, <1>5, <1>8, <2>1, <2>2, FreshStored
<1>16. Singly'
  <2>0. k \in Keys /\ Home[k] \in Buckets /\ z[1] \in Buckets
    BY <1>2, <1>3, <1>4, HomeKnown
  <2>1. Pub(mem', k) = {}
    BY <1>0, <1>8, <1>9, <1>13, <2>0 DEF Singly
  <2>2. op.tail = 0 => pc = "storeOffset" /\ z[1] \in Reach(mem', Home[k]) /\ z[2] \notin mem'.hdr[z[1]].occ
    <3>1. op.tail = 0 => pc = "storeOffset"
      BY <1>0, <1>1 DEF Typed
    <3> QED
      BY <1>0, <1>3, <1>5, <1>8, <1>9, <1>13, <2>0, <3>1 DEF Singly
  <2>3. op.tail # 0 => NewBucket(k)' /\ mem'.hdr[z[1]].occ = {}
    <3> SUFFICES ASSUME op.tail # 0 PROVE NewBucket(k)' /\ mem'.hdr[z[1]].occ = {}
      OBVIOUS
    <3>1. NewBucket(k) /\ mem.hdr[z[1]].occ = {}
      BY <1>0, <1>3, <1>8, <1>9 DEF Singly
    <3>2. op.tail \in Buckets
      BY <1>1 DEF Ops
    <3>3. op.tail \in Reach(mem', Home[k])
      BY <1>13, <2>0, <3>1 DEF NewBucket
    <3>4. \A x \in Buckets : NextAt(mem', x) = NextAt(mem, x)
      BY <1>5 DEF NextAt
    <3>5. NewBucket(k)'
      BY <1>0, <1>1, <1>3, <1>5, <1>7, <2>0, <3>1, <3>2, <3>3, <3>4, NewBucketKept
    <3> QED
      BY <1>5, <3>1, <3>5
  <2>4. mem'.key[z[1]][z[2]] = k
    BY <1>0, <1>3, <1>5, <1>8, <1>9 DEF Singly
  <2>5. pc' = "persistEntry" => OffAt(mem', z) = o
    BY <1>5 DEF OffAt
  <2>6. op' = op /\ pc' \in {"storeOffset", "persistEntry"}
    BY <1>0
  <2> QED
    BY <1>3, <1>9, <2>1, <2>2, <2>3, <2>4, <2>5, <2>6 DEF Singly
<1>17. Grouped'
  BY DEF Grouped, Bulk
<1> QED
  BY <1>13, <1>14, <1>15, <1>16, <1>17 DEF Sound

LEMMA StoreKeyStep ==
    ASSUME ColdInv, StoreKey PROVE ColdInv'
BY FillStep DEF StoreKey

LEMMA StoreOffsetStep ==
    ASSUME ColdInv, StoreOffset PROVE ColdInv'
BY FillStep DEF StoreOffset

-----------------------------------------------------------------------------
(* Bits are set.                                                           *)

LEMMA BitsGrown ==
    ASSUME Typed, Typed', Sound, NEW b \in Buckets, b <= NumMain + mem.alloc,
           pm' = pm, may' = may, reader' = reader,
           mem'.key = mem.key, mem'.alloc = mem.alloc,
           mem.hdr[b].occ \subseteq mem'.hdr[b].occ, mem'.hdr[b].next = mem.hdr[b].next,
           \A x \in Buckets : x # b => mem'.hdr[x] = mem.hdr[x]
    PROVE  /\ Links' /\ Behind' /\ Reading' /\ Up(mem) /\ Up(mem')
           /\ \A x \in Buckets : Reach(mem', x) = Reach(mem, x)
           /\ \A x \in Buckets : NextAt(mem', x) = NextAt(mem, x)
<1>0. /\ mem \in Memory /\ mem' \in Memory /\ Links /\ Behind /\ Up(mem) /\ Reading
  BY LinksUp DEF Typed, Sound
<1>1. \A x \in Buckets : NextAt(mem', x) = NextAt(mem, x)
  BY DEF NextAt
<1>2. \A x \in Buckets : Up(mem') /\ Reach(mem', x) = Reach(mem, x)
  BY <1>0, <1>1, ReachSame
<1>3. Up(mem')
  BY <1>0, <1>1 DEF Up
<1>4. Links'
  <2>1. \A x \in Buckets : NextAt(mem', x) # NoOverflow =>
           overflow_bucket_of(NextAt(mem', x)) > x /\ NextAt(mem', x) <= mem'.alloc
    BY <1>0, <1>1 DEF Links
  <2>2. \A x, y \in Buckets : NextAt(mem', x) # NoOverflow /\ NextAt(mem', x) = NextAt(mem', y) => x = y
    BY <1>0, <1>1 DEF Links
  <2>3. ASSUME NEW x \in Buckets, x > NumMain + mem'.alloc PROVE mem'.hdr[x] = [occ |-> {}, next |-> NoOverflow]
    <3>1. b \in Nat /\ NumMain + mem.alloc \in Nat /\ x \in Nat
      BY <1>0, ColdAssumption DEF Buckets, Memory
    <3>2. x # b /\ x > NumMain + mem.alloc
      BY <2>3, <3>1
    <3> QED
      BY <1>0, <3>2 DEF Links
  <2> QED
    BY <2>1, <2>2, <2>3 DEF Links
<1>5. Behind'
  <2> SUFFICES ASSUME NEW x \in Buckets
               PROVE  /\ pm.hdr[x].occ \subseteq mem'.hdr[x].occ
                      /\ NextAt(pm, x) \in {NoOverflow, NextAt(mem', x)}
    BY DEF Behind
  <2>1. mem.hdr[x].occ \subseteq mem'.hdr[x].occ
    OBVIOUS
  <2> QED
    BY <1>0, <1>1, <2>1 DEF Behind
<1>6. Grows
  BY <1>1 DEF Grows
<1>7. Reading'
  BY <1>0, <1>3, <1>6, ReadingKept
<1> QED
  BY <1>0, <1>1, <1>2, <1>3, <1>4, <1>5, <1>7

LEMMA PublishStep ==
    ASSUME ColdInv, Publish PROVE ColdInv'
<1>0. /\ pc = "publish" /\ pc' = "persistHeader" /\ pc \in Single
      /\ UNCHANGED <<pm, op, reader, may, writes, rewound>>
  BY DEF Publish, counts, Single
<1>1. Typed /\ op.n < Len(op.entries) /\ mem \in Memory /\ pm \in Memory /\ op \in Ops
  BY <1>0 DEF ColdInv, Typed
<1>2. PICK z, k, o : z = op.at /\ k = Entry.key /\ o = Entry.off
  OBVIOUS
<1>3. z \in Buckets \X Slots /\ z[1] \in Buckets /\ z[2] \in Slots
  BY <1>0, <1>1, <1>2 DEF Typed, Placed
<1>4. CASE op.tail # 0
  <2> DEFINE h == [occ |-> {1}, next |-> NoOverflow]
             b == z[1]
  <2>1. h \in Headers /\ h.occ = {1} /\ h.next = NoOverflow
    BY ColdAssumption DEF Headers, Slots, NoOverflow
  <2>2. mem' = [mem EXCEPT !.hdr[b] = h] /\ b \in Buckets
    BY <1>2, <1>3, <1>4 DEF Publish, Extending
  <2> HIDE DEF h, b
  <2>3. mem' = StoreHeader(mem, b, h)
    BY <1>1, <2>2 DEF StoreHeader, Memory
  <2>4. /\ mem' \in Memory /\ mem'.key = mem.key /\ mem'.off = mem.off /\ mem'.alloc = mem.alloc
        /\ mem'.hdr[b] = h
        /\ \A x \in Buckets : x # b => mem'.hdr[x] = mem.hdr[x]
    <3>1. mem \in Memory /\ b \in Buckets /\ h \in Headers
      BY <1>1, <2>1, <2>2
    <3> QED
      BY <2>3, <3>1, HeaderStored
  <2>5. /\ mem' \in Memory /\ mem'.key = mem.key /\ mem'.off = mem.off /\ mem'.alloc = mem.alloc
        /\ \A x \in Buckets : x # z[1] => mem'.hdr[x] = mem.hdr[x]
        /\ mem'.hdr[z[1]].occ = {1} /\ mem'.hdr[z[1]].next = NoOverflow
    BY <2>1, <2>4 DEF b
  <2> QED
    <3>1. op.at[1] > NumMain
      BY <1>0, <1>1, <1>4 DEF Typed
    <3>2. Typed'
      <4>1. op.flipped <= Len(op.dirty) /\ op.n <= Len(op.entries)
        BY <1>1 DEF Typed
      <4>2. /\ mem' \in Memory /\ pm' \in Memory /\ reader' = reader /\ may' = may /\ writes' = writes /\ op' = op
            /\ pc' \in Single \cup Bulk /\ op.at \in Buckets \X Slots
        BY <1>0, <1>1, <1>2, <1>3, <2>5 DEF Single
      <4> QED
        BY <1>0, <1>1, <1>4, <3>1, <4>1, <4>2, TypedSame
    <3> SUFFICES ASSUME ~rewound PROVE Sound'
      BY <1>0, <3>2 DEF ColdInv
    <3>3. Sound /\ Singly /\ Fresh /\ Synced /\ Links /\ Values
      BY DEF ColdInv, Sound
    <3>4. /\ op.n = 0 /\ Len(op.entries) = 1 /\ op.bits = NoBits /\ k = op.entries[1].key /\ o = op.entries[1].off
          /\ k \in Keys /\ o \in 0..writes \cup {Tombstone}
      BY <1>0, <1>1, <1>2, <3>3, SingleKnown
    <3>5. /\ NewBucket(k) /\ mem.hdr[z[1]].occ = {} /\ Pub(mem, k) = {}
          /\ mem.key[z[1]][z[2]] = k /\ OffAt(mem, z) = o
      BY <1>0, <1>2, <1>4, <3>3, <3>4 DEF Singly
    <3>6. z[1] <= NumMain + mem.alloc /\ z[2] = 1 /\ mem.hdr[z[1]].next = NoOverflow
      BY <1>1, <1>2, <3>5, ColdAssumption DEF NewBucket, NextAt, Memory
    <3>7. \A j \in Keys : z[1] \notin Reach(mem, Home[j])
      BY <1>1, <1>2, <3>1, <3>4, <3>5, NewOut
    <3>8. /\ Links' /\ Behind' /\ Reading' /\ Up(mem) /\ Up(mem')
          /\ \A x \in Buckets : Reach(mem', x) = Reach(mem, x)
          /\ \A x \in Buckets : NextAt(mem', x) = NextAt(mem, x)
      <4>1. mem.hdr[z[1]].occ \subseteq mem'.hdr[z[1]].occ /\ mem'.hdr[z[1]].next = mem.hdr[z[1]].next
        BY <2>5, <3>5, <3>6
      <4> QED
        BY <1>0, <1>1, <1>3, <2>5, <3>2, <3>3, <3>6, <4>1, BitsGrown
    <3>9. \A j \in Keys : Pub(mem', j) = Pub(mem, j) /\ Liv(j)' = Pub(mem, j) /\ Liv(j) = Pub(mem, j)
      <4> SUFFICES ASSUME NEW j \in Keys PROVE Pub(mem', j) = Pub(mem, j)
        BY <1>0, <3>3, <3>4, SingleLive DEF Liv, Pub
      <4>1. Reach(mem', Home[j]) = Reach(mem, Home[j])
        BY <3>8, HomeKnown
      <4>2. ASSUME NEW y \in Buckets \X Slots, y[1] \in Reach(mem, Home[j])
            PROVE  mem'.hdr[y[1]].occ = mem.hdr[y[1]].occ
        <5>1. y[1] # z[1] /\ y[1] \in Buckets
          BY <3>7, <4>2
        <5> QED
          BY <2>5, <5>1
      <4>3. \A y : y \in Pub(mem', j) <=> y \in Pub(mem, j)
        BY <2>5, <4>1, <4>2, PubIn
      <4> QED
        BY <4>3
    <3>10. Values'
      <4>1. \A j \in Keys : \A y \in Liv(j)' : y \in Liv(j) /\ OffAt(mem', y) = OffAt(mem, y)
        BY <2>5, <3>9 DEF OffAt
      <4>2. ASSUME NEW x \in Buckets, NEW s \in mem'.hdr[x].occ PROVE pm.key[x][s] = mem'.key[x][s]
        <5>1. s \in Slots
          BY <2>5, <4>2 DEF Memory
        <5>2. DirtySpots = {}
          BY <1>0 DEF DirtySpots
        <5> QED
          BY <2>5, <3>3, <5>1, <5>2 DEF Synced
      <4>3. \A j \in Keys : \A y \in Pub(mem', j) : y \in Pub(mem, j)
        BY <3>9
      <4> QED
        BY <1>0, <3>3, <3>4, <4>1, <4>2, <4>3, ValuesGrow
    <3>11. Synced'
      <4>1. DirtyHeaders = {} /\ DirtySpots = {} /\ DirtyHeaders' = {z[1]}
        BY <1>0, <1>2 DEF DirtyHeaders, DirtySpots, Bulk
      <4>2. \A x \in Buckets : x \notin {z[1]} => pm'.hdr[x] = mem'.hdr[x]
        BY <1>0, <2>5, <3>3, <4>1 DEF Synced
      <4>3. \A x \in Buckets, s \in Slots : pm'.key[x][s] = mem'.key[x][s] /\ pm'.off[x][s] = mem'.off[x][s]
        BY <1>0, <2>5, <3>3, <4>1 DEF Synced
      <4> QED
        BY <4>1, <4>2, <4>3 DEF Synced
    <3>12. Fresh'
      <4>1. pc' \notin Bulk \cup {"upsert"} /\ pc # "idle" /\ op'.entries = op.entries
        BY <1>0 DEF Bulk
      <4>2. \A x \in Buckets, s \in Slots : mem'.off[x][s] \in {mem.off[x][s], o}
        BY <2>5
      <4> QED
        BY <1>0, <1>1, <3>3, <3>4, <4>1, <4>2, FreshStored
    <3>13. Singly'
      <4>1. op.tail \in Buckets /\ Home[k] \in Buckets
        BY <1>1, <1>4, <3>4, HomeKnown DEF Ops
      <4>2. op.tail \in Reach(mem', Home[k])
        BY <3>5, <3>8, <4>1 DEF NewBucket
      <4>3. NewBucket(k)'
        BY <1>0, <1>1, <1>2, <1>3, <2>5, <3>2, <3>4, <3>5, <3>8, <4>1, <4>2, NewBucketKept
      <4>4. Pub(mem', k) = {}
        BY <3>4, <3>5, <3>9
      <4>5. mem'.key[z[1]][z[2]] = k /\ OffAt(mem', z) = o /\ mem'.hdr[z[1]].occ = {1}
        BY <2>5, <3>5 DEF OffAt
      <4> QED
        BY <1>0, <1>2, <1>4, <3>4, <4>3, <4>4, <4>5 DEF Singly
    <3>14. Grouped'
      BY <1>0 DEF Grouped, Bulk
    <3> QED
      BY <3>8, <3>10, <3>11, <3>12, <3>13, <3>14 DEF Sound
<1>5. CASE op.tail = 0
  <2> DEFINE b == z[1]
             bits == {z[2]}
  <2>1. mem' = AddBits(mem, b, bits) /\ b \in Buckets /\ bits \in SUBSET Slots
    BY <1>2, <1>3, <1>5 DEF Publish, Extending, AddBits
  <2> HIDE DEF b, bits
  <2>2. /\ mem' \in Memory /\ mem'.key = mem.key /\ mem'.off = mem.off /\ mem'.alloc = mem.alloc
        /\ mem'.hdr[b].occ = mem.hdr[b].occ \cup bits /\ mem'.hdr[b].next = mem.hdr[b].next
        /\ \A x \in Buckets : x # b => mem'.hdr[x] = mem.hdr[x]
    BY <1>1, <2>1, BitsKnown
  <2>3. /\ mem' \in Memory /\ mem'.key = mem.key /\ mem'.off = mem.off /\ mem'.alloc = mem.alloc
        /\ \A x \in Buckets : x # z[1] => mem'.hdr[x] = mem.hdr[x]
        /\ mem'.hdr[z[1]].occ = mem.hdr[z[1]].occ \cup {z[2]} /\ mem'.hdr[z[1]].next = mem.hdr[z[1]].next
    BY <2>2 DEF b, bits
  <2>4. Typed'
    <3>1. op.flipped <= Len(op.dirty) /\ op.n <= Len(op.entries)
      BY <1>1 DEF Typed
    <3>2. /\ mem' \in Memory /\ pm' \in Memory /\ reader' = reader /\ may' = may /\ writes' = writes /\ op' = op
          /\ pc' \in Single \cup Bulk /\ op.at \in Buckets \X Slots
      BY <1>0, <1>1, <1>2, <1>3, <2>3 DEF Single
    <3> QED
      BY <1>0, <1>1, <1>5, <3>1, <3>2, TypedSame
  <2> SUFFICES ASSUME ~rewound PROVE Sound'
    BY <1>0, <2>4 DEF ColdInv
  <2>5. Sound /\ Singly /\ Fresh /\ Synced /\ Links /\ Values
    BY DEF ColdInv, Sound
  <2>6. /\ op.n = 0 /\ Len(op.entries) = 1 /\ op.bits = NoBits /\ k = op.entries[1].key /\ o = op.entries[1].off
        /\ k \in Keys /\ o \in 0..writes \cup {Tombstone} /\ Seen(o) \in may[k]
    BY <1>0, <1>1, <1>2, <2>5, SingleKnown
  <2>7. /\ z[1] \in Reach(mem, Home[k]) /\ Pub(mem, k) = {}
        /\ mem.key[z[1]][z[2]] = k /\ OffAt(mem, z) = o
    BY <1>0, <1>2, <1>5, <2>5, <2>6 DEF Singly
  <2>8. z[1] <= NumMain + mem.alloc
    BY <1>1, <2>5, <2>6, <2>7, HomeKnown, ReachAlloc
  <2>9. /\ Links' /\ Behind' /\ Reading' /\ Up(mem) /\ Up(mem')
        /\ \A x \in Buckets : Reach(mem', x) = Reach(mem, x)
        /\ \A x \in Buckets : NextAt(mem', x) = NextAt(mem, x)
    <3>1. mem.hdr[z[1]].occ \subseteq mem'.hdr[z[1]].occ
      BY <2>3
    <3> QED
      BY <1>0, <1>1, <1>3, <2>3, <2>4, <2>5, <2>8, <3>1, BitsGrown
  <2>10. \A j \in Keys : Liv(j) = Pub(mem, j) /\ Liv(j)' = Pub(mem', j)
    BY <1>0, <2>5, <2>6, SingleLive DEF Liv, Pub
  <2>11. ASSUME NEW j \in Keys, NEW y \in Pub(mem', j) PROVE y \in Pub(mem, j) \/ (j = k /\ y = z)
    <3>1. Reach(mem', Home[j]) = Reach(mem, Home[j])
      BY <2>9, HomeKnown
    <3>2. /\ y \in Buckets \X Slots /\ y[1] \in Reach(mem, Home[j]) /\ y[2] \in mem'.hdr[y[1]].occ
          /\ mem.key[y[1]][y[2]] = j
      BY <2>3, <2>11, <3>1, PubIn
    <3>3. CASE y = z
      BY <2>7, <3>2, <3>3
    <3>4. CASE y # z
      <4>1. y = <<y[1], y[2]>> /\ z = <<z[1], z[2]>> /\ y[1] \in Buckets
        BY <1>3, <3>2
      <4>2. y[2] \in mem.hdr[y[1]].occ
        BY <2>3, <3>2, <3>4, <4>1
      <4> QED
        BY <3>2, <4>2, PubIn
    <3> QED
      BY <3>3, <3>4
  <2>12. DirtyHeaders = {} /\ DirtySpots = {} /\ DirtyHeaders' = {z[1]}
    BY <1>0, <1>2 DEF DirtyHeaders, DirtySpots, Bulk
  <2>13. \A x \in Buckets, s \in Slots : pm.key[x][s] = mem.key[x][s] /\ pm.off[x][s] = mem.off[x][s]
    BY <2>5, <2>12 DEF Synced
  <2>14. OffAt(pm, z) = o /\ OffAt(mem', z) = o
    BY <1>3, <2>3, <2>7, <2>13 DEF OffAt
  <2>15. Values'
    <3>1. ASSUME NEW j \in Keys, NEW y \in Liv(j)'
          PROVE  \/ y \in Liv(j) /\ OffAt(mem', y) = OffAt(mem, y)
                 \/ j = k /\ y = z /\ Liv(k) \subseteq {z} /\ Seen(OffAt(mem', z)) \in may[k]
      <4>1. y \in Pub(mem', j)
        BY <2>10, <3>1
      <4>2. OffAt(mem', y) = OffAt(mem, y)
        BY <2>3 DEF OffAt
      <4>3. CASE y \in Pub(mem, j)
        BY <2>10, <4>2, <4>3
      <4>4. CASE j = k /\ y = z
        BY <2>6, <2>7, <2>10, <2>14, <4>4
      <4> QED
        BY <2>11, <4>1, <4>3, <4>4
    <3>2. ASSUME NEW x \in Buckets, NEW s \in mem'.hdr[x].occ PROVE pm.key[x][s] = mem'.key[x][s]
      <4>1. s \in Slots
        BY <2>3, <3>2 DEF Memory
      <4> QED
        BY <2>3, <2>13, <4>1
    <3>3. ASSUME NEW j \in Keys, NEW y \in Pub(mem', j) PROVE y \in Pub(mem, j) \/ Seen(OffAt(pm, y)) \in may[j]
      BY <2>6, <2>11, <2>14, <3>3
    <3> QED
      BY <1>0, <2>5, <2>6, <3>1, <3>2, <3>3, ValuesGrow
  <2>16. Synced'
    <3>1. \A x \in Buckets : x \notin {z[1]} => pm'.hdr[x] = mem'.hdr[x]
      BY <1>0, <2>3, <2>5, <2>12 DEF Synced
    <3> QED
      BY <1>0, <2>3, <2>12, <2>13, <3>1 DEF Synced
  <2>17. Fresh'
    <3>1. pc' \notin Bulk \cup {"upsert"} /\ pc # "idle" /\ op'.entries = op.entries
      BY <1>0 DEF Bulk
    <3>2. \A x \in Buckets, s \in Slots : mem'.off[x][s] \in {mem.off[x][s], o}
      BY <2>3
    <3> QED
      BY <1>0, <1>1, <2>5, <2>6, <3>1, <3>2, FreshStored
  <2>18. Singly'
    <3>1. z[1] \in Reach(mem', Home[k]) /\ z[2] \in mem'.hdr[z[1]].occ /\ mem'.key[z[1]][z[2]] = k
      BY <1>3, <2>3, <2>6, <2>7, <2>9, HomeKnown
    <3>2. z \in Pub(mem', k)
      BY <1>3, <3>1, PubIn
    <3> QED
      BY <1>0, <1>2, <1>5, <2>6, <2>14, <3>1, <3>2 DEF Singly
  <2>19. Grouped'
    BY <1>0 DEF Grouped, Bulk
  <2> QED
    BY <2>9, <2>15, <2>16, <2>17, <2>18, <2>19 DEF Sound
<1> QED
  BY <1>4, <1>5

-----------------------------------------------------------------------------
(* A new bucket is attached.                                               *)

LEMMA AttachGrown ==
    ASSUME Typed, Typed', Sound, NEW k0 \in Keys, NewBucket(k0), op.at[1] > NumMain,
           op.at[1] \in Buckets, op.tail \in Buckets, mem' = Attached(op.tail, op.at[1]),
           pm' = pm, may' = may, reader' = reader
    PROVE  /\ Links' /\ Behind' /\ Reading' /\ Up(mem) /\ Up(mem')
           /\ \A b \in Buckets : Reach(mem', b) = IF op.tail \in Reach(mem, b)
                                                  THEN Reach(mem, b) \cup {op.at[1]} ELSE Reach(mem, b)
           /\ mem'.key = mem.key /\ mem'.off = mem.off /\ mem'.alloc = mem.alloc
           /\ \A x \in Buckets : mem'.hdr[x].occ = mem.hdr[x].occ
           /\ \A x \in Buckets : x # op.tail => mem'.hdr[x] = mem.hdr[x]
<1> PICK tail, new : tail = op.tail /\ new = op.at[1]
  OBVIOUS
<1>0. /\ mem \in Memory /\ mem' \in Memory /\ Links /\ Behind /\ Up(mem) /\ Reading
      /\ tail \in Buckets /\ new \in Buckets /\ new > NumMain
  BY LinksUp DEF Typed, Sound
<1>1. mem' = Attached(tail, new)
  OBVIOUS
<1>2. /\ mem' \in Memory /\ mem'.key = mem.key /\ mem'.off = mem.off /\ mem'.alloc = mem.alloc
      /\ mem'.hdr[tail].occ = mem.hdr[tail].occ /\ mem'.hdr[tail].next = new - NumMain
      /\ new - NumMain \in 1..NumOverflow
      /\ \A x \in Buckets : x # tail => mem'.hdr[x] = mem.hdr[x]
  BY <1>0, <1>1, AttachedKnown
<1>3. /\ mem.alloc \in Nat /\ NumMain \in Nat /\ NumMain >= 1
      /\ \A x \in Buckets : x \in Nat /\ NextAt(mem, x) \in Nat
  <2>1. NumMain \in Nat /\ NumMain >= 1 /\ NumOverflow \in Nat
    BY ColdAssumption
  <2>2. mem.alloc \in Nat
    BY <1>0, <2>1 DEF Memory
  <2>3. \A x \in Buckets : x \in Nat
    BY <2>1 DEF Buckets
  <2>4. \A x \in Buckets : NextAt(mem, x) \in Nat
    BY <1>0, <2>1 DEF Memory, NextAt
  <2> QED
    BY <2>1, <2>2, <2>3, <2>4
<1>4. /\ new = NumMain + mem.alloc /\ NextAt(mem, new) = NoOverflow /\ NextAt(mem, tail) = NoOverflow
      /\ tail \in Reach(mem, Home[k0])
      /\ \A y \in Buckets : overflow_bucket_of(NextAt(mem, y)) # new
  BY DEF NewBucket, Unlinked
<1>5. tail < new
  <2>1. tail <= NumMain + mem.alloc
    BY <1>0, <1>4, HomeKnown, ReachAlloc
  <2>2. new \notin Reach(mem, Home[k0])
    BY <1>0, NewOut
  <2> QED
    BY <1>0, <1>3, <1>4, <2>1, <2>2
<1>6. \A x \in Buckets : NextAt(mem', x) = IF x = tail THEN new - NumMain ELSE NextAt(mem, x)
  BY <1>2 DEF NextAt
<1>7. /\ Up(mem')
      /\ \A b \in Buckets : Reach(mem', b) = IF tail \in Reach(mem, b) THEN Reach(mem, b) \cup {new} ELSE Reach(mem, b)
  <2>1. new > tail
    BY <1>0, <1>3, <1>5
  <2>2. mem \in Memory /\ mem' \in Memory /\ Up(mem) /\ tail \in Buckets /\ new \in Buckets /\ new > NumMain
    BY <1>0
  <2>3. NextAt(mem, tail) = NoOverflow /\ NextAt(mem, new) = NoOverflow
    BY <1>4
  <2>4. PICK n : n = mem'
    OBVIOUS
  <2>5. n \in Memory /\ \A x \in Buckets : NextAt(n, x) = IF x = tail THEN new - NumMain ELSE NextAt(mem, x)
    BY <1>6, <2>2, <2>4
  <2>6. /\ Up(n)
        /\ \A b \in Buckets : Reach(n, b) = IF tail \in Reach(mem, b) THEN Reach(mem, b) \cup {new} ELSE Reach(mem, b)
    BY ONLY <2>1, <2>2, <2>3, <2>5, ReachGrown
  <2> QED
    BY <2>4, <2>6
<1>8. \A x \in Buckets : mem'.hdr[x].occ = mem.hdr[x].occ
  BY <1>2
<1>9. Links'
  <2>1. ASSUME NEW x \in Buckets, NextAt(mem', x) # NoOverflow
        PROVE  overflow_bucket_of(NextAt(mem', x)) > x /\ NextAt(mem', x) <= mem'.alloc
    <3>1. CASE x = tail
      BY <1>0, <1>2, <1>3, <1>4, <1>5, <1>6, <3>1 DEF overflow_bucket_of
    <3>2. CASE x # tail
      BY <1>0, <1>2, <1>6, <2>1, <3>2 DEF Links
    <3> QED
      BY <3>1, <3>2
  <2>2. ASSUME NEW x \in Buckets, NEW y \in Buckets, NextAt(mem', x) # NoOverflow, NextAt(mem', x) = NextAt(mem', y)
        PROVE  x = y
    <3>1. \A w \in Buckets : w # tail => NextAt(mem', w) # new - NumMain
      <4> SUFFICES ASSUME NEW w \in Buckets, w # tail, NextAt(mem, w) = new - NumMain PROVE FALSE
        BY <1>6
      <4> QED
        BY <1>0, <1>3, <1>4 DEF overflow_bucket_of
    <3>2. CASE x = tail \/ y = tail
      BY <1>6, <2>2, <3>1, <3>2
    <3>3. CASE x # tail /\ y # tail
      BY <1>0, <1>6, <2>2, <3>3 DEF Links
    <3> QED
      BY <3>2, <3>3
  <2>3. ASSUME NEW x \in Buckets, x > NumMain + mem'.alloc PROVE mem'.hdr[x] = [occ |-> {}, next |-> NoOverflow]
    <3>1. x # tail /\ x > NumMain + mem.alloc
      BY <1>0, <1>2, <1>3, <1>4, <1>5, <2>3
    <3> QED
      BY <1>0, <1>2, <3>1 DEF Links
  <2> QED
    BY <2>1, <2>2, <2>3 DEF Links
<1>10. Behind'
  <2> SUFFICES ASSUME NEW x \in Buckets
               PROVE  /\ pm.hdr[x].occ \subseteq mem'.hdr[x].occ
                      /\ NextAt(pm, x) \in {NoOverflow, NextAt(mem', x)}
    BY DEF Behind
  <2>1. pm.hdr[x].occ \subseteq mem'.hdr[x].occ
    BY <1>0, <1>8 DEF Behind
  <2>2. NextAt(pm, x) = NoOverflow \/ NextAt(pm, x) = NextAt(mem, x)
    BY <1>0 DEF Behind
  <2> QED
    BY <1>4, <1>6, <2>1, <2>2
<1>11. Grows
  BY <1>2, <1>4, <1>6, <1>8 DEF Grows
<1>12. Reading'
  BY <1>0, <1>7, <1>11, ReadingKept
<1> QED
  BY <1>0, <1>2, <1>7, <1>8, <1>9, <1>10, <1>12

LEMMA LinkStep ==
    ASSUME ColdInv, Link PROVE ColdInv'
<1>0. /\ pc = "link" /\ pc' = "persistLink" /\ pc \in Single /\ mem' = Attached(op.tail, op.at[1])
      /\ UNCHANGED <<pm, op, reader, may, writes, rewound>>
  BY DEF Link, counts, Single
<1>1. Typed /\ op.n < Len(op.entries) /\ mem \in Memory /\ pm \in Memory /\ op \in Ops
  BY <1>0 DEF ColdInv, Typed
<1>2. PICK z, k, o, tail, new : z = op.at /\ k = Entry.key /\ o = Entry.off /\ tail = op.tail /\ new = op.at[1]
  OBVIOUS
<1>3. /\ z \in Buckets \X Slots /\ z[1] = new /\ new \in Buckets /\ z[2] \in Slots /\ tail # 0 /\ tail \in Buckets
      /\ new > NumMain
  BY <1>0, <1>1, <1>2 DEF Typed, Placed, Ops
<1>4. mem' \in Memory
  BY <1>0, <1>1, <1>2, <1>3, AttachedKnown
<1>5. Typed'
  <2>1. op.flipped <= Len(op.dirty) /\ op.n <= Len(op.entries)
    BY <1>1 DEF Typed
  <2>2. /\ mem' \in Memory /\ pm' \in Memory /\ reader' = reader /\ may' = may /\ writes' = writes /\ op' = op
        /\ pc' \in Single \cup Bulk /\ op.at \in Buckets \X Slots /\ op.tail # 0 /\ op.at[1] > NumMain
    BY <1>0, <1>1, <1>2, <1>3, <1>4 DEF Single
  <2> QED
    BY <1>0, <1>1, <2>1, <2>2, TypedSame
<1> SUFFICES ASSUME ~rewound PROVE Sound'
  BY <1>0, <1>5 DEF ColdInv
<1>6. Sound /\ Singly /\ Fresh /\ Synced /\ Values
  BY DEF ColdInv, Sound
<1>7. /\ op.n = 0 /\ Len(op.entries) = 1 /\ op.bits = NoBits /\ k = op.entries[1].key /\ o = op.entries[1].off
      /\ k \in Keys /\ o \in 0..writes \cup {Tombstone} /\ Seen(o) \in may[k]
  BY <1>0, <1>1, <1>2, <1>6, SingleKnown
<1>8. /\ NewBucket(k) /\ mem.hdr[new].occ = {1} /\ Pub(mem, k) = {}
      /\ mem.key[new][z[2]] = k /\ OffAt(mem, z) = o
  BY <1>0, <1>2, <1>3, <1>6, <1>7 DEF Singly
<1>9. z[2] = 1 /\ tail \in Reach(mem, Home[k])
  BY <1>2, <1>8 DEF NewBucket
<1>10. /\ Links' /\ Behind' /\ Reading'
       /\ \A b \in Buckets : Reach(mem', b) = IF tail \in Reach(mem, b) THEN Reach(mem, b) \cup {new} ELSE Reach(mem, b)
       /\ mem'.key = mem.key /\ mem'.off = mem.off
       /\ \A x \in Buckets : mem'.hdr[x].occ = mem.hdr[x].occ
       /\ \A x \in Buckets : x # tail => mem'.hdr[x] = mem.hdr[x]
  <2>1. op.at[1] > NumMain /\ op.at[1] \in Buckets /\ op.tail \in Buckets /\ NewBucket(k) /\ k \in Keys
    BY <1>2, <1>3, <1>7, <1>8
  <2>2. /\ Links' /\ Behind' /\ Reading' /\ Up(mem) /\ Up(mem')
        /\ \A b \in Buckets : Reach(mem', b) = IF op.tail \in Reach(mem, b)
                                               THEN Reach(mem, b) \cup {op.at[1]} ELSE Reach(mem, b)
        /\ mem'.key = mem.key /\ mem'.off = mem.off /\ mem'.alloc = mem.alloc
        /\ \A x \in Buckets : mem'.hdr[x].occ = mem.hdr[x].occ
        /\ \A x \in Buckets : x # op.tail => mem'.hdr[x] = mem.hdr[x]
    BY <1>0, <1>1, <1>5, <1>6, <2>1, AttachGrown
  <2> QED
    BY <1>2, <2>2
<1>11. \A j \in Keys : Liv(j) = Pub(mem, j) /\ Liv(j)' = Pub(mem', j)
  BY <1>0, <1>6, <1>7, SingleLive DEF Liv, Pub
<1>12. ASSUME NEW j \in Keys, NEW y \in Pub(mem', j) PROVE y \in Pub(mem, j) \/ (j = k /\ y = z)
  <2>1. /\ y \in Buckets \X Slots /\ y[1] \in Reach(mem', Home[j]) /\ y[2] \in mem.hdr[y[1]].occ
        /\ mem.key[y[1]][y[2]] = j
    BY <1>10, <1>12, PubIn
  <2>2. y[1] \in Reach(mem, Home[j]) \/ y[1] = new
    BY <1>10, <2>1, HomeKnown
  <2>3. CASE y[1] = new
    <3>1. y[2] = 1 /\ y = <<y[1], y[2]>> /\ z = <<z[1], z[2]>>
      BY <1>3, <1>8, <2>1, <2>3
    <3> QED
      BY <1>3, <1>8, <1>9, <2>1, <2>3, <3>1
  <2>4. CASE y[1] \in Reach(mem, Home[j])
    BY <2>1, <2>4, PubIn
  <2> QED
    BY <2>2, <2>3, <2>4
<1>13. DirtyHeaders = {} /\ DirtySpots = {} /\ DirtyHeaders' = {tail} /\ DirtySpots' = {}
  BY <1>0, <1>2 DEF DirtyHeaders, DirtySpots, Bulk
<1>14. \A x \in Buckets, s \in Slots : pm.key[x][s] = mem.key[x][s] /\ pm.off[x][s] = mem.off[x][s]
  BY <1>6, <1>13 DEF Synced
<1>15. OffAt(pm, z) = o /\ OffAt(mem', z) = o
  BY <1>3, <1>8, <1>10, <1>14 DEF OffAt
<1>16. Values'
  <2>1. ASSUME NEW j \in Keys, NEW y \in Liv(j)'
        PROVE  \/ y \in Liv(j) /\ OffAt(mem', y) = OffAt(mem, y)
               \/ j = k /\ y = z /\ Liv(k) \subseteq {z} /\ Seen(OffAt(mem', z)) \in may[k]
    <3>1. y \in Pub(mem', j)
      BY <1>11, <2>1
    <3>2. OffAt(mem', y) = OffAt(mem, y)
      BY <1>10 DEF OffAt
    <3>3. CASE y \in Pub(mem, j)
      BY <1>11, <3>2, <3>3
    <3>4. CASE j = k /\ y = z
      BY <1>7, <1>8, <1>11, <1>15, <3>4
    <3> QED
      BY <1>12, <3>1, <3>3, <3>4
  <2>2. ASSUME NEW x \in Buckets, NEW s \in mem'.hdr[x].occ PROVE pm.key[x][s] = mem'.key[x][s]
    BY <1>6, <1>10, <2>2 DEF Values
  <2>3. ASSUME NEW j \in Keys, NEW y \in Pub(mem', j) PROVE y \in Pub(mem, j) \/ Seen(OffAt(pm, y)) \in may[j]
    BY <1>7, <1>12, <1>15, <2>3
  <2> QED
    BY <1>0, <1>6, <1>7, <2>1, <2>2, <2>3, ValuesGrow
<1>17. Synced'
  <2>1. \A x \in Buckets : x \notin {tail} => pm'.hdr[x] = mem'.hdr[x]
    BY <1>0, <1>6, <1>10, <1>13 DEF Synced
  <2> QED
    BY <1>0, <1>10, <1>13, <1>14, <2>1 DEF Synced
<1>18. Fresh'
  <2>1. pc' \notin Bulk \cup {"upsert"} /\ pc # "idle" /\ op'.entries = op.entries
    BY <1>0 DEF Bulk
  <2>2. \A x \in Buckets, s \in Slots : mem'.off[x][s] \in {mem.off[x][s], o}
    BY <1>10
  <2> QED
    BY <1>0, <1>1, <1>6, <1>7, <2>1, <2>2, FreshStored
<1>19. Singly'
  <2>1. new \in Reach(mem', Home[k])
    BY <1>7, <1>9, <1>10, HomeKnown
  <2>2. z \in Pub(mem', k)
    BY <1>3, <1>8, <1>9, <1>10, <2>1, PubIn
  <2>3. mem'.key[z[1]][z[2]] = k
    BY <1>3, <1>8, <1>10
  <2> QED
    BY <1>0, <1>2, <1>7, <1>15, <2>2, <2>3 DEF Singly
<1>20. Grouped'
  BY <1>0 DEF Grouped, Bulk
<1> QED
  BY <1>10, <1>16, <1>17, <1>18, <1>19, <1>20 DEF Sound

-----------------------------------------------------------------------------
(* A group is staged.                                                      *)

\* The arguments of a group, an entry later.
LEMMA DirtyKnown ==
    ASSUME Typed, NEW b \in Buckets, NEW d, d = Dirtied(op.dirty, b)
    PROVE  /\ d \in Seq(Buckets) /\ op.flipped <= Len(d) /\ Range(d) = Range(op.dirty) \cup {b} /\ d # <<>>
<1>1. op.flipped \in Nat /\ op.dirty \in Seq(Buckets) /\ op.flipped <= Len(op.dirty) /\ Len(op.dirty) \in Nat
  BY DEF Typed, Ops
<1>2. d \in Seq(Buckets) /\ Len(d) >= Len(op.dirty) /\ Range(d) = Range(op.dirty) \cup {b} /\ d # <<>>
  BY <1>1, DirtiedKnown
<1>3. Len(d) \in Nat
  BY <1>2
<1> QED
  BY <1>1, <1>2, <1>3

LEMMA UpdatedKnown ==
    ASSUME Typed, NEW z \in Buckets \X Slots,
           op' = [op EXCEPT !.n = @ + 1, !.spots = @ \cup {z}, !.dirty = Dirtied(@, z[1])]
    PROVE  /\ op' \in Ops /\ op'.n = op.n + 1 /\ op'.entries = op.entries /\ op'.flipped = op.flipped
           /\ op'.spots = op.spots \cup {z} /\ op'.bits = op.bits
           /\ Range(op'.dirty) = Range(op.dirty) \cup {z[1]} /\ op'.dirty # <<>>
           /\ op'.flipped <= Len(op'.dirty)
<1>1. op \in Ops /\ z[1] \in Buckets /\ op.n + 1 \in Nat /\ op.spots \cup {z} \in SUBSET (Buckets \X Slots)
  BY DEF Typed, Ops
<1>2. PICK d : d = Dirtied(op.dirty, z[1])
  OBVIOUS
<1>3. /\ d \in Seq(Buckets) /\ op.flipped <= Len(d) /\ Range(d) = Range(op.dirty) \cup {z[1]} /\ d # <<>>
  BY <1>1, <1>2, DirtyKnown
<1>4. op' = [op EXCEPT !.n = op.n + 1, !.spots = op.spots \cup {z}, !.dirty = d]
  BY <1>1, <1>2 DEF Ops
<1>5. /\ op' \in Ops /\ op'.n = op.n + 1 /\ op'.entries = op.entries /\ op'.flipped = op.flipped
      /\ op'.spots = op.spots \cup {z} /\ op'.bits = op.bits /\ op'.dirty = d
  BY <1>1, <1>3, <1>4 DEF Ops
<1> QED
  BY <1>3, <1>5

LEMMA ClaimedKnown ==
    ASSUME Typed, NEW z \in Buckets \X Slots,
           op' = [op EXCEPT !.n = @ + 1, !.spots = @ \cup {z}, !.dirty = Dirtied(@, z[1]),
                            !.bits[z[1]] = @ \cup {z[2]}]
    PROVE  /\ op' \in Ops /\ op'.n = op.n + 1 /\ op'.entries = op.entries /\ op'.flipped = op.flipped
           /\ op'.spots = op.spots \cup {z}
           /\ op'.bits[z[1]] = op.bits[z[1]] \cup {z[2]}
           /\ \A x \in Buckets : x # z[1] => op'.bits[x] = op.bits[x]
           /\ Range(op'.dirty) = Range(op.dirty) \cup {z[1]} /\ op'.dirty # <<>>
           /\ op'.flipped <= Len(op'.dirty)
<1>1. /\ op \in Ops /\ z[1] \in Buckets /\ z[2] \in Slots /\ op.n + 1 \in Nat
      /\ op.spots \cup {z} \in SUBSET (Buckets \X Slots)
  BY DEF Typed, Ops
<1>2. PICK d : d = Dirtied(op.dirty, z[1])
  OBVIOUS
<1>3. /\ d \in Seq(Buckets) /\ op.flipped <= Len(d) /\ Range(d) = Range(op.dirty) \cup {z[1]} /\ d # <<>>
  BY <1>1, <1>2, DirtyKnown
<1>4. PICK B : B = [op.bits EXCEPT ![z[1]] = op.bits[z[1]] \cup {z[2]}]
  OBVIOUS
<1>5. /\ B \in [Buckets -> SUBSET Slots] /\ B[z[1]] = op.bits[z[1]] \cup {z[2]}
      /\ \A x \in Buckets : x # z[1] => B[x] = op.bits[x]
  BY <1>1, <1>4 DEF Ops
<1>6. op' = [op EXCEPT !.n = op.n + 1, !.spots = op.spots \cup {z}, !.dirty = d, !.bits = B]
  BY <1>1, <1>2, <1>4 DEF Ops
<1>7. /\ op' \in Ops /\ op'.n = op.n + 1 /\ op'.entries = op.entries /\ op'.flipped = op.flipped
      /\ op'.spots = op.spots \cup {z} /\ op'.bits = B /\ op'.dirty = d
  <2>1. /\ op'.n = op.n + 1 /\ op'.entries = op.entries /\ op'.flipped = op.flipped
        /\ op'.spots = op.spots \cup {z} /\ op'.bits = B /\ op'.dirty = d
    BY <1>1, <1>6 DEF Ops
  <2>2. op' \in Ops
    <3>1. /\ op.spots \cup {z} \in SUBSET (Buckets \X Slots) /\ op.n + 1 \in Nat
          /\ d \in Seq(Buckets) /\ B \in [Buckets -> SUBSET Slots]
      BY <1>1, <1>3, <1>5
    <3> QED
      BY <1>1, <1>6, <3>1 DEF Ops
  <2> QED
    BY <2>1, <2>2
<1> QED
  BY <1>3, <1>5, <1>7

LEMMA NewStagedKnown ==
    ASSUME Typed, NEW new \in Buckets, NEW t \in Buckets, 1 \in Slots,
           op' = [op EXCEPT !.at = <<new, 1>>, !.tail = t, !.spots = @ \cup {<<new, 1>>},
                            !.dirty = Dirtied(@, new), !.bits[new] = @ \cup {1}]
    PROVE  /\ op' \in Ops /\ op'.n = op.n /\ op'.entries = op.entries /\ op'.flipped = op.flipped
           /\ op'.at = <<new, 1>> /\ op'.tail = t
           /\ op'.spots = op.spots \cup {<<new, 1>>}
           /\ op'.bits[new] = op.bits[new] \cup {1}
           /\ \A x \in Buckets : x # new => op'.bits[x] = op.bits[x]
           /\ Range(op'.dirty) = Range(op.dirty) \cup {new} /\ op'.dirty # <<>>
           /\ op'.flipped <= Len(op'.dirty)
<1>1. /\ op \in Ops /\ op.spots \cup {<<new, 1>>} \in SUBSET (Buckets \X Slots)
      /\ <<new, 1>> \in (0..(NumMain + NumOverflow)) \X (0..NumSlots)
  <2>1. op \in Ops /\ op.spots \subseteq Buckets \X Slots
    BY DEF Typed, Ops
  <2>2. new \in 0..(NumMain + NumOverflow) /\ 1 \in 0..NumSlots
    BY ColdAssumption DEF Buckets
  <2> QED
    BY <2>1, <2>2
<1>2. PICK d : d = Dirtied(op.dirty, new)
  OBVIOUS
<1>3. /\ d \in Seq(Buckets) /\ op.flipped <= Len(d) /\ Range(d) = Range(op.dirty) \cup {new} /\ d # <<>>
  BY <1>2, DirtyKnown
<1>4. PICK B : B = [op.bits EXCEPT ![new] = op.bits[new] \cup {1}]
  OBVIOUS
<1>5. /\ B \in [Buckets -> SUBSET Slots] /\ B[new] = op.bits[new] \cup {1}
      /\ \A x \in Buckets : x # new => B[x] = op.bits[x]
  BY <1>1, <1>4 DEF Ops
<1>6. op' = [op EXCEPT !.at = <<new, 1>>, !.tail = t, !.spots = op.spots \cup {<<new, 1>>},
                       !.dirty = d, !.bits = B]
  BY <1>1, <1>2, <1>4 DEF Ops
<1>7. /\ op' \in Ops /\ op'.n = op.n /\ op'.entries = op.entries /\ op'.flipped = op.flipped
      /\ op'.at = <<new, 1>> /\ op'.tail = t
      /\ op'.spots = op.spots \cup {<<new, 1>>} /\ op'.bits = B /\ op'.dirty = d
  <2>1. /\ op'.n = op.n /\ op'.entries = op.entries /\ op'.flipped = op.flipped
        /\ op'.at = <<new, 1>> /\ op'.tail = t
        /\ op'.spots = op.spots \cup {<<new, 1>>} /\ op'.bits = B /\ op'.dirty = d
    BY <1>1, <1>6 DEF Ops
  <2>2. op' \in Ops
    <3>1. /\ op.spots \cup {<<new, 1>>} \in SUBSET (Buckets \X Slots)
          /\ d \in Seq(Buckets) /\ B \in [Buckets -> SUBSET Slots] /\ t \in Buckets \cup {0}
          /\ <<new, 1>> \in (0..(NumMain + NumOverflow)) \X (0..NumSlots)
      BY <1>1, <1>3, <1>5
    <3> QED
      BY <1>1, <1>6, <3>1 DEF Ops
  <2> QED
    BY <2>1, <2>2
<1> QED
  BY <1>3, <1>5, <1>7

LEMMA AttachStagedKnown ==
    ASSUME Typed, op.tail \in Buckets, op' = [op EXCEPT !.n = @ + 1, !.dirty = Dirtied(@, op.tail)]
    PROVE  /\ op' \in Ops /\ op'.n = op.n + 1 /\ op'.entries = op.entries /\ op'.flipped = op.flipped
           /\ op'.spots = op.spots /\ op'.bits = op.bits
           /\ Range(op'.dirty) = Range(op.dirty) \cup {op.tail} /\ op'.dirty # <<>>
           /\ op'.flipped <= Len(op'.dirty)
<1>1. op \in Ops /\ op.n + 1 \in Nat
  BY DEF Typed, Ops
<1>2. PICK d : d = Dirtied(op.dirty, op.tail)
  OBVIOUS
<1>3. /\ d \in Seq(Buckets) /\ op.flipped <= Len(d) /\ Range(d) = Range(op.dirty) \cup {op.tail} /\ d # <<>>
  BY <1>2, DirtyKnown
<1>4. op' = [op EXCEPT !.n = op.n + 1, !.dirty = d]
  BY <1>1, <1>2 DEF Ops
<1>5. /\ op' \in Ops /\ op'.n = op.n + 1 /\ op'.entries = op.entries /\ op'.flipped = op.flipped
      /\ op'.spots = op.spots /\ op'.bits = op.bits /\ op'.dirty = d
  BY <1>1, <1>3, <1>4 DEF Ops
<1> QED
  BY <1>3, <1>5

\* What the writer of a group knows of its next entry.
LEMMA GroupKnown ==
    ASSUME Typed, Fresh, Grouped, pc \in {"stage", "attach"}
    PROVE  /\ op.n < Len(op.entries) /\ op.n \in Nat /\ Len(op.entries) \in Nat
           /\ Entry = op.entries[op.n + 1] /\ Entry \in EntryRec /\ Entry.key \in Keys
           /\ Entry.off \in 0..Tombstone /\ Entry.off \in 0..writes \cup {Tombstone}
           /\ Seen(Entry.off) \in may[Entry.key]
           /\ \A i \in 1..Len(op.entries) : /\ op.entries[i].key \in Keys
                                            /\ Home[op.entries[i].key] = Home[Entry.key]
                                            /\ i # op.n + 1 => /\ op.entries[i].key # Entry.key
                                                               /\ op.entries[i].off # Entry.off
<1>1. op.n < Len(op.entries) /\ op.n \in Nat /\ op.entries \in Seq(EntryRec) /\ Len(op.entries) \in Nat
  BY DEF Typed, Ops
<1>2. /\ op.n + 1 \in 1..Len(op.entries) /\ Entry = op.entries[op.n + 1]
      /\ Entry \in EntryRec /\ Entry.key \in Keys /\ Entry.off \in 0..Tombstone
  BY <1>1, EntryKnown
<1>3. Entry.off \in 1..writes \cup {Tombstone} /\ Seen(Entry.off) \in may[Entry.key]
  BY <1>2 DEF Fresh
<1>4. Entry.off \in 0..writes \cup {Tombstone}
  BY <1>3
<1>5. ASSUME NEW i \in 1..Len(op.entries)
      PROVE  /\ op.entries[i].key \in Keys
             /\ Home[op.entries[i].key] = Home[Entry.key]
             /\ i # op.n + 1 => op.entries[i].key # Entry.key /\ op.entries[i].off # Entry.off
  <2>1. op.entries[i] \in EntryRec
    BY <1>1
  <2>2. op.entries[i].key \in Keys
    BY <2>1 DEF EntryRec
  <2>3. GroupEntries
    BY DEF Grouped, Bulk
  <2> QED
    BY <1>2, <2>2, <2>3 DEF GroupEntries
<1> QED
  BY <1>1, <1>2, <1>3, <1>4, <1>5

LEMMA AfterKnown ==
    ASSUME Typed, op.n < Len(op.entries), pc' = AfterStage(op.n + 1)
    PROVE  /\ pc' \in {"stage", "drain"} /\ pc' \in Bulk /\ pc' \notin Single
           /\ pc' = "stage" => op.n + 1 < Len(op.entries)
           /\ op.n + 1 <= Len(op.entries)
<1>1. op.n \in Nat /\ Len(op.entries) \in Nat
  BY DEF Typed, Ops
<1> QED
  BY <1>1 DEF AfterStage, Bulk, Single

LEMMA StageTyped ==
    ASSUME Typed, op.n < Len(op.entries), pc' = AfterStage(op.n + 1), op' \in Ops, op'.n = op.n + 1,
           op'.entries = op.entries, op'.flipped <= Len(op'.dirty), mem' \in Memory,
           pm' = pm, reader' = reader, may' = may, writes' = writes
    PROVE  Typed'
<1>1. /\ pc' \in {"stage", "drain"}
      /\ pc' = "stage" => op.n + 1 < Len(op.entries)
      /\ op.n + 1 <= Len(op.entries)
  BY AfterKnown
<1>2. pm' \in Memory
  BY DEF Typed
<1> QED
  <2>1. pc' \in Single \cup Bulk /\ pc' \notin Single /\ pc' \notin Placed /\ pc' # "attach"
    BY <1>1 DEF Single, Bulk, Placed
  <2>2. pc' \notin {"storeKey", "link", "persistLink", "attach"} /\ pc' \notin {"upsert", "remove"}
    BY <1>1
  <2>3. op'.n <= Len(op'.entries) /\ (pc' \in Single \cup {"stage", "attach"} => op'.n < Len(op'.entries))
    BY <1>1, <2>1
  <2> QED
    BY <1>2, <2>1, <2>2, <2>3, TypedSame

\* One more entry of the group is staged.
LEMMA OneStaged ==
    ASSUME Typed, Sound, pc \in {"stage", "attach"}, pc' = AfterStage(op.n + 1),
           op'.n = op.n + 1, op'.entries = op.entries, op'.flipped = op.flipped, op'.dirty # <<>>,
           NEW z, z \in Holding(mem', op'.bits, Entry.key), OffAt(mem', z) = Entry.off,
           \A i \in 1..op.n : \A y \in Liv(op.entries[i].key) :
               y \in Holding(mem', op'.bits, op.entries[i].key) /\ OffAt(mem', y) = OffAt(mem, y),
           \A x \in Buckets : \A s \in op'.bits[x] :
               <<x, s>> \in op'.spots /\ x \in Range(op'.dirty) /\ x \in Reach(mem', Home[op.entries[1].key])
    PROVE  Singly' /\ Grouped'
<1>0. Grouped /\ Fresh
  BY DEF Sound
<1>1. /\ op.n < Len(op.entries) /\ op.n \in Nat
  BY <1>0, GroupKnown
<1>2. pc' \in {"stage", "drain"} /\ pc' \notin Single
  BY <1>1, AfterKnown
<1>3. GroupEntries /\ GroupStaged /\ op.flipped = 0
  BY <1>0 DEF Grouped, Bulk
<1>4. GroupEntries'
  BY <1>3 DEF GroupEntries
<1>5. GroupClaims'
  BY DEF GroupClaims
<1>6. GroupStaged'
  <2> SUFFICES ASSUME NEW i \in 1..op.n + 1
               PROVE  \E y \in Holding(mem', op'.bits, op.entries[i].key) : OffAt(mem', y) = op.entries[i].off
    BY DEF GroupStaged, Liv
  <2>1. CASE i = op.n + 1
    BY <2>1 DEF Entry
  <2>2. CASE i \in 1..op.n
    BY <1>3, <2>2 DEF GroupStaged
  <2> QED
    BY <1>1, <2>1, <2>2
<1> QED
  BY <1>2, <1>3, <1>4, <1>5, <1>6 DEF Singly, Grouped

LEMMA StageUpdateStep ==
    ASSUME ColdInv, StageUpdate PROVE ColdInv'
<1>0. /\ pc = "stage" /\ pc \in {"stage", "attach"} /\ Match # {} /\ pc' = AfterStage(op.n + 1)
      /\ UNCHANGED <<pm, reader, may, writes, rewound>>
  BY DEF StageUpdate, counts
<1>1. Typed /\ op.n < Len(op.entries) /\ mem \in Memory /\ pm \in Memory
  BY <1>0 DEF ColdInv, Typed
<1>2. PICK z, k, o : z = MatchSpot /\ k = Entry.key /\ o = Entry.off
  OBVIOUS
<1>3. z \in Liv(k) /\ z \in Buckets \X Slots
  BY <1>0, <1>1, <1>2, MatchKnown
<1>4. k \in Keys /\ o \in 0..Tombstone
  BY <1>1, <1>2, EntryKnown
<1>5. mem' = StoreOffsetAt(mem, z, o)
  BY <1>2 DEF StageUpdate
<1>6. /\ mem' \in Memory /\ mem'.key = mem.key /\ mem'.hdr = mem.hdr /\ mem'.alloc = mem.alloc
      /\ mem'.off[z[1]][z[2]] = o
      /\ \A x \in Buckets, s \in Slots : <<x, s>> # z => mem'.off[x][s] = mem.off[x][s]
  BY <1>1, <1>3, <1>4, <1>5, StoreOffsetKnown
<1>7. op' = [op EXCEPT !.n = @ + 1, !.spots = @ \cup {z}, !.dirty = Dirtied(@, z[1])]
  BY <1>2 DEF StageUpdate
<1>8. /\ op' \in Ops /\ op'.n = op.n + 1 /\ op'.entries = op.entries /\ op'.flipped = op.flipped
      /\ op'.spots = op.spots \cup {z} /\ op'.bits = op.bits
      /\ Range(op'.dirty) = Range(op.dirty) \cup {z[1]} /\ op'.dirty # <<>>
      /\ op'.flipped <= Len(op'.dirty)
  BY <1>1, <1>3, <1>7, UpdatedKnown
<1>9. Typed'
  BY <1>0, <1>1, <1>6, <1>8, StageTyped
<1> SUFFICES ASSUME ~rewound PROVE Sound'
  BY <1>0, <1>9 DEF ColdInv
<1>10. Sound /\ Fresh /\ Grouped /\ Synced
  BY DEF ColdInv, Sound
<1>11. /\ o \in 0..writes \cup {Tombstone} /\ Seen(o) \in may[k] /\ op.n \in Nat /\ Len(op.entries) \in Nat
       /\ \A i \in 1..Len(op.entries) : /\ op.entries[i].key \in Keys
                                        /\ Home[op.entries[i].key] = Home[k]
                                        /\ i # op.n + 1 => op.entries[i].key # k /\ op.entries[i].off # o
  BY <1>0, <1>1, <1>2, <1>10, GroupKnown
<1>12. OffAt(mem', z) = o
  BY <1>6 DEF OffAt
<1>13. /\ Links' /\ Behind' /\ Values' /\ Reading'
       /\ \A b \in Buckets : Reach(mem', b) = Reach(mem, b)
       /\ \A j \in Keys : Pub(mem', j) = Pub(mem, j) /\ Liv(j)' = Liv(j)
       /\ \A j \in Keys : \A y \in Liv(j) : y # z => OffAt(mem', y) = OffAt(mem, y)
  BY <1>0, <1>1, <1>3, <1>4, <1>6, <1>8, <1>9, <1>10, <1>11, <1>12, OffsetStored
<1>14. pc' \in {"stage", "drain"} /\ pc' \in Bulk
  BY <1>0, <1>1, AfterKnown
<1>15. Synced'
  <2>1. DirtyHeaders = Range(op.dirty) /\ DirtySpots = op.spots
    BY <1>0 DEF DirtyHeaders, DirtySpots, Bulk
  <2>2. DirtyHeaders' = Range(op'.dirty) /\ DirtySpots' = op'.spots
    BY <1>14 DEF DirtyHeaders, DirtySpots, Bulk
  <2> QED
    BY <1>0, <1>6, <1>8, <1>10, <2>1, <2>2, SyncedStored
<1>16. Fresh'
  <2>1. \A x \in Buckets, s \in Slots : mem'.off[x][s] \in {mem.off[x][s], o}
    <3> SUFFICES ASSUME NEW x \in Buckets, NEW s \in Slots, <<x, s>> = z PROVE mem'.off[x][s] = o
      BY <1>6
    <3>1. z[1] = x /\ z[2] = s
      OBVIOUS
    <3> QED
      BY <1>6, <3>1
  <2>2. pc \in Bulk \cup {"upsert"} /\ pc # "idle" /\ pc # "attach" /\ pc' # "attach"
    BY <1>0, <1>14 DEF Bulk
  <2>3. \A i \in 1..Len(op.entries) : i > op'.n => i > op.n /\ op.entries[i].off # o
    BY <1>8, <1>11
  <2> QED
    BY <1>0, <1>1, <1>8, <1>10, <1>11, <2>1, <2>2, <2>3, FreshStored
<1>17. Singly' /\ Grouped'
  <2>1. \A j : Liv(j)' = Holding(mem', op'.bits, j)
    BY DEF Liv
  <2>2. z \in Holding(mem', op'.bits, Entry.key) /\ OffAt(mem', z) = Entry.off
    BY <1>2, <1>3, <1>4, <1>12, <1>13, <2>1
  <2>3. ASSUME NEW i \in 1..op.n, NEW y \in Liv(op.entries[i].key)
        PROVE  y \in Holding(mem', op'.bits, op.entries[i].key) /\ OffAt(mem', y) = OffAt(mem, y)
    <3>1. i \in 1..Len(op.entries) /\ i # op.n + 1
      BY <1>1, <1>11
    <3>2. op.entries[i].key \in Keys /\ op.entries[i].key # k
      BY <1>11, <3>1
    <3>3. y # z
      BY <1>3, <2>3, <3>2, LivIn
    <3> QED
      BY <1>13, <2>1, <3>2, <3>3
  <2>4. ASSUME NEW x \in Buckets, NEW s \in op'.bits[x]
        PROVE  <<x, s>> \in op'.spots /\ x \in Range(op'.dirty) /\ x \in Reach(mem', Home[op.entries[1].key])
    <3>1. GroupClaims
      BY <1>0, <1>10 DEF Grouped, Bulk
    <3>2. <<x, s>> \in op.spots /\ x \in Range(op.dirty) /\ x \in Reach(mem, Home[op.entries[1].key])
      BY <1>0, <1>8, <2>4, <3>1 DEF GroupClaims
    <3>3. Home[op.entries[1].key] \in Buckets
      BY <1>1, <1>11, HomeKnown
    <3> QED
      BY <1>8, <1>13, <3>2, <3>3
  <2> QED
    BY <1>0, <1>1, <1>8, <1>10, <2>2, <2>3, <2>4, OneStaged
<1> QED
  BY <1>13, <1>15, <1>16, <1>17 DEF Sound

LEMMA StageClaimStep ==
    ASSUME ColdInv, StageClaim PROVE ColdInv'
<1>0. /\ pc = "stage" /\ pc \in {"stage", "attach"} /\ Match = {} /\ Reusable # {} /\ pc' = AfterStage(op.n + 1)
      /\ UNCHANGED <<pm, reader, may, writes, rewound>>
  BY DEF StageClaim, counts
<1>1. Typed /\ op.n < Len(op.entries) /\ mem \in Memory /\ pm \in Memory
  BY <1>0 DEF ColdInv, Typed
<1>2. PICK z, e, k, o : z = ReusableSpot /\ e = Entry /\ k = Entry.key /\ o = Entry.off
  OBVIOUS
<1>3. /\ z \in Buckets \X Slots /\ z[1] \in Buckets /\ z[2] \in Slots /\ z[1] \in Reach(mem, Home[k])
      /\ z[2] \notin mem.hdr[z[1]].occ /\ z[2] \notin op.bits[z[1]]
  BY <1>0, <1>1, <1>2, ReusableKnown
<1>4. e \in EntryRec /\ k \in Keys /\ k = e.key /\ o = e.off
  BY <1>1, <1>2, EntryKnown
<1>a. Liv(k) = {}
  BY <1>0, <1>1, <1>2, MatchKnown
<1>5. mem' = StoreEntryAt(mem, z, e)
  BY <1>2 DEF StageClaim
<1>6. /\ mem' \in Memory /\ mem'.hdr = mem.hdr /\ mem'.alloc = mem.alloc
      /\ mem'.key[z[1]][z[2]] = k /\ mem'.off[z[1]][z[2]] = o
      /\ \A x \in Buckets, s \in Slots : <<x, s>> # z => /\ mem'.key[x][s] = mem.key[x][s]
                                                         /\ mem'.off[x][s] = mem.off[x][s]
  BY <1>1, <1>3, <1>4, <1>5, StoreEntryKnown
<1>7. op' = [op EXCEPT !.n = @ + 1, !.spots = @ \cup {z}, !.dirty = Dirtied(@, z[1]),
                       !.bits[z[1]] = @ \cup {z[2]}]
  BY <1>2 DEF StageClaim
<1>8. /\ op' \in Ops /\ op'.n = op.n + 1 /\ op'.entries = op.entries /\ op'.flipped = op.flipped
      /\ op'.spots = op.spots \cup {z}
      /\ op'.bits[z[1]] = op.bits[z[1]] \cup {z[2]}
      /\ \A x \in Buckets : x # z[1] => op'.bits[x] = op.bits[x]
      /\ Range(op'.dirty) = Range(op.dirty) \cup {z[1]} /\ op'.dirty # <<>>
      /\ op'.flipped <= Len(op'.dirty)
  BY <1>1, <1>3, <1>7, ClaimedKnown
<1>9. Typed'
  BY <1>0, <1>1, <1>6, <1>8, StageTyped
<1> SUFFICES ASSUME ~rewound PROVE Sound'
  BY <1>0, <1>9 DEF ColdInv
<1>10. Sound /\ Fresh /\ Grouped /\ Synced /\ Values
  BY DEF ColdInv, Sound
<1>11. /\ o \in 0..writes \cup {Tombstone} /\ Seen(o) \in may[k] /\ op.n \in Nat /\ Len(op.entries) \in Nat
       /\ \A i \in 1..Len(op.entries) : /\ op.entries[i].key \in Keys
                                        /\ Home[op.entries[i].key] = Home[k]
                                        /\ i # op.n + 1 => op.entries[i].key # k /\ op.entries[i].off # o
  BY <1>0, <1>1, <1>2, <1>10, GroupKnown
<1>12. OffAt(mem', z) = o
  BY <1>6 DEF OffAt
<1>13. mem.alloc <= mem'.alloc
  BY <1>1, <1>6, ColdAssumption DEF Memory
<1>14. \A x \in Buckets : \A s \in mem.hdr[x].occ \cup op.bits[x] :
          mem'.key[x][s] = mem.key[x][s] /\ mem'.off[x][s] = mem.off[x][s]
  BY <1>1, <1>3, <1>6, <1>9, Elsewhere
<1>15. /\ Links' /\ Behind' /\ Reading' /\ Up(mem) /\ Up(mem')
       /\ \A b \in Buckets : Reach(mem', b) = Reach(mem, b)
       /\ \A j \in Keys : Pub(mem', j) = Pub(mem, j)
  BY <1>0, <1>1, <1>6, <1>9, <1>10, <1>13, <1>14, SameHeaders
<1>16. \A j \in Keys : \A y : y \in Liv(j)' <=> y \in Liv(j) \/ (j = k /\ y = z)
  <2> SUFFICES ASSUME NEW j \in Keys, NEW y PROVE y \in Liv(j)' <=> y \in Liv(j) \/ (j = k /\ y = z)
    OBVIOUS
  <2>1. y \in Liv(j)' <=> /\ y \in Buckets \X Slots /\ y[1] \in Reach(mem, Home[j])
                          /\ y[2] \in mem.hdr[y[1]].occ \/ y[2] \in op'.bits[y[1]]
                          /\ mem'.key[y[1]][y[2]] = j
    <3>1. Liv(j)' = Holding(mem', op'.bits, j) /\ Reach(mem', Home[j]) = Reach(mem, Home[j])
      BY <1>15, HomeKnown DEF Liv
    <3> QED
      BY <1>6, <3>1, HoldingIn
  <2>2. CASE y = z
    <3>1. y \in Liv(j)' <=> j = k
      BY <1>3, <1>6, <1>8, <2>1, <2>2
    <3>2. y \notin Liv(j)
      BY <1>3, <2>2, LivIn
    <3> QED
      BY <2>2, <3>1, <3>2
  <2>3. CASE y # z
    <3>1. ASSUME y \in Buckets \X Slots
          PROVE  /\ y[2] \in op'.bits[y[1]] <=> y[2] \in op.bits[y[1]]
                 /\ mem'.key[y[1]][y[2]] = mem.key[y[1]][y[2]]
      <4>1. y = <<y[1], y[2]>> /\ z = <<z[1], z[2]>> /\ y[1] \in Buckets /\ y[2] \in Slots
        BY <1>3, <3>1
      <4>2. mem'.key[y[1]][y[2]] = mem.key[y[1]][y[2]]
        BY <1>6, <2>3, <4>1
      <4>3. y[2] \in op'.bits[y[1]] <=> y[2] \in op.bits[y[1]]
        BY <1>8, <2>3, <4>1
      <4> QED
        BY <4>2, <4>3
    <3> QED
      BY <2>1, <2>3, <3>1, LivIn
  <2> QED
    BY <2>2, <2>3
<1>17. \A j \in Keys : \A y \in Liv(j) : y # z /\ OffAt(mem', y) = OffAt(mem, y)
  <2> SUFFICES ASSUME NEW j \in Keys, NEW y \in Liv(j) PROVE y # z /\ OffAt(mem', y) = OffAt(mem, y)
    OBVIOUS
  <2>1. y[1] \in Buckets /\ y[2] \in mem.hdr[y[1]].occ \cup op.bits[y[1]]
    BY LivIn
  <2> QED
    BY <1>3, <1>14, <2>1 DEF OffAt
<1>18. Values'
  <2>1. ASSUME NEW j \in Keys, NEW y \in Liv(j)'
        PROVE  \/ y \in Liv(j) /\ OffAt(mem', y) = OffAt(mem, y)
               \/ j = k /\ y = z /\ Liv(k) \subseteq {z} /\ Seen(OffAt(mem', z)) \in may[k]
    BY <1>11, <1>12, <1>16, <1>17, <1>a, <2>1
  <2>2. ASSUME NEW x \in Buckets, NEW s \in mem'.hdr[x].occ PROVE pm.key[x][s] = mem'.key[x][s]
    BY <1>6, <1>10, <1>14, <2>2 DEF Values
  <2>3. \A j \in Keys : \A y \in Pub(mem', j) : y \in Pub(mem, j) \/ Seen(OffAt(pm, y)) \in may[j]
    BY <1>15
  <2> QED
    BY <1>0, <1>4, <1>10, <2>1, <2>2, <2>3, ValuesGrow
<1>19. pc' \in {"stage", "drain"} /\ pc' \in Bulk
  BY <1>0, <1>1, AfterKnown
<1>20. Synced'
  <2>1. DirtyHeaders = Range(op.dirty) /\ DirtySpots = op.spots
    BY <1>0 DEF DirtyHeaders, DirtySpots, Bulk
  <2>2. DirtyHeaders' = Range(op'.dirty) /\ DirtySpots' = op'.spots
    BY <1>19 DEF DirtyHeaders, DirtySpots, Bulk
  <2> QED
    BY <1>0, <1>6, <1>8, <1>10, <2>1, <2>2, SyncedStored
<1>21. Fresh'
  <2>1. \A x \in Buckets, s \in Slots : mem'.off[x][s] \in {mem.off[x][s], o}
    <3> SUFFICES ASSUME NEW x \in Buckets, NEW s \in Slots, <<x, s>> = z PROVE mem'.off[x][s] = o
      BY <1>6
    <3>1. z[1] = x /\ z[2] = s
      OBVIOUS
    <3> QED
      BY <1>6, <3>1
  <2>2. pc \in Bulk \cup {"upsert"} /\ pc # "idle" /\ pc # "attach" /\ pc' # "attach"
    BY <1>0, <1>19 DEF Bulk
  <2>3. \A i \in 1..Len(op.entries) : i > op'.n => i > op.n /\ op.entries[i].off # o
    BY <1>8, <1>11
  <2> QED
    BY <1>0, <1>1, <1>8, <1>10, <1>11, <2>1, <2>2, <2>3, FreshStored
<1>22. Singly' /\ Grouped'
  <2>1. \A j : Liv(j)' = Holding(mem', op'.bits, j)
    BY DEF Liv
  <2>2. z \in Holding(mem', op'.bits, Entry.key) /\ OffAt(mem', z) = Entry.off
    BY <1>2, <1>4, <1>12, <1>16, <2>1
  <2>3. ASSUME NEW i \in 1..op.n, NEW y \in Liv(op.entries[i].key)
        PROVE  y \in Holding(mem', op'.bits, op.entries[i].key) /\ OffAt(mem', y) = OffAt(mem, y)
    <3>1. i \in 1..Len(op.entries)
      BY <1>1, <1>11
    <3>2. op.entries[i].key \in Keys
      BY <1>11, <3>1
    <3> QED
      BY <1>16, <1>17, <2>1, <2>3, <3>2
  <2>4. ASSUME NEW x \in Buckets, NEW s \in op'.bits[x]
        PROVE  <<x, s>> \in op'.spots /\ x \in Range(op'.dirty) /\ x \in Reach(mem', Home[op.entries[1].key])
    <3>1. GroupClaims
      BY <1>0, <1>10 DEF Grouped, Bulk
    <3>2. 1 \in 1..Len(op.entries) /\ op.entries[1].key \in Keys /\ Home[op.entries[1].key] = Home[k]
      BY <1>1, <1>11
    <3>3. Reach(mem', Home[op.entries[1].key]) = Reach(mem, Home[k])
      BY <1>4, <1>15, <3>2, HomeKnown
    <3>4. CASE s \in op.bits[x]
      <4>1. <<x, s>> \in op.spots /\ x \in Range(op.dirty) /\ x \in Reach(mem, Home[op.entries[1].key])
        BY <1>0, <3>1, <3>4 DEF GroupClaims
      <4> QED
        BY <1>8, <3>2, <3>3, <4>1
    <3>5. CASE s \notin op.bits[x]
      <4>1. x = z[1] /\ s = z[2]
        BY <1>8, <2>4, <3>5
      <4>2. <<x, s>> = z
        BY <1>3, <4>1
      <4> QED
        BY <1>3, <1>8, <3>3, <4>1, <4>2
    <3> QED
      BY <3>4, <3>5
  <2> QED
    BY <1>0, <1>1, <1>8, <1>10, <2>2, <2>3, <2>4, OneStaged
<1> QED
  BY <1>15, <1>18, <1>20, <1>21, <1>22 DEF Sound

LEMMA StageExtendStep ==
    ASSUME ColdInv, StageExtend PROVE ColdInv'
<1>0. /\ pc = "stage" /\ pc \in {"stage", "attach"} /\ Match = {} /\ PoolRoom /\ pc' = "attach"
      /\ UNCHANGED <<pm, reader, may, writes, rewound>>
  BY DEF StageExtend, counts
<1>1. Typed /\ op.n < Len(op.entries) /\ mem \in Memory /\ pm \in Memory /\ op \in Ops
  BY <1>0 DEF ColdInv, Typed
<1>2. PICK new, t, e, k, o : /\ new = overflow_bucket_of(NewIdx) /\ t = Last(MyChain)
                             /\ e = Entry /\ k = Entry.key /\ o = Entry.off
  OBVIOUS
<1>3. new \in Buckets /\ new > NumMain /\ new = NumMain + mem.alloc + 1 /\ 1 \in Slots
  BY <1>0, <1>1, <1>2, NewKnown
<1>4. t \in Buckets /\ t \in Reach(mem, Home[k]) /\ (Up(mem) => NextAt(mem, t) = NoOverflow)
  BY <1>1, <1>2, TailKnown
<1>5. e \in EntryRec /\ k \in Keys /\ k = e.key /\ o = e.off /\ Liv(k) = {}
  BY <1>0, <1>1, <1>2, EntryKnown, MatchKnown
<1> DEFINE z == <<new, 1>>
<1>6. z \in Buckets \X Slots /\ z[1] = new /\ z[2] = 1
  BY <1>3
<1>7. PICK m : m = StoreEntryAt(mem, z, e)
  OBVIOUS
<1>8. mem' = Bump(m)
  BY <1>2, <1>7 DEF StageExtend
<1>9. op' = [op EXCEPT !.at = <<new, 1>>, !.tail = t, !.spots = @ \cup {<<new, 1>>},
                       !.dirty = Dirtied(@, new), !.bits[new] = @ \cup {1}]
  BY <1>2 DEF StageExtend
<1>10. /\ op' \in Ops /\ op'.n = op.n /\ op'.entries = op.entries /\ op'.flipped = op.flipped
       /\ op'.at = <<new, 1>> /\ op'.tail = t
       /\ op'.spots = op.spots \cup {<<new, 1>>}
       /\ op'.bits[new] = op.bits[new] \cup {1}
       /\ \A x \in Buckets : x # new => op'.bits[x] = op.bits[x]
       /\ Range(op'.dirty) = Range(op.dirty) \cup {new} /\ op'.dirty # <<>>
       /\ op'.flipped <= Len(op'.dirty)
  BY <1>1, <1>3, <1>4, <1>9, NewStagedKnown
<1> HIDE DEF z
<1>11. /\ m \in Memory /\ m.hdr = mem.hdr
       /\ m.key[z[1]][z[2]] = e.key /\ m.off[z[1]][z[2]] = e.off
       /\ \A x \in Buckets, s \in Slots : <<x, s>> # z => /\ m.key[x][s] = mem.key[x][s]
                                                          /\ m.off[x][s] = mem.off[x][s]
  BY <1>1, <1>5, <1>6, <1>7, StoreEntryKnown
<1>12. /\ mem' \in Memory /\ mem'.key = m.key /\ mem'.off = m.off /\ mem'.hdr = m.hdr
       /\ mem'.alloc = mem.alloc + 1
  BY <1>0, <1>1, <1>8, <1>11, BumpKnown
<1>13. /\ mem' \in Memory /\ mem'.hdr = mem.hdr /\ mem'.alloc = mem.alloc + 1
       /\ mem'.key[new][1] = k /\ mem'.off[new][1] = o
       /\ \A x \in Buckets, s \in Slots : <<x, s>> # z => /\ mem'.key[x][s] = mem.key[x][s]
                                                          /\ mem'.off[x][s] = mem.off[x][s]
  BY <1>5, <1>6, <1>11, <1>12
<1>14. Typed'
  <2>1. /\ pc' \in Single \cup Bulk /\ op'.n <= Len(op'.entries) /\ op'.n < Len(op'.entries)
        /\ op'.at \in Buckets \X Slots /\ op'.tail # 0 /\ op'.at[1] > NumMain
    BY <1>0, <1>1, <1>3, <1>4, <1>6, <1>10, ColdAssumption DEF Bulk, Buckets, z, Typed
  <2>2. pc' \notin Single /\ pc' \notin {"upsert", "remove"}
    BY <1>0 DEF Single
  <2> QED
    BY <1>0, <1>1, <1>10, <1>13, <2>1, <2>2, TypedSame
<1> SUFFICES ASSUME ~rewound PROVE Sound'
  BY <1>0, <1>14 DEF ColdInv
<1>15. Sound /\ Fresh /\ Grouped /\ Synced /\ Values /\ Links /\ Up(mem)
  BY LinksUp DEF ColdInv, Sound
<1>16. /\ o \in 0..writes \cup {Tombstone} /\ op.n \in Nat /\ Len(op.entries) \in Nat
       /\ \A i \in 1..Len(op.entries) : /\ op.entries[i].key \in Keys
                                        /\ Home[op.entries[i].key] = Home[k]
                                        /\ i # op.n + 1 => op.entries[i].off # o
       /\ k = op.entries[op.n + 1].key /\ o = op.entries[op.n + 1].off
  BY <1>0, <1>1, <1>2, <1>15, GroupKnown
<1>17. /\ NextAt(mem, new) = NoOverflow /\ mem.hdr[new].occ = {} /\ Unlinked(new)
       /\ \A j \in Keys : new \notin Reach(mem, Home[j])
  BY <1>0, <1>1, <1>2, <1>4, <1>5, <1>15, PoolNew
<1>18. mem.alloc <= mem'.alloc /\ mem.alloc \in Nat /\ NumMain \in Nat
  BY <1>1, <1>13, ColdAssumption DEF Memory
<1>19. GroupEntries /\ GroupClaims /\ GroupStaged /\ op.flipped = 0
  BY <1>0, <1>15 DEF Grouped, Bulk
<1>20. 1 \in 1..Len(op.entries) /\ op.entries[1].key \in Keys /\ Home[op.entries[1].key] = Home[k]
  BY <1>1, <1>16
<1>21. op.bits[new] = {} /\ op'.bits[new] = {1}
  <2>1. \A s \in op.bits[new] : new \in Reach(mem, Home[op.entries[1].key])
    BY <1>0, <1>3, <1>19 DEF GroupClaims
  <2> QED
    BY <1>10, <1>17, <1>20, <2>1
<1>22. \A x \in Buckets : \A s \in mem.hdr[x].occ \cup op.bits[x] :
          mem'.key[x][s] = mem.key[x][s] /\ mem'.off[x][s] = mem.off[x][s]
  <2>1. z[2] \notin mem.hdr[z[1]].occ /\ z[2] \notin op.bits[z[1]]
    BY <1>6, <1>17, <1>21
  <2> QED
    BY <1>1, <1>6, <1>13, <1>14, <2>1, Elsewhere
<1>23. /\ Links' /\ Behind' /\ Reading' /\ Up(mem) /\ Up(mem')
       /\ \A b \in Buckets : Reach(mem', b) = Reach(mem, b)
       /\ \A j \in Keys : Pub(mem', j) = Pub(mem, j)
  BY <1>0, <1>1, <1>13, <1>14, <1>15, <1>18, <1>22, SameHeaders
<1>24. \A j \in Keys : \A y : y \in Liv(j)' <=> y \in Liv(j)
  <2> SUFFICES ASSUME NEW j \in Keys, NEW y PROVE y \in Liv(j)' <=> y \in Liv(j)
    OBVIOUS
  <2>1. y \in Liv(j)' <=> /\ y \in Buckets \X Slots /\ y[1] \in Reach(mem, Home[j])
                          /\ y[2] \in mem.hdr[y[1]].occ \/ y[2] \in op'.bits[y[1]]
                          /\ mem'.key[y[1]][y[2]] = j
    <3>1. Liv(j)' = Holding(mem', op'.bits, j) /\ Reach(mem', Home[j]) = Reach(mem, Home[j])
      BY <1>23, HomeKnown DEF Liv
    <3> QED
      BY <1>13, <3>1, HoldingIn
  <2>2. ASSUME y \in Buckets \X Slots, y[1] \in Reach(mem, Home[j])
        PROVE  op'.bits[y[1]] = op.bits[y[1]] /\ mem'.key[y[1]][y[2]] = mem.key[y[1]][y[2]]
    <3>1. y[1] # new /\ y[1] \in Buckets /\ y[2] \in Slots
      BY <1>17, <2>2
    <3>2. <<y[1], y[2]>> # z
      BY <1>6, <3>1 DEF z
    <3> QED
      BY <1>10, <1>13, <3>1, <3>2
  <2> QED
    BY <2>1, <2>2, LivIn
<1>25. \A j \in Keys : \A y \in Liv(j) : OffAt(mem', y) = OffAt(mem, y)
  <2> SUFFICES ASSUME NEW j \in Keys, NEW y \in Liv(j) PROVE OffAt(mem', y) = OffAt(mem, y)
    OBVIOUS
  <2>1. y[1] \in Buckets /\ y[2] \in mem.hdr[y[1]].occ \cup op.bits[y[1]]
    BY LivIn
  <2> QED
    BY <1>22, <2>1 DEF OffAt
<1>26. Values'
  <2>1. \A j \in Keys : \A y \in Liv(j)' :
           \/ y \in Liv(j) /\ OffAt(mem', y) = OffAt(mem, y)
           \/ j = k /\ y = z /\ Liv(k) \subseteq {z} /\ Seen(OffAt(mem', z)) \in may[k]
    BY <1>24, <1>25
  <2>2. ASSUME NEW x \in Buckets, NEW s \in mem'.hdr[x].occ PROVE pm.key[x][s] = mem'.key[x][s]
    BY <1>13, <1>15, <1>22, <2>2 DEF Values
  <2>3. \A j \in Keys : \A y \in Pub(mem', j) : y \in Pub(mem, j) \/ Seen(OffAt(pm, y)) \in may[j]
    BY <1>23
  <2> QED
    BY <1>0, <1>5, <1>15, <2>1, <2>2, <2>3, ValuesGrow
<1>27. Synced'
  <2>1. DirtyHeaders = Range(op.dirty) /\ DirtySpots = op.spots
    BY <1>0 DEF DirtyHeaders, DirtySpots, Bulk
  <2>2. DirtyHeaders' = Range(op'.dirty) /\ DirtySpots' = op'.spots
    BY <1>0 DEF DirtyHeaders, DirtySpots, Bulk
  <2>3. op'.spots = op.spots \cup {z}
    BY <1>10 DEF z
  <2> QED
    BY <1>0, <1>10, <1>13, <1>15, <2>1, <2>2, <2>3, SyncedStored
<1>28. Fresh'
  <2>1. \A x \in Buckets, s \in Slots : mem'.off[x][s] \in {mem.off[x][s], o}
    <3> SUFFICES ASSUME NEW x \in Buckets, NEW s \in Slots, <<x, s>> = z PROVE mem'.off[x][s] = o
      BY <1>13
    <3>1. x = new /\ s = 1
      BY DEF z
    <3> QED
      BY <1>13, <3>1
  <2>2. pc' \in Bulk \cup {"upsert"} =>
          /\ pc \in Bulk \cup {"upsert"}
          /\ \A i \in 1..Len(op.entries) : (i > op'.n /\ ~(pc' = "attach" /\ i = op'.n + 1)) =>
                i > op.n /\ ~(pc = "attach" /\ i = op.n + 1) /\ op.entries[i].off # o
    <3>1. pc \in Bulk \cup {"upsert"}
      BY <1>0 DEF Bulk
    <3>2. ASSUME NEW i \in 1..Len(op.entries), i > op'.n /\ ~(pc' = "attach" /\ i = op'.n + 1)
          PROVE  i > op.n /\ ~(pc = "attach" /\ i = op.n + 1) /\ op.entries[i].off # o
      <4>1. i > op.n /\ i # op.n + 1
        BY <1>0, <1>10, <3>2
      <4> QED
        BY <1>16, <4>1
    <3> QED
      BY <3>1, <3>2
  <2>3. Typed /\ Fresh /\ pc # "idle" /\ writes' = writes /\ may' = may /\ pm' = pm
    BY <1>0, <1>1, <1>15
  <2>4. op'.entries = op.entries
    BY <1>10
  <2>5. o \in 0..writes \cup {Tombstone}
    BY <1>16
  <2> QED
    BY <2>1, <2>2, <2>3, <2>4, <2>5, FreshStored
<1>29. Singly'
  BY <1>0 DEF Singly, Single
<1>30. Grouped'
  <2>1. GroupEntries'
    BY <1>10, <1>19 DEF GroupEntries
  <2>2. GroupClaims'
    <3> SUFFICES ASSUME NEW x \in Buckets, NEW s \in op'.bits[x]
                 PROVE  /\ <<x, s>> \in op'.spots /\ x \in Range(op'.dirty)
                        /\ x \in Reach(mem', Home[op'.entries[1].key]) \/ (pc' = "attach" /\ <<x, s>> = op'.at)
      BY <1>10 DEF GroupClaims
    <3>1. CASE x = new
      BY <1>0, <1>10, <1>21, <3>1
    <3>2. CASE x # new
      <4>1. s \in op.bits[x]
        BY <1>10, <3>2
      <4>2. <<x, s>> \in op.spots /\ x \in Range(op.dirty) /\ x \in Reach(mem, Home[op.entries[1].key])
        BY <1>0, <1>19, <4>1 DEF GroupClaims
      <4>3. x \in Reach(mem', Home[op.entries[1].key])
        BY <1>20, <1>23, <4>2, HomeKnown
      <4> QED
        BY <1>10, <4>2, <4>3
    <3> QED
      BY <3>1, <3>2
  <2>3. GroupStaged'
    <3> SUFFICES ASSUME NEW i \in 1..op.n
                 PROVE  \E y \in Holding(mem', op'.bits, op.entries[i].key) : OffAt(mem', y) = op.entries[i].off
      BY <1>10 DEF GroupStaged, Liv
    <3>1. op.entries[i].key \in Keys
      BY <1>1, <1>16
    <3>2. PICK y \in Liv(op.entries[i].key) : OffAt(mem, y) = op.entries[i].off
      BY <1>19 DEF GroupStaged
    <3>3. \A j : Liv(j)' = Holding(mem', op'.bits, j)
      BY DEF Liv
    <3>4. y \in Holding(mem', op'.bits, op.entries[i].key) /\ OffAt(mem', y) = op.entries[i].off
      BY <1>24, <1>25, <3>1, <3>2, <3>3
    <3> QED
      BY <3>4
  <2>4. GroupNew'
    <3>1. NewBucket(k)'
      <4>1. op'.at[1] = new /\ op'.at[2] = 1 /\ op'.tail = t
        BY <1>10
      <4>2. new = NumMain + mem'.alloc /\ mem'.alloc > 0
        BY <1>3, <1>13, <1>18
      <4>3. NextAt(mem', new) = NoOverflow /\ NextAt(mem', t) = NoOverflow
        BY <1>4, <1>13, <1>15, <1>17 DEF NextAt
      <4>4. \A y \in Buckets : overflow_bucket_of(NextAt(mem', y)) # new
        BY <1>13, <1>17 DEF Unlinked, NextAt
      <4>5. t \in Reach(mem', Home[k])
        BY <1>4, <1>5, <1>23, HomeKnown
      <4> QED
        BY <4>1, <4>2, <4>3, <4>4, <4>5 DEF NewBucket, Unlinked
    <3>2. Liv(k)' = {}
      BY <1>5, <1>24
    <3>3. op'.entries[op'.n + 1] = op.entries[op.n + 1]
      BY <1>10
    <3>4. mem'.hdr[op'.at[1]].occ = {} /\ op'.bits[op'.at[1]] = {1}
      BY <1>10, <1>13, <1>17, <1>21
    <3>5. mem'.key[op'.at[1]][1] = k /\ mem'.off[op'.at[1]][1] = o
      BY <1>10, <1>13
    <3> QED
      BY <1>10, <1>16, <3>1, <3>2, <3>3, <3>4, <3>5 DEF GroupNew
  <2> QED
    BY <1>0, <1>10, <1>19, <2>1, <2>2, <2>3, <2>4 DEF Grouped, Bulk
<1> QED
  BY <1>23, <1>26, <1>27, <1>28, <1>29, <1>30 DEF Sound

LEMMA StageAttachStep ==
    ASSUME ColdInv, StageAttach PROVE ColdInv'
<1>0. /\ pc = "attach" /\ pc \in {"stage", "attach"} /\ pc' = AfterStage(op.n + 1)
      /\ mem' = Attached(op.tail, op.at[1])
      /\ op' = [op EXCEPT !.n = @ + 1, !.dirty = Dirtied(@, op.tail)]
      /\ UNCHANGED <<pm, reader, may, writes, rewound>>
  BY DEF StageAttach, counts
<1>1. Typed /\ op.n < Len(op.entries) /\ mem \in Memory /\ pm \in Memory /\ op \in Ops
  BY <1>0 DEF ColdInv, Typed
<1>2. PICK z, k, o, tail, new : z = op.at /\ k = Entry.key /\ o = Entry.off /\ tail = op.tail /\ new = op.at[1]
  OBVIOUS
<1>3. /\ z \in Buckets \X Slots /\ z[1] = new /\ new \in Buckets /\ z[2] \in Slots /\ tail # 0 /\ tail \in Buckets
      /\ new > NumMain
  BY <1>0, <1>1, <1>2 DEF Typed, Placed, Ops
<1>4. mem' \in Memory
  BY <1>0, <1>1, <1>2, <1>3, AttachedKnown
<1>5. /\ op' \in Ops /\ op'.n = op.n + 1 /\ op'.entries = op.entries /\ op'.flipped = op.flipped
      /\ op'.spots = op.spots /\ op'.bits = op.bits
      /\ Range(op'.dirty) = Range(op.dirty) \cup {tail} /\ op'.dirty # <<>>
      /\ op'.flipped <= Len(op'.dirty)
  BY <1>0, <1>1, <1>2, <1>3, AttachStagedKnown
<1>6. Typed'
  BY <1>0, <1>1, <1>4, <1>5, StageTyped
<1> SUFFICES ASSUME ~rewound PROVE Sound'
  BY <1>0, <1>6 DEF ColdInv
<1>7. Sound /\ Fresh /\ Grouped /\ Synced /\ Values
  BY DEF ColdInv, Sound
<1>8. /\ o \in 0..writes \cup {Tombstone} /\ Seen(o) \in may[k] /\ op.n \in Nat /\ Len(op.entries) \in Nat
      /\ k \in Keys /\ k = op.entries[op.n + 1].key /\ o = op.entries[op.n + 1].off
      /\ \A i \in 1..Len(op.entries) : /\ op.entries[i].key \in Keys
                                       /\ Home[op.entries[i].key] = Home[k]
                                       /\ i # op.n + 1 => op.entries[i].key # k /\ op.entries[i].off # o
  BY <1>0, <1>1, <1>2, <1>7, GroupKnown
<1>9. GroupEntries /\ GroupClaims /\ GroupStaged /\ GroupNew
  BY <1>0, <1>7 DEF Grouped, Bulk
<1>10. /\ NewBucket(k) /\ mem.hdr[new].occ = {} /\ op.bits[new] = {1}
       /\ mem.key[new][1] = k /\ mem.off[new][1] = o /\ Liv(k) = {}
  BY <1>2, <1>8, <1>9 DEF GroupNew
<1>11. z[2] = 1 /\ tail \in Reach(mem, Home[k])
  BY <1>2, <1>10 DEF NewBucket
<1>12. /\ Links' /\ Behind' /\ Reading'
       /\ \A b \in Buckets : Reach(mem', b) = IF tail \in Reach(mem, b) THEN Reach(mem, b) \cup {new} ELSE Reach(mem, b)
       /\ mem'.key = mem.key /\ mem'.off = mem.off
       /\ \A x \in Buckets : mem'.hdr[x].occ = mem.hdr[x].occ
       /\ \A x \in Buckets : x # tail => mem'.hdr[x] = mem.hdr[x]
  <2>1. op.at[1] > NumMain /\ op.at[1] \in Buckets /\ op.tail \in Buckets /\ NewBucket(k) /\ k \in Keys
    BY <1>2, <1>3, <1>8, <1>10
  <2>2. /\ Links' /\ Behind' /\ Reading' /\ Up(mem) /\ Up(mem')
        /\ \A b \in Buckets : Reach(mem', b) = IF op.tail \in Reach(mem, b)
                                               THEN Reach(mem, b) \cup {op.at[1]} ELSE Reach(mem, b)
        /\ mem'.key = mem.key /\ mem'.off = mem.off /\ mem'.alloc = mem.alloc
        /\ \A x \in Buckets : mem'.hdr[x].occ = mem.hdr[x].occ
        /\ \A x \in Buckets : x # op.tail => mem'.hdr[x] = mem.hdr[x]
    BY <1>0, <1>1, <1>6, <1>7, <2>1, AttachGrown
  <2> QED
    BY <1>2, <2>2
<1>13. ASSUME NEW j \in Keys PROVE Reach(mem, Home[j]) \subseteq Reach(mem', Home[j])
  BY <1>12, HomeKnown
<1>14. \A j : Liv(j)' = Holding(mem', op.bits, j)
  BY <1>5 DEF Liv
<1>15. ASSUME NEW j \in Keys, NEW y \in Holding(mem', op.bits, j) PROVE y \in Liv(j) \/ (j = k /\ y = z)
  <2>1. /\ y \in Buckets \X Slots /\ y[1] \in Reach(mem', Home[j])
        /\ y[2] \in mem.hdr[y[1]].occ \/ y[2] \in op.bits[y[1]]
        /\ mem.key[y[1]][y[2]] = j
    BY <1>12, <1>15, HoldingIn
  <2>2. y[1] \in Reach(mem, Home[j]) \/ y[1] = new
    BY <1>12, <2>1, HomeKnown
  <2>3. CASE y[1] = new
    <3>1. y[2] = 1 /\ y = <<y[1], y[2]>> /\ z = <<z[1], z[2]>>
      BY <1>3, <1>10, <2>1, <2>3
    <3> QED
      BY <1>3, <1>10, <1>11, <2>1, <2>3, <3>1
  <2>4. CASE y[1] \in Reach(mem, Home[j])
    BY <2>1, <2>4, LivIn
  <2> QED
    BY <2>2, <2>3, <2>4
<1>16. ASSUME NEW j \in Keys, NEW y \in Pub(mem', j) PROVE y \in Pub(mem, j)
  <2>1. /\ y \in Buckets \X Slots /\ y[1] \in Reach(mem', Home[j])
        /\ y[2] \in mem.hdr[y[1]].occ /\ mem.key[y[1]][y[2]] = j
    BY <1>12, <1>16, PubIn
  <2>2. y[1] \in Reach(mem, Home[j])
    BY <1>10, <1>12, <2>1, HomeKnown
  <2> QED
    BY <2>1, <2>2, PubIn
<1>17. ASSUME NEW j \in Keys, NEW y \in Liv(j) PROVE y \in Holding(mem', op.bits, j) /\ OffAt(mem', y) = OffAt(mem, y)
  <2>1. /\ y \in Buckets \X Slots /\ y[1] \in Reach(mem, Home[j])
        /\ y[2] \in mem.hdr[y[1]].occ \/ y[2] \in op.bits[y[1]]
        /\ mem.key[y[1]][y[2]] = j
    BY <1>17, LivIn
  <2>2. y[1] \in Buckets /\ y[1] \in Reach(mem', Home[j])
    BY <1>13, <2>1
  <2> QED
    BY <1>12, <2>1, <2>2, HoldingIn DEF OffAt
<1>18. z \in Holding(mem', op.bits, k) /\ OffAt(mem', z) = o
  <2>1. new \in Reach(mem', Home[k])
    BY <1>8, <1>11, <1>12, HomeKnown
  <2>2. z[2] \in op.bits[z[1]] /\ mem'.key[z[1]][z[2]] = k
    BY <1>3, <1>10, <1>11, <1>12
  <2> QED
    BY <1>3, <1>10, <1>11, <1>12, <2>1, <2>2, HoldingIn DEF OffAt
<1>19. Values'
  <2>1. ASSUME NEW j \in Keys, NEW y \in Liv(j)'
        PROVE  \/ y \in Liv(j) /\ OffAt(mem', y) = OffAt(mem, y)
               \/ j = k /\ y = z /\ Liv(k) \subseteq {z} /\ Seen(OffAt(mem', z)) \in may[k]
    <3>1. y \in Holding(mem', op.bits, j)
      BY <1>14, <2>1
    <3>2. CASE y \in Liv(j)
      BY <1>17, <3>2
    <3>3. CASE j = k /\ y = z
      BY <1>8, <1>10, <1>18, <3>3
    <3> QED
      BY <1>15, <3>1, <3>2, <3>3
  <2>2. ASSUME NEW x \in Buckets, NEW s \in mem'.hdr[x].occ PROVE pm.key[x][s] = mem'.key[x][s]
    BY <1>7, <1>12, <2>2 DEF Values
  <2>3. \A j \in Keys : \A y \in Pub(mem', j) : y \in Pub(mem, j) \/ Seen(OffAt(pm, y)) \in may[j]
    BY <1>16
  <2> QED
    BY <1>0, <1>7, <1>8, <2>1, <2>2, <2>3, ValuesGrow
<1>20. pc' \in {"stage", "drain"} /\ pc' \in Bulk
  BY <1>0, <1>1, AfterKnown
<1>21. Synced'
  <2>1. DirtyHeaders = Range(op.dirty) /\ DirtySpots = op.spots
    BY <1>0 DEF DirtyHeaders, DirtySpots, Bulk
  <2>2. DirtyHeaders' = Range(op'.dirty) /\ DirtySpots' = op'.spots
    BY <1>20 DEF DirtyHeaders, DirtySpots, Bulk
  <2>3. \A x \in Buckets : x \notin DirtyHeaders' => pm'.hdr[x] = mem'.hdr[x]
    BY <1>0, <1>5, <1>7, <1>12, <2>1, <2>2 DEF Synced
  <2>4. \A x \in Buckets, s \in Slots : <<x, s>> \notin DirtySpots' => pm'.key[x][s] = mem'.key[x][s] /\ pm'.off[x][s] = mem'.off[x][s]
    BY <1>0, <1>5, <1>7, <1>12, <2>1, <2>2 DEF Synced
  <2> QED
    BY <2>3, <2>4 DEF Synced
<1>22. Fresh'
  <2>1. \A x \in Buckets, s \in Slots : mem'.off[x][s] \in {mem.off[x][s], o}
    BY <1>12
  <2>2. pc' \in Bulk \cup {"upsert"} =>
          /\ pc \in Bulk \cup {"upsert"}
          /\ \A i \in 1..Len(op.entries) : (i > op'.n /\ ~(pc' = "attach" /\ i = op'.n + 1)) =>
                i > op.n /\ ~(pc = "attach" /\ i = op.n + 1) /\ op.entries[i].off # o
    <3>1. pc \in Bulk \cup {"upsert"}
      BY <1>0 DEF Bulk
    <3>2. ASSUME NEW i \in 1..Len(op.entries), i > op'.n /\ ~(pc' = "attach" /\ i = op'.n + 1)
          PROVE  i > op.n /\ ~(pc = "attach" /\ i = op.n + 1) /\ op.entries[i].off # o
      <4>1. i > op.n /\ i # op.n + 1
        BY <1>5, <1>8, <3>2
      <4> QED
        BY <1>8, <4>1
    <3> QED
      BY <3>1, <3>2
  <2>3. Typed /\ Fresh /\ pc # "idle" /\ writes' = writes /\ may' = may /\ pm' = pm
    BY <1>0, <1>1, <1>7
  <2>4. op'.entries = op.entries
    BY <1>5
  <2>5. o \in 0..writes \cup {Tombstone}
    BY <1>8
  <2> QED
    BY <2>1, <2>2, <2>3, <2>4, <2>5, FreshStored
<1>23. Singly' /\ Grouped'
  <2>1. z \in Holding(mem', op'.bits, Entry.key) /\ OffAt(mem', z) = Entry.off
    BY <1>2, <1>5, <1>18
  <2>2. ASSUME NEW i \in 1..op.n, NEW y \in Liv(op.entries[i].key)
        PROVE  y \in Holding(mem', op'.bits, op.entries[i].key) /\ OffAt(mem', y) = OffAt(mem, y)
    <3>1. i \in 1..Len(op.entries)
      BY <1>1, <1>8
    <3>2. op.entries[i].key \in Keys
      BY <1>8, <3>1
    <3> QED
      BY <1>5, <1>17, <2>2, <3>2
  <2>3. ASSUME NEW x \in Buckets, NEW s \in op'.bits[x]
        PROVE  <<x, s>> \in op'.spots /\ x \in Range(op'.dirty) /\ x \in Reach(mem', Home[op.entries[1].key])
    <3>0. 1 \in 1..Len(op.entries) /\ op.entries[1].key \in Keys /\ Home[op.entries[1].key] = Home[k]
      BY <1>1, <1>8
    <3>1. /\ <<x, s>> \in op.spots /\ x \in Range(op.dirty)
          /\ x \in Reach(mem, Home[op.entries[1].key]) \/ <<x, s>> = op.at
      BY <1>5, <1>9, <2>3 DEF GroupClaims
    <3>2. CASE x \in Reach(mem, Home[op.entries[1].key])
      BY <1>5, <1>13, <3>0, <3>1, <3>2
    <3>3. CASE <<x, s>> = op.at
      <4>1. x = new
        BY <1>2, <3>3
      <4>2. new \in Reach(mem', Home[k])
        BY <1>8, <1>11, <1>12, HomeKnown
      <4> QED
        BY <1>5, <3>0, <3>1, <4>1, <4>2
    <3> QED
      BY <3>1, <3>2, <3>3
  <2> QED
    BY <1>0, <1>1, <1>5, <1>7, <2>1, <2>2, <2>3, OneStaged
<1> QED
  BY <1>12, <1>19, <1>21, <1>22, <1>23 DEF Sound

LEMMA FirstKnown ==
    ASSUME Typed, GroupEntries PROVE op.entries[1].key \in Keys
<1>1. op.entries \in Seq(EntryRec) /\ op.entries # <<>>
  BY DEF Typed, Ops, GroupEntries
<1>2. op.entries[1] \in EntryRec
  BY <1>1
<1> QED
  BY <1>2 DEF EntryRec

LEMMA StagedKeys ==
    ASSUME Typed PROVE \A i \in 1..op.n : op.entries[i].key \in Keys
<1>1. op.entries \in Seq(EntryRec) /\ op.n \in Nat /\ op.n <= Len(op.entries) /\ Len(op.entries) \in Nat
  BY DEF Typed, Ops
<1>2. \A i \in 1..op.n : op.entries[i] \in EntryRec
  BY <1>1
<1> QED
  BY <1>2 DEF EntryRec

LEMMA NextFlipped ==
    ASSUME op \in Ops, op' = [op EXCEPT !.flipped = @ + 1]
    PROVE  /\ op' \in Ops /\ op'.flipped = op.flipped + 1 /\ op'.n = op.n /\ op'.entries = op.entries
           /\ op'.dirty = op.dirty /\ op'.bits = op.bits /\ op'.spots = op.spots /\ op'.at = op.at
<1> DEFINE n == op.flipped + 1
<1>1. n \in Nat
  BY DEF Ops
<1>2. op' = [op EXCEPT !.flipped = n]
  OBVIOUS
<1>3. n = op.flipped + 1
  OBVIOUS
<1> HIDE DEF n
<1>4. op' \in Ops
  BY <1>1, <1>2 DEF Ops
<1> QED
  BY <1>2, <1>3, <1>4 DEF Ops

\* The bits of one bucket of a group: what they publish was already durable.
LEMMA FlipBitsStep ==
    ASSUME ColdInv, FlipBits PROVE ColdInv'
<1>0. /\ pc = "flip" /\ pc' = "flip" /\ op.flipped < Len(op.dirty)
      /\ op' = [op EXCEPT !.flipped = @ + 1]
      /\ UNCHANGED <<pm, reader, may, writes, rewound>>
  BY DEF FlipBits, counts
<1>1. Typed /\ mem \in Memory /\ pm \in Memory /\ op \in Ops
  BY DEF ColdInv, Typed
<1>2. PICK b, bits : b = op.dirty[op.flipped + 1] /\ bits = op.bits[b]
  OBVIOUS
<1>3. /\ op.flipped \in Nat /\ op.flipped + 1 \in 1..Len(op.dirty) /\ Len(op.dirty) \in Nat
      /\ op.dirty \in Seq(Buckets) /\ b \in Buckets /\ bits \in SUBSET Slots
  BY <1>0, <1>1, <1>2 DEF Ops
<1>4. mem' = AddBits(mem, b, bits)
  BY <1>2 DEF FlipBits, AddBits
<1>5. /\ mem' \in Memory /\ mem'.key = mem.key /\ mem'.off = mem.off /\ mem'.alloc = mem.alloc
      /\ mem'.hdr[b].occ = mem.hdr[b].occ \cup bits /\ mem'.hdr[b].next = mem.hdr[b].next
      /\ \A x \in Buckets : x # b => mem'.hdr[x] = mem.hdr[x]
  BY <1>1, <1>3, <1>4, BitsKnown
<1>6. /\ op' \in Ops /\ op'.flipped = op.flipped + 1 /\ op'.n = op.n /\ op'.entries = op.entries
      /\ op'.dirty = op.dirty /\ op'.bits = op.bits /\ op'.spots = op.spots /\ op'.at = op.at
  BY <1>0, <1>1, <1>3, NextFlipped
<1>7. Typed'
  <2>1. op'.n <= Len(op'.entries) /\ op'.flipped <= Len(op'.dirty)
    BY <1>1, <1>3, <1>6 DEF Typed
  <2>2. pc' \in Single \cup Bulk /\ pc' \notin Single /\ pc' \notin Placed
    BY <1>0 DEF Single, Bulk, Placed
  <2>3. mem' \in Memory /\ pm' \in Memory /\ reader' = reader /\ may' = may /\ writes' = writes /\ op' \in Ops
    BY <1>0, <1>1, <1>5, <1>6
  <2> QED
    BY <1>0, <1>1, <2>1, <2>2, <2>3, TypedSame
<1> SUFFICES ASSUME ~rewound PROVE Sound'
  BY <1>0, <1>7 DEF ColdInv
<1>8. Sound /\ Fresh /\ Synced /\ Values /\ Links
  BY DEF ColdInv, Sound
<1>9. GroupEntries /\ GroupClaims /\ GroupStaged /\ GroupFlipped
  BY <1>0, <1>8 DEF Sound, Grouped, Bulk
<1>10. \A x \in Buckets : /\ mem'.hdr[x].next = mem.hdr[x].next
                          /\ mem.hdr[x].occ \subseteq mem'.hdr[x].occ
                          /\ mem'.hdr[x].occ \subseteq mem.hdr[x].occ \cup op.bits[x]
                          /\ mem'.hdr[x].occ \cup op.bits[x] = mem.hdr[x].occ \cup op.bits[x]
  <2> SUFFICES ASSUME NEW x \in Buckets
               PROVE  /\ mem'.hdr[x].next = mem.hdr[x].next
                      /\ mem.hdr[x].occ \subseteq mem'.hdr[x].occ
                      /\ mem'.hdr[x].occ \subseteq mem.hdr[x].occ \cup op.bits[x]
                      /\ mem'.hdr[x].occ \cup op.bits[x] = mem.hdr[x].occ \cup op.bits[x]
    OBVIOUS
  <2>1. CASE x = b
    BY <1>2, <1>5, <2>1
  <2>2. CASE x # b
    BY <1>5, <2>2
  <2> QED
    BY <2>1, <2>2
<1>11. /\ Links' /\ Behind' /\ Reading' /\ Up(mem) /\ Up(mem')
       /\ \A x \in Buckets : Reach(mem', x) = Reach(mem, x)
       /\ \A x \in Buckets : NextAt(mem', x) = NextAt(mem, x)
  <2>1. CASE bits = {}
    <3>1. mem'.hdr[b] = mem.hdr[b]
      <4>1. mem'.hdr[b] \in Headers /\ mem.hdr[b] \in Headers
        BY <1>1, <1>3, <1>5 DEF Memory, Headers
      <4>2. mem'.hdr[b].occ = mem.hdr[b].occ /\ mem'.hdr[b].next = mem.hdr[b].next
        BY <1>5, <2>1
      <4>3. \A g, h \in Headers : g.occ = h.occ /\ g.next = h.next => g = h
        BY DEF Headers
      <4> QED
        BY <4>1, <4>2, <4>3
    <3>2. mem'.hdr = mem.hdr
      <4>1. \A x \in Buckets : mem'.hdr[x] = mem.hdr[x]
        BY <1>5, <3>1
      <4>2. mem'.hdr \in [Buckets -> Headers] /\ mem.hdr \in [Buckets -> Headers]
        BY <1>1, <1>5 DEF Memory, Headers
      <4> QED
        BY <4>1, <4>2
    <3>3. mem.alloc <= mem'.alloc /\ \A x \in Buckets : \A s \in mem.hdr[x].occ : mem'.key[x][s] = mem.key[x][s]
      BY <1>1, <1>5, ColdAssumption DEF Memory
    <3>4. \A x \in Buckets : NextAt(mem', x) = NextAt(mem, x)
      BY <1>10 DEF NextAt
    <3> QED
      BY <1>0, <1>1, <1>7, <1>8, <3>2, <3>3, <3>4, SameHeaders
  <2>2. CASE bits # {}
    <3>1. b \in Reach(mem, Home[op.entries[1].key])
      BY <1>0, <1>2, <1>3, <1>9, <2>2 DEF GroupClaims
    <3>2. op.entries[1].key \in Keys
      BY <1>1, <1>9, FirstKnown
    <3>3. b <= NumMain + mem.alloc
      BY <1>1, <1>8, <3>1, <3>2, HomeKnown, ReachAlloc
    <3>4. mem.hdr[b].occ \subseteq mem'.hdr[b].occ /\ mem'.hdr[b].next = mem.hdr[b].next
      BY <1>5
    <3> QED
      BY <1>0, <1>1, <1>3, <1>5, <1>7, <1>8, <3>3, <3>4, BitsGrown
  <2> QED
    BY <2>1, <2>2
<1>12. \A j \in Keys : Liv(j)' = Liv(j)
  <2> SUFFICES ASSUME NEW j \in Keys PROVE Liv(j)' = Liv(j)
    OBVIOUS
  <2>1. \A x \in Buckets : /\ NextAt(mem, x) = NextAt(mem', x)
                           /\ mem.hdr[x].occ \cup op.bits[x] = mem'.hdr[x].occ \cup op.bits[x]
                           /\ \A s \in mem.hdr[x].occ \cup op.bits[x] : mem.key[x][s] = mem'.key[x][s]
    BY <1>5, <1>10, <1>11
  <2>2. Reach(mem, Home[j]) = Reach(mem', Home[j])
    BY <1>11, HomeKnown
  <2>3. Holding(mem, op.bits, j) = Holding(mem', op.bits, j)
    BY <2>1, <2>2 DEF Holding
  <2> QED
    BY <1>6, <2>3 DEF Liv
<1>13. DirtyHeaders = Range(op.dirty) /\ DirtySpots = {} /\ DirtyHeaders' = Range(op.dirty) /\ DirtySpots' = {}
  BY <1>0, <1>6 DEF DirtyHeaders, DirtySpots, Bulk
<1>14. \A x \in Buckets, s \in Slots : pm.key[x][s] = mem.key[x][s] /\ pm.off[x][s] = mem.off[x][s]
  BY <1>8, <1>13 DEF Synced
<1>15. Values'
  <2>1. \A j \in Keys : \A y, z \in Liv(j)' : y = z
    BY <1>8, <1>12 DEF Values
  <2>2. \A j \in Keys : \A z \in Liv(j)' : Seen(OffAt(mem', z)) \in may'[j]
    BY <1>0, <1>5, <1>8, <1>12 DEF Values, OffAt
  <2>3. ASSUME NEW x \in Buckets, NEW s \in mem'.hdr[x].occ PROVE pm'.key[x][s] = mem'.key[x][s]
    <3>1. s \in Slots
      BY <1>5, <2>3 DEF Memory
    <3> QED
      BY <1>0, <1>5, <1>14, <3>1
  <2>4. ASSUME NEW j \in Keys, NEW z \in Pub(mem', j) PROVE Seen(OffAt(pm', z)) \in may'[j]
    <3>1. z \in Holding(mem', op'.bits, j)
      BY <2>4, PubIn, HoldingIn
    <3>2. z \in Liv(j) /\ z \in Buckets \X Slots
      BY <1>12, <2>4, <3>1, PubIn DEF Liv
    <3>3. OffAt(pm, z) = OffAt(mem, z)
      BY <1>14, <3>2 DEF OffAt
    <3> QED
      BY <1>0, <1>8, <3>2, <3>3 DEF Values
  <2>5. \A j \in Keys : Pub(pm', j) = {} => Miss \in may'[j]
    BY <1>0, <1>8 DEF Values
  <2> QED
    BY <2>1, <2>2, <2>3, <2>4, <2>5 DEF Values
<1>16. Synced'
  <2>1. b \in Range(op.dirty)
    BY <1>2, <1>3 DEF Range
  <2>2. \A x \in Buckets : x \notin Range(op.dirty) => pm'.hdr[x] = mem'.hdr[x]
    BY <1>0, <1>5, <1>8, <1>13, <2>1 DEF Synced
  <2>3. \A x \in Buckets, s \in Slots : pm'.key[x][s] = mem'.key[x][s] /\ pm'.off[x][s] = mem'.off[x][s]
    BY <1>0, <1>5, <1>14
  <2> QED
    BY <1>13, <2>2, <2>3 DEF Synced
<1>17. Fresh'
  BY <1>0, <1>5, <1>6, <1>8 DEF Fresh
<1>18. Singly'
  BY <1>0 DEF Singly, Single
<1>19. Grouped'
  <2>1. GroupEntries'
    BY <1>6, <1>9 DEF GroupEntries
  <2>2. GroupClaims'
    <3> SUFFICES ASSUME NEW x \in Buckets, NEW s \in op'.bits[x]
                 PROVE  /\ <<x, s>> \in op'.spots /\ x \in Range(op'.dirty)
                        /\ x \in Reach(mem', Home[op'.entries[1].key])
      BY <1>6, <1>9 DEF GroupClaims
    <3>1. <<x, s>> \in op.spots /\ x \in Range(op.dirty) /\ x \in Reach(mem, Home[op.entries[1].key])
      BY <1>0, <1>6, <1>9 DEF GroupClaims
    <3>2. op.entries[1].key \in Keys
      BY <1>1, <1>9, FirstKnown
    <3> QED
      BY <1>6, <1>11, <3>1, <3>2, HomeKnown
  <2>3. GroupStaged'
    <3>1. \A i \in 1..op.n : op.entries[i].key \in Keys
      BY <1>1, StagedKeys
    <3>2. \A z : OffAt(mem', z) = OffAt(mem, z)
      BY <1>5 DEF OffAt
    <3>3. ASSUME NEW i \in 1..op.n PROVE \E z \in Liv(op.entries[i].key)' : OffAt(mem', z) = op.entries[i].off
      <4>1. PICK j : j = op.entries[i].key
        OBVIOUS
      <4>2. Liv(j)' = Liv(j)
        BY <1>12, <3>1, <4>1
      <4>3. \E z \in Liv(j)' : OffAt(mem', z) = op.entries[i].off
        BY <1>9, <3>2, <4>1, <4>2 DEF GroupStaged
      <4> QED
        BY <1>6, <4>1, <4>3 DEF Liv
    <3> QED
      BY <1>6, <3>3 DEF GroupStaged, Liv
  <2>4. GroupFlipped'
    <3> SUFFICES ASSUME NEW i \in 1..op.flipped + 1
                 PROVE  op.bits[op.dirty[i]] \subseteq mem'.hdr[op.dirty[i]].occ
      BY <1>6 DEF GroupFlipped
    <3>1. CASE i = op.flipped + 1
      BY <1>2, <1>5, <3>1
    <3>2. CASE i # op.flipped + 1
      <4>1. i \in 1..op.flipped /\ op.dirty[i] \in Buckets
        BY <1>3, <3>2
      <4> QED
        BY <1>9, <1>10, <4>1 DEF GroupFlipped
    <3> QED
      BY <3>1, <3>2
  <2> QED
    BY <1>0, <2>1, <2>2, <2>3, <2>4 DEF Grouped
<1> QED
  BY <1>11, <1>15, <1>16, <1>17, <1>18, <1>19 DEF Sound

-----------------------------------------------------------------------------
(* Every step, and what the invariant says of lookups.                     *)

LEMMA ColdStep ==
    ASSUME ColdInv, [Next]_vars PROVE ColdInv'
<1>1. CASE UNCHANGED vars
  <2>0. UNCHANGED <<mem, pm, pc, op, reader, may, writes, rewound>>
    BY <1>1 DEF vars
  <2>1. Typed' = Typed
    BY <2>0 DEF Typed
  <2>2. \A k : Liv(k)' = Liv(k)
    BY <2>0 DEF Liv, Holding, Reach
  <2>3. Links' = Links /\ Behind' = Behind
    BY <2>0 DEF Links, Behind, NextAt
  <2>4. DirtyHeaders' = DirtyHeaders /\ DirtySpots' = DirtySpots
    BY <2>0 DEF DirtyHeaders, DirtySpots
  <2>5. Synced' = Synced
    BY <2>0, <2>4 DEF Synced
  <2>6. Values' = Values
    BY <2>0, <2>2 DEF Values
  <2>7. Fresh' = Fresh
    BY <2>0 DEF Fresh
  <2>8. \A k : NewBucket(k)' = NewBucket(k)
    BY <2>0 DEF NewBucket, Unlinked, NextAt, Reach
  <2>9. Singly' = Singly
    BY <2>0, <2>8 DEF Singly, NewBucket, Unlinked, NextAt, Reach, OffAt, Pub, Holding
  <2>10. Grouped' = Grouped
    <3>1. GroupEntries' = GroupEntries /\ GroupClaims' = GroupClaims /\ GroupFlipped' = GroupFlipped
      BY <2>0 DEF GroupEntries, GroupClaims, GroupFlipped, Reach
    <3>2. GroupStaged' = GroupStaged /\ GroupNew' = GroupNew
      BY <2>0 DEF GroupStaged, GroupNew, Liv, Holding, Reach, OffAt, NewBucket, Unlinked, NextAt
    <3> QED
      BY <2>0, <3>1, <3>2 DEF Grouped
  <2>11. Reading' = Reading
    BY <2>0 DEF Reading, Ahead, Pub, Holding, Reach, NextAt
  <2> QED
    BY <2>0, <2>1, <2>3, <2>5, <2>6, <2>7, <2>9, <2>10, <2>11 DEF ColdInv, Sound
<1>2. ASSUME NEW k \in Keys, upsert(k) \/ remove(k) PROVE ColdInv'
  BY <1>2, UpsertStep, RemoveStep
<1>3. ASSUME NEW ks \in Groups, bulk_upsert(ks) PROVE ColdInv'
  BY <1>3, BulkUpsertStep
<1>4. CASE UpdateInPlace \/ PersistOffset \/ Claim \/ Extend \/ Exhausted
  BY <1>4, UpdateInPlaceStep, PersistOffsetStep, ClaimStep, ExtendStep, ExhaustedStep
<1>5. CASE StoreKey \/ StoreOffset \/ PersistEntry \/ Publish \/ PersistHeader \/ Link \/ PersistLink
  BY <1>5, StoreKeyStep, StoreOffsetStep, PersistEntryStep, PublishStep, PersistHeaderStep, LinkStep,
     PersistLinkStep
<1>6. CASE StageUpdate \/ StageClaim \/ StageExtend \/ StageAttach \/ StageExhausted
  BY <1>6, StageUpdateStep, StageClaimStep, StageExtendStep, StageAttachStep, StageExhaustedStep
<1>7. CASE DrainEntries \/ FlipBits \/ DrainHeaders \/ Bury \/ NothingToBury
  BY <1>7, DrainEntriesStep, FlipBitsStep, DrainHeadersStep, BuryStep, NothingToBuryStep
<1>8. CASE Reader
  BY <1>8, LookupStep, LoadHeaderStep, ScanBucketStep, LookupReturnStep DEF Reader
<1>9. CASE WriteBack \/ PowerFail
  BY <1>9, WriteBackStep, PowerFailStep
<1> QED
  BY <1>1, <1>2, <1>3, <1>4, <1>5, <1>6, <1>7, <1>8, <1>9 DEF Next, Writer

\* Whatever the writer, the lookups, the cache and the power do, memory and the
\* media differ only at the words the writer has stored and not yet fenced
\* (upsert, bulk_upsert and remove persist before they go on), the media lag
\* behind, and a key has at most one entry, with an offset that may be returned.
THEOREM ColdInvariance == Spec => []ColdInv
<1>1. Init => ColdInv
  BY ColdInit
<1>2. ColdInv /\ [Next]_vars => ColdInv'
  BY ColdStep
<1> QED
  BY <1>1, <1>2, PTL DEF Spec

\* Of a published key there is one entry, and what it holds may be returned.
LEMMA PubKnown ==
    ASSUME Typed, Sound, NEW k \in Keys, NEW m \in {mem, pm}
    PROVE  /\ m \in Memory /\ Up(m) /\ \A y, z \in Pub(m, k) : y = z
           /\ \A z \in Pub(m, k) : Seen(OffAt(m, z)) \in may[k]
           /\ Pub(m, k) = {} => Miss \in may[k]
<1>1. Links /\ Behind /\ Values /\ mem \in Memory /\ pm \in Memory
  BY DEF Sound, Typed
<1>2. Up(mem) /\ Up(pm) /\ Pub(pm, k) \subseteq Pub(mem, k) /\ Pub(mem, k) \subseteq Liv(k)
  BY <1>1, PmBehind, PubBehind, PubLive
<1>3. CASE m = mem
  BY <1>1, <1>2, <1>3 DEF Values
<1>4. CASE m = pm
  BY <1>1, <1>2, <1>4 DEF Values
<1> QED
  BY <1>3, <1>4

LEMMA MatchesKnown ==
    ASSUME NEW m \in Memory, NEW k \in Keys
    PROVE  /\ \A p \in Matches(m, k) : p \in Nat /\ p \in Positions(Chain(m, Home[k]))
                                       /\ Spot(Chain(m, Home[k]), p) \in Pub(m, k)
           /\ Matches(m, k) = {} => Pub(m, k) = {}
<1>1. PICK b, c : b = Home[k] /\ c = Chain(m, Home[k])
  OBVIOUS
<1>2. b \in Buckets
  BY <1>1, HomeKnown
<1>3. /\ \A p \in Positions(c) : p \in Nat /\ Spot(c, p) \in Buckets \X Slots /\ Spot(c, p)[1] \in Reach(m, b)
      /\ \A z \in Buckets \X Slots : z[1] \in Reach(m, b) => \E p \in Positions(c) : Spot(c, p) = z
  BY <1>1, <1>2, SpotKnown
<1>4. \A p : p \in Matches(m, k) <=> /\ p \in Positions(c)
                                     /\ Spot(c, p)[2] \in m.hdr[Spot(c, p)[1]].occ
                                     /\ m.key[Spot(c, p)[1]][Spot(c, p)[2]] = k
  BY <1>1 DEF Matches, slot_published, KeyAt
<1>5. ASSUME NEW p \in Matches(m, k) PROVE p \in Nat /\ p \in Positions(c) /\ Spot(c, p) \in Pub(m, k)
  <2>1. PICK z : z = Spot(c, p)
    OBVIOUS
  <2>2. /\ z \in Buckets \X Slots /\ z[1] \in Reach(m, Home[k]) /\ z[2] \in m.hdr[z[1]].occ
        /\ m.key[z[1]][z[2]] = k
    BY <1>1, <1>3, <1>4, <2>1
  <2>3. z \in Pub(m, k)
    BY <2>2, PubIn
  <2> QED
    BY <1>3, <1>4, <2>1, <2>3
<1>6. ASSUME NEW z \in Pub(m, k) PROVE Matches(m, k) # {}
  <2>1. /\ z \in Buckets \X Slots /\ z[1] \in Reach(m, Home[k]) /\ z[2] \in m.hdr[z[1]].occ
        /\ m.key[z[1]][z[2]] = k
    BY PubIn
  <2>2. PICK p \in Positions(c) : Spot(c, p) = z
    BY <1>1, <1>3, <2>1
  <2> QED
    BY <1>4, <2>1, <2>2
<1> QED
  BY <1>1, <1>5, <1>6

LEMMA LookupKnown ==
    ASSUME NEW m \in Memory, NEW k \in Keys
    PROVE  \/ Pub(m, k) = {} /\ Lookup(m, k) = Miss
           \/ \E z \in Pub(m, k) : Lookup(m, k) = Seen(OffAt(m, z))
<1>1. CASE Matches(m, k) = {}
  BY <1>1, MatchesKnown DEF Lookup
<1>2. CASE Matches(m, k) # {}
  <2>1. PICK ps, p : ps = Matches(m, k) /\ p = First(Matches(m, k))
    OBVIOUS
  <2>2. ps \in SUBSET Nat /\ ps # {}
    BY <1>2, <2>1, MatchesKnown
  <2>3. p \in ps
    BY <2>1, <2>2, FirstIn
  <2>4. PICK z : z = Spot(Chain(m, Home[k]), p)
    OBVIOUS
  <2>5. z \in Pub(m, k)
    BY <2>1, <2>3, <2>4, MatchesKnown
  <2>6. Lookup(m, k) = IF OffAt(m, z) = Tombstone THEN Miss ELSE OffAt(m, z)
    BY <1>2, <2>1, <2>4 DEF Lookup, OffAt
  <2> QED
    BY <2>5, <2>6 DEF Seen
<1> QED
  BY <1>1, <1>2

LEMMA OneMatch ==
    ASSUME NEW m \in Memory, Up(m), NEW k \in Keys, \A y, z \in Pub(m, k) : y = z
    PROVE  Cardinality(Matches(m, k)) <= 1
<1>1. PICK c : c = Chain(m, Home[k])
  OBVIOUS
<1>2. /\ c \in Seq(Buckets) /\ Len(c) \in Nat
      /\ \A i, j \in 1..Len(c) : i < j => c[i] < c[j]
  <2>1. c \in Seq(Buckets) /\ Len(c) \in 1 .. NumOverflow + 1
    BY <1>1, ChainShape, HomeKnown
  <2>2. \A i, j \in 1..Len(c) : i < j => c[i] < c[j]
    BY <1>1, ChainUp, HomeKnown
  <2> QED
    BY <2>1, <2>2, ColdAssumption
<1>3. \A i, j \in 1..Len(c) : c[i] = c[j] => i = j
  <2> SUFFICES ASSUME NEW i \in 1..Len(c), NEW j \in 1..Len(c), i # j PROVE c[i] # c[j]
    OBVIOUS
  <2>1. c[i] \in Nat /\ c[j] \in Nat /\ (i < j \/ j < i)
    BY SMTT(30), <1>2, ColdAssumption DEF Buckets
  <2> QED
    BY <1>2, <2>1
<1>4. ASSUME NEW p \in Matches(m, k), NEW q \in Matches(m, k) PROVE p = q
  <2>1. p \in Positions(c) /\ q \in Positions(c) /\ Spot(c, p) = Spot(c, q)
    BY <1>1, MatchesKnown
  <2>2. PICK i \in 1..Len(c), s \in Slots : Spot(c, p) = <<c[i], s>> /\ p = (i - 1) * NumSlots + s
    BY <1>2, <2>1, SpotOf
  <2>3. PICK j \in 1..Len(c), t \in Slots : Spot(c, q) = <<c[j], t>> /\ q = (j - 1) * NumSlots + t
    BY <1>2, <2>1, SpotOf
  <2>4. c[i] = c[j] /\ s = t
    <3>1. <<c[i], s>> = <<c[j], t>>
      BY <2>1, <2>2, <2>3
    <3>2. <<c[i], s>>[1] = <<c[j], t>>[1] /\ <<c[i], s>>[2] = <<c[j], t>>[2]
      BY ONLY <3>1
    <3> QED
      BY ONLY <3>2
  <2>5. i = j
    BY <1>3, <2>4
  <2> QED
    BY <2>2, <2>3, <2>4, <2>5
<1>5. CASE Matches(m, k) = {}
  BY <1>5, FS_EmptySet
<1>6. CASE Matches(m, k) # {}
  <2>1. PICK p : Matches(m, k) = {p}
    BY <1>4, <1>6
  <2>2. Cardinality({p}) = 1
    BY FS_Singleton
  <2> QED
    BY <2>1, <2>2
<1> QED
  BY <1>5, <1>6

\* At whatever instant the power fails, during whichever of the stores and
\* fences of upsert, bulk_upsert and remove, a lookup of any key after
\* ColdTier::open returns its last completed write or one begun since, as long
\* as no failure has taken next_overflow_alloc back.
THEOREM AckedIsDurable == Spec => []AckedDurable
<1>1. ASSUME ColdInv PROVE AckedDurable
  <2> SUFFICES ASSUME ~rewound, NEW k \in Keys, NEW m \in {mem, pm} PROVE Lookup(m, k) \in may[k]
    BY DEF AckedDurable
  <2>1. Typed /\ Sound
    BY <1>1 DEF ColdInv
  <2> QED
    BY <2>1, PubKnown, LookupKnown
<1> QED
  BY <1>1, ColdInvariance, PTL

\* upsert and apply_bucket_group claim an entry only when the whole chain has
\* been searched: no key is published twice, in memory or on the media.
THEOREM OneEntry == Spec => []OneEntryPerKey
<1>1. ASSUME ColdInv PROVE OneEntryPerKey
  <2> SUFFICES ASSUME ~rewound, NEW k \in Keys, NEW m \in {mem, pm} PROVE Cardinality(Matches(m, k)) <= 1
    BY DEF OneEntryPerKey
  <2>1. Typed /\ Sound
    BY <1>1 DEF ColdInv
  <2> QED
    BY <2>1, PubKnown, OneMatch
<1> QED
  BY <1>1, ColdInvariance, PTL

\* Every overflow index that try_insert_in_new_bucket hands out stays in the
\* pool, the walk of every chain ends, and no bucket is in two chains: in
\* memory and on the media, whatever was cut short by a failure.
THEOREM ChainsApart == Spec => []ChainsDisjoint
<1>1. ASSUME ColdInv PROVE ChainsDisjoint
  <2>1. Typed /\ (~rewound => Sound)
    BY <1>1 DEF ColdInv
  <2>2. ColdTypeOK
    <3>1. op.n \in Nat /\ op.n <= Len(op.entries) /\ Len(op.entries) \in Nat
      BY <2>1 DEF Typed, Ops
    <3>2. reader.pc \in {"idle", "header", "scan", "done"} /\ reader.bucket \in Buckets \cup {0}
      BY <2>1 DEF Typed, Readers
    <3> QED
      BY <2>1, <3>1, <3>2 DEF Typed, ColdTypeOK, Single, Bulk
  <2> SUFFICES ASSUME ~rewound, NEW m \in {mem, pm}, NEW b \in 1..NumMain
               PROVE  /\ IsInjective(Chain(m, b))
                      /\ m.hdr[Last(Chain(m, b))].next = NoOverflow
                      /\ \A c \in 1..NumMain \ {b} : Range(Chain(m, b)) \cap Range(Chain(m, c)) = {}
    BY <2>2 DEF ChainsDisjoint
  <2>3. Links /\ Behind /\ Up(mem) /\ Up(pm) /\ mem \in Memory /\ pm \in Memory
    BY <2>1, PmBehind DEF Sound, Typed
  <2>4. m \in Memory /\ Up(m) /\ b \in Buckets
    BY <2>3, ColdAssumption DEF Buckets
  <2>5. \A x, y \in Buckets : NextAt(m, x) # NoOverflow /\ NextAt(m, x) = NextAt(m, y) => x = y
    <3>1. \A x \in Buckets : NextAt(m, x) \in {NoOverflow, NextAt(mem, x)}
      BY <2>3 DEF Behind
    <3> QED
      BY <2>3, <3>1 DEF Links
  <2>6. IsInjective(Chain(m, b))
    <3>1. PICK c : c = Chain(m, b)
      OBVIOUS
    <3>2. /\ c \in Seq(Buckets) /\ Len(c) \in Nat
          /\ \A i, j \in 1..Len(c) : i < j => c[i] < c[j]
      BY <2>4, <3>1, ChainShape, ChainUp
    <3>3. ASSUME NEW i \in DOMAIN c, NEW j \in DOMAIN c, i # j PROVE c[i] # c[j]
      <4>1. /\ i \in 1..Len(c) /\ j \in 1..Len(c)
            /\ c[i] \in Nat /\ c[j] \in Nat /\ (i < j \/ j < i)
        BY <3>2, <3>3, ColdAssumption DEF Buckets
      <4> QED
        BY <3>2, <4>1
    <3> QED
      BY <3>1, <3>3 DEF IsInjective
  <2>7. m.hdr[Last(Chain(m, b))].next = NoOverflow
    BY <2>4, ChainUp DEF NextAt
  <2>8. \A c \in 1..NumMain \ {b} : Reach(m, b) \cap Reach(m, c) = {}
    BY <2>4, <2>5, ReachApart
  <2> QED
    BY <2>6, <2>7, <2>8 DEF Reach
<1> QED
  BY <1>1, ColdInvariance, PTL

\* A lookup takes no lock: whatever writers do between its loads of a header
\* and of the entries, it returns what was current at some instant of it.
THEOREM LookupIsFresh == Spec => []LookupFresh
<1>1. ASSUME ColdInv PROVE LookupFresh
  BY <1>1 DEF ColdInv, Sound, Reading, LookupFresh
<1> QED
  BY <1>1, ColdInvariance, PTL
=============================================================================
