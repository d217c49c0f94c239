---------------------------- MODULE PageLockProofs ----------------------------
(***************************************************************************)
(* Theorems about PageLock.  PageInv holds of every behaviour; LockInv     *)
(* adds what holds until two repairs race for one word (raced), as long as *)
(* the version of a page does not come round during a repair (NoRepairLap),*)
(* and ReadInv what a reader knows as long as it does not come round       *)
(* during a read either (NoLap).                                           *)
(***************************************************************************)
EXTENDS PageLock, FiniteSetTheorems, NaturalsInduction, WellFoundedInduction, TLAPS

\* free_occupied_slot on the page of another client, and try_at of update.
FreePcs   == {"publish", "cas", "queue", "withdraw", "republish", "free", "dequeue",
              "unlockold", "clear"}
UpdatePcs == {"try", "trylock", "busy", "apply", "applied", "mismatch", "withdrawapplied",
              "withdrawmissed"}
Mover(c)  == op[c] \in {"put", "remove"}

ReadOffsets == Offsets \cup {None}

\* A reader has an offset from get on; a repair has a page, and once it has
\* loaded a lock word, a locked one.
ReadersOK ==
    \A r \in Readers : reader[r].at # "idle" => reader[r].off \in Offsets

ReaderType ==
    reader \in [Readers -> [at : {"idle", "bit", "version", "key", "val", "check", "found"},
                            want : Keys \cup {None}, off : ReadOffsets,
                            lock : 0 .. USED_BIT - 1,
                            key : Keys \cup {None}, val : Keys \cup {None}]]

RepairsOK ==
    \A a \in Actors :
        /\ repair[a].at # "none" => repair[a].page \in Pages
        /\ repair[a].at \in {"scan", "load2", "scan2", "cas"} => IS_LOCKED(repair[a].lv)

\* What the place of a client says of its operation, its key and its old record.
ClientOK(c) ==
    /\ pc[c] = "idle" <=> op[c] = "none"
    /\ pc[c] # "idle" => key[c] \in Keys
    /\ pc[c] \in {"lock", "write", "unlock"} => op[c] = "put"
    /\ pc[c] \in {"resolve", "samepage"} \cup FreePcs => Mover(c)
    /\ pc[c] \in {"missed"} \cup UpdatePcs => op[c] \in {"update", "update_slow"}
    /\ pc[c] \in {"samepage"} \cup FreePcs \cup UpdatePcs => old[c] \in Offsets /\ old[c] # None
    /\ pc[c] = "samepage" => PageOf(old[c]) = c
    /\ pc[c] \in FreePcs => PageOf(old[c]) # c
    /\ pc[c] \in {"lock", "write"} => free_slots[c] # {}
    /\ drained[c] => queued[c]

\* The pages a client has published.
IntentOK(c) ==
    /\ op[c] = "put" => c \in lock_intents[c]
    /\ pc[c] \in {"cas", "queue", "withdraw", "free", "dequeue", "unlockold", "clear",
                  "trylock", "apply", "applied", "mismatch", "withdrawapplied",
                  "withdrawmissed"} => PageOf(old[c]) \in lock_intents[c]

\* Client c waits to free o and will go through the queue for it again.
Waits(c, o) ==
    /\ old[c] = o /\ queued[c] /\ ~drained[c]
    /\ \/ pc[c] = "queue"
       \/ pc[c] \in {"cas", "withdraw", "republish", "free", "dequeue"} /\ seen[c]

QueueOK == \A o \in deadlock_offsets : \E c \in Clients : Waits(c, o)

PageInv ==
    /\ PageTypeOK /\ ReaderType /\ ReadersOK /\ RepairsOK
    /\ \A c \in Clients : ClientOK(c) /\ IntentOK(c)
    /\ QueueOK /\ ValuesBelong

\* A held page is locked and has one holder.
Exclusive ==
    \A p \in Pages, c \in Clients :
        Holds(c, p) => /\ IS_LOCKED(version_lock[p])
                       /\ \A d \in Clients : Holds(d, p) => d = c

\* The record of a key lives until its mover has resolved it.
IndexIntact ==
    \A k \in Keys :
        /\ index[k] # None
        /\ \A c \in Clients : Mover(c) /\ key[c] = k => pc[c] \in {"lock", "write", "resolve"}
        => HoldsKey(index[k], k)

\* From there on the mover frees the record the index names, ...
OldIntact(c) ==
    /\ pc[c] \in {"samepage"} \cup FreePcs => old[c] = index[key[c]]
    /\ pc[c] = "samepage" => HoldsKey(old[c], key[c])
    /\ /\ pc[c] \in {"publish", "cas", "queue", "withdraw", "republish", "free"}
       /\ ~drained[c]
       => HoldsKey(old[c], key[c])
    /\ pc[c] = "dequeue" =>
           \/ SlotOf(old[c]) \in free_slots[PageOf(old[c])]
           \/ data[PageOf(old[c])][SlotOf(old[c])].key = key[c]

\* ... and the record a put has written is another one.
NewIntact(c) ==
    op[c] = "put" /\ pc[c] \notin {"lock", "write"} =>
        /\ new[c] \in Offsets /\ new[c] # None /\ HoldsKey(new[c], key[c])
        /\ index[key[c]] # None => new[c] # index[key[c]]

OneMover == \A c, d \in Clients : Mover(c) /\ Mover(d) /\ key[c] = key[d] => c = d

Records ==
    /\ IndexIntact /\ OneMover
    /\ \A c \in Clients : OldIntact(c) /\ NewIntact(c)

\* A repair that is about to succeed is of a page no client holds.
NoLiveRepair ==
    \A a \in Actors :
        repair[a].at = "cas" /\ version_lock[repair[a].page] = repair[a].lv
        => Holders(repair[a].page) = {}

LockInv ==
    /\ PageInv
    /\ ~raced => Exclusive /\ NoLiveRepair /\ (~refreed => Records)

-----------------------------------------------------------------------------
(* The lock word and the registry.                                         *)

\* A word that is locked, unlocked or repaired stays below USED_BIT, as
\* USED_BIT is even, and its lowest bit is what the step says.
LEMMA LockedWord ==
    ASSUME NEW w \in 0 .. USED_BIT - 1, ~IS_LOCKED(w)
    PROVE  w + 1 \in 0 .. USED_BIT - 1 /\ IS_LOCKED(w + 1)
BY LockWordAssumption DEF IS_LOCKED

LEMMA UnlockedWord ==
    ASSUME NEW w \in 0 .. USED_BIT - 1
    PROVE  /\ (w + 1) % USED_BIT \in 0 .. USED_BIT - 1
           /\ IS_LOCKED(w) => ~IS_LOCKED((w + 1) % USED_BIT)
<1>1. CASE w + 1 = USED_BIT
  <2>1. (w + 1) % USED_BIT = 0
    BY <1>1, LockWordAssumption
  <2> QED
    BY <2>1, LockWordAssumption DEF IS_LOCKED
<1>2. CASE w + 1 < USED_BIT
  <2>1. (w + 1) % USED_BIT = w + 1
    BY <1>2, LockWordAssumption
  <2> QED
    BY <1>2, <2>1, LockWordAssumption DEF IS_LOCKED
<1> QED
  BY <1>1, <1>2, LockWordAssumption

LEMMA RepairedWord ==
    ASSUME NEW w \in 0 .. USED_BIT - 1, IS_LOCKED(w)
    PROVE  w - 1 \in 0 .. USED_BIT - 1 /\ ~IS_LOCKED(w - 1)
BY LockWordAssumption DEF IS_LOCKED

VersionType == version_lock \in [Pages -> 0 .. USED_BIT - 1]

LEMMA LockKeepsType ==
    ASSUME VersionType, NEW p \in Pages, lock(p)
    PROVE  VersionType'
<1>1. version_lock[p] \in 0 .. USED_BIT - 1
  BY DEF VersionType
<1>2. version_lock[p] + 1 \in 0 .. USED_BIT - 1
  BY <1>1, LockedWord DEF lock
<1> QED
  BY <1>2 DEF VersionType, lock

LEMMA UnlockKeepsType ==
    ASSUME VersionType, NEW p \in Pages, unlock(p)
    PROVE  VersionType'
<1>1. version_lock[p] \in 0 .. USED_BIT - 1
  BY DEF VersionType
<1>2. (version_lock[p] + 1) % USED_BIT \in 0 .. USED_BIT - 1
  BY <1>1, UnlockedWord
<1> QED
  BY <1>2 DEF VersionType, unlock

\* The registry holds what the clients have published; a client that publishes
\* takes one slot at most.
RegistryType ==
    lock_intents \in [Clients -> SUBSET Pages] /\ Published <= kLockIntentSlots

LEMMA IntentsFinite ==
    IsFiniteSet(Intents) /\ Published \in Nat
<1>1. IsFiniteSet(Clients) /\ IsFiniteSet(Pages)
  BY FiniteAssumption, FS_Union DEF Pages
<1>2. IsFiniteSet(Clients \X Pages)
  BY <1>1, FS_Product
<1>3. Intents \subseteq Clients \X Pages
  BY DEF Intents
<1>4. IsFiniteSet(Intents)
  BY <1>2, <1>3, FS_Subset
<1> QED
  BY <1>4, FS_CardinalityType DEF Published

LEMMA PublishKeepsType ==
    ASSUME RegistryType, NEW c \in Clients, NEW p \in Pages, hiom_lock_intent_publish(c, p)
    PROVE  RegistryType'
<1>1. lock_intents' \in [Clients -> SUBSET Pages]
  BY DEF RegistryType, hiom_lock_intent_publish
<1>2. Intents' = Intents \cup {<<c, p>>}
  <2>1. \A i \in Clients \X Pages : i[2] \in lock_intents'[i[1]]
                                    <=> i[2] \in lock_intents[i[1]] \/ i = <<c, p>>
    BY DEF RegistryType, hiom_lock_intent_publish
  <2> QED
    BY <2>1 DEF Intents
<1>3. Cardinality(Intents') <= Cardinality(Intents) + 1
  <2>1. IsFiniteSet(Intents) /\ Cardinality(Intents) \in Nat
    BY IntentsFinite DEF Published
  <2>2. Cardinality(Intents \cup {<<c, p>>}) =
            IF <<c, p>> \in Intents THEN Cardinality(Intents) ELSE Cardinality(Intents) + 1
    BY <2>1, FS_AddElement
  <2> QED
    BY <1>2, <2>1, <2>2
<1>4. Cardinality(Intents) < kLockIntentSlots
  BY DEF hiom_lock_intent_publish, Published
<1>5. Cardinality(Intents) \in Nat /\ Cardinality(Intents') \in Nat
  <2>1. IsFiniteSet(Intents \cup {<<c, p>>})
    BY IntentsFinite, FS_AddElement
  <2> QED
    BY <1>2, <2>1, IntentsFinite, FS_CardinalityType DEF Published
<1> QED
  BY <1>1, <1>3, <1>4, <1>5, RegistryAssumption DEF RegistryType, Published

LEMMA ClearKeepsType ==
    ASSUME RegistryType, NEW c \in Clients, NEW p, hiom_lock_intent_clear(c, p)
    PROVE  RegistryType'
<1>1. lock_intents' \in [Clients -> SUBSET Pages]
  BY DEF RegistryType, hiom_lock_intent_clear
<1>2. Intents' \subseteq Intents
  <2>1. \A i \in Clients \X Pages : i[2] \in lock_intents'[i[1]] => i[2] \in lock_intents[i[1]]
    BY DEF RegistryType, hiom_lock_intent_clear
  <2> QED
    BY <2>1 DEF Intents
<1>3. Cardinality(Intents') <= Cardinality(Intents) /\ Cardinality(Intents') \in Nat
  <2>1. IsFiniteSet(Intents')
    BY <1>2, IntentsFinite, FS_Subset
  <2> QED
    BY <1>2, <2>1, IntentsFinite, FS_Subset, FS_CardinalityType
<1> QED
  BY <1>1, <1>3, IntentsFinite, RegistryAssumption DEF RegistryType, Published

\* Slots are numbers: the first free one of a page that has any exists.
LEMMA LeastExists ==
    ASSUME NEW S \in SUBSET Nat, S # {}
    PROVE  \E x \in S : \A y \in S : x <= y
<1> DEFINE R == {ss \in Nat \X Nat : ss[1] < ss[2]}
<1>1. IsWellFoundedOn(R, Nat)
  BY NatLessThanWellFounded DEF OpToRel
<1> HIDE DEF R
<1>2. PICK x \in S : \A y \in S : ~(<<y, x>> \in R)
  BY <1>1, WFMin
<1>3. \A y \in S : ~(y < x)
  BY <1>2 DEF R
<1> QED
  BY <1>3

LEMMA MinIsMember ==
    ASSUME NEW S \in SUBSET Slots, S # {}
    PROVE  Min(S) \in S
BY LeastExists, SlotAssumption DEF Min

\* invalidate_records only frees slots of the page.
LEMMA InvalidateFrees ==
    ASSUME free_slots \in [Pages -> SUBSET Slots], NEW p \in Pages, NEW S \in SUBSET Slots,
           NEW b, invalidate_records(p, S, b)
    PROVE  /\ free_slots' \in [Pages -> SUBSET Slots]
           /\ \A q \in Pages : free_slots[q] \subseteq free_slots'[q]
           /\ \A q \in Pages : q # p => free_slots'[q] = free_slots[q]
           /\ free_slots'[p] \subseteq free_slots[p] \cup S
<1>1. CASE free_slots' = [free_slots EXCEPT ![p] = @ \cup S]
  <2>1. free_slots[p] \cup S \in SUBSET Slots
    OBVIOUS
  <2> QED
    BY <1>1, <2>1
<1>2. CASE UNCHANGED free_slots
  BY <1>2
<1> QED
  BY <1>1, <1>2 DEF invalidate_records

\* An update changes the value of one record and no key.
LEMMA UpdateKeepsKeys ==
    ASSUME data \in [Pages -> [Slots -> [key : Keys, val : Keys]]], NEW p \in Pages,
           NEW s \in Slots, NEW k \in Keys, data' = [data EXCEPT ![p][s].val = k]
    PROVE  /\ data' \in [Pages -> [Slots -> [key : Keys, val : Keys]]]
           /\ \A q \in Pages, t \in Slots : data'[q][t].key = data[q][t].key
           /\ \A q \in Pages, t \in Slots : q # p \/ t # s => data'[q][t] = data[q][t]
           /\ data'[p][s].val = k
<1>1. [data[p][s] EXCEPT !.val = k] \in [key : Keys, val : Keys]
  OBVIOUS
<1>2. [data[p] EXCEPT ![s] = [data[p][s] EXCEPT !.val = k]] \in [Slots -> [key : Keys, val : Keys]]
  BY <1>1
<1>3. data' = [data EXCEPT ![p] = [data[p] EXCEPT ![s] = [data[p][s] EXCEPT !.val = k]]]
  OBVIOUS
<1>4. data' \in [Pages -> [Slots -> [key : Keys, val : Keys]]]
  BY <1>2, <1>3
<1> QED
  BY <1>3, <1>4

\* Clients that wait for the offsets of the queue go on waiting.
LEMMA QueueKept ==
    ASSUME QueueOK, deadlock_offsets' \subseteq deadlock_offsets,
           \A o \in deadlock_offsets' : \A d \in Clients : Waits(d, o) => Waits(d, o)'
    PROVE  QueueOK'
BY DEF QueueOK

-----------------------------------------------------------------------------
(* Every step of a client keeps PageInv.                                   *)

LEMMA ClientKeepsPageInv ==
    ASSUME PageInv, NEW c \in Clients,
           (\E k \in Keys : put(c, k) \/ remove(c, k) \/ update(c, k)) \/ ClientStep(c)
    PROVE  PageInv'
<1> USE DEF PageInv, At, Goto, pmVars, sharedVars, opVars, freeVars, readerVars
<1> c \in Pages
  BY DEF Pages
<1>old. pc[c] \in FreePcs \cup UpdatePcs => PageOf(old[c]) \in Pages /\ SlotOf(old[c]) \in Slots
  BY DEF ClientOK, Offsets, PageOf, SlotOf
<1>types. VersionType /\ RegistryType
  BY DEF PageTypeOK, VersionType, RegistryType
<1>dom. /\ DOMAIN pc = Clients /\ DOMAIN op = Clients /\ DOMAIN key = Clients
        /\ DOMAIN old = Clients /\ DOMAIN queued = Clients /\ DOMAIN seen = Clients
        /\ DOMAIN drained = Clients /\ DOMAIN lock_intents = Clients /\ DOMAIN free_slots = Pages
  BY DEF PageTypeOK

<1>put. ASSUME NEW k \in Keys, put(c, k) PROVE PageInv'
  <2>v. VersionType'
    BY <1>put, <1>types DEF put, Begin, VersionType
  <2>r. RegistryType'
    BY <1>put, <1>types, PublishKeepsType DEF put, FreePcs, UpdatePcs
  <2>t. PageTypeOK'
    <3>1. ops' \in 0 .. MaxOps
      BY <1>put, LockBounds DEF put, Begin, PageTypeOK
    <3>2. /\ pc' = [pc EXCEPT ![c] = "lock"]
          /\ op' = [op EXCEPT ![c] = "put"] /\ key' = [key EXCEPT ![c] = k]
          /\ old' \in [Clients -> Offsets \cup {None}]
          /\ UNCHANGED <<version_lock, free_slots, data, index, deadlock_offsets, new, queued, seen,
                         drained, refreed, raced, repair, reads>>
      BY <1>put DEF put, Begin, PageTypeOK
    <3> QED
      BY <3>1, <3>2, <2>v, <2>r DEF PageTypeOK, VersionType, RegistryType
  <2>c. \A d \in Clients : ClientOK(d)'
    BY <1>put, <1>dom DEF put, Begin, ClientOK, FreePcs, UpdatePcs, Mover
  <2>i. \A d \in Clients : IntentOK(d)'
    BY <1>put, <1>dom DEF put, Begin, hiom_lock_intent_publish, IntentOK, ClientOK, FreePcs,
       UpdatePcs, Mover
  <2>q. QueueOK'
    <3>1. \A o \in deadlock_offsets' : \A d \in Clients : Waits(d, o) => Waits(d, o)'
      BY <1>put, <1>dom DEF put, Begin, Waits
    <3> QED
      BY <1>put, <3>1, QueueKept DEF put, Begin
  <2>o. (ReaderType /\ ReadersOK /\ RepairsOK /\ ValuesBelong)'
    BY <1>put, <1>old DEF put, Begin, PageTypeOK, ReaderType, ReadersOK, RepairsOK,
       ValuesBelong, FreePcs, UpdatePcs
  <2> QED
    BY <2>t, <2>c, <2>i, <2>q, <2>o
<1>remove. ASSUME NEW k \in Keys, remove(c, k) PROVE PageInv'
  <2>v. VersionType'
    BY <1>remove, <1>types DEF remove, Begin, VersionType
  <2>r. RegistryType'
    BY <1>remove, <1>types DEF remove, Begin, RegistryType, Published, Intents
  <2>t. PageTypeOK'
    <3>1. ops' \in 0 .. MaxOps
      BY <1>remove, LockBounds DEF remove, Begin, PageTypeOK
    <3>2. /\ pc' = [pc EXCEPT ![c] = "resolve"]
          /\ op' = [op EXCEPT ![c] = "remove"] /\ key' = [key EXCEPT ![c] = k]
          /\ old' \in [Clients -> Offsets \cup {None}]
          /\ UNCHANGED <<version_lock, free_slots, data, index, deadlock_offsets, new, queued, seen,
                         drained, refreed, raced, repair, reads>>
      BY <1>remove DEF remove, Begin, PageTypeOK
    <3> QED
      BY <3>1, <3>2, <2>v, <2>r DEF PageTypeOK, VersionType, RegistryType
  <2>c. \A d \in Clients : ClientOK(d)'
    BY <1>remove, <1>dom DEF remove, Begin, ClientOK, FreePcs, UpdatePcs, Mover
  <2>i. \A d \in Clients : IntentOK(d)'
    BY <1>remove, <1>dom DEF remove, Begin, IntentOK, ClientOK, FreePcs, UpdatePcs, Mover
  <2>q. QueueOK'
    <3>1. \A o \in deadlock_offsets' : \A d \in Clients : Waits(d, o) => Waits(d, o)'
      BY <1>remove, <1>dom DEF remove, Begin, Waits
    <3> QED
      BY <1>remove, <3>1, QueueKept DEF remove, Begin
  <2>o. (ReaderType /\ ReadersOK /\ RepairsOK /\ ValuesBelong)'
    BY <1>remove, <1>old DEF remove, Begin, PageTypeOK, ReaderType, ReadersOK, RepairsOK,
       ValuesBelong, FreePcs, UpdatePcs
  <2> QED
    BY <2>t, <2>c, <2>i, <2>q, <2>o
<1>update. ASSUME NEW k \in Keys, update(c, k) PROVE PageInv'
  <2>v. VersionType'
    BY <1>update, <1>types DEF update, Begin, VersionType
  <2>r. RegistryType'
    BY <1>update, <1>types DEF update, Begin, RegistryType, Published, Intents
  <2>t. PageTypeOK'
    <3>1. ops' \in 0 .. MaxOps
      BY <1>update, LockBounds DEF update, Begin, PageTypeOK
    <3>2. /\ pc' = [pc EXCEPT ![c] = "try"]
          /\ op' = [op EXCEPT ![c] = "update"] /\ key' = [key EXCEPT ![c] = k]
          /\ old' \in [Clients -> Offsets \cup {None}]
          /\ UNCHANGED <<version_lock, free_slots, data, index, deadlock_offsets, new, queued, seen,
                         drained, refreed, raced, repair, reads>>
      BY <1>update DEF update, Begin, PageTypeOK
    <3> QED
      BY <3>1, <3>2, <2>v, <2>r DEF PageTypeOK, VersionType, RegistryType
  <2>c. \A d \in Clients : ClientOK(d)'
    <3>1. index[k] \in Offsets /\ index[k] # None
      BY <1>update DEF update, Keys, PageTypeOK
    <3>2. /\ pc' = [pc EXCEPT ![c] = "try"] /\ op' = [op EXCEPT ![c] = "update"]
          /\ key' = [key EXCEPT ![c] = k] /\ old' = [old EXCEPT ![c] = index[k]]
          /\ UNCHANGED <<free_slots, queued, drained>>
      BY <1>update DEF update, Begin
    <3> QED
      BY <3>1, <3>2 DEF PageTypeOK, ClientOK, FreePcs, UpdatePcs, Mover
  <2>i. \A d \in Clients : IntentOK(d)'
    BY <1>update, <1>dom DEF update, Begin, IntentOK, ClientOK, FreePcs, UpdatePcs, Mover
  <2>q. QueueOK'
    <3>1. \A o \in deadlock_offsets' : \A d \in Clients : Waits(d, o) => Waits(d, o)'
      BY <1>update, <1>dom DEF update, Begin, Waits
    <3> QED
      BY <1>update, <3>1, QueueKept DEF update, Begin
  <2>o. (ReaderType /\ ReadersOK /\ RepairsOK /\ ValuesBelong)'
    BY <1>update, <1>old DEF update, Begin, PageTypeOK, ReaderType, ReadersOK, RepairsOK,
       ValuesBelong, FreePcs, UpdatePcs
  <2> QED
    BY <2>t, <2>c, <2>i, <2>q, <2>o
<1>LockPage. ASSUME LockPage(c) PROVE PageInv'
  <2>v. VersionType'
    BY <1>LockPage, <1>types, LockKeepsType DEF LockPage, FreePcs, UpdatePcs
  <2>r. RegistryType'
    BY <1>LockPage, <1>types DEF LockPage, RegistryType, Published, Intents
  <2>t. PageTypeOK'
    BY <1>LockPage, <1>old, <2>v, <2>r DEF LockPage, PageTypeOK, VersionType, RegistryType,
       ClientOK, FreePcs, UpdatePcs
  <2>c. \A d \in Clients : ClientOK(d)'
    BY <1>LockPage, <1>dom DEF LockPage, ClientOK, FreePcs, UpdatePcs, Mover
  <2>i. \A d \in Clients : IntentOK(d)'
    BY <1>LockPage, <1>dom DEF LockPage, IntentOK, ClientOK, FreePcs, UpdatePcs, Mover
  <2>q. QueueOK'
    <3>1. \A o \in deadlock_offsets' : \A d \in Clients : Waits(d, o) => Waits(d, o)'
      BY <1>LockPage, <1>dom DEF LockPage, Waits
    <3> QED
      BY <1>LockPage, <3>1, QueueKept DEF LockPage
  <2>o. (ReaderType /\ ReadersOK /\ RepairsOK /\ ValuesBelong)'
    BY <1>LockPage, <1>old DEF LockPage, PageTypeOK, ReaderType, ReadersOK, RepairsOK,
       ValuesBelong, FreePcs, UpdatePcs
  <2> QED
    BY <2>t, <2>c, <2>i, <2>q, <2>o
<1>WriteRecord. ASSUME WriteRecord(c) PROVE PageInv'
  <2>v. VersionType'
    BY <1>WriteRecord, <1>types DEF WriteRecord, VersionType
  <2>r. RegistryType'
    BY <1>WriteRecord, <1>types DEF WriteRecord, RegistryType, Published, Intents
  <2>t. PageTypeOK'
    <3>1. free_slots[c] # {} /\ free_slots[c] \in SUBSET Slots /\ key[c] \in Keys
      BY <1>WriteRecord DEF WriteRecord, PageTypeOK, ClientOK
    <3>2. Min(free_slots[c]) \in Slots
      BY <3>1, MinIsMember
    <3>3. PICK s \in Slots :
              /\ pc' = [pc EXCEPT ![c] = "resolve"]
              /\ data' = [data EXCEPT ![c][s] = [key |-> key[c], val |-> key[c]]]
              /\ free_slots' = [free_slots EXCEPT ![c] = @ \ {s}]
              /\ new' = [new EXCEPT ![c] = <<c, s>>]
              /\ UNCHANGED <<version_lock, sharedVars, op, key, old, freeVars, repair, reads, ops>>
      BY <1>WriteRecord, <3>2 DEF WriteRecord
    <3>4. data' \in [Pages -> [Slots -> [key : Keys, val : Keys]]]
      BY <3>1, <3>3 DEF PageTypeOK
    <3>5. free_slots' \in [Pages -> SUBSET Slots] /\ new' \in [Clients -> Offsets \cup {None}]
      BY <3>3 DEF PageTypeOK, Offsets
    <3> QED
      BY <3>3, <3>4, <3>5, <2>v, <2>r DEF PageTypeOK, VersionType, RegistryType
  <2>c. \A d \in Clients : ClientOK(d)'
    BY <1>WriteRecord, <1>dom DEF WriteRecord, ClientOK, FreePcs, UpdatePcs, Mover
  <2>i. \A d \in Clients : IntentOK(d)'
    BY <1>WriteRecord, <1>dom DEF WriteRecord, IntentOK, ClientOK, FreePcs, UpdatePcs, Mover
  <2>q. QueueOK'
    <3>1. \A o \in deadlock_offsets' : \A d \in Clients : Waits(d, o) => Waits(d, o)'
      BY <1>WriteRecord, <1>dom DEF WriteRecord, Waits
    <3> QED
      BY <1>WriteRecord, <3>1, QueueKept DEF WriteRecord
  <2>o. (ReaderType /\ ReadersOK /\ RepairsOK /\ ValuesBelong)'
    BY <1>WriteRecord, <1>old DEF WriteRecord, PageTypeOK, ReaderType, ReadersOK, RepairsOK,
       ValuesBelong, FreePcs, UpdatePcs
  <2> QED
    BY <2>t, <2>c, <2>i, <2>q, <2>o
<1>Resolve. ASSUME Resolve(c) PROVE PageInv'
  <2>v. VersionType'
    BY <1>Resolve, <1>types DEF Resolve, AfterFree, Resolved, Readable, VersionType
  <2>r. RegistryType'
    BY <1>Resolve, <1>types DEF Resolve, AfterFree, Resolved, Readable, RegistryType,
       Published, Intents
  <2>t. PageTypeOK'
    <3>1. key[c] \in Keys /\ index[key[c]] \in Offsets \cup {None}
      BY <1>Resolve DEF Resolve, PageTypeOK, ClientOK
    <3>2. old' \in [Clients -> Offsets \cup {None}]
      BY <1>Resolve, <3>1 DEF Resolve, PageTypeOK
    <3>3. PICK l \in {"samepage", "publish", "unlock", "done"} :
              /\ pc' = [pc EXCEPT ![c] = l]
              /\ UNCHANGED <<free_slots, data, sharedVars, op, key, new, freeVars, repair, reads,
                             ops>>
      BY <1>Resolve DEF Resolve, AfterFree
    <3> QED
      BY <3>2, <3>3, <2>v, <2>r DEF PageTypeOK, VersionType, RegistryType
  <2>c. \A d \in Clients : ClientOK(d)'
    BY <1>Resolve, <1>dom, SMTT(30) DEF Resolve, AfterFree, Resolved, Readable, PageTypeOK,
       ClientOK, FreePcs, UpdatePcs, Mover
  <2>i. \A d \in Clients : IntentOK(d)'
    <3>1. /\ pc' = [pc EXCEPT ![c] = pc'[c]]
          /\ pc'[c] \in {"samepage", "publish", "unlock", "done"}
          /\ old' = [old EXCEPT ![c] = old'[c]]
          /\ UNCHANGED <<op, lock_intents>>
      BY <1>Resolve DEF Resolve, AfterFree, PageTypeOK
    <3> QED
      BY <3>1 DEF PageTypeOK, IntentOK
  <2>q. QueueOK'
    <3>1. /\ pc[c] = "resolve"
          /\ \A d \in Clients \ {c} : pc'[d] = pc[d] /\ old'[d] = old[d]
          /\ UNCHANGED <<deadlock_offsets, freeVars>>
      BY <1>Resolve DEF Resolve, PageTypeOK
    <3>2. \A o : \A d \in Clients : Waits(d, o) => Waits(d, o)'
      BY <3>1 DEF Waits
    <3> QED
      BY <3>1, <3>2 DEF QueueOK
  <2>o. (ReaderType /\ ReadersOK /\ RepairsOK /\ ValuesBelong)'
    BY <1>Resolve, <1>old DEF Resolve, AfterFree, Resolved, Readable, PageTypeOK,
       ReaderType, ReadersOK, RepairsOK, ValuesBelong, FreePcs, UpdatePcs
  <2> QED
    BY <2>t, <2>c, <2>i, <2>q, <2>o
<1>SamePage. ASSUME SamePage(c) PROVE PageInv'
  <2>v. VersionType'
    BY <1>SamePage, <1>types DEF SamePage, AfterFree, invalidate_records, VersionType
  <2>r. RegistryType'
    BY <1>SamePage, <1>types DEF SamePage, AfterFree, invalidate_records, RegistryType,
       Published, Intents
  <2>t. PageTypeOK'
    <3>1. c \in Pages /\ SlotOf(old[c]) \in Slots
      BY <1>SamePage DEF SamePage, ClientOK, Offsets, SlotOf, Pages
    <3>2. free_slots' \in [Pages -> SUBSET Slots]
      BY <1>SamePage, <3>1, InvalidateFrees DEF SamePage, PageTypeOK
    <3>3. PICK l \in {"unlock", "done"} :
              /\ pc' = [pc EXCEPT ![c] = l]
              /\ UNCHANGED <<data, sharedVars, opVars, freeVars, repair, reads, ops>>
      BY <1>SamePage DEF SamePage, AfterFree
    <3> QED
      BY <3>2, <3>3, <2>v, <2>r DEF PageTypeOK, VersionType, RegistryType
  <2>c. \A d \in Clients : ClientOK(d)'
    <3>1. \A p \in Pages : free_slots[p] \subseteq free_slots'[p]
      BY <1>SamePage DEF SamePage, invalidate_records, PageTypeOK
    <3>2. /\ pc' = [pc EXCEPT ![c] = AfterFree(c)] /\ UNCHANGED <<opVars, freeVars>>
          /\ Clients \subseteq Pages
      BY <1>SamePage DEF SamePage, Pages
    <3>3. pc[c] = "samepage"
      BY <1>SamePage DEF SamePage
    <3> QED
      BY <1>dom, <3>1, <3>2, <3>3 DEF AfterFree, ClientOK, FreePcs, UpdatePcs, Mover
  <2>i. \A d \in Clients : IntentOK(d)'
    BY <1>SamePage, <1>dom DEF SamePage, AfterFree, invalidate_records, IntentOK, ClientOK,
       FreePcs, UpdatePcs, Mover
  <2>q. QueueOK'
    <3>1. \A o \in deadlock_offsets' : \A d \in Clients : Waits(d, o) => Waits(d, o)'
      BY <1>SamePage, <1>dom DEF SamePage, AfterFree, invalidate_records, Waits
    <3> QED
      BY <1>SamePage, <3>1, QueueKept DEF SamePage
  <2>o. (ReaderType /\ ReadersOK /\ RepairsOK /\ ValuesBelong)'
    BY <1>SamePage, <1>old DEF SamePage, AfterFree, invalidate_records, PageTypeOK,
       ReaderType, ReadersOK, RepairsOK, ValuesBelong, FreePcs, UpdatePcs
  <2> QED
    BY <2>t, <2>c, <2>i, <2>q, <2>o
<1>FreePublish. ASSUME FreePublish(c) PROVE PageInv'
  <2>v. VersionType'
    BY <1>FreePublish, <1>types DEF FreePublish, VersionType
  <2>r. RegistryType'
    BY <1>FreePublish, <1>types, <1>old, PublishKeepsType DEF FreePublish, FreePcs,
       UpdatePcs
  <2>t. PageTypeOK'
    BY <1>FreePublish, <1>old, <2>v, <2>r DEF FreePublish, PageTypeOK, VersionType,
       RegistryType, ClientOK, FreePcs, UpdatePcs
  <2>c. \A d \in Clients : ClientOK(d)'
    BY <1>FreePublish, <1>dom DEF FreePublish, ClientOK, FreePcs, UpdatePcs, Mover
  <2>i. \A d \in Clients : IntentOK(d)'
    BY <1>FreePublish, <1>dom DEF FreePublish, hiom_lock_intent_publish, IntentOK, ClientOK,
       FreePcs, UpdatePcs, Mover
  <2>q. QueueOK'
    <3>1. \A o \in deadlock_offsets' : \A d \in Clients : Waits(d, o) => Waits(d, o)'
      BY <1>FreePublish, <1>dom DEF FreePublish, Waits
    <3> QED
      BY <1>FreePublish, <3>1, QueueKept DEF FreePublish
  <2>o. (ReaderType /\ ReadersOK /\ RepairsOK /\ ValuesBelong)'
    BY <1>FreePublish, <1>old DEF FreePublish, PageTypeOK, ReaderType, ReadersOK, RepairsOK,
       ValuesBelong, FreePcs, UpdatePcs
  <2> QED
    BY <2>t, <2>c, <2>i, <2>q, <2>o
<1>FreeLock. ASSUME FreeLock(c) PROVE PageInv'
  <2>v. VersionType'
    BY <1>FreeLock, <1>types, <1>old, LockKeepsType DEF FreeLock, FreePcs, UpdatePcs
  <2>r. RegistryType'
    BY <1>FreeLock, <1>types DEF FreeLock, RegistryType, Published, Intents
  <2>t. PageTypeOK'
    BY <1>FreeLock, <1>old, <2>v, <2>r DEF FreeLock, PageTypeOK, VersionType, RegistryType,
       ClientOK, FreePcs, UpdatePcs
  <2>c. \A d \in Clients : ClientOK(d)'
    BY <1>FreeLock, <1>dom DEF FreeLock, ClientOK, FreePcs, UpdatePcs, Mover
  <2>i. \A d \in Clients : IntentOK(d)'
    BY <1>FreeLock, <1>dom DEF FreeLock, IntentOK, ClientOK, FreePcs, UpdatePcs, Mover
  <2>q. QueueOK'
    <3>1. \A o \in deadlock_offsets' : \A d \in Clients : Waits(d, o) => Waits(d, o)'
      BY <1>FreeLock, <1>dom DEF FreeLock, Waits
    <3> QED
      BY <1>FreeLock, <3>1, QueueKept DEF FreeLock
  <2>o. (ReaderType /\ ReadersOK /\ RepairsOK /\ ValuesBelong)'
    BY <1>FreeLock, <1>old DEF FreeLock, PageTypeOK, ReaderType, ReadersOK, RepairsOK,
       ValuesBelong, FreePcs, UpdatePcs
  <2> QED
    BY <2>t, <2>c, <2>i, <2>q, <2>o
<1>FreeGiveUp. ASSUME FreeGiveUp(c) PROVE PageInv'
  <2>v. VersionType'
    BY <1>FreeGiveUp, <1>types DEF FreeGiveUp, VersionType
  <2>r. RegistryType'
    BY <1>FreeGiveUp, <1>types DEF FreeGiveUp, RegistryType, Published, Intents
  <2>t. PageTypeOK'
    BY <1>FreeGiveUp, <1>old, <2>v, <2>r DEF FreeGiveUp, PageTypeOK, VersionType,
       RegistryType, ClientOK, FreePcs, UpdatePcs
  <2>c. \A d \in Clients : ClientOK(d)'
    BY <1>FreeGiveUp, <1>dom DEF FreeGiveUp, ClientOK, FreePcs, UpdatePcs, Mover
  <2>i. \A d \in Clients : IntentOK(d)'
    BY <1>FreeGiveUp, <1>dom DEF FreeGiveUp, IntentOK, ClientOK, FreePcs, UpdatePcs, Mover
  <2>q. QueueOK'
    <3>1. \A o \in deadlock_offsets' : \A d \in Clients : Waits(d, o) => Waits(d, o)'
      BY <1>FreeGiveUp, <1>dom DEF FreeGiveUp, Waits
    <3> QED
      BY <1>FreeGiveUp, <3>1, QueueKept DEF FreeGiveUp
  <2>o. (ReaderType /\ ReadersOK /\ RepairsOK /\ ValuesBelong)'
    BY <1>FreeGiveUp, <1>old DEF FreeGiveUp, PageTypeOK, ReaderType, ReadersOK, RepairsOK,
       ValuesBelong, FreePcs, UpdatePcs
  <2> QED
    BY <2>t, <2>c, <2>i, <2>q, <2>o
<1>FreeQueue. ASSUME FreeQueue(c) PROVE PageInv'
  <2>v. VersionType'
    BY <1>FreeQueue, <1>types DEF FreeQueue, invalidate_records, VersionType
  <2>r. RegistryType'
    BY <1>FreeQueue, <1>types DEF FreeQueue, invalidate_records, RegistryType, Published,
       Intents
  <2>t. PageTypeOK'
    <3> DEFINE all  == deadlock_offsets \cup (IF queued[c] THEN {} ELSE {old[c]})
               mine == {x \in all : PageOf(x) = c}
    <3>1. all \subseteq Offsets
      BY <1>FreeQueue DEF FreeQueue, PageTypeOK, ClientOK, FreePcs
    <3>2. {SlotOf(x) : x \in mine} \subseteq Slots
      BY <3>1 DEF Offsets, SlotOf
    <3>3. /\ pc' = [pc EXCEPT ![c] = "withdraw"]
          /\ queued' = [queued EXCEPT ![c] = TRUE] /\ seen' = [seen EXCEPT ![c] = old[c] \in all]
          /\ deadlock_offsets' = all \ mine /\ Drain(mine)
          /\ invalidate_records(c, {SlotOf(x) : x \in mine}, BesideHolder(c))
          /\ UNCHANGED <<data, index, opVars, refreed, raced, repair, reads, ops>>
      BY <1>FreeQueue DEF FreeQueue
    <3>4. seen' \in [Clients -> BOOLEAN] /\ queued' \in [Clients -> BOOLEAN]
      BY <3>3 DEF PageTypeOK
    <3>d. drained' \in [Clients -> BOOLEAN]
      BY <3>3 DEF Drain
    <3>5. deadlock_offsets' \subseteq Offsets
      BY <3>1, <3>3
    <3>6. free_slots' \in [Pages -> SUBSET Slots]
      BY <3>2, <3>3, InvalidateFrees DEF PageTypeOK
    <3>7. /\ pc' = [pc EXCEPT ![c] = "withdraw"]
          /\ UNCHANGED <<data, index, opVars, refreed, raced, repair, reads, ops>>
      BY <3>3
    <3> QED
      BY <3>4, <3>d, <3>5, <3>6, <3>7, <2>v, <2>r DEF PageTypeOK, VersionType, RegistryType
  <2>c. \A d \in Clients : ClientOK(d)'
    <3>1. \A p \in Pages : free_slots[p] \subseteq free_slots'[p]
      BY <1>FreeQueue DEF FreeQueue, invalidate_records, PageTypeOK
    <3>2. pc' = [pc EXCEPT ![c] = "withdraw"] /\ UNCHANGED opVars /\ Clients \subseteq Pages
      BY <1>FreeQueue DEF FreeQueue, Pages
    <3>3. pc[c] = "queue"
      BY <1>FreeQueue DEF FreeQueue
    <3>4. \A d \in Clients : drained'[d] => queued'[d]
      BY <1>FreeQueue DEF FreeQueue, Drain, PageTypeOK, ClientOK
    <3> QED
      BY <1>dom, <3>1, <3>2, <3>3, <3>4 DEF ClientOK, FreePcs, UpdatePcs, Mover
  <2>i. \A d \in Clients : IntentOK(d)'
    BY <1>FreeQueue, <1>dom DEF FreeQueue, invalidate_records, IntentOK, ClientOK, FreePcs,
       UpdatePcs, Mover
  <2>q. QueueOK'
    <3> DEFINE all  == deadlock_offsets \cup (IF queued[c] THEN {} ELSE {old[c]})
               mine == {x \in all : PageOf(x) = c}
    <3>1. /\ pc[c] = "queue" /\ pc' = [pc EXCEPT ![c] = "withdraw"] /\ UNCHANGED old
          /\ queued' = [queued EXCEPT ![c] = TRUE] /\ seen' = [seen EXCEPT ![c] = old[c] \in all]
          /\ deadlock_offsets' = all \ mine /\ Drain(mine)
      BY <1>FreeQueue DEF FreeQueue
    <3> SUFFICES ASSUME NEW o \in deadlock_offsets' PROVE \E d \in Clients : Waits(d, o)'
      BY DEF QueueOK
    <3>2. o \in all /\ o \notin mine
      BY <3>1
    <3>d. \A d \in Clients : old[d] = o => drained'[d] = drained[d]
      BY <3>1, <3>2 DEF Drain, PageTypeOK
    <3>3. CASE o = old[c]
      <4>1. CASE ~queued[c]
        <5>1. ~drained'[c]
          BY <3>3, <3>d, <4>1 DEF ClientOK
        <5> QED
          BY <3>1, <3>2, <3>3, <5>1 DEF Waits, PageTypeOK
      <4>2. CASE queued[c]
        <5>1. PICK d \in Clients : Waits(d, o)
          BY <3>2, <4>2 DEF QueueOK
        <5>2. CASE d = c
          BY <3>1, <3>2, <3>3, <3>d, <5>1, <5>2 DEF Waits, PageTypeOK
        <5>3. CASE d # c
          <6>1. /\ old'[d] = old[d] /\ queued'[d] = queued[d] /\ seen'[d] = seen[d]
                /\ pc'[d] = pc[d] /\ drained'[d] = drained[d]
            BY <5>1, <5>3, <3>1, <3>d DEF Waits, PageTypeOK
          <6> QED
            BY <5>1, <6>1 DEF Waits
        <5> QED
          BY <5>2, <5>3
      <4> QED
        BY <4>1, <4>2
    <3>4. CASE o # old[c]
      <4>1. o \in deadlock_offsets
        BY <3>2, <3>4
      <4>2. PICK d \in Clients : Waits(d, o)
        BY <4>1 DEF QueueOK
      <4>3. d # c
        BY <4>2, <3>4 DEF Waits
      <4>4. /\ old'[d] = old[d] /\ queued'[d] = queued[d] /\ seen'[d] = seen[d]
            /\ pc'[d] = pc[d] /\ drained'[d] = drained[d]
        BY <4>2, <4>3, <3>1, <3>d DEF Waits, PageTypeOK
      <4> QED
        BY <4>2, <4>4 DEF Waits
    <3> QED
      BY <3>3, <3>4
  <2>o. (ReaderType /\ ReadersOK /\ RepairsOK /\ ValuesBelong)'
    BY <1>FreeQueue, <1>old DEF FreeQueue, invalidate_records, PageTypeOK, ReaderType,
       ReadersOK, RepairsOK, ValuesBelong, FreePcs, UpdatePcs
  <2> QED
    BY <2>t, <2>c, <2>i, <2>q, <2>o
<1>FreeWithdraw. ASSUME FreeWithdraw(c) PROVE PageInv'
  <2>v. VersionType'
    BY <1>FreeWithdraw, <1>types DEF FreeWithdraw, RepairBegin, VersionType
  <2>r. RegistryType'
    BY <1>FreeWithdraw, <1>types, <1>old, ClearKeepsType DEF FreeWithdraw, RepairBegin,
       FreePcs, UpdatePcs
  <2>t. PageTypeOK'
    <3>1. PageOf(old[c]) \in Pages
      BY <1>FreeWithdraw, <1>old DEF FreeWithdraw, FreePcs, UpdatePcs
    <3>2. repair' = [repair EXCEPT ![c] = [at |-> "load", page |-> PageOf(old[c]), lv |-> 0]]
      BY <1>FreeWithdraw DEF FreeWithdraw, RepairBegin
    <3>3. repair' \in [Actors -> [at : {"none", "load", "scan", "load2", "scan2", "cas"},
                                  page : Pages \cup {None}, lv : 0 .. USED_BIT - 1]]
      BY <3>1, <3>2, LockWordAssumption DEF PageTypeOK, Actors
    <3>4. /\ pc' = [pc EXCEPT ![c] = "republish"]
          /\ UNCHANGED <<free_slots, data, index, deadlock_offsets, opVars, freeVars, reads, ops>>
      BY <1>FreeWithdraw DEF FreeWithdraw
    <3> QED
      BY <3>3, <3>4, <2>v, <2>r DEF PageTypeOK, VersionType, RegistryType
  <2>c. \A d \in Clients : ClientOK(d)'
    BY <1>FreeWithdraw, <1>dom DEF FreeWithdraw, RepairBegin, ClientOK, FreePcs, UpdatePcs,
       Mover
  <2>i. \A d \in Clients : IntentOK(d)'
    BY <1>FreeWithdraw, <1>dom DEF FreeWithdraw, RepairBegin, hiom_lock_intent_clear,
       IntentOK, ClientOK, FreePcs, UpdatePcs, Mover
  <2>q. QueueOK'
    <3>1. \A o \in deadlock_offsets' : \A d \in Clients : Waits(d, o) => Waits(d, o)'
      BY <1>FreeWithdraw, <1>dom DEF FreeWithdraw, RepairBegin, Waits
    <3> QED
      BY <1>FreeWithdraw, <3>1, QueueKept DEF FreeWithdraw
  <2>o. (ReaderType /\ ReadersOK /\ RepairsOK /\ ValuesBelong)'
    BY <1>FreeWithdraw, <1>old DEF FreeWithdraw, RepairBegin, PageTypeOK, ReaderType,
       ReadersOK, RepairsOK, ValuesBelong, FreePcs, UpdatePcs
  <2> QED
    BY <2>t, <2>c, <2>i, <2>q, <2>o
<1>FreeRepublish. ASSUME FreeRepublish(c) PROVE PageInv'
  <2>v. VersionType'
    BY <1>FreeRepublish, <1>types DEF FreeRepublish, VersionType
  <2>r. RegistryType'
    BY <1>FreeRepublish, <1>types, <1>old, PublishKeepsType DEF FreeRepublish, FreePcs,
       UpdatePcs
  <2>t. PageTypeOK'
    BY <1>FreeRepublish, <1>old, <2>v, <2>r DEF FreeRepublish, PageTypeOK, VersionType,
       RegistryType, ClientOK, FreePcs, UpdatePcs
  <2>c. \A d \in Clients : ClientOK(d)'
    BY <1>FreeRepublish, <1>dom DEF FreeRepublish, ClientOK, FreePcs, UpdatePcs, Mover
  <2>i. \A d \in Clients : IntentOK(d)'
    BY <1>FreeRepublish, <1>dom DEF FreeRepublish, hiom_lock_intent_publish, IntentOK,
       ClientOK, FreePcs, UpdatePcs, Mover
  <2>q. QueueOK'
    <3>1. /\ pc[c] = "republish" /\ pc'[c] = IF seen[c] THEN "cas" ELSE "clear"
          /\ \A d \in Clients \ {c} : pc'[d] = pc[d]
          /\ UNCHANGED <<deadlock_offsets, old, freeVars>>
      BY <1>FreeRepublish DEF FreeRepublish, PageTypeOK
    <3>2. \A o : \A d \in Clients : Waits(d, o) => Waits(d, o)'
      BY <3>1 DEF Waits
    <3> QED
      BY <3>1, <3>2 DEF QueueOK
  <2>o. (ReaderType /\ ReadersOK /\ RepairsOK /\ ValuesBelong)'
    BY <1>FreeRepublish, <1>old DEF FreeRepublish, PageTypeOK, ReaderType, ReadersOK,
       RepairsOK, ValuesBelong, FreePcs, UpdatePcs
  <2> QED
    BY <2>t, <2>c, <2>i, <2>q, <2>o
<1>FreeSlot. ASSUME FreeSlot(c) PROVE PageInv'
  <2>v. VersionType'
    BY <1>FreeSlot, <1>types DEF FreeSlot, invalidate_records, VersionType
  <2>r. RegistryType'
    BY <1>FreeSlot, <1>types DEF FreeSlot, invalidate_records, RegistryType, Published,
       Intents
  <2>t. PageTypeOK'
    <3>1. PageOf(old[c]) \in Pages /\ SlotOf(old[c]) \in Slots
      BY <1>FreeSlot, <1>old DEF FreeSlot, FreePcs
    <3>2. free_slots' \in [Pages -> SUBSET Slots]
      BY <1>FreeSlot, <3>1, InvalidateFrees DEF FreeSlot, PageTypeOK
    <3>3. PICK l \in {"dequeue", "unlockold"} :
              /\ pc' = [pc EXCEPT ![c] = l]
              /\ UNCHANGED <<data, sharedVars, opVars, queued, seen, drained, raced, repair, reads,
                             ops>>
      BY <1>FreeSlot DEF FreeSlot
    <3>4. refreed' \in BOOLEAN
      BY <1>FreeSlot DEF FreeSlot
    <3> QED
      BY <3>2, <3>3, <3>4, <2>v, <2>r DEF PageTypeOK, VersionType, RegistryType
  <2>c. \A d \in Clients : ClientOK(d)'
    <3>1. \A p \in Pages : free_slots[p] \subseteq free_slots'[p]
      BY <1>FreeSlot DEF FreeSlot, invalidate_records, PageTypeOK
    <3>2. PICK l \in {"dequeue", "unlockold"} :
              pc' = [pc EXCEPT ![c] = l] /\ UNCHANGED <<opVars, queued, drained>>
      BY <1>FreeSlot DEF FreeSlot
    <3>3. pc[c] = "free" /\ Clients \subseteq Pages
      BY <1>FreeSlot DEF FreeSlot, Pages
    <3> QED
      BY <1>dom, <3>1, <3>2, <3>3 DEF ClientOK, FreePcs, UpdatePcs, Mover
  <2>i. \A d \in Clients : IntentOK(d)'
    BY <1>FreeSlot, <1>dom DEF FreeSlot, invalidate_records, IntentOK, ClientOK, FreePcs,
       UpdatePcs, Mover
  <2>q. QueueOK'
    <3>1. \A o \in deadlock_offsets' : \A d \in Clients : Waits(d, o) => Waits(d, o)'
      BY <1>FreeSlot, <1>dom DEF FreeSlot, invalidate_records, Waits
    <3> QED
      BY <1>FreeSlot, <3>1, QueueKept DEF FreeSlot
  <2>o. (ReaderType /\ ReadersOK /\ RepairsOK /\ ValuesBelong)'
    BY <1>FreeSlot, <1>old DEF FreeSlot, invalidate_records, PageTypeOK, ReaderType,
       ReadersOK, RepairsOK, ValuesBelong, FreePcs, UpdatePcs
  <2> QED
    BY <2>t, <2>c, <2>i, <2>q, <2>o
<1>FreeDequeue. ASSUME FreeDequeue(c) PROVE PageInv'
  <2>v. VersionType'
    BY <1>FreeDequeue, <1>types DEF FreeDequeue, VersionType
  <2>r. RegistryType'
    BY <1>FreeDequeue, <1>types DEF FreeDequeue, RegistryType, Published, Intents
  <2>t. PageTypeOK'
    BY <1>FreeDequeue, <1>old, <2>v, <2>r DEF FreeDequeue, PageTypeOK, VersionType,
       RegistryType, ClientOK, FreePcs, UpdatePcs
  <2>c. \A d \in Clients : ClientOK(d)'
    BY <1>FreeDequeue, <1>dom DEF FreeDequeue, ClientOK, FreePcs, UpdatePcs, Mover
  <2>i. \A d \in Clients : IntentOK(d)'
    BY <1>FreeDequeue, <1>dom DEF FreeDequeue, IntentOK, ClientOK, FreePcs, UpdatePcs, Mover
  <2>q. QueueOK'
    <3>1. \A o \in deadlock_offsets' : \A d \in Clients : Waits(d, o) => Waits(d, o)'
      BY <1>FreeDequeue, <1>dom DEF FreeDequeue, Waits
    <3> QED
      BY <1>FreeDequeue, <3>1, QueueKept DEF FreeDequeue
  <2>o. (ReaderType /\ ReadersOK /\ RepairsOK /\ ValuesBelong)'
    BY <1>FreeDequeue, <1>old DEF FreeDequeue, PageTypeOK, ReaderType, ReadersOK, RepairsOK,
       ValuesBelong, FreePcs, UpdatePcs
  <2> QED
    BY <2>t, <2>c, <2>i, <2>q, <2>o
<1>UnlockOld. ASSUME UnlockOld(c) PROVE PageInv'
  <2>v. VersionType'
    BY <1>UnlockOld, <1>types, <1>old, UnlockKeepsType DEF UnlockOld, FreePcs, UpdatePcs
  <2>r. RegistryType'
    BY <1>UnlockOld, <1>types DEF UnlockOld, RegistryType, Published, Intents
  <2>t. PageTypeOK'
    BY <1>UnlockOld, <1>old, <2>v, <2>r DEF UnlockOld, PageTypeOK, VersionType,
       RegistryType, ClientOK, FreePcs, UpdatePcs
  <2>c. \A d \in Clients : ClientOK(d)'
    BY <1>UnlockOld, <1>dom DEF UnlockOld, ClientOK, FreePcs, UpdatePcs, Mover
  <2>i. \A d \in Clients : IntentOK(d)'
    BY <1>UnlockOld, <1>dom DEF UnlockOld, IntentOK, ClientOK, FreePcs, UpdatePcs, Mover
  <2>q. QueueOK'
    <3>1. \A o \in deadlock_offsets' : \A d \in Clients : Waits(d, o) => Waits(d, o)'
      BY <1>UnlockOld, <1>dom DEF UnlockOld, Waits
    <3> QED
      BY <1>UnlockOld, <3>1, QueueKept DEF UnlockOld
  <2>o. (ReaderType /\ ReadersOK /\ RepairsOK /\ ValuesBelong)'
    BY <1>UnlockOld, <1>old DEF UnlockOld, PageTypeOK, ReaderType, ReadersOK, RepairsOK,
       ValuesBelong, FreePcs, UpdatePcs
  <2> QED
    BY <2>t, <2>c, <2>i, <2>q, <2>o
<1>FreeClear. ASSUME FreeClear(c) PROVE PageInv'
  <2>v. VersionType'
    BY <1>FreeClear, <1>types DEF FreeClear, AfterFree, VersionType
  <2>r. RegistryType'
    BY <1>FreeClear, <1>types, <1>old, ClearKeepsType DEF FreeClear, FreePcs, UpdatePcs
  <2>t. PageTypeOK'
    BY <1>FreeClear, <1>old, <2>v, <2>r DEF FreeClear, AfterFree, PageTypeOK, VersionType,
       RegistryType, ClientOK, FreePcs, UpdatePcs
  <2>c. \A d \in Clients : ClientOK(d)'
    BY <1>FreeClear, <1>dom DEF FreeClear, AfterFree, ClientOK, FreePcs, UpdatePcs, Mover
  <2>i. \A d \in Clients : IntentOK(d)'
    BY <1>FreeClear, <1>dom DEF FreeClear, AfterFree, hiom_lock_intent_clear, IntentOK,
       ClientOK, FreePcs, UpdatePcs, Mover
  <2>q. QueueOK'
    <3>1. \A o \in deadlock_offsets' : \A d \in Clients : Waits(d, o) => Waits(d, o)'
      BY <1>FreeClear, <1>dom DEF FreeClear, AfterFree, Waits
    <3> QED
      BY <1>FreeClear, <3>1, QueueKept DEF FreeClear
  <2>o. (ReaderType /\ ReadersOK /\ RepairsOK /\ ValuesBelong)'
    BY <1>FreeClear, <1>old DEF FreeClear, AfterFree, PageTypeOK, ReaderType, ReadersOK,
       RepairsOK, ValuesBelong, FreePcs, UpdatePcs
  <2> QED
    BY <2>t, <2>c, <2>i, <2>q, <2>o
<1>UnlockPage. ASSUME UnlockPage(c) PROVE PageInv'
  <2>v. VersionType'
    BY <1>UnlockPage, <1>types, UnlockKeepsType DEF UnlockPage, FreePcs, UpdatePcs
  <2>r. RegistryType'
    BY <1>UnlockPage, <1>types DEF UnlockPage, RegistryType, Published, Intents
  <2>t. PageTypeOK'
    BY <1>UnlockPage, <1>old, <2>v, <2>r DEF UnlockPage, PageTypeOK, VersionType,
       RegistryType, ClientOK, FreePcs, UpdatePcs
  <2>c. \A d \in Clients : ClientOK(d)'
    BY <1>UnlockPage, <1>dom DEF UnlockPage, ClientOK, FreePcs, UpdatePcs, Mover
  <2>i. \A d \in Clients : IntentOK(d)'
    BY <1>UnlockPage, <1>dom DEF UnlockPage, IntentOK, ClientOK, FreePcs, UpdatePcs, Mover
  <2>q. QueueOK'
    <3>1. \A o \in deadlock_offsets' : \A d \in Clients : Waits(d, o) => Waits(d, o)'
      BY <1>UnlockPage, <1>dom DEF UnlockPage, Waits
    <3> QED
      BY <1>UnlockPage, <3>1, QueueKept DEF UnlockPage
  <2>o. (ReaderType /\ ReadersOK /\ RepairsOK /\ ValuesBelong)'
    BY <1>UnlockPage, <1>old DEF UnlockPage, PageTypeOK, ReaderType, ReadersOK, RepairsOK,
       ValuesBelong, FreePcs, UpdatePcs
  <2> QED
    BY <2>t, <2>c, <2>i, <2>q, <2>o
<1>Done. ASSUME Done(c) PROVE PageInv'
  <2>v. VersionType'
    BY <1>Done, <1>types DEF Done, VersionType
  <2>r. RegistryType'
    BY <1>Done, <1>types, ClearKeepsType DEF Done, FreePcs, UpdatePcs
  <2>t. PageTypeOK'
    BY <1>Done, <1>old, <2>v, <2>r DEF Done, PageTypeOK, VersionType, RegistryType,
       ClientOK, FreePcs, UpdatePcs
  <2>c. \A d \in Clients : ClientOK(d)'
    BY <1>Done, <1>dom DEF Done, ClientOK, FreePcs, UpdatePcs, Mover
  <2>i. \A d \in Clients : IntentOK(d)'
    BY <1>Done, <1>dom DEF Done, hiom_lock_intent_clear, IntentOK, ClientOK, FreePcs,
       UpdatePcs, Mover
  <2>q. QueueOK'
    <3>1. \A o \in deadlock_offsets' : \A d \in Clients : Waits(d, o) => Waits(d, o)'
      BY <1>Done, <1>dom DEF Done, Waits
    <3> QED
      BY <1>Done, <3>1, QueueKept DEF Done
  <2>o. (ReaderType /\ ReadersOK /\ RepairsOK /\ ValuesBelong)'
    BY <1>Done, <1>old DEF Done, PageTypeOK, ReaderType, ReadersOK, RepairsOK, ValuesBelong,
       FreePcs, UpdatePcs
  <2> QED
    BY <2>t, <2>c, <2>i, <2>q, <2>o
<1>UpdateMiss. ASSUME UpdateMiss(c) PROVE PageInv'
  <2>v. VersionType'
    BY <1>UpdateMiss, <1>types DEF UpdateMiss, VersionType
  <2>r. RegistryType'
    BY <1>UpdateMiss, <1>types DEF UpdateMiss, RegistryType, Published, Intents
  <2>t. PageTypeOK'
    BY <1>UpdateMiss, <1>old, <2>v, <2>r DEF UpdateMiss, PageTypeOK, VersionType,
       RegistryType, ClientOK, FreePcs, UpdatePcs
  <2>c. \A d \in Clients : ClientOK(d)'
    BY <1>UpdateMiss, <1>dom DEF UpdateMiss, ClientOK, FreePcs, UpdatePcs, Mover
  <2>i. \A d \in Clients : IntentOK(d)'
    BY <1>UpdateMiss, <1>dom DEF UpdateMiss, IntentOK, ClientOK, FreePcs, UpdatePcs, Mover
  <2>q. QueueOK'
    <3>1. \A o \in deadlock_offsets' : \A d \in Clients : Waits(d, o) => Waits(d, o)'
      BY <1>UpdateMiss, <1>dom DEF UpdateMiss, Waits
    <3> QED
      BY <1>UpdateMiss, <3>1, QueueKept DEF UpdateMiss
  <2>o. (ReaderType /\ ReadersOK /\ RepairsOK /\ ValuesBelong)'
    BY <1>UpdateMiss, <1>old DEF UpdateMiss, PageTypeOK, ReaderType, ReadersOK, RepairsOK,
       ValuesBelong, FreePcs, UpdatePcs
  <2> QED
    BY <2>t, <2>c, <2>i, <2>q, <2>o
<1>UpdatePublish. ASSUME UpdatePublish(c) PROVE PageInv'
  <2>v. VersionType'
    BY <1>UpdatePublish, <1>types DEF UpdatePublish, VersionType
  <2>r. RegistryType'
    BY <1>UpdatePublish, <1>types, <1>old, PublishKeepsType DEF UpdatePublish, FreePcs,
       UpdatePcs
  <2>t. PageTypeOK'
    BY <1>UpdatePublish, <1>old, <2>v, <2>r DEF UpdatePublish, PageTypeOK, VersionType,
       RegistryType, ClientOK, FreePcs, UpdatePcs
  <2>c. \A d \in Clients : ClientOK(d)'
    BY <1>UpdatePublish, <1>dom DEF UpdatePublish, ClientOK, FreePcs, UpdatePcs, Mover
  <2>i. \A d \in Clients : IntentOK(d)'
    BY <1>UpdatePublish, <1>dom DEF UpdatePublish, hiom_lock_intent_publish, IntentOK,
       ClientOK, FreePcs, UpdatePcs, Mover
  <2>q. QueueOK'
    <3>1. \A o \in deadlock_offsets' : \A d \in Clients : Waits(d, o) => Waits(d, o)'
      BY <1>UpdatePublish, <1>dom DEF UpdatePublish, Waits
    <3> QED
      BY <1>UpdatePublish, <3>1, QueueKept DEF UpdatePublish
  <2>o. (ReaderType /\ ReadersOK /\ RepairsOK /\ ValuesBelong)'
    BY <1>UpdatePublish, <1>old DEF UpdatePublish, PageTypeOK, ReaderType, ReadersOK,
       RepairsOK, ValuesBelong, FreePcs, UpdatePcs
  <2> QED
    BY <2>t, <2>c, <2>i, <2>q, <2>o
<1>UpdateLock. ASSUME UpdateLock(c) PROVE PageInv'
  <2>v. VersionType'
    BY <1>UpdateLock, <1>types, <1>old, LockKeepsType DEF UpdateLock, FreePcs, UpdatePcs
  <2>r. RegistryType'
    BY <1>UpdateLock, <1>types DEF UpdateLock, RegistryType, Published, Intents
  <2>t. PageTypeOK'
    BY <1>UpdateLock, <1>old, <2>v, <2>r DEF UpdateLock, PageTypeOK, VersionType,
       RegistryType, ClientOK, FreePcs, UpdatePcs
  <2>c. \A d \in Clients : ClientOK(d)'
    BY <1>UpdateLock, <1>dom DEF UpdateLock, ClientOK, FreePcs, UpdatePcs, Mover
  <2>i. \A d \in Clients : IntentOK(d)'
    BY <1>UpdateLock, <1>dom DEF UpdateLock, IntentOK, ClientOK, FreePcs, UpdatePcs, Mover
  <2>q. QueueOK'
    <3>1. \A o \in deadlock_offsets' : \A d \in Clients : Waits(d, o) => Waits(d, o)'
      BY <1>UpdateLock, <1>dom DEF UpdateLock, Waits
    <3> QED
      BY <1>UpdateLock, <3>1, QueueKept DEF UpdateLock
  <2>o. (ReaderType /\ ReadersOK /\ RepairsOK /\ ValuesBelong)'
    BY <1>UpdateLock, <1>old DEF UpdateLock, PageTypeOK, ReaderType, ReadersOK, RepairsOK,
       ValuesBelong, FreePcs, UpdatePcs
  <2> QED
    BY <2>t, <2>c, <2>i, <2>q, <2>o
<1>UpdateBusy. ASSUME UpdateBusy(c) PROVE PageInv'
  <2>v. VersionType'
    BY <1>UpdateBusy, <1>types DEF UpdateBusy, VersionType
  <2>r. RegistryType'
    BY <1>UpdateBusy, <1>types, <1>old, ClearKeepsType DEF UpdateBusy, FreePcs, UpdatePcs
  <2>t. PageTypeOK'
    BY <1>UpdateBusy, <1>old, <2>v, <2>r DEF UpdateBusy, PageTypeOK, VersionType,
       RegistryType, ClientOK, FreePcs, UpdatePcs
  <2>c. \A d \in Clients : ClientOK(d)'
    BY <1>UpdateBusy, <1>dom DEF UpdateBusy, ClientOK, FreePcs, UpdatePcs, Mover
  <2>i. \A d \in Clients : IntentOK(d)'
    BY <1>UpdateBusy, <1>dom DEF UpdateBusy, hiom_lock_intent_clear, IntentOK, ClientOK,
       FreePcs, UpdatePcs, Mover
  <2>q. QueueOK'
    <3>1. \A o \in deadlock_offsets' : \A d \in Clients : Waits(d, o) => Waits(d, o)'
      BY <1>UpdateBusy, <1>dom DEF UpdateBusy, Waits
    <3> QED
      BY <1>UpdateBusy, <3>1, QueueKept DEF UpdateBusy
  <2>o. (ReaderType /\ ReadersOK /\ RepairsOK /\ ValuesBelong)'
    BY <1>UpdateBusy, <1>old DEF UpdateBusy, PageTypeOK, ReaderType, ReadersOK, RepairsOK,
       ValuesBelong, FreePcs, UpdatePcs
  <2> QED
    BY <2>t, <2>c, <2>i, <2>q, <2>o
<1>UpdateRetry. ASSUME UpdateRetry(c) PROVE PageInv'
  <2>v. VersionType'
    BY <1>UpdateRetry, <1>types DEF UpdateRetry, RepairBegin, VersionType
  <2>r. RegistryType'
    BY <1>UpdateRetry, <1>types DEF UpdateRetry, RepairBegin, RegistryType, Published,
       Intents
  <2>t. PageTypeOK'
    <3>1. PageOf(old[c]) \in Pages
      BY <1>UpdateRetry, <1>old DEF UpdateRetry, FreePcs, UpdatePcs
    <3>2. repair' = [repair EXCEPT ![c] = [at |-> "load", page |-> PageOf(old[c]), lv |-> 0]]
      BY <1>UpdateRetry DEF UpdateRetry, RepairBegin
    <3>3. repair' \in [Actors -> [at : {"none", "load", "scan", "load2", "scan2", "cas"},
                                  page : Pages \cup {None}, lv : 0 .. USED_BIT - 1]]
      BY <3>1, <3>2, LockWordAssumption DEF PageTypeOK, Actors
    <3>4. /\ pc' = [pc EXCEPT ![c] = "try"]
          /\ UNCHANGED <<free_slots, data, index, deadlock_offsets, opVars, freeVars, reads, ops>>
      BY <1>UpdateRetry DEF UpdateRetry
    <3> QED
      BY <3>3, <3>4, <2>v, <2>r DEF PageTypeOK, VersionType, RegistryType
  <2>c. \A d \in Clients : ClientOK(d)'
    BY <1>UpdateRetry, <1>dom DEF UpdateRetry, RepairBegin, ClientOK, FreePcs, UpdatePcs,
       Mover
  <2>i. \A d \in Clients : IntentOK(d)'
    BY <1>UpdateRetry, <1>dom DEF UpdateRetry, RepairBegin, IntentOK, ClientOK, FreePcs,
       UpdatePcs, Mover
  <2>q. QueueOK'
    <3>1. \A o \in deadlock_offsets' : \A d \in Clients : Waits(d, o) => Waits(d, o)'
      BY <1>UpdateRetry, <1>dom DEF UpdateRetry, RepairBegin, Waits
    <3> QED
      BY <1>UpdateRetry, <3>1, QueueKept DEF UpdateRetry
  <2>o. (ReaderType /\ ReadersOK /\ RepairsOK /\ ValuesBelong)'
    BY <1>UpdateRetry, <1>old DEF UpdateRetry, RepairBegin, PageTypeOK, ReaderType,
       ReadersOK, RepairsOK, ValuesBelong, FreePcs, UpdatePcs
  <2> QED
    BY <2>t, <2>c, <2>i, <2>q, <2>o
<1>UpdateApply. ASSUME UpdateApply(c) PROVE PageInv'
  <2>v. VersionType'
    BY <1>UpdateApply, <1>types DEF UpdateApply, HoldsKey, VersionType
  <2>r. RegistryType'
    BY <1>UpdateApply, <1>types DEF UpdateApply, HoldsKey, RegistryType, Published, Intents
  <2>t. PageTypeOK'
    <3>1. key[c] \in Keys /\ PageOf(old[c]) \in Pages /\ SlotOf(old[c]) \in Slots
      BY <1>UpdateApply, <1>old DEF UpdateApply, ClientOK, UpdatePcs
    <3>2. data' \in [Pages -> [Slots -> [key : Keys, val : Keys]]]
      <4>1. data \in [Pages -> [Slots -> [key : Keys, val : Keys]]]
        BY DEF PageTypeOK
      <4>2. \/ UNCHANGED data
            \/ data' = [data EXCEPT ![PageOf(old[c])][SlotOf(old[c])].val = key[c]]
        BY <1>UpdateApply DEF UpdateApply
      <4> QED
        BY <3>1, <4>1, <4>2, UpdateKeepsKeys
    <3>3. PICK l \in {"applied", "mismatch"} :
              /\ pc' = [pc EXCEPT ![c] = l]
              /\ UNCHANGED <<free_slots, sharedVars, opVars, freeVars, repair, reads, ops>>
      BY <1>UpdateApply DEF UpdateApply
    <3> QED
      BY <3>2, <3>3, <2>v, <2>r DEF PageTypeOK, VersionType, RegistryType
  <2>c. \A d \in Clients : ClientOK(d)'
    <3>1. PICK l \in {"applied", "mismatch"} :
              pc' = [pc EXCEPT ![c] = l] /\ UNCHANGED <<free_slots, opVars, freeVars>>
      BY <1>UpdateApply DEF UpdateApply
    <3>2. pc[c] = "apply"
      BY <1>UpdateApply DEF UpdateApply
    <3> QED
      BY <3>1, <3>2 DEF PageTypeOK, ClientOK, FreePcs, UpdatePcs, Mover
  <2>i. \A d \in Clients : IntentOK(d)'
    BY <1>UpdateApply, <1>dom DEF UpdateApply, HoldsKey, IntentOK, ClientOK, FreePcs,
       UpdatePcs, Mover
  <2>q. QueueOK'
    <3>1. PICK l \in {"applied", "mismatch"} :
              pc' = [pc EXCEPT ![c] = l] /\ UNCHANGED <<deadlock_offsets, opVars, freeVars>>
      BY <1>UpdateApply DEF UpdateApply
    <3>2. pc[c] = "apply"
      BY <1>UpdateApply DEF UpdateApply
    <3> QED
      BY <1>dom, <3>1, <3>2 DEF QueueOK, Waits
  <2>o. (ReaderType /\ ReadersOK /\ RepairsOK /\ ValuesBelong)'
    <3>1. ReaderType' /\ ReadersOK' /\ RepairsOK'
      BY <1>UpdateApply DEF UpdateApply, ReaderType, ReadersOK, RepairsOK
    <3>2. CASE UNCHANGED data
      BY <3>1, <3>2 DEF ValuesBelong
    <3>3. CASE /\ HoldsKey(old[c], key[c])
               /\ data' = [data EXCEPT ![PageOf(old[c])][SlotOf(old[c])].val = key[c]]
      <4> SUFFICES ASSUME NEW p \in Pages, NEW s \in Slots
                   PROVE  data'[p][s].val = data'[p][s].key
        BY <3>1 DEF ValuesBelong
      <4>1. CASE p = PageOf(old[c]) /\ s = SlotOf(old[c])
        BY <3>3, <4>1 DEF PageTypeOK, HoldsKey
      <4>2. CASE ~(p = PageOf(old[c]) /\ s = SlotOf(old[c]))
        <5>1. data'[p][s] = data[p][s]
          BY <3>3, <4>2 DEF PageTypeOK
        <5> QED
          BY <5>1 DEF ValuesBelong
      <4> QED
        BY <4>1, <4>2
    <3> QED
      BY <1>UpdateApply, <3>2, <3>3 DEF UpdateApply
  <2> QED
    BY <2>t, <2>c, <2>i, <2>q, <2>o
<1>UpdateUnlock. ASSUME UpdateUnlock(c) PROVE PageInv'
  <2>v. VersionType'
    BY <1>UpdateUnlock, <1>types, <1>old, UnlockKeepsType DEF UpdateUnlock, FreePcs,
       UpdatePcs
  <2>r. RegistryType'
    BY <1>UpdateUnlock, <1>types DEF UpdateUnlock, RegistryType, Published, Intents
  <2>t. PageTypeOK'
    BY <1>UpdateUnlock, <1>old, <2>v, <2>r DEF UpdateUnlock, PageTypeOK, VersionType,
       RegistryType, ClientOK, FreePcs, UpdatePcs
  <2>c. \A d \in Clients : ClientOK(d)'
    BY <1>UpdateUnlock, <1>dom DEF UpdateUnlock, ClientOK, FreePcs, UpdatePcs, Mover
  <2>i. \A d \in Clients : IntentOK(d)'
    BY <1>UpdateUnlock, <1>dom DEF UpdateUnlock, IntentOK, ClientOK, FreePcs, UpdatePcs,
       Mover
  <2>q. QueueOK'
    <3>1. \A o \in deadlock_offsets' : \A d \in Clients : Waits(d, o) => Waits(d, o)'
      BY <1>UpdateUnlock, <1>dom DEF UpdateUnlock, Waits
    <3> QED
      BY <1>UpdateUnlock, <3>1, QueueKept DEF UpdateUnlock
  <2>o. (ReaderType /\ ReadersOK /\ RepairsOK /\ ValuesBelong)'
    BY <1>UpdateUnlock, <1>old DEF UpdateUnlock, PageTypeOK, ReaderType, ReadersOK,
       RepairsOK, ValuesBelong, FreePcs, UpdatePcs
  <2> QED
    BY <2>t, <2>c, <2>i, <2>q, <2>o
<1>UpdateClear. ASSUME UpdateClear(c) PROVE PageInv'
  <2>v. VersionType'
    BY <1>UpdateClear, <1>types DEF UpdateClear, VersionType
  <2>r. RegistryType'
    BY <1>UpdateClear, <1>types, <1>old, ClearKeepsType DEF UpdateClear, FreePcs, UpdatePcs
  <2>t. PageTypeOK'
    BY <1>UpdateClear, <1>old, <2>v, <2>r DEF UpdateClear, PageTypeOK, VersionType,
       RegistryType, ClientOK, FreePcs, UpdatePcs
  <2>c. \A d \in Clients : ClientOK(d)'
    BY <1>UpdateClear, <1>dom DEF UpdateClear, ClientOK, FreePcs, UpdatePcs, Mover
  <2>i. \A d \in Clients : IntentOK(d)'
    BY <1>UpdateClear, <1>dom DEF UpdateClear, hiom_lock_intent_clear, IntentOK, ClientOK,
       FreePcs, UpdatePcs, Mover
  <2>q. QueueOK'
    <3>1. \A o \in deadlock_offsets' : \A d \in Clients : Waits(d, o) => Waits(d, o)'
      BY <1>UpdateClear, <1>dom DEF UpdateClear, Waits
    <3> QED
      BY <1>UpdateClear, <3>1, QueueKept DEF UpdateClear
  <2>o. (ReaderType /\ ReadersOK /\ RepairsOK /\ ValuesBelong)'
    BY <1>UpdateClear, <1>old DEF UpdateClear, PageTypeOK, ReaderType, ReadersOK, RepairsOK,
       ValuesBelong, FreePcs, UpdatePcs
  <2> QED
    BY <2>t, <2>c, <2>i, <2>q, <2>o
<1>UpdateSlow. ASSUME UpdateSlow(c) PROVE PageInv'
  <2>v. VersionType'
    BY <1>UpdateSlow, <1>types DEF UpdateSlow, Resolved, Readable, VersionType
  <2>r. RegistryType'
    BY <1>UpdateSlow, <1>types DEF UpdateSlow, Resolved, Readable, RegistryType, Published,
       Intents
  <2>t. PageTypeOK'
    <3>1. key[c] \in Keys /\ index[key[c]] \in Offsets \cup {None}
      BY <1>UpdateSlow DEF UpdateSlow, PageTypeOK, ClientOK
    <3>2. old' \in [Clients -> Offsets \cup {None}]
      BY <1>UpdateSlow, <3>1 DEF UpdateSlow, PageTypeOK
    <3>3. op' = op \/ op' = [op EXCEPT ![c] = "update_slow"]
      BY <1>UpdateSlow DEF UpdateSlow
    <3>4. PICK l \in {"try", "done"} :
              /\ pc' = [pc EXCEPT ![c] = l]
              /\ UNCHANGED <<free_slots, data, sharedVars, key, new, freeVars, repair, reads, ops>>
      BY <1>UpdateSlow DEF UpdateSlow
    <3> QED
      BY <3>2, <3>3, <3>4, <2>v, <2>r DEF PageTypeOK, VersionType, RegistryType
  <2>c. \A d \in Clients : ClientOK(d)'
    BY <1>UpdateSlow, <1>dom DEF UpdateSlow, Resolved, Readable, PageTypeOK, ClientOK,
       FreePcs, UpdatePcs, Mover
  <2>i. \A d \in Clients : IntentOK(d)'
    <3>1. /\ pc[c] = "missed" /\ pc' = [pc EXCEPT ![c] = pc'[c]]
          /\ pc'[c] \in {"try", "done"}
          /\ old' = [old EXCEPT ![c] = old'[c]]
          /\ op' = op \/ op' = [op EXCEPT ![c] = "update_slow"]
          /\ UNCHANGED lock_intents
      BY <1>UpdateSlow DEF UpdateSlow, PageTypeOK
    <3> QED
      BY <3>1 DEF PageTypeOK, IntentOK
  <2>q. QueueOK'
    <3>1. /\ pc[c] = "missed"
          /\ \A d \in Clients \ {c} : pc'[d] = pc[d] /\ old'[d] = old[d]
          /\ UNCHANGED <<deadlock_offsets, freeVars>>
      BY <1>UpdateSlow DEF UpdateSlow, PageTypeOK
    <3>2. \A o : \A d \in Clients : Waits(d, o) => Waits(d, o)'
      BY <3>1 DEF Waits
    <3> QED
      BY <3>1, <3>2 DEF QueueOK
  <2>o. (ReaderType /\ ReadersOK /\ RepairsOK /\ ValuesBelong)'
    BY <1>UpdateSlow, <1>old DEF UpdateSlow, Resolved, Readable, PageTypeOK, ReaderType,
       ReadersOK, RepairsOK, ValuesBelong, FreePcs, UpdatePcs
  <2> QED
    BY <2>t, <2>c, <2>i, <2>q, <2>o
<1> QED
  BY <1>put, <1>remove, <1>update, <1>LockPage, <1>WriteRecord, <1>Resolve, <1>SamePage,
     <1>FreePublish, <1>FreeLock, <1>FreeGiveUp, <1>FreeQueue, <1>FreeWithdraw,
     <1>FreeRepublish, <1>FreeSlot, <1>FreeDequeue, <1>UnlockOld, <1>FreeClear,
     <1>UnlockPage, <1>Done, <1>UpdateMiss, <1>UpdatePublish, <1>UpdateLock,
     <1>UpdateBusy, <1>UpdateRetry, <1>UpdateApply, <1>UpdateUnlock, <1>UpdateClear,
     <1>UpdateSlow DEF ClientStep, free_occupied_slot, Updating

-----------------------------------------------------------------------------
(* Readers and repairers change nothing the clients own.                   *)

clientVars ==
    <<free_slots, data, sharedVars, pc, opVars, queued, seen, drained, refreed, ops>>

LEMMA ReaderFrame ==
    ASSUME NEW r, (\E k \in Keys : get(r, k)) \/ Reading(r)
    PROVE  UNCHANGED <<version_lock, clientVars, raced>>
BY DEF Reading, get, ReadBit, ReadLocked, ReadVersion, ReadKey, ReadVal, ReadCheck, ReadReturn,
       ReaderUnchanged, clientVars, freeVars, pmVars

LEMMA RepairFrame ==
    ASSUME NEW a, hiom_try_repair_stale_lock(a)
    PROVE  UNCHANGED <<clientVars, readerVars>>
BY DEF hiom_try_repair_stale_lock, RepairLoad, RepairScan, RepairRescan, RepairCAS,
       RepairUnchanged, clientVars

\* A repair that ends, and one that goes on from what it has loaded.
LEMMA RepairMoves ==
    ASSUME PageTypeOK, RepairsOK, NEW a \in Actors, hiom_try_repair_stale_lock(a)
    PROVE  /\ \/ repair' = [repair EXCEPT ![a] = NoRepair]
              \/ \E l \in {"scan", "load2", "scan2", "cas"}, v \in 0 .. USED_BIT - 1 :
                     /\ IS_LOCKED(v)
                     /\ repair' = [repair EXCEPT ![a].at = l, ![a].lv = v]
           /\ \/ UNCHANGED <<version_lock, raced>>
              \/ /\ repair[a].at = "cas" /\ version_lock[repair[a].page] = repair[a].lv
                 /\ version_lock' = [version_lock EXCEPT ![repair[a].page] = @ - 1]
                 /\ raced' = (raced \/ BesideRepair(a))
           /\ repair[a].page \in Pages
<1>1. /\ repair[a] \in [at : {"none", "load", "scan", "load2", "scan2", "cas"},
                        page : Pages \cup {None}, lv : 0 .. USED_BIT - 1]
      /\ version_lock \in [Pages -> 0 .. USED_BIT - 1]
  BY DEF PageTypeOK
<1> DEFINE Ends == repair' = [repair EXCEPT ![a] = NoRepair]
           Goes == \E l \in {"scan", "load2", "scan2", "cas"}, v \in 0 .. USED_BIT - 1 :
                       /\ IS_LOCKED(v)
                       /\ repair' = [repair EXCEPT ![a].at = l, ![a].lv = v]
<1>2. ASSUME NEW from \in {"load", "load2"}, NEW to \in {"scan", "scan2"}, RepairLoad(a, from, to)
      PROVE  (Ends \/ Goes) /\ UNCHANGED <<version_lock, raced>> /\ repair[a].page \in Pages
  <2>1. repair[a].page \in Pages
    BY <1>2 DEF RepairLoad, RepairsOK
  <2> QED
    BY <1>1, <1>2, <2>1 DEF RepairLoad, RepairEnd
<1>3. ASSUME NEW from \in {"scan", "scan2"}, NEW to \in {"load2", "cas"}, RepairScan(a, from, to)
      PROVE  (Ends \/ Goes) /\ UNCHANGED <<version_lock, raced>> /\ repair[a].page \in Pages
  <2>1. repair[a].page \in Pages /\ IS_LOCKED(repair[a].lv)
    BY <1>3 DEF RepairScan, RepairsOK
  <2>2. CASE RepairGoto(a, to)
    <3>1. repair' = [repair EXCEPT ![a].at = to, ![a].lv = repair[a].lv]
      BY <1>1, <2>2 DEF RepairGoto, PageTypeOK
    <3> QED
      BY <1>1, <1>3, <2>1, <3>1 DEF RepairScan
  <2> QED
    BY <1>3, <2>1, <2>2 DEF RepairScan, RepairEnd
<1>4. ASSUME RepairCAS(a)
      PROVE  /\ Ends /\ repair[a].page \in Pages
             /\ \/ UNCHANGED <<version_lock, raced>>
                \/ /\ repair[a].at = "cas" /\ version_lock[repair[a].page] = repair[a].lv
                   /\ version_lock' = [version_lock EXCEPT ![repair[a].page] = @ - 1]
                   /\ raced' = (raced \/ BesideRepair(a))
  BY <1>4 DEF RepairCAS, RepairEnd, RepairsOK
<1> QED
  BY <1>2, <1>3, <1>4 DEF hiom_try_repair_stale_lock, RepairRescan

LEMMA RepairKeepsPageInv ==
    ASSUME PageInv, NEW a \in Actors, hiom_try_repair_stale_lock(a)
    PROVE  PageInv'
<1> USE DEF PageInv
<1>f. UNCHANGED <<clientVars, readerVars>>
  BY RepairFrame
<1>1. /\ \/ repair' = [repair EXCEPT ![a] = NoRepair]
         \/ \E l \in {"scan", "load2", "scan2", "cas"}, v \in 0 .. USED_BIT - 1 :
                /\ IS_LOCKED(v)
                /\ repair' = [repair EXCEPT ![a].at = l, ![a].lv = v]
      /\ \/ UNCHANGED <<version_lock, raced>>
         \/ /\ repair[a].at = "cas" /\ version_lock[repair[a].page] = repair[a].lv
            /\ version_lock' = [version_lock EXCEPT ![repair[a].page] = @ - 1]
            /\ raced' = (raced \/ BesideRepair(a))
      /\ repair[a].page \in Pages
  BY RepairMoves
<1>0. raced' \in BOOLEAN
  <2>1. raced \in BOOLEAN /\ BesideRepair(a) \in BOOLEAN
    BY DEF PageTypeOK, BesideRepair
  <2>2. raced' = raced \/ raced' = (raced \/ BesideRepair(a))
    BY <1>1
  <2> QED
    BY <2>1, <2>2
<1> DEFINE RepairType == repair \in [Actors -> [at : {"none", "load", "scan", "load2", "scan2",
                                                    "cas"},
                                             page : Pages \cup {None}, lv : 0 .. USED_BIT - 1]]
<1>2. RepairType' /\ RepairsOK'
  <2>1. CASE repair' = [repair EXCEPT ![a] = NoRepair]
    <3>1. NoRepair \in [at : {"none", "load", "scan", "load2", "scan2", "cas"},
                        page : Pages \cup {None}, lv : 0 .. USED_BIT - 1]
      BY LockWordAssumption DEF NoRepair
    <3> QED
      BY <2>1, <3>1 DEF PageTypeOK, RepairsOK, NoRepair
  <2>2. ASSUME NEW l \in {"scan", "load2", "scan2", "cas"}, NEW v \in 0 .. USED_BIT - 1,
               IS_LOCKED(v), repair' = [repair EXCEPT ![a].at = l, ![a].lv = v]
        PROVE  RepairType' /\ RepairsOK'
    <3>1. repair[a] \in [at : {"none", "load", "scan", "load2", "scan2", "cas"},
                          page : Pages \cup {None}, lv : 0 .. USED_BIT - 1]
      BY DEF PageTypeOK
    <3>2. /\ repair'[a].at = l /\ repair'[a].page = repair[a].page /\ repair'[a].lv = v
          /\ \A b \in Actors \ {a} : repair'[b] = repair[b]
      BY <2>2, <3>1 DEF PageTypeOK
    <3>3. RepairType'
      BY <2>2, <3>1 DEF PageTypeOK
    <3>4. RepairsOK'
      <4> SUFFICES ASSUME NEW b \in Actors
                   PROVE  /\ repair'[b].at # "none" => repair'[b].page \in Pages
                          /\ repair'[b].at \in {"scan", "load2", "scan2", "cas"}
                             => IS_LOCKED(repair'[b].lv)
        BY DEF RepairsOK, IS_LOCKED
      <4>1. CASE b = a
        BY <1>1, <2>2, <3>2, <4>1
      <4>2. CASE b # a
        BY <3>2, <4>2 DEF RepairsOK
      <4> QED
        BY <4>1, <4>2
    <3> QED
      BY <3>3, <3>4
  <2> QED
    BY <1>1, <2>1, <2>2
<1>3. VersionType'
  <2>1. CASE UNCHANGED version_lock
    BY <2>1 DEF PageTypeOK, VersionType
  <2>2. CASE /\ repair[a].at = "cas" /\ version_lock[repair[a].page] = repair[a].lv
             /\ version_lock' = [version_lock EXCEPT ![repair[a].page] = @ - 1]
    <3>1. /\ version_lock[repair[a].page] \in 0 .. USED_BIT - 1
          /\ IS_LOCKED(version_lock[repair[a].page])
      BY <1>1, <2>2 DEF PageTypeOK, RepairsOK
    <3>2. version_lock[repair[a].page] - 1 \in 0 .. USED_BIT - 1
      BY <3>1, RepairedWord
    <3> QED
      BY <1>1, <2>2, <3>2 DEF PageTypeOK, VersionType
  <2> QED
    BY <1>1, <2>1, <2>2
<1> USE <1>f DEF clientVars, sharedVars, opVars, freeVars, readerVars
<1>4. PageTypeOK'
  BY <1>0, <1>2, <1>3 DEF PageTypeOK, VersionType, Published, Intents
<1>5. \A d \in Clients : ClientOK(d)' /\ IntentOK(d)'
  BY DEF ClientOK, IntentOK, Mover
<1>6. (ReaderType /\ ReadersOK /\ ValuesBelong /\ QueueOK)'
  BY DEF ReaderType, ReadersOK, ValuesBelong, QueueOK, Waits
<1> QED
  BY <1>2, <1>4, <1>5, <1>6

LEMMA ReaderKeepsPageInv ==
    ASSUME PageInv, NEW r \in Readers, (\E k \in Keys : get(r, k)) \/ Reading(r)
    PROVE  PageInv'
<1> USE DEF PageInv
<1>f. UNCHANGED <<version_lock, clientVars, raced>>
  BY ReaderFrame
<1>a. r \in Actors
  BY DEF Actors
<1> DEFINE RType == [at : {"idle", "bit", "version", "key", "val", "check", "found"},
                     want : Keys \cup {None}, off : ReadOffsets, lock : 0 .. USED_BIT - 1,
                     key : Keys \cup {None}, val : Keys \cup {None}]
<1>t. reader[r] \in RType
  BY DEF ReaderType
<1>n. NoRead \in RType
  BY LockWordAssumption DEF NoRead, ReadOffsets
<1>d. ASSUME reader[r].at # "idle"
      PROVE  /\ ROff(r) \in Offsets /\ PageOf(ROff(r)) \in Pages
             /\ RRecord(r).key \in Keys /\ RRecord(r).val \in Keys
             /\ RLock(r) \in 0 .. USED_BIT - 1
  <2>1. ROff(r) \in Offsets
    BY <1>d DEF ReadersOK, ROff
  <2>2. PageOf(ROff(r)) \in Pages /\ SlotOf(ROff(r)) \in Slots
    BY <2>1 DEF Offsets, PageOf, SlotOf
  <2> QED
    BY <2>1, <2>2 DEF PageTypeOK, RRecord, RLock
\* What the reader becomes: a record of the type, with an offset unless it is idle.
<1> DEFINE Becomes(rd) ==
               /\ reader' = [reader EXCEPT ![r] = rd]
               /\ rd.at # "idle" => rd.off \in Offsets
               /\ reads' = reads \/ (reads < MaxReads /\ reads' = reads + 1)
               /\ \/ UNCHANGED repair
                  \/ RepairBegin(r, PageOf(ROff(r))) /\ PageOf(ROff(r)) \in Pages
<1>1. PICK rd \in RType : Becomes(rd)
  <2> USE DEF RTo, RAt
  <2>1. ASSUME NEW k \in Keys, get(r, k) PROVE \E rd \in RType : Becomes(rd)
    <3>1. index[k] \in Offsets
      BY <2>1 DEF get, PageTypeOK
    <3>2. [NoRead EXCEPT !.at = "bit", !.want = k, !.off = index[k]] \in RType
      BY <1>n, <3>1 DEF ReadOffsets
    <3>3. [NoRead EXCEPT !.at = "bit", !.want = k, !.off = index[k]].off \in Offsets
      BY <3>1 DEF NoRead
    <3> QED
      BY <2>1, <3>2, <3>3 DEF get
  <2>2. ASSUME ReadBit(r) PROVE \E rd \in RType : Becomes(rd)
    <3>1. reader[r].off \in Offsets
      BY <2>2, <1>d DEF ReadBit, ROff
    <3>2. [reader[r] EXCEPT !.at = "version"] \in RType
      BY <1>t
    <3>3. [reader[r] EXCEPT !.at = "version"].off \in Offsets
      BY <1>t, <3>1
    <3>4. NoRead.at = "idle"
      BY DEF NoRead
    <3> QED
      BY <2>2, <3>2, <3>3, <3>4, <1>n DEF ReadBit
  <2>3. ASSUME ReadLocked(r) PROVE \E rd \in RType : Becomes(rd)
    <3>1. reader[r].off \in Offsets /\ PageOf(ROff(r)) \in Pages
      BY <2>3, <1>d DEF ReadLocked, ROff
    <3>2. [reader[r] EXCEPT !.at = "bit"] \in RType
      BY <1>t
    <3>3. [reader[r] EXCEPT !.at = "bit"].off \in Offsets
      BY <1>t, <3>1
    <3>4. NoRead.at = "idle"
      BY DEF NoRead
    <3> QED
      BY <2>3, <3>1, <3>2, <3>3, <3>4, <1>n DEF ReadLocked
  <2>4. ASSUME ReadVersion(r) PROVE \E rd \in RType : Becomes(rd)
    <3>1. reader[r].off \in Offsets /\ RLock(r) \in 0 .. USED_BIT - 1
      BY <2>4, <1>d DEF ReadVersion, ROff
    <3>2. [reader[r] EXCEPT !.at = "key", !.lock = RLock(r)] \in RType
      BY <1>t, <3>1
    <3>3. [reader[r] EXCEPT !.at = "key", !.lock = RLock(r)].off \in Offsets
      BY <1>t, <3>1
    <3> QED
      BY <2>4, <3>2, <3>3 DEF ReadVersion
  <2>5. ASSUME ReadKey(r) PROVE \E rd \in RType : Becomes(rd)
    <3>1. reader[r].off \in Offsets /\ RRecord(r).key \in Keys
      BY <2>5, <1>d DEF ReadKey, ROff
    <3>2. [reader[r] EXCEPT !.at = "val", !.key = RRecord(r).key] \in RType
      BY <1>t, <3>1
    <3>3. [reader[r] EXCEPT !.at = "val", !.key = RRecord(r).key].off \in Offsets
      BY <1>t, <3>1
    <3> QED
      BY <2>5, <3>2, <3>3 DEF ReadKey
  <2>6. ASSUME ReadVal(r) PROVE \E rd \in RType : Becomes(rd)
    <3>1. reader[r].off \in Offsets /\ RRecord(r).val \in Keys
      BY <2>6, <1>d DEF ReadVal, ROff
    <3>2. [reader[r] EXCEPT !.at = "check", !.val = RRecord(r).val] \in RType
      BY <1>t, <3>1
    <3>3. [reader[r] EXCEPT !.at = "check", !.val = RRecord(r).val].off \in Offsets
      BY <1>t, <3>1
    <3> QED
      BY <2>6, <3>2, <3>3 DEF ReadVal
  <2>7. ASSUME ReadCheck(r) PROVE \E rd \in RType : Becomes(rd)
    <3>1. reader[r].off \in Offsets
      BY <2>7, <1>d DEF ReadCheck, ROff
    <3>2. /\ [reader[r] EXCEPT !.at = "found"] \in RType
          /\ [reader[r] EXCEPT !.at = "found"].off \in Offsets
      BY <1>t, <3>1
    <3>3. /\ [NoRead EXCEPT !.at = "bit", !.want = reader[r].want, !.off = ROff(r)] \in RType
          /\ [NoRead EXCEPT !.at = "bit", !.want = reader[r].want, !.off = ROff(r)].off \in Offsets
      BY <1>t, <1>n, <3>1 DEF ROff, NoRead
    <3>4. NoRead.at = "idle"
      BY DEF NoRead
    <3> QED
      BY <2>7, <3>2, <3>3, <3>4, <1>n DEF ReadCheck
  <2>8. ASSUME ReadReturn(r) PROVE \E rd \in RType : Becomes(rd)
    BY <2>8, <1>n DEF ReadReturn, NoRead
  <2> QED
    BY <2>1, <2>2, <2>3, <2>4, <2>5, <2>6, <2>7, <2>8 DEF Reading
<1>2. ReaderType' /\ ReadersOK'
  BY <1>1 DEF ReaderType, ReadersOK
<1>3. /\ repair' \in [Actors -> [at : {"none", "load", "scan", "load2", "scan2", "cas"},
                                 page : Pages \cup {None}, lv : 0 .. USED_BIT - 1]]
      /\ RepairsOK'
  <2>1. CASE UNCHANGED repair
    BY <2>1 DEF PageTypeOK, RepairsOK
  <2>2. CASE RepairBegin(r, PageOf(ROff(r))) /\ PageOf(ROff(r)) \in Pages
    <3>1. repair' = [repair EXCEPT ![r] = [at |-> "load", page |-> PageOf(ROff(r)), lv |-> 0]]
      BY <2>2 DEF RepairBegin
    <3> QED
      BY <1>a, <2>2, <3>1, LockWordAssumption DEF PageTypeOK, RepairsOK
  <2> QED
    BY <1>1, <2>1, <2>2
<1> USE <1>f DEF clientVars, sharedVars, opVars, freeVars
<1>4. PageTypeOK'
  <2>1. reads' \in 0 .. MaxReads
    BY <1>1, LockBounds DEF PageTypeOK
  <2> QED
    BY <1>3, <2>1 DEF PageTypeOK, Published, Intents
<1>5. \A d \in Clients : ClientOK(d)' /\ IntentOK(d)'
  BY DEF ClientOK, IntentOK, Mover
<1>6. (ValuesBelong /\ QueueOK)'
  BY DEF ValuesBelong, QueueOK, Waits
<1> QED
  BY <1>2, <1>3, <1>4, <1>5, <1>6

-----------------------------------------------------------------------------
(* PageInv is an invariant of every behaviour.                             *)

LEMMA PageInvInit == Init => PageInv
<1> SUFFICES ASSUME Init PROVE PageInv
  OBVIOUS
<1>1. FirstSlot \in Slots
  BY MinIsMember, SlotAssumption DEF FirstSlot
<1>2. VersionType
  BY VersionAssumption, LockWordAssumption DEF Init, VersionType
<1>3. Published = 0
  <2>1. Intents = {}
    BY DEF Init, Intents
  <2> QED
    BY <2>1, FS_EmptySet DEF Published
<1>4. /\ index \in [Keys -> Offsets \cup {None}]
      /\ data \in [Pages -> [Slots -> [key : Keys, val : Keys]]]
  BY <1>1 DEF Init, Keys, Offsets
<1>5. repair \in [Actors -> [at : {"none", "load", "scan", "load2", "scan2", "cas"},
                             page : Pages \cup {None}, lv : 0 .. USED_BIT - 1]]
  BY LockWordAssumption DEF Init, NoRepair
<1>6. PageTypeOK
  <2>1. /\ free_slots \in [Pages -> SUBSET Slots] /\ deadlock_offsets \subseteq Offsets
        /\ lock_intents \in [Clients -> SUBSET Pages] /\ Published <= kLockIntentSlots
    BY <1>3, RegistryAssumption DEF Init
  <2>2. /\ pc \in [Clients -> {"idle"}] /\ op \in [Clients -> {"none"}]
        /\ key \in [Clients -> {None}] /\ old \in [Clients -> {None}]
        /\ new \in [Clients -> {None}] /\ queued \in [Clients -> {FALSE}]
        /\ seen \in [Clients -> {FALSE}] /\ drained \in [Clients -> {FALSE}]
        /\ refreed = FALSE /\ raced = FALSE
    BY DEF Init
  <2>3. ops \in 0 .. MaxOps /\ reads \in 0 .. MaxReads
    BY LockBounds DEF Init
  <2> QED
    BY <1>2, <1>4, <1>5, <2>1, <2>2, <2>3 DEF PageTypeOK, VersionType
<1>7. ReaderType /\ ReadersOK
  BY LockWordAssumption DEF Init, ReaderType, ReadersOK, NoRead, ReadOffsets
<1>8. RepairsOK
  BY DEF Init, RepairsOK, NoRepair
<1>9. \A c \in Clients : ClientOK(c) /\ IntentOK(c)
  BY DEF Init, ClientOK, IntentOK, FreePcs, UpdatePcs, Mover
<1>10. QueueOK /\ ValuesBelong
  BY DEF Init, QueueOK, ValuesBelong
<1> QED
  BY <1>6, <1>7, <1>8, <1>9, <1>10 DEF PageInv

LEMMA PageInvStep == PageInv /\ [Next]_vars => PageInv'
<1> SUFFICES ASSUME PageInv, [Next]_vars PROVE PageInv'
  OBVIOUS
<1>1. CASE Next
  BY <1>1, ClientKeepsPageInv, ReaderKeepsPageInv, RepairKeepsPageInv DEF Next
<1>2. CASE UNCHANGED vars
  BY <1>2 DEF vars, pmVars, sharedVars, opVars, freeVars, readerVars, PageInv, PageTypeOK,
              Published, Intents, ReaderType, ReadersOK, RepairsOK, ClientOK, IntentOK, Mover,
              QueueOK, Waits, ValuesBelong
<1> QED
  BY <1>1, <1>2

\* PageInv holds in every reachable state: the types with the six-bit version
\* (it stays below USED_BIT when it wraps) and the registry (it never holds more
\* than its slots), what each place of a client says of its operation, and the
\* intents a client has published.
THEOREM PageInvariance == Spec => []PageInv
<1> QED
  BY PageInvInit, PageInvStep, PTL DEF Spec

\* An offset in deadlock_offsets_ is that of a client which will look at the
\* queue again or take the offset out: none is left behind for a later client
\* to free what the slot holds by then.
THEOREM QueueIsOwned == Spec => []QueueOwned
<1>1. PageInv => QueueOwned
  BY DEF PageInv, QueueOK, Waits, QueueOwned
<1> QED
  BY <1>1, PageInvariance, PTL

\* An update never reaches another key's record, whatever happens to the slot
\* between the look-up and the lock, and even if a repair clears its lock.
THEOREM UpdatesBelong == Spec => []ValuesBelong
<1>1. PageInv => ValuesBelong
  BY DEF PageInv
<1> QED
  BY <1>1, PageInvariance, PTL

-----------------------------------------------------------------------------
(* Exclusion.                                                              *)

\* What a client's step may do to the word of a page: leave it, and the holders
\* with it, or take the lock, or release one's own.
WordMoves(c, p) ==
    \/ /\ version_lock'[p] = version_lock[p]
       /\ \A d \in Clients : Holds(d, p)' <=> Holds(d, p)
    \/ /\ ~IS_LOCKED(version_lock[p]) /\ version_lock'[p] = version_lock[p] + 1
       /\ Holds(c, p)' /\ \A d \in Clients \ {c} : Holds(d, p)' => Holds(d, p)
    \/ /\ IS_LOCKED(version_lock[p]) /\ version_lock'[p] = (version_lock[p] + 1) % USED_BIT
       /\ Holds(c, p) /\ \A d \in Clients : Holds(d, p)' => Holds(d, p) /\ d # c

\* A step that takes no lock and releases none.
LEMMA WordStays ==
    ASSUME NEW c \in Clients, UNCHANGED version_lock,
           \A p \in Pages, d \in Clients : Holds(d, p) => Holds(d, p)',
           \A p \in Pages, d \in Clients : Holds(d, p)' => Holds(d, p)
    PROVE  \A p \in Pages : WordMoves(c, p)
BY DEF WordMoves

\* A step that takes a lock.
LEMMA WordTaken ==
    ASSUME NEW c \in Clients, NEW q \in Pages, VersionType, lock(q), Holds(c, q)',
           \A p \in Pages, d \in Clients : Holds(d, p) => Holds(d, p)',
           \A p \in Pages, d \in Clients : Holds(d, p)' => Holds(d, p) \/ (d = c /\ p = q)
    PROVE  \A p \in Pages : WordMoves(c, p)
<1> TAKE p \in Pages
<1>1. CASE p = q
  BY <1>1 DEF WordMoves, VersionType, lock
<1>2. CASE p # q
  BY <1>2 DEF WordMoves, VersionType, lock
<1> QED
  BY <1>1, <1>2

\* A step that releases one.
LEMMA WordReleased ==
    ASSUME NEW c \in Clients, NEW q \in Pages, VersionType, unlock(q),
           IS_LOCKED(version_lock[q]), Holds(c, q),
           \A p \in Pages \ {q}, d \in Clients : Holds(d, p) => Holds(d, p)',
           \A p \in Pages, d \in Clients : Holds(d, p)' => Holds(d, p) /\ ~(d = c /\ p = q)
    PROVE  \A p \in Pages : WordMoves(c, p)
<1> TAKE p \in Pages
<1>1. CASE p = q
  BY <1>1 DEF WordMoves, VersionType, unlock
<1>2. CASE p # q
  BY <1>2 DEF WordMoves, VersionType, unlock
<1> QED
  BY <1>1, <1>2

\* A client keeps what it holds until it releases it, and releases nothing else.
LEMMA ClientMovesWords ==
    ASSUME PageInv, Exclusive, NEW c \in Clients,
           (\E k \in Keys : put(c, k) \/ remove(c, k) \/ update(c, k)) \/ ClientStep(c)
    PROVE  \A p \in Pages : WordMoves(c, p)
<1> USE DEF PageInv, At, Goto, pmVars, sharedVars, opVars, freeVars, readerVars
<1> DEFINE Moved == \A p \in Pages : WordMoves(c, p)
<1> c \in Pages
  BY DEF Pages
<1>old. pc[c] \in FreePcs \cup UpdatePcs => PageOf(old[c]) \in Pages
  BY DEF ClientOK, Offsets, PageOf
<1>types. VersionType
  BY DEF PageTypeOK, VersionType
<1> HIDE DEF Moved
<1>put. ASSUME NEW k \in Keys, put(c, k) PROVE Moved
  <2>1. \A p \in Pages, d \in Clients : Holds(d, p) => Holds(d, p)'
    BY <1>put DEF put, Begin, Holds, PageTypeOK, ClientOK, FreePcs, UpdatePcs, Mover
  <2>u. \A p \in Pages, d \in Clients : Holds(d, p)' => Holds(d, p)
    BY <1>put DEF put, Begin, Holds, PageTypeOK, ClientOK, FreePcs, UpdatePcs, Mover
  <2> QED
    BY <1>put, <2>1, <2>u, WordStays DEF Moved, put, Begin
<1>remove. ASSUME NEW k \in Keys, remove(c, k) PROVE Moved
  <2>1. \A p \in Pages, d \in Clients : Holds(d, p) => Holds(d, p)'
    BY <1>remove DEF remove, Begin, Holds, PageTypeOK, ClientOK, FreePcs, UpdatePcs, Mover
  <2>u. \A p \in Pages, d \in Clients : Holds(d, p)' => Holds(d, p)
    BY <1>remove DEF remove, Begin, Holds, PageTypeOK, ClientOK, FreePcs, UpdatePcs, Mover
  <2> QED
    BY <1>remove, <2>1, <2>u, WordStays DEF Moved, remove, Begin
<1>update. ASSUME NEW k \in Keys, update(c, k) PROVE Moved
  <2>1. \A p \in Pages, d \in Clients : Holds(d, p) => Holds(d, p)'
    BY <1>update DEF update, Begin, Holds, PageTypeOK, ClientOK, FreePcs, UpdatePcs, Mover
  <2>u. \A p \in Pages, d \in Clients : Holds(d, p)' => Holds(d, p)
    BY <1>update DEF update, Begin, Holds, PageTypeOK, ClientOK, FreePcs, UpdatePcs, Mover
  <2> QED
    BY <1>update, <2>1, <2>u, WordStays DEF Moved, update, Begin
<1>LockPage. ASSUME LockPage(c) PROVE Moved
  <2>1. \A p \in Pages, d \in Clients : Holds(d, p) => Holds(d, p)'
    BY <1>LockPage DEF LockPage, Holds, PageTypeOK, ClientOK, FreePcs, UpdatePcs, Mover
  <2>2. Holds(c, c)'
    BY <1>LockPage DEF LockPage, Holds, PageTypeOK, ClientOK, FreePcs, UpdatePcs, Mover
  <2>u. \A p \in Pages, d \in Clients : Holds(d, p)' =>
            Holds(d, p) \/ (d = c /\ p = c)
    BY <1>LockPage DEF LockPage, Holds, PageTypeOK, ClientOK, FreePcs, UpdatePcs, Mover
  <2> QED
    BY <1>LockPage, <1>old, <1>types, <2>1, <2>2, <2>u, WordTaken DEF Moved, LockPage, FreePcs,
       UpdatePcs
<1>WriteRecord. ASSUME WriteRecord(c) PROVE Moved
  <2>1. \A p \in Pages, d \in Clients : Holds(d, p) => Holds(d, p)'
    BY <1>WriteRecord DEF WriteRecord, Holds, PageTypeOK, ClientOK, FreePcs, UpdatePcs,
       Mover
  <2>u. \A p \in Pages, d \in Clients : Holds(d, p)' => Holds(d, p)
    BY <1>WriteRecord DEF WriteRecord, Holds, PageTypeOK, ClientOK, FreePcs, UpdatePcs,
       Mover
  <2> QED
    BY <1>WriteRecord, <2>1, <2>u, WordStays DEF Moved, WriteRecord
<1>Resolve. ASSUME Resolve(c) PROVE Moved
  <2>1. \A p \in Pages, d \in Clients : Holds(d, p) => Holds(d, p)'
    BY <1>Resolve DEF Resolve, AfterFree, Holds, PageTypeOK, ClientOK, FreePcs, UpdatePcs,
       Mover
  <2>u. \A p \in Pages, d \in Clients : Holds(d, p)' => Holds(d, p)
    BY <1>Resolve DEF Resolve, AfterFree, Holds, PageTypeOK, ClientOK, FreePcs, UpdatePcs,
       Mover
  <2> QED
    BY <1>Resolve, <2>1, <2>u, WordStays DEF Moved, Resolve
<1>SamePage. ASSUME SamePage(c) PROVE Moved
  <2>1. \A p \in Pages, d \in Clients : Holds(d, p) => Holds(d, p)'
    BY <1>SamePage DEF SamePage, AfterFree, Holds, PageTypeOK, ClientOK, FreePcs, UpdatePcs,
       Mover
  <2>u. \A p \in Pages, d \in Clients : Holds(d, p)' => Holds(d, p)
    BY <1>SamePage DEF SamePage, AfterFree, Holds, PageTypeOK, ClientOK, FreePcs, UpdatePcs,
       Mover
  <2> QED
    BY <1>SamePage, <2>1, <2>u, WordStays DEF Moved, SamePage
<1>FreePublish. ASSUME FreePublish(c) PROVE Moved
  <2>1. \A p \in Pages, d \in Clients : Holds(d, p) => Holds(d, p)'
    BY <1>FreePublish DEF FreePublish, Holds, PageTypeOK, ClientOK, FreePcs, UpdatePcs,
       Mover
  <2>u. \A p \in Pages, d \in Clients : Holds(d, p)' => Holds(d, p)
    BY <1>FreePublish DEF FreePublish, Holds, PageTypeOK, ClientOK, FreePcs, UpdatePcs,
       Mover
  <2> QED
    BY <1>FreePublish, <2>1, <2>u, WordStays DEF Moved, FreePublish
<1>FreeLock. ASSUME FreeLock(c) PROVE Moved
  <2>1. \A p \in Pages, d \in Clients : Holds(d, p) => Holds(d, p)'
    BY <1>FreeLock DEF FreeLock, Holds, PageTypeOK, ClientOK, FreePcs, UpdatePcs, Mover
  <2>2. Holds(c, PageOf(old[c]))'
    BY <1>FreeLock DEF FreeLock, Holds, PageTypeOK, ClientOK, FreePcs, UpdatePcs, Mover
  <2>u. \A p \in Pages, d \in Clients : Holds(d, p)' =>
            Holds(d, p) \/ (d = c /\ p = PageOf(old[c]))
    BY <1>FreeLock DEF FreeLock, Holds, PageTypeOK, ClientOK, FreePcs, UpdatePcs, Mover
  <2> QED
    BY <1>FreeLock, <1>old, <1>types, <2>1, <2>2, <2>u, WordTaken DEF Moved, FreeLock, FreePcs,
       UpdatePcs
<1>FreeGiveUp. ASSUME FreeGiveUp(c) PROVE Moved
  <2>1. \A p \in Pages, d \in Clients : Holds(d, p) => Holds(d, p)'
    BY <1>FreeGiveUp DEF FreeGiveUp, Holds, PageTypeOK, ClientOK, FreePcs, UpdatePcs, Mover
  <2>u. \A p \in Pages, d \in Clients : Holds(d, p)' => Holds(d, p)
    BY <1>FreeGiveUp DEF FreeGiveUp, Holds, PageTypeOK, ClientOK, FreePcs, UpdatePcs, Mover
  <2> QED
    BY <1>FreeGiveUp, <2>1, <2>u, WordStays DEF Moved, FreeGiveUp
<1>FreeQueue. ASSUME FreeQueue(c) PROVE Moved
  <2>1. \A p \in Pages, d \in Clients : Holds(d, p) => Holds(d, p)'
    BY <1>FreeQueue DEF FreeQueue, Holds, PageTypeOK, ClientOK, FreePcs, UpdatePcs, Mover
  <2>u. \A p \in Pages, d \in Clients : Holds(d, p)' => Holds(d, p)
    BY <1>FreeQueue DEF FreeQueue, Holds, PageTypeOK, ClientOK, FreePcs, UpdatePcs, Mover
  <2> QED
    BY <1>FreeQueue, <2>1, <2>u, WordStays DEF Moved, FreeQueue
<1>FreeWithdraw. ASSUME FreeWithdraw(c) PROVE Moved
  <2>1. \A p \in Pages, d \in Clients : Holds(d, p) => Holds(d, p)'
    BY <1>FreeWithdraw DEF FreeWithdraw, Holds, PageTypeOK, ClientOK, FreePcs, UpdatePcs,
       Mover
  <2>u. \A p \in Pages, d \in Clients : Holds(d, p)' => Holds(d, p)
    BY <1>FreeWithdraw DEF FreeWithdraw, Holds, PageTypeOK, ClientOK, FreePcs, UpdatePcs,
       Mover
  <2> QED
    BY <1>FreeWithdraw, <2>1, <2>u, WordStays DEF Moved, FreeWithdraw
<1>FreeRepublish. ASSUME FreeRepublish(c) PROVE Moved
  <2>1. \A p \in Pages, d \in Clients : Holds(d, p) => Holds(d, p)'
    BY <1>FreeRepublish DEF FreeRepublish, Holds, PageTypeOK, ClientOK, FreePcs, UpdatePcs,
       Mover
  <2>u. \A p \in Pages, d \in Clients : Holds(d, p)' => Holds(d, p)
    BY <1>FreeRepublish DEF FreeRepublish, Holds, PageTypeOK, ClientOK, FreePcs, UpdatePcs,
       Mover
  <2> QED
    BY <1>FreeRepublish, <2>1, <2>u, WordStays DEF Moved, FreeRepublish
<1>FreeSlot. ASSUME FreeSlot(c) PROVE Moved
  <2>1. \A p \in Pages, d \in Clients : Holds(d, p) => Holds(d, p)'
    BY <1>FreeSlot DEF FreeSlot, Holds, PageTypeOK, ClientOK, FreePcs, UpdatePcs, Mover
  <2>u. \A p \in Pages, d \in Clients : Holds(d, p)' => Holds(d, p)
    BY <1>FreeSlot DEF FreeSlot, Holds, PageTypeOK, ClientOK, FreePcs, UpdatePcs, Mover
  <2> QED
    BY <1>FreeSlot, <2>1, <2>u, WordStays DEF Moved, FreeSlot
<1>FreeDequeue. ASSUME FreeDequeue(c) PROVE Moved
  <2>1. \A p \in Pages, d \in Clients : Holds(d, p) => Holds(d, p)'
    BY <1>FreeDequeue DEF FreeDequeue, Holds, PageTypeOK, ClientOK, FreePcs, UpdatePcs,
       Mover
  <2>u. \A p \in Pages, d \in Clients : Holds(d, p)' => Holds(d, p)
    BY <1>FreeDequeue DEF FreeDequeue, Holds, PageTypeOK, ClientOK, FreePcs, UpdatePcs,
       Mover
  <2> QED
    BY <1>FreeDequeue, <2>1, <2>u, WordStays DEF Moved, FreeDequeue
<1>UnlockOld. ASSUME UnlockOld(c) PROVE Moved
  <2>1. \A p \in Pages \ {PageOf(old[c])}, d \in Clients : Holds(d, p) => Holds(d, p)'
    BY <1>UnlockOld DEF UnlockOld, Holds, PageTypeOK, ClientOK, FreePcs, UpdatePcs, Mover
  <2>2. Holds(c, PageOf(old[c]))
    BY <1>UnlockOld DEF UnlockOld, Holds, PageTypeOK, ClientOK, FreePcs, UpdatePcs, Mover
  <2>3. PageOf(old[c]) \in Pages /\ IS_LOCKED(version_lock[PageOf(old[c])])
    BY <1>UnlockOld, <1>old, <2>2 DEF UnlockOld, Exclusive, FreePcs, UpdatePcs
  <2>u. \A p \in Pages, d \in Clients : Holds(d, p)' =>
            Holds(d, p) /\ ~(d = c /\ p = PageOf(old[c]))
    BY <1>UnlockOld DEF UnlockOld, Holds, PageTypeOK, ClientOK, FreePcs, UpdatePcs, Mover
  <2> QED
    BY <1>UnlockOld, <1>types, <2>1, <2>2, <2>3, <2>u, WordReleased DEF Moved, UnlockOld
<1>FreeClear. ASSUME FreeClear(c) PROVE Moved
  <2>1. \A p \in Pages, d \in Clients : Holds(d, p) => Holds(d, p)'
    BY <1>FreeClear DEF FreeClear, AfterFree, Holds, PageTypeOK, ClientOK, FreePcs,
       UpdatePcs, Mover
  <2>u. \A p \in Pages, d \in Clients : Holds(d, p)' => Holds(d, p)
    BY <1>FreeClear DEF FreeClear, AfterFree, Holds, PageTypeOK, ClientOK, FreePcs,
       UpdatePcs, Mover
  <2> QED
    BY <1>FreeClear, <2>1, <2>u, WordStays DEF Moved, FreeClear
<1>UnlockPage. ASSUME UnlockPage(c) PROVE Moved
  <2>1. \A p \in Pages \ {c}, d \in Clients : Holds(d, p) => Holds(d, p)'
    BY <1>UnlockPage DEF UnlockPage, Holds, PageTypeOK, ClientOK, FreePcs, UpdatePcs, Mover
  <2>2. Holds(c, c)
    BY <1>UnlockPage DEF UnlockPage, Holds, PageTypeOK, ClientOK, FreePcs, UpdatePcs, Mover
  <2>3. c \in Pages /\ IS_LOCKED(version_lock[c])
    BY <1>UnlockPage, <1>old, <2>2 DEF UnlockPage, Exclusive, FreePcs, UpdatePcs
  <2>u. \A p \in Pages, d \in Clients : Holds(d, p)' =>
            Holds(d, p) /\ ~(d = c /\ p = c)
    BY <1>UnlockPage DEF UnlockPage, Holds, PageTypeOK, ClientOK, FreePcs, UpdatePcs, Mover
  <2> QED
    BY <1>UnlockPage, <1>types, <2>1, <2>2, <2>3, <2>u, WordReleased DEF Moved, UnlockPage
<1>Done. ASSUME Done(c) PROVE Moved
  <2>1. \A p \in Pages, d \in Clients : Holds(d, p) => Holds(d, p)'
    BY <1>Done DEF Done, Holds, PageTypeOK, ClientOK, FreePcs, UpdatePcs, Mover
  <2>u. \A p \in Pages, d \in Clients : Holds(d, p)' => Holds(d, p)
    BY <1>Done DEF Done, Holds, PageTypeOK, ClientOK, FreePcs, UpdatePcs, Mover
  <2> QED
    BY <1>Done, <2>1, <2>u, WordStays DEF Moved, Done
<1>UpdateMiss. ASSUME UpdateMiss(c) PROVE Moved
  <2>1. \A p \in Pages, d \in Clients : Holds(d, p) => Holds(d, p)'
    BY <1>UpdateMiss DEF UpdateMiss, Holds, PageTypeOK, ClientOK, FreePcs, UpdatePcs, Mover
  <2>u. \A p \in Pages, d \in Clients : Holds(d, p)' => Holds(d, p)
    BY <1>UpdateMiss DEF UpdateMiss, Holds, PageTypeOK, ClientOK, FreePcs, UpdatePcs, Mover
  <2> QED
    BY <1>UpdateMiss, <2>1, <2>u, WordStays DEF Moved, UpdateMiss
<1>UpdatePublish. ASSUME UpdatePublish(c) PROVE Moved
  <2>1. \A p \in Pages, d \in Clients : Holds(d, p) => Holds(d, p)'
    BY <1>UpdatePublish DEF UpdatePublish, Holds, PageTypeOK, ClientOK, FreePcs, UpdatePcs,
       Mover
  <2>u. \A p \in Pages, d \in Clients : Holds(d, p)' => Holds(d, p)
    BY <1>UpdatePublish DEF UpdatePublish, Holds, PageTypeOK, ClientOK, FreePcs, UpdatePcs,
       Mover
  <2> QED
    BY <1>UpdatePublish, <2>1, <2>u, WordStays DEF Moved, UpdatePublish
<1>UpdateLock. ASSUME UpdateLock(c) PROVE Moved
  <2>1. \A p \in Pages, d \in Clients : Holds(d, p) => Holds(d, p)'
    BY <1>UpdateLock DEF UpdateLock, Holds, PageTypeOK, ClientOK, FreePcs, UpdatePcs, Mover
  <2>2. Holds(c, PageOf(old[c]))'
    BY <1>UpdateLock DEF UpdateLock, Holds, PageTypeOK, ClientOK, FreePcs, UpdatePcs, Mover
  <2>u. \A p \in Pages, d \in Clients : Holds(d, p)' =>
            Holds(d, p) \/ (d = c /\ p = PageOf(old[c]))
    BY <1>UpdateLock DEF UpdateLock, Holds, PageTypeOK, ClientOK, FreePcs, UpdatePcs, Mover
  <2> QED
    BY <1>UpdateLock, <1>old, <1>types, <2>1, <2>2, <2>u, WordTaken DEF Moved, UpdateLock,
       FreePcs, UpdatePcs
<1>UpdateBusy. ASSUME UpdateBusy(c) PROVE Moved
  <2>1. \A p \in Pages, d \in Clients : Holds(d, p) => Holds(d, p)'
    BY <1>UpdateBusy DEF UpdateBusy, Holds, PageTypeOK, ClientOK, FreePcs, UpdatePcs, Mover
  <2>u. \A p \in Pages, d \in Clients : Holds(d, p)' => Holds(d, p)
    BY <1>UpdateBusy DEF UpdateBusy, Holds, PageTypeOK, ClientOK, FreePcs, UpdatePcs, Mover
  <2> QED
    BY <1>UpdateBusy, <2>1, <2>u, WordStays DEF Moved, UpdateBusy
<1>UpdateRetry. ASSUME UpdateRetry(c) PROVE Moved
  <2>1. \A p \in Pages, d \in Clients : Holds(d, p) => Holds(d, p)'
    BY <1>UpdateRetry DEF UpdateRetry, Holds, PageTypeOK, ClientOK, FreePcs, UpdatePcs,
       Mover
  <2>u. \A p \in Pages, d \in Clients : Holds(d, p)' => Holds(d, p)
    BY <1>UpdateRetry DEF UpdateRetry, Holds, PageTypeOK, ClientOK, FreePcs, UpdatePcs,
       Mover
  <2> QED
    BY <1>UpdateRetry, <2>1, <2>u, WordStays DEF Moved, UpdateRetry
<1>UpdateApply. ASSUME UpdateApply(c) PROVE Moved
  <2>1. \A p \in Pages, d \in Clients : Holds(d, p) => Holds(d, p)'
    BY <1>UpdateApply DEF UpdateApply, Holds, PageTypeOK, ClientOK, FreePcs, UpdatePcs,
       Mover
  <2>u. \A p \in Pages, d \in Clients : Holds(d, p)' => Holds(d, p)
    BY <1>UpdateApply DEF UpdateApply, Holds, PageTypeOK, ClientOK, FreePcs, UpdatePcs,
       Mover
  <2> QED
    BY <1>UpdateApply, <2>1, <2>u, WordStays DEF Moved, UpdateApply
<1>UpdateUnlock. ASSUME UpdateUnlock(c) PROVE Moved
  <2>1. \A p \in Pages \ {PageOf(old[c])}, d \in Clients : Holds(d, p) => Holds(d, p)'
    BY <1>UpdateUnlock DEF UpdateUnlock, Holds, PageTypeOK, ClientOK, FreePcs, UpdatePcs,
       Mover
  <2>2. Holds(c, PageOf(old[c]))
    BY <1>UpdateUnlock DEF UpdateUnlock, Holds, PageTypeOK, ClientOK, FreePcs, UpdatePcs,
       Mover
  <2>3. PageOf(old[c]) \in Pages /\ IS_LOCKED(version_lock[PageOf(old[c])])
    BY <1>UpdateUnlock, <1>old, <2>2 DEF UpdateUnlock, Exclusive, FreePcs, UpdatePcs
  <2>u. \A p \in Pages, d \in Clients : Holds(d, p)' =>
            Holds(d, p) /\ ~(d = c /\ p = PageOf(old[c]))
    BY <1>UpdateUnlock DEF UpdateUnlock, Holds, PageTypeOK, ClientOK, FreePcs, UpdatePcs,
       Mover
  <2> QED
    BY <1>UpdateUnlock, <1>types, <2>1, <2>2, <2>3, <2>u, WordReleased DEF Moved, UpdateUnlock
<1>UpdateClear. ASSUME UpdateClear(c) PROVE Moved
  <2>1. \A p \in Pages, d \in Clients : Holds(d, p) => Holds(d, p)'
    BY <1>UpdateClear DEF UpdateClear, Holds, PageTypeOK, ClientOK, FreePcs, UpdatePcs,
       Mover
  <2>u. \A p \in Pages, d \in Clients : Holds(d, p)' => Holds(d, p)
    BY <1>UpdateClear DEF UpdateClear, Holds, PageTypeOK, ClientOK, FreePcs, UpdatePcs,
       Mover
  <2> QED
    BY <1>UpdateClear, <2>1, <2>u, WordStays DEF Moved, UpdateClear
<1>UpdateSlow. ASSUME UpdateSlow(c) PROVE Moved
  <2>1. \A p \in Pages, d \in Clients : Holds(d, p) => Holds(d, p)'
    BY <1>UpdateSlow DEF UpdateSlow, Holds, PageTypeOK, ClientOK, FreePcs, UpdatePcs, Mover
  <2>u. \A p \in Pages, d \in Clients : Holds(d, p)' => Holds(d, p)
    BY <1>UpdateSlow DEF UpdateSlow, Holds, PageTypeOK, ClientOK, FreePcs, UpdatePcs, Mover
  <2> QED
    BY <1>UpdateSlow, <2>1, <2>u, WordStays DEF Moved, UpdateSlow
<1> QED
  BY <1>put, <1>remove, <1>update, <1>LockPage, <1>WriteRecord, <1>Resolve, <1>SamePage,
     <1>FreePublish, <1>FreeLock, <1>FreeGiveUp, <1>FreeQueue, <1>FreeWithdraw,
     <1>FreeRepublish, <1>FreeSlot, <1>FreeDequeue, <1>UnlockOld, <1>FreeClear,
     <1>UnlockPage, <1>Done, <1>UpdateMiss, <1>UpdatePublish, <1>UpdateLock, <1>UpdateBusy,
     <1>UpdateRetry, <1>UpdateApply, <1>UpdateUnlock, <1>UpdateClear, <1>UpdateSlow DEF
     Moved, ClientStep, free_occupied_slot, Updating

\* The client that finds the bit clear becomes the only holder, and the holder
\* that clears the bit was the only one.
LEMMA ClientKeepsExclusive ==
    ASSUME PageInv, Exclusive, NEW c \in Clients, \A p \in Pages : WordMoves(c, p)
    PROVE  Exclusive'
<1> SUFFICES ASSUME NEW p \in Pages, NEW e \in Clients, Holds(e, p)'
             PROVE  /\ IS_LOCKED(version_lock'[p])
                    /\ \A d \in Clients : Holds(d, p)' => d = e
  BY DEF Exclusive, IS_LOCKED
<1>1. version_lock[p] \in 0 .. USED_BIT - 1
  BY DEF PageInv, PageTypeOK
<1>2. \A d \in Clients : Holds(d, p) => /\ IS_LOCKED(version_lock[p])
                                       /\ \A f \in Clients : Holds(f, p) => f = d
  BY DEF Exclusive
<1>3. CASE /\ version_lock'[p] = version_lock[p]
           /\ \A d \in Clients : Holds(d, p)' <=> Holds(d, p)
  BY <1>2, <1>3
<1>4. CASE /\ ~IS_LOCKED(version_lock[p]) /\ version_lock'[p] = version_lock[p] + 1
           /\ Holds(c, p)' /\ \A d \in Clients \ {c} : Holds(d, p)' => Holds(d, p)
  <2>1. IS_LOCKED(version_lock'[p])
    BY <1>1, <1>4, LockedWord
  <2> QED
    BY <1>2, <1>4, <2>1
<1>5. CASE /\ IS_LOCKED(version_lock[p])
           /\ version_lock'[p] = (version_lock[p] + 1) % USED_BIT
           /\ Holds(c, p) /\ \A d \in Clients : Holds(d, p)' => Holds(d, p) /\ d # c
  BY <1>2, <1>5
<1> QED
  BY <1>3, <1>4, <1>5 DEF WordMoves

\* A client that takes a lock takes it for a word that no repair has loaded, as
\* long as the version does not come round, and one that releases a lock leaves
\* a word that no repair is about to unlock.
LEMMA ClientSparesRepairs ==
    ASSUME PageInv, NoLiveRepair, NoRepairLap, ~raced, NEW c \in Clients,
           \A p \in Pages : WordMoves(c, p),
           \A a \in Actors : repair'[a].at = "cas" => repair'[a] = repair[a]
    PROVE  NoLiveRepair'
<1> SUFFICES ASSUME NEW a \in Actors, repair'[a].at = "cas",
                    version_lock'[repair'[a].page] = repair'[a].lv
             PROVE  \A d \in Clients : ~Holds(d, repair[a].page)'
  BY DEF NoLiveRepair, Holders
<1> DEFINE p  == repair[a].page
           lv == repair[a].lv
<1>1. repair'[a] = repair[a]
  OBVIOUS
<1>2. p \in Pages /\ IS_LOCKED(lv)
  BY <1>1 DEF PageInv, RepairsOK
<1>3. version_lock[p] \in 0 .. USED_BIT - 1
  BY <1>2 DEF PageInv, PageTypeOK
<1>4. version_lock[p] = lv => \A d \in Clients : ~Holds(d, p)
  BY <1>1 DEF NoLiveRepair, Holders
<1>5. ~IS_LOCKED(version_lock[p]) => version_lock[p] + 1 # lv
  BY <1>1 DEF NoRepairLap
<1>6. version_lock'[p] = lv /\ WordMoves(c, p)
  BY <1>1, <1>2
<1> HIDE DEF p, lv
<1>7. \A d \in Clients : ~Holds(d, p)'
  <2>1. CASE /\ version_lock'[p] = version_lock[p]
             /\ \A d \in Clients : Holds(d, p)' <=> Holds(d, p)
    BY <1>4, <1>6, <2>1
  <2>2. CASE ~IS_LOCKED(version_lock[p]) /\ version_lock'[p] = version_lock[p] + 1
    BY <1>5, <1>6, <2>2
  <2>3. CASE /\ IS_LOCKED(version_lock[p])
             /\ version_lock'[p] = (version_lock[p] + 1) % USED_BIT
    BY <1>2, <1>3, <1>6, <2>3, UnlockedWord
  <2> QED
    BY <1>6, <2>1, <2>2, <2>3 DEF WordMoves
<1> QED
  BY <1>7 DEF p

\* A client or a reader begins a repair, and does no more to one.
LEMMA ClientBeginsRepair ==
    ASSUME PageInv, NEW c \in Clients,
           (\E k \in Keys : put(c, k) \/ remove(c, k) \/ update(c, k)) \/ ClientStep(c)
    PROVE  /\ \A a \in Actors : repair'[a].at = "cas" => repair'[a] = repair[a]
           /\ UNCHANGED raced
<1> USE DEF freeVars
<1>1. CASE FreeWithdraw(c) \/ UpdateRetry(c)
  <2>1. repair' = [repair EXCEPT ![c] = [at |-> "load", page |-> PageOf(old[c]), lv |-> 0]]
    BY <1>1 DEF FreeWithdraw, UpdateRetry, RepairBegin
  <2> QED
    BY <1>1, <2>1 DEF FreeWithdraw, UpdateRetry, PageInv, PageTypeOK
<1>2. CASE \E k \in Keys : put(c, k) \/ remove(c, k) \/ update(c, k)
  BY <1>2 DEF put, remove, update, Begin
<1>3. CASE free_occupied_slot(c) /\ ~FreeWithdraw(c)
  BY <1>3 DEF free_occupied_slot, SamePage, FreePublish, FreeLock, FreeGiveUp, FreeQueue,
     FreeRepublish, FreeSlot, FreeDequeue, UnlockOld, FreeClear
<1>4. CASE LockPage(c) \/ WriteRecord(c) \/ Resolve(c) \/ UnlockPage(c) \/ Done(c)
  BY <1>4 DEF LockPage, WriteRecord, Resolve, UnlockPage, Done
<1>5. CASE Updating(c) /\ ~UpdateRetry(c)
  BY <1>5 DEF Updating, UpdateMiss, UpdatePublish, UpdateLock, UpdateBusy, UpdateApply,
     UpdateUnlock, UpdateClear, UpdateSlow
<1> QED
  BY <1>1, <1>2, <1>3, <1>4, <1>5 DEF ClientStep

LEMMA ReaderBeginsRepair ==
    ASSUME PageInv, NEW r \in Readers, (\E k \in Keys : get(r, k)) \/ Reading(r)
    PROVE  \A a \in Actors : repair'[a].at = "cas" => repair'[a] = repair[a]
<1>1. CASE UNCHANGED repair
  BY <1>1
<1>2. CASE RepairBegin(r, PageOf(ROff(r)))
  <2>1. repair' = [repair EXCEPT ![r] = [at |-> "load", page |-> PageOf(ROff(r)), lv |-> 0]]
    BY <1>2 DEF RepairBegin
  <2> QED
    BY <2>1 DEF PageInv, PageTypeOK
<1> QED
  BY <1>1, <1>2 DEF Reading, get, ReadBit, ReadLocked, ReadVersion, ReadKey, ReadVal, ReadCheck,
     ReadReturn

\* A repair reaches its CAS only from a scan that has found the page in no
\* client's intents, and touches no other thread's repair.
LEMMA RepairReachesCAS ==
    ASSUME PageInv, NEW a \in Actors, hiom_try_repair_stale_lock(a)
    PROVE  /\ \A b \in Actors \ {a} : repair'[b] = repair[b]
           /\ repair'[a].at = "cas" => /\ ~hiom_lock_intent_registered(repair[a].page)
                                       /\ repair'[a].page = repair[a].page
                                       /\ UNCHANGED version_lock
<1>1. /\ repair[a] \in [at : {"none", "load", "scan", "load2", "scan2", "cas"},
                        page : Pages \cup {None}, lv : 0 .. USED_BIT - 1]
      /\ DOMAIN repair = Actors
  BY DEF PageInv, PageTypeOK
<1>2. ASSUME NEW from, NEW to \in {"scan", "scan2"}, RepairLoad(a, from, to)
      PROVE  /\ \A b \in Actors \ {a} : repair'[b] = repair[b]
             /\ repair'[a].at # "cas"
  BY <1>1, <1>2 DEF RepairLoad, RepairEnd, NoRepair, PageInv, PageTypeOK
<1>3. ASSUME NEW from, NEW to, RepairScan(a, from, to)
      PROVE  /\ \A b \in Actors \ {a} : repair'[b] = repair[b]
             /\ repair'[a].at = "cas" => /\ ~hiom_lock_intent_registered(repair[a].page)
                                         /\ repair'[a].page = repair[a].page
                                         /\ UNCHANGED version_lock
  <2>1. CASE RepairEnd(a)
    BY <1>1, <2>1 DEF RepairEnd, NoRepair, PageInv, PageTypeOK
  <2>2. CASE ~hiom_lock_intent_registered(repair[a].page) /\ RepairGoto(a, to)
    BY <1>1, <1>3, <2>2 DEF RepairScan, RepairGoto, PageInv, PageTypeOK
  <2> QED
    BY <1>3, <2>1, <2>2 DEF RepairScan
<1>4. ASSUME RepairCAS(a)
      PROVE  /\ \A b \in Actors \ {a} : repair'[b] = repair[b]
             /\ repair'[a].at # "cas"
  BY <1>1, <1>4 DEF RepairCAS, RepairEnd, NoRepair, PageInv, PageTypeOK
<1> QED
  BY <1>2, <1>3, <1>4 DEF hiom_try_repair_stale_lock, RepairRescan

\* A repair that succeeds unlocks a page no client holds, and one that reaches
\* its CAS has found no holder: a holder's intent is published.
LEMMA RepairSparesHolders ==
    ASSUME PageInv, Exclusive, NoLiveRepair, NEW a \in Actors, hiom_try_repair_stale_lock(a)
    PROVE  Exclusive' /\ NoLiveRepair'
<1>1. UNCHANGED clientVars
  BY RepairFrame
<1>2. \A p, d : Holds(d, p)' = Holds(d, p)
  BY <1>1 DEF clientVars, opVars, Holds
<1>3. /\ \A b \in Actors \ {a} : repair'[b] = repair[b]
      /\ repair'[a].at = "cas" => /\ ~hiom_lock_intent_registered(repair[a].page)
                                  /\ repair'[a].page = repair[a].page
                                  /\ UNCHANGED version_lock
  BY RepairReachesCAS
<1> DEFINE q == repair[a].page
<1>4. q \in Pages
  BY RepairMoves DEF PageInv
<1>5. \/ UNCHANGED version_lock
      \/ /\ version_lock' = [version_lock EXCEPT ![q] = @ - 1]
         /\ ~IS_LOCKED(version_lock'[q]) /\ \A d \in Clients : ~Holds(d, q)
  <2>1. CASE /\ repair[a].at = "cas" /\ version_lock[q] = repair[a].lv
             /\ version_lock' = [version_lock EXCEPT ![q] = @ - 1]
    <3>1. \A d \in Clients : ~Holds(d, q)
      BY <2>1 DEF NoLiveRepair, Holders
    <3>2. version_lock[q] \in 0 .. USED_BIT - 1 /\ IS_LOCKED(version_lock[q])
      BY <1>4, <2>1 DEF PageInv, PageTypeOK, RepairsOK
    <3>3. version_lock'[q] = version_lock[q] - 1
      BY <1>4, <2>1 DEF PageInv, PageTypeOK
    <3> QED
      BY <2>1, <3>1, <3>2, <3>3, RepairedWord
  <2> QED
    BY <2>1, RepairMoves DEF PageInv
<1>6. \A p \in Pages \ {q} : version_lock'[p] = version_lock[p]
  BY <1>5 DEF PageInv, PageTypeOK
<1>7. Exclusive'
  <2> SUFFICES ASSUME NEW p \in Pages, NEW d \in Clients, Holds(d, p)
               PROVE  /\ IS_LOCKED(version_lock'[p])
                      /\ \A e \in Clients : Holds(e, p) => e = d
    BY <1>2 DEF Exclusive, IS_LOCKED
  <2>1. version_lock'[p] = version_lock[p]
    BY <1>5, <1>6
  <2> QED
    BY <2>1 DEF Exclusive
<1>8. NoLiveRepair'
  <2> SUFFICES ASSUME NEW b \in Actors, repair'[b].at = "cas",
                      version_lock'[repair'[b].page] = repair'[b].lv
               PROVE  \A d \in Clients : ~Holds(d, repair'[b].page)
    BY <1>2 DEF NoLiveRepair, Holders
  <2>1. CASE b = a
    <3>1. ~hiom_lock_intent_registered(q) /\ repair'[b].page = q
      BY <1>3, <2>1
    <3>2. \A d \in Clients : Holds(d, q) => q \in lock_intents[d]
      BY DEF PageInv, Holds, IntentOK
    <3> QED
      BY <3>1, <3>2 DEF hiom_lock_intent_registered
  <2>2. CASE b # a
    <3>1. repair'[b] = repair[b]
      BY <1>3, <2>2
    <3>2. repair[b].page \in Pages /\ IS_LOCKED(repair[b].lv)
      BY <3>1 DEF PageInv, RepairsOK
    <3>3. version_lock'[repair[b].page] = version_lock[repair[b].page]
      BY <1>5, <1>6, <3>1, <3>2
    <3> QED
      BY <3>1, <3>3 DEF NoLiveRepair, Holders
  <2> QED
    BY <2>1, <2>2
<1> QED
  BY <1>7, <1>8

\* Until two repairs race, no step breaks a live lock.
LEMMA ExclusiveStep ==
    ASSUME PageInv, Exclusive, NoLiveRepair, NoRepairLap, ~raced, [Next]_vars
    PROVE  Exclusive' /\ NoLiveRepair'
<1>1. ASSUME NEW c \in Clients,
             (\E k \in Keys : put(c, k) \/ remove(c, k) \/ update(c, k)) \/ ClientStep(c)
      PROVE  Exclusive' /\ NoLiveRepair'
  BY <1>1, ClientMovesWords, ClientBeginsRepair, ClientKeepsExclusive, ClientSparesRepairs
<1>2. ASSUME NEW r \in Readers, (\E k \in Keys : get(r, k)) \/ Reading(r)
      PROVE  Exclusive' /\ NoLiveRepair'
  <2>1. UNCHANGED <<version_lock, clientVars>>
    BY <1>2, ReaderFrame
  <2>2. \A a \in Actors : repair'[a].at = "cas" => repair'[a] = repair[a]
    BY <1>2, ReaderBeginsRepair
  <2>3. \A p, d : Holds(d, p)' = Holds(d, p)
    BY <2>1 DEF clientVars, opVars, Holds
  <2>4. Exclusive'
    BY <2>1, <2>3 DEF Exclusive, IS_LOCKED
  <2>5. NoLiveRepair'
    BY <2>1, <2>2, <2>3 DEF NoLiveRepair, Holders
  <2> QED
    BY <2>4, <2>5
<1>3. CASE UNCHANGED vars
  BY <1>3 DEF vars, pmVars, opVars, Exclusive, NoLiveRepair, Holders, Holds, IS_LOCKED
<1> QED
  BY <1>1, <1>2, <1>3, RepairSparesHolders DEF Next

LEMMA ExclusiveInit == Init => Exclusive /\ NoLiveRepair
BY DEF Init, Exclusive, NoLiveRepair, NoRepair, Holds

\* Nothing clears raced.
LEMMA RacedStays ==
    ASSUME PageInv, [Next]_vars, raced
    PROVE  raced'
<1>1. CASE UNCHANGED vars
  BY <1>1 DEF vars, freeVars
<1> QED
  BY <1>1, ClientBeginsRepair, ReaderFrame, RepairMoves DEF Next, PageInv

-----------------------------------------------------------------------------
(* The records.                                                            *)

\* Client e is freeing x, or has just done so.
Frees(e, x) ==
    /\ Mover(e) /\ pc[e] \in {"samepage"} \cup FreePcs /\ old[e] = x
    /\ \/ SlotOf(x) \in free_slots[PageOf(x)]
       \/ data[PageOf(x)][SlotOf(x)].key = key[e]

\* When the slots F are freed that movers are freeing, the index and what puts
\* have written keep their records: a record has one key, and a key one mover.
LEMMA FreeSparesOthers ==
    ASSUME PageInv, Records, UNCHANGED <<data, index, opVars>>, NEW c \in Clients,
           pc[c] \in {"samepage"} \cup FreePcs, pc'[c] \notin {"lock", "write", "resolve"},
           \A d \in Clients \ {c} : pc'[d] = pc[d],
           NEW F \in SUBSET Offsets, \A x \in F : \E e \in Clients : Frees(e, x),
           \A x \in Offsets \ F : SlotOf(x) \in free_slots'[PageOf(x)]
                                  => SlotOf(x) \in free_slots[PageOf(x)]
    PROVE  /\ IndexIntact' /\ OneMover'
           /\ \A d \in Clients : NewIntact(d)'
           /\ \A x \in Offsets \ F, k \in Keys : HoldsKey(x, k) => HoldsKey(x, k)'
<1> USE DEF opVars
<1>1. \A x \in Offsets \ F, k \in Keys : HoldsKey(x, k) => HoldsKey(x, k)'
  BY DEF HoldsKey
<1>2. IndexIntact'
  <2> SUFFICES ASSUME NEW k \in Keys, index[k] # None,
                      \A d \in Clients : Mover(d) /\ key[d] = k
                                         => pc'[d] \in {"lock", "write", "resolve"}
               PROVE  HoldsKey(index[k], k)'
    BY DEF IndexIntact, Mover, HoldsKey
  <2>1. \A d \in Clients : Mover(d) /\ key[d] = k => d # c /\ pc[d] \in {"lock", "write", "resolve"}
    OBVIOUS
  <2>2. HoldsKey(index[k], k)
    BY <2>1 DEF Records, IndexIntact
  <2>3. index[k] \in Offsets
    BY DEF PageInv, PageTypeOK
  <2>4. ASSUME index[k] \in F PROVE FALSE
    <3>1. PICK e \in Clients : Frees(e, index[k])
      BY <2>4
    <3>2. key[e] = k /\ Mover(e) /\ pc[e] \in {"samepage"} \cup FreePcs
      BY <2>2, <3>1 DEF Frees, HoldsKey
    <3> QED
      BY <2>1, <3>2 DEF FreePcs
  <2> QED
    BY <1>1, <2>2, <2>3, <2>4
<1>3. OneMover'
  BY DEF Records, OneMover, Mover
<1>4. ASSUME NEW d \in Clients PROVE NewIntact(d)'
  <2> SUFFICES ASSUME op[d] = "put", pc'[d] \notin {"lock", "write"}
               PROVE  /\ new[d] \in Offsets /\ new[d] # None /\ HoldsKey(new[d], key[d])'
                      /\ index[key[d]] # None => new[d] # index[key[d]]
    BY DEF NewIntact, HoldsKey
  <2>1. pc[d] \notin {"lock", "write"}
    BY DEF FreePcs
  <2>2. /\ new[d] \in Offsets /\ new[d] # None /\ HoldsKey(new[d], key[d])
        /\ index[key[d]] # None => new[d] # index[key[d]]
    BY <2>1 DEF Records, NewIntact
  <2>3. key[d] \in Keys
    BY DEF PageInv, ClientOK
  <2>4. ASSUME new[d] \in F PROVE FALSE
    <3>1. PICK e \in Clients : Frees(e, new[d])
      BY <2>4
    <3>2. key[e] = key[d] /\ Mover(e) /\ Mover(d)
      BY <2>2, <3>1 DEF Frees, HoldsKey, Mover
    <3>3. e = d
      BY <3>2 DEF Records, OneMover
    <3>4. old[d] = index[key[d]] /\ old[d] # None /\ old[d] = new[d]
      BY <3>1, <3>3 DEF Frees, Records, OldIntact, PageInv, ClientOK
    <3> QED
      BY <2>2, <3>4
  <2> QED
    BY <1>1, <2>2, <2>3, <2>4
<1> QED
  BY <1>1, <1>2, <1>3, <1>4

LEMMA ClientKeepsRecords ==
    ASSUME PageInv, Exclusive, Records, ~refreed', NEW c \in Clients,
           (\E k \in Keys : put(c, k) \/ remove(c, k) \/ update(c, k)) \/ ClientStep(c)
    PROVE  Records'
<1> USE DEF PageInv, Records, At, Goto, pmVars, sharedVars, opVars, freeVars, readerVars
<1> c \in Pages
  BY DEF Pages
<1>old. pc[c] \in {"samepage"} \cup FreePcs \cup UpdatePcs =>
            PageOf(old[c]) \in Pages /\ SlotOf(old[c]) \in Slots
  BY DEF ClientOK, Offsets, PageOf, SlotOf
<1>put. ASSUME NEW k \in Keys, put(c, k) PROVE Records'
  <2>x. IndexIntact'
    BY <1>put DEF put, Begin, Moving, PageTypeOK, ClientOK, FreePcs, UpdatePcs, Mover,
       HoldsKey, IndexIntact
  <2>m. OneMover'
    BY <1>put DEF put, Begin, Moving, PageTypeOK, ClientOK, FreePcs, UpdatePcs, Mover,
       HoldsKey, OneMover
  <2>o. \A d \in Clients : OldIntact(d)'
    BY <1>put DEF put, Begin, Moving, PageTypeOK, ClientOK, FreePcs, UpdatePcs, Mover,
       HoldsKey, OldIntact
  <2>n. \A d \in Clients : NewIntact(d)'
    BY <1>put DEF put, Begin, Moving, PageTypeOK, ClientOK, FreePcs, UpdatePcs, Mover,
       HoldsKey, NewIntact
  <2> QED
    BY <2>x, <2>m, <2>o, <2>n
<1>remove. ASSUME NEW k \in Keys, remove(c, k) PROVE Records'
  <2>x. IndexIntact'
    BY <1>remove DEF remove, Begin, Moving, PageTypeOK, ClientOK, FreePcs, UpdatePcs, Mover,
       HoldsKey, IndexIntact
  <2>m. OneMover'
    BY <1>remove DEF remove, Begin, Moving, PageTypeOK, ClientOK, FreePcs, UpdatePcs, Mover,
       HoldsKey, OneMover
  <2>o. \A d \in Clients : OldIntact(d)'
    BY <1>remove DEF remove, Begin, Moving, PageTypeOK, ClientOK, FreePcs, UpdatePcs, Mover,
       HoldsKey, OldIntact
  <2>n. \A d \in Clients : NewIntact(d)'
    BY <1>remove DEF remove, Begin, Moving, PageTypeOK, ClientOK, FreePcs, UpdatePcs, Mover,
       HoldsKey, NewIntact
  <2> QED
    BY <2>x, <2>m, <2>o, <2>n
<1>update. ASSUME NEW k \in Keys, update(c, k) PROVE Records'
  <2>x. IndexIntact'
    BY <1>update DEF update, Begin, PageTypeOK, ClientOK, FreePcs, UpdatePcs, Mover,
       HoldsKey, IndexIntact
  <2>m. OneMover'
    BY <1>update DEF update, Begin, PageTypeOK, ClientOK, FreePcs, UpdatePcs, Mover,
       HoldsKey, OneMover
  <2>o. \A d \in Clients : OldIntact(d)'
    BY <1>update DEF update, Begin, PageTypeOK, ClientOK, FreePcs, UpdatePcs, Mover,
       HoldsKey, OldIntact
  <2>n. \A d \in Clients : NewIntact(d)'
    BY <1>update DEF update, Begin, PageTypeOK, ClientOK, FreePcs, UpdatePcs, Mover,
       HoldsKey, NewIntact
  <2> QED
    BY <2>x, <2>m, <2>o, <2>n
<1>LockPage. ASSUME LockPage(c) PROVE Records'
  <2>x. IndexIntact'
    BY <1>LockPage DEF LockPage, PageTypeOK, ClientOK, FreePcs, UpdatePcs, Mover, HoldsKey,
       IndexIntact
  <2>m. OneMover'
    BY <1>LockPage DEF LockPage, PageTypeOK, ClientOK, FreePcs, UpdatePcs, Mover, HoldsKey,
       OneMover
  <2>o. \A d \in Clients : OldIntact(d)'
    BY <1>LockPage DEF LockPage, PageTypeOK, ClientOK, FreePcs, UpdatePcs, Mover, HoldsKey,
       OldIntact
  <2>n. \A d \in Clients : NewIntact(d)'
    BY <1>LockPage DEF LockPage, PageTypeOK, ClientOK, FreePcs, UpdatePcs, Mover, HoldsKey,
       NewIntact
  <2> QED
    BY <2>x, <2>m, <2>o, <2>n
<1>WriteRecord. ASSUME WriteRecord(c) PROVE Records'
  <2>1. /\ pc[c] = "write" /\ op[c] = "put" /\ key[c] \in Keys
        /\ free_slots[c] # {} /\ free_slots[c] \in SUBSET Slots
    BY <1>WriteRecord DEF WriteRecord, PageTypeOK, ClientOK
  <2>2. PICK s \in Slots :
            /\ s \in free_slots[c]
            /\ data' = [data EXCEPT ![c][s] = [key |-> key[c], val |-> key[c]]]
            /\ free_slots' = [free_slots EXCEPT ![c] = @ \ {s}]
            /\ new' = [new EXCEPT ![c] = <<c, s>>]
    BY <1>WriteRecord, <2>1, MinIsMember DEF WriteRecord
  <2>3. /\ pc'[c] = "resolve" /\ \A d \in Clients \ {c} : pc'[d] = pc[d] /\ new'[d] = new[d]
        /\ new'[c] = <<c, s>>
        /\ UNCHANGED <<index, op, key, old, drained>>
    BY <1>WriteRecord, <2>2 DEF WriteRecord, PageTypeOK
  <2>4. /\ \A x \in Offsets : x # <<c, s>> =>
               /\ data'[PageOf(x)][SlotOf(x)] = data[PageOf(x)][SlotOf(x)]
               /\ SlotOf(x) \in free_slots'[PageOf(x)] <=> SlotOf(x) \in free_slots[PageOf(x)]
        /\ data'[c][s].key = key[c] /\ s \notin free_slots'[c]
    BY <2>2 DEF PageTypeOK, Offsets, PageOf, SlotOf
  <2>5. <<c, s>> \in Offsets /\ PageOf(<<c, s>>) = c /\ SlotOf(<<c, s>>) = s
    BY DEF Offsets, PageOf, SlotOf
  <2>6. HoldsKey(<<c, s>>, key[c])' /\ \A k \in Keys : ~HoldsKey(<<c, s>>, k)
    BY <2>2, <2>3, <2>4, <2>5 DEF HoldsKey
  <2>7. \A x \in Offsets, k \in Keys : HoldsKey(x, k) => HoldsKey(x, k)' /\ x # <<c, s>>
    BY <2>4, <2>6 DEF HoldsKey
  <2>8. IndexIntact'
    <3> SUFFICES ASSUME NEW k \in Keys, index[k] # None,
                        \A d \in Clients : Mover(d) /\ key[d] = k
                                           => pc'[d] \in {"lock", "write", "resolve"}
                 PROVE  HoldsKey(index[k], k)'
      BY <2>3 DEF IndexIntact, Mover, HoldsKey
    <3>1. HoldsKey(index[k], k)
      BY <2>1, <2>3 DEF IndexIntact
    <3> QED
      BY <2>3, <2>7, <3>1 DEF PageTypeOK
  <2>9. OneMover'
    BY <2>3 DEF OneMover, Mover
  <2>10. ASSUME NEW d \in Clients PROVE OldIntact(d)'
    <3>1. CASE d = c
      BY <2>3, <3>1 DEF OldIntact, FreePcs
    <3>2. CASE d # c
      <4>1. pc'[d] = pc[d]
        BY <2>3, <3>2
      \* A client that has freed a slot and not unlocked the page keeps c out.
      <4>2. pc[d] = "dequeue" => old[d] # <<c, s>>
        <5> SUFFICES ASSUME pc[d] = "dequeue", old[d] = <<c, s>> PROVE FALSE
          OBVIOUS
        <5>1. Holds(d, c) /\ Holds(c, c)
          BY <2>1, <2>5 DEF Holds
        <5> QED
          BY <3>2, <5>1 DEF Exclusive
      <4>3. pc[d] \in {"samepage"} \cup FreePcs => old[d] \in Offsets /\ key[d] \in Keys
        BY DEF ClientOK, FreePcs
      <4> QED
        BY <2>3, <2>4, <2>7, <4>1, <4>2, <4>3 DEF OldIntact, FreePcs
    <3> QED
      BY <3>1, <3>2
  <2>11. ASSUME NEW d \in Clients PROVE NewIntact(d)'
    <3>1. CASE d = c
      <4>1. index[key[c]] # None => HoldsKey(index[key[c]], key[c])
        BY <2>1 DEF IndexIntact, OneMover, Mover
      <4>2. index[key[c]] # None => index[key[c]] # <<c, s>>
        BY <2>1, <2>6, <4>1
      <4>3. <<c, s>> # None
        BY DEF None
      <4> QED
        BY <2>3, <2>5, <2>6, <3>1, <4>2, <4>3 DEF NewIntact, HoldsKey
    <3>2. CASE d # c
      <4>1. pc'[d] = pc[d] /\ new'[d] = new[d]
        BY <2>3, <3>2
      <4> QED
        BY <2>3, <2>7, <4>1 DEF NewIntact, ClientOK
    <3> QED
      BY <3>1, <3>2
  <2> QED
    BY <2>8, <2>9, <2>10, <2>11
<1>Resolve. ASSUME Resolve(c) PROVE Records'
  <2>x. IndexIntact'
    <3>1. /\ pc[c] = "resolve" /\ pc' = [pc EXCEPT ![c] = pc'[c]]
          /\ pc'[c] \notin {"lock", "write", "resolve"}
          /\ UNCHANGED <<free_slots, data, index, op, key>>
      BY <1>Resolve DEF Resolve, AfterFree, PageTypeOK
    <3>2. \A k \in Keys, d \in Clients :
              /\ Mover(d) /\ key[d] = k => pc'[d] \in {"lock", "write", "resolve"}
              => (Mover(d) /\ key[d] = k => pc[d] \in {"lock", "write", "resolve"})
      BY <3>1 DEF PageTypeOK
    <3> QED
      BY <3>1, <3>2 DEF IndexIntact, Mover, HoldsKey
  <2>m. OneMover'
    BY <1>Resolve DEF Resolve, AfterFree, PageTypeOK, ClientOK, FreePcs, UpdatePcs, Mover,
       HoldsKey, OneMover
  <2>o. \A d \in Clients : OldIntact(d)'
    <3>1. /\ pc[c] = "resolve" /\ pc' = [pc EXCEPT ![c] = pc'[c]]
          /\ old' = [old EXCEPT ![c] = old'[c]]
          /\ UNCHANGED <<free_slots, data, index, op, key, drained>>
      BY <1>Resolve DEF Resolve, PageTypeOK
    <3>2. pc'[c] \in {"samepage", "publish"} =>
              old'[c] = index[key[c]] /\ HoldsKey(index[key[c]], key[c])
      BY <1>Resolve DEF Resolve, AfterFree, Resolved, Readable, HoldsKey, PageTypeOK
    <3>3. pc'[c] \in {"samepage", "publish", "unlock", "done"}
      BY <1>Resolve DEF Resolve, AfterFree, PageTypeOK
    <3> SUFFICES ASSUME NEW d \in Clients PROVE OldIntact(d)'
      OBVIOUS
    <3>4. CASE d = c
      BY <3>1, <3>2, <3>3, <3>4 DEF OldIntact, FreePcs, HoldsKey
    <3>5. CASE d # c
      <4>1. pc'[d] = pc[d] /\ old'[d] = old[d]
        BY <3>1, <3>5 DEF PageTypeOK
      <4> QED
        BY <3>1, <4>1 DEF OldIntact, HoldsKey
    <3> QED
      BY <3>4, <3>5
  <2>n. \A d \in Clients : NewIntact(d)'
    BY <1>Resolve, SMTT(30) DEF Resolve, AfterFree, PageTypeOK, ClientOK, FreePcs, UpdatePcs,
       Mover, HoldsKey, NewIntact
  <2> QED
    BY <2>x, <2>m, <2>o, <2>n
<1>SamePage. ASSUME SamePage(c) PROVE Records'
  <2>1. /\ pc[c] = "samepage" /\ pc' = [pc EXCEPT ![c] = AfterFree(c)]
        /\ UNCHANGED <<data, index, opVars, drained>>
        /\ invalidate_records(c, {SlotOf(old[c])}, BesideHolder(c))
    BY <1>SamePage DEF SamePage
  <2>2. /\ old[c] \in Offsets /\ PageOf(old[c]) = c /\ SlotOf(old[c]) \in Slots
        /\ Mover(c) /\ key[c] \in Keys /\ HoldsKey(old[c], key[c])
    BY <2>1, <1>old DEF ClientOK, OldIntact
  <2>3. /\ Frees(c, old[c])
        /\ \A d \in Clients \ {c} : pc'[d] = pc[d]
        /\ pc'[c] \in {"unlock", "done"}
    BY <2>1, <2>2 DEF Frees, HoldsKey, AfterFree, PageTypeOK
  <2>4. \A x \in Offsets : SlotOf(x) \in free_slots'[PageOf(x)] =>
            SlotOf(x) \in free_slots[PageOf(x)] \/ x = old[c]
    <3>1. /\ \A q \in Pages : q # c => free_slots'[q] = free_slots[q]
          /\ free_slots'[c] \subseteq free_slots[c] \cup {SlotOf(old[c])}
      <4>1. {SlotOf(old[c])} \in SUBSET Slots /\ free_slots \in [Pages -> SUBSET Slots]
        BY <2>2 DEF PageTypeOK
      <4> QED
        BY <2>1, <2>2, <4>1, InvalidateFrees
    <3> QED
      BY <2>2, <3>1 DEF Offsets, PageOf, SlotOf
  <2>5. /\ IndexIntact' /\ OneMover' /\ \A d \in Clients : NewIntact(d)'
        /\ \A x \in Offsets \ {old[c]}, k \in Keys : HoldsKey(x, k) => HoldsKey(x, k)'
    <3>1. {old[c]} \in SUBSET Offsets
      BY <2>2
    <3>2. \A x \in {old[c]} : \E e \in Clients : Frees(e, x)
      BY <2>3
    <3>3. \A x \in Offsets \ {old[c]} : SlotOf(x) \in free_slots'[PageOf(x)]
                                        => SlotOf(x) \in free_slots[PageOf(x)]
      BY <2>4
    <3>4. pc[c] \in {"samepage"} \cup FreePcs /\ pc'[c] \notin {"lock", "write", "resolve"}
      BY <2>1, <2>3 DEF FreePcs
    <3>5. UNCHANGED <<data, index, opVars>> /\ \A d \in Clients \ {c} : pc'[d] = pc[d]
      BY <2>1, <2>3
    <3> HIDE DEF PageInv, Records
    <3> QED
      BY <3>1, <3>2, <3>3, <3>4, <3>5, FreeSparesOthers
  <2>6. \A q \in Pages : free_slots[q] \subseteq free_slots'[q]
    BY <2>1, <2>2, InvalidateFrees DEF PageTypeOK
  <2>7. ASSUME NEW d \in Clients PROVE OldIntact(d)'
    <3>1. CASE d = c
      BY <2>3, <3>1 DEF OldIntact, FreePcs
    <3>2. CASE d # c
      <4>1. HoldsKey(old[d], key[d]) /\ Mover(d) => old[d] # old[c]
        BY <2>2, <3>2 DEF HoldsKey, OneMover
      <4> QED
        BY <2>1, <2>3, <2>5, <2>6, <3>2, <4>1 DEF OldIntact, ClientOK, FreePcs, Offsets,
           PageOf, Mover
    <3> QED
      BY <3>1, <3>2
  <2> QED
    BY <2>5, <2>7
<1>FreePublish. ASSUME FreePublish(c) PROVE Records'
  <2>x. IndexIntact'
    BY <1>FreePublish DEF FreePublish, PageTypeOK, ClientOK, FreePcs, UpdatePcs, Mover,
       HoldsKey, IndexIntact
  <2>m. OneMover'
    BY <1>FreePublish DEF FreePublish, PageTypeOK, ClientOK, FreePcs, UpdatePcs, Mover,
       HoldsKey, OneMover
  <2>o. \A d \in Clients : OldIntact(d)'
    BY <1>FreePublish DEF FreePublish, PageTypeOK, ClientOK, FreePcs, UpdatePcs, Mover,
       HoldsKey, OldIntact
  <2>n. \A d \in Clients : NewIntact(d)'
    BY <1>FreePublish DEF FreePublish, PageTypeOK, ClientOK, FreePcs, UpdatePcs, Mover,
       HoldsKey, NewIntact
  <2> QED
    BY <2>x, <2>m, <2>o, <2>n
<1>FreeLock. ASSUME FreeLock(c) PROVE Records'
  <2>x. IndexIntact'
    BY <1>FreeLock DEF FreeLock, PageTypeOK, ClientOK, FreePcs, UpdatePcs, Mover, HoldsKey,
       IndexIntact
  <2>m. OneMover'
    BY <1>FreeLock DEF FreeLock, PageTypeOK, ClientOK, FreePcs, UpdatePcs, Mover, HoldsKey,
       OneMover
  <2>o. \A d \in Clients : OldIntact(d)'
    BY <1>FreeLock DEF FreeLock, PageTypeOK, ClientOK, FreePcs, UpdatePcs, Mover, HoldsKey,
       OldIntact
  <2>n. \A d \in Clients : NewIntact(d)'
    BY <1>FreeLock DEF FreeLock, PageTypeOK, ClientOK, FreePcs, UpdatePcs, Mover, HoldsKey,
       NewIntact
  <2> QED
    BY <2>x, <2>m, <2>o, <2>n
<1>FreeGiveUp. ASSUME FreeGiveUp(c) PROVE Records'
  <2>x. IndexIntact'
    BY <1>FreeGiveUp DEF FreeGiveUp, PageTypeOK, ClientOK, FreePcs, UpdatePcs, Mover,
       HoldsKey, IndexIntact
  <2>m. OneMover'
    BY <1>FreeGiveUp DEF FreeGiveUp, PageTypeOK, ClientOK, FreePcs, UpdatePcs, Mover,
       HoldsKey, OneMover
  <2>o. \A d \in Clients : OldIntact(d)'
    BY <1>FreeGiveUp DEF FreeGiveUp, PageTypeOK, ClientOK, FreePcs, UpdatePcs, Mover,
       HoldsKey, OldIntact
  <2>n. \A d \in Clients : NewIntact(d)'
    BY <1>FreeGiveUp DEF FreeGiveUp, PageTypeOK, ClientOK, FreePcs, UpdatePcs, Mover,
       HoldsKey, NewIntact
  <2> QED
    BY <2>x, <2>m, <2>o, <2>n
<1>FreeQueue. ASSUME FreeQueue(c) PROVE Records'
  <2> DEFINE all  == deadlock_offsets \cup (IF queued[c] THEN {} ELSE {old[c]})
             mine == {x \in all : PageOf(x) = c}
  <2>1. /\ pc[c] = "queue" /\ pc' = [pc EXCEPT ![c] = "withdraw"]
        /\ Drain(mine)
        /\ UNCHANGED <<data, index, opVars>>
        /\ invalidate_records(c, {SlotOf(x) : x \in mine}, BesideHolder(c))
    BY <1>FreeQueue DEF FreeQueue
  <2>2. /\ old[c] \in Offsets /\ PageOf(old[c]) # c /\ old[c] \notin mine
        /\ Mover(c) /\ key[c] \in Keys
    BY <2>1 DEF ClientOK, FreePcs
  <2>3. mine \subseteq deadlock_offsets /\ mine \in SUBSET Offsets
    BY <2>2 DEF PageTypeOK
  <2>4. \A x \in mine : \E e \in Clients : Frees(e, x) /\ queued[e] /\ pc[e] # "samepage"
    <3> SUFFICES ASSUME NEW x \in mine
                 PROVE  \E e \in Clients : Frees(e, x) /\ queued[e] /\ pc[e] # "samepage"
      OBVIOUS
    <3>1. PICK e \in Clients : Waits(e, x)
      BY <2>3 DEF QueueOK
    <3>2. old[e] = x /\ queued[e] /\ pc[e] \in FreePcs /\ pc[e] # "publish"
      BY <3>1 DEF Waits, FreePcs
    <3>3. \/ SlotOf(x) \in free_slots[PageOf(x)]
          \/ data[PageOf(x)][SlotOf(x)].key = key[e]
      BY <2>3, <3>1, <3>2 DEF OldIntact, HoldsKey, Waits
    <3> QED
      BY <3>2, <3>3 DEF Frees, ClientOK
  <2>5. /\ \A q \in Pages : free_slots[q] \subseteq free_slots'[q]
        /\ \A q \in Pages : q # c => free_slots'[q] = free_slots[q]
        /\ free_slots'[c] \subseteq free_slots[c] \cup {SlotOf(x) : x \in mine}
    <3>1. {SlotOf(x) : x \in mine} \in SUBSET Slots /\ free_slots \in [Pages -> SUBSET Slots]
      BY <2>3 DEF PageTypeOK, Offsets, SlotOf
    <3> HIDE DEF all, mine
    <3> QED
      BY <2>1, <3>1, InvalidateFrees
  <2>6. \A x \in Offsets \ mine : SlotOf(x) \in free_slots'[PageOf(x)]
                                  => SlotOf(x) \in free_slots[PageOf(x)]
    <3> SUFFICES ASSUME NEW x \in Offsets, x \notin mine, SlotOf(x) \in free_slots'[PageOf(x)],
                        SlotOf(x) \notin free_slots[PageOf(x)]
                 PROVE  FALSE
      OBVIOUS
    <3>1. PageOf(x) = c
      BY <2>5 DEF Offsets, PageOf
    <3>2. PICK y \in mine : SlotOf(y) = SlotOf(x)
      BY <2>5, <3>1
    <3>3. y \in Offsets /\ PageOf(y) = c
      BY <2>3
    <3>4. x = y
      BY <3>1, <3>2, <3>3 DEF Offsets, PageOf, SlotOf
    <3> QED
      BY <3>4
  <2>7. /\ IndexIntact' /\ OneMover' /\ \A d \in Clients : NewIntact(d)'
        /\ \A x \in Offsets \ mine, k \in Keys : HoldsKey(x, k) => HoldsKey(x, k)'
    <3>1. pc[c] \in {"samepage"} \cup FreePcs /\ pc'[c] \notin {"lock", "write", "resolve"}
      BY <2>1 DEF FreePcs, PageTypeOK
    <3>2. UNCHANGED <<data, index, opVars>> /\ \A d \in Clients \ {c} : pc'[d] = pc[d]
      BY <2>1 DEF PageTypeOK
    <3>3. \A x \in mine : \E e \in Clients : Frees(e, x)
      BY <2>4
    <3> HIDE DEF PageInv, Records, all, mine
    <3> QED
      BY <2>3, <2>6, <3>1, <3>2, <3>3, FreeSparesOthers
  <2>8. ASSUME NEW d \in Clients PROVE OldIntact(d)'
    <3>1. drained'[d] = (drained[d] \/ (queued[d] /\ old[d] \in mine))
      BY <2>1 DEF Drain
    <3>2. CASE d = c
      <4>1. pc'[c] = "withdraw"
        BY <2>1 DEF PageTypeOK
      <4>2. ~drained[c] => HoldsKey(old[c], key[c])
        BY <2>1 DEF OldIntact
      <4>3. old[c] = index[key[c]]
        BY <2>1 DEF OldIntact, FreePcs
      <4>4. HoldsKey(old[c], key[c]) => HoldsKey(old[c], key[c])'
        <5> HIDE DEF mine
        <5> QED
          BY <2>1, <2>2, <2>7
      <4> QED
        BY <2>1, <3>1, <3>2, <4>1, <4>2, <4>3, <4>4 DEF OldIntact, HoldsKey
    <3>3. CASE d # c
      <4>1. pc'[d] = pc[d]
        BY <2>1, <3>3 DEF PageTypeOK
      <4>2. Mover(d) /\ HoldsKey(old[d], key[d]) /\ old[d] \in mine
            => queued[d] /\ pc[d] # "samepage"
        <5> SUFFICES ASSUME Mover(d), HoldsKey(old[d], key[d]), old[d] \in mine
                     PROVE  queued[d] /\ pc[d] # "samepage"
          OBVIOUS
        <5>1. PICK e \in Clients : Frees(e, old[d]) /\ queued[e] /\ pc[e] # "samepage"
          BY <2>4
        <5>2. key[e] = key[d] /\ Mover(e)
          BY <5>1 DEF Frees, HoldsKey
        <5>3. e = d
          BY <5>2 DEF OneMover
        <5> QED
          BY <5>1, <5>3
      <4>3. pc[d] \in {"samepage"} \cup FreePcs => Mover(d) /\ old[d] \in Offsets /\ key[d] \in Keys
        BY DEF ClientOK, FreePcs
      <4>4. pc[d] \in {"samepage"} \cup FreePcs /\ ~drained'[d] /\ HoldsKey(old[d], key[d])
            => HoldsKey(old[d], key[d])'
        <5> HIDE DEF mine
        <5> QED
          BY <2>1, <2>7, <3>1, <4>2, <4>3
      <4>5. pc[d] = "samepage" /\ HoldsKey(old[d], key[d]) => HoldsKey(old[d], key[d])'
        <5> HIDE DEF mine
        <5> QED
          BY <2>1, <2>7, <4>2, <4>3
      <4>6. pc[d] = "dequeue" => PageOf(old[d]) \in Pages
        BY <4>3 DEF FreePcs, Offsets, PageOf
      <4> QED
        BY <2>1, <2>5, <3>1, <4>1, <4>4, <4>5, <4>6 DEF OldIntact, FreePcs
    <3> QED
      BY <3>2, <3>3
  <2> QED
    BY <2>7, <2>8
<1>FreeWithdraw. ASSUME FreeWithdraw(c) PROVE Records'
  <2>x. IndexIntact'
    BY <1>FreeWithdraw DEF FreeWithdraw, PageTypeOK, ClientOK, FreePcs, UpdatePcs, Mover,
       HoldsKey, IndexIntact
  <2>m. OneMover'
    BY <1>FreeWithdraw DEF FreeWithdraw, PageTypeOK, ClientOK, FreePcs, UpdatePcs, Mover,
       HoldsKey, OneMover
  <2>o. \A d \in Clients : OldIntact(d)'
    BY <1>FreeWithdraw DEF FreeWithdraw, PageTypeOK, ClientOK, FreePcs, UpdatePcs, Mover,
       HoldsKey, OldIntact
  <2>n. \A d \in Clients : NewIntact(d)'
    BY <1>FreeWithdraw DEF FreeWithdraw, PageTypeOK, ClientOK, FreePcs, UpdatePcs, Mover,
       HoldsKey, NewIntact
  <2> QED
    BY <2>x, <2>m, <2>o, <2>n
<1>FreeRepublish. ASSUME FreeRepublish(c) PROVE Records'
  <2>x. IndexIntact'
    BY <1>FreeRepublish DEF FreeRepublish, PageTypeOK, ClientOK, FreePcs, UpdatePcs, Mover,
       HoldsKey, IndexIntact
  <2>m. OneMover'
    BY <1>FreeRepublish DEF FreeRepublish, PageTypeOK, ClientOK, FreePcs, UpdatePcs, Mover,
       HoldsKey, OneMover
  <2>o. \A d \in Clients : OldIntact(d)'
    BY <1>FreeRepublish DEF FreeRepublish, PageTypeOK, ClientOK, FreePcs, UpdatePcs, Mover,
       HoldsKey, OldIntact
  <2>n. \A d \in Clients : NewIntact(d)'
    BY <1>FreeRepublish DEF FreeRepublish, PageTypeOK, ClientOK, FreePcs, UpdatePcs, Mover,
       HoldsKey, NewIntact
  <2> QED
    BY <2>x, <2>m, <2>o, <2>n
<1>FreeSlot. ASSUME FreeSlot(c) PROVE Records'
  <2>1. /\ pc[c] = "free"
        /\ pc' = [pc EXCEPT ![c] = IF queued[c] /\ seen[c] THEN "dequeue" ELSE "unlockold"]
        /\ UNCHANGED <<data, index, opVars, drained>>
        /\ invalidate_records(PageOf(old[c]), {SlotOf(old[c])}, BesideRemove(PageOf(old[c])))
    BY <1>FreeSlot DEF FreeSlot
  <2>2. /\ old[c] \in Offsets /\ PageOf(old[c]) \in Pages /\ SlotOf(old[c]) \in Slots
        /\ Mover(c) /\ key[c] \in Keys /\ HoldsKey(old[c], key[c])
    <3>1. ~drained[c]
      BY <1>FreeSlot DEF FreeSlot
    <3> QED
      BY <2>1, <3>1, <1>old DEF ClientOK, OldIntact, FreePcs
  <2>3. /\ Frees(c, old[c])
        /\ \A d \in Clients \ {c} : pc'[d] = pc[d]
        /\ pc'[c] \in {"dequeue", "unlockold"}
    BY <2>1, <2>2 DEF Frees, HoldsKey, FreePcs, PageTypeOK
  <2>4. \A x \in Offsets : SlotOf(x) \in free_slots'[PageOf(x)] =>
            SlotOf(x) \in free_slots[PageOf(x)] \/ x = old[c]
    <3>1. /\ \A q \in Pages : q # PageOf(old[c]) => free_slots'[q] = free_slots[q]
          /\ free_slots'[PageOf(old[c])] \subseteq free_slots[PageOf(old[c])] \cup {SlotOf(old[c])}
      <4>1. {SlotOf(old[c])} \in SUBSET Slots /\ free_slots \in [Pages -> SUBSET Slots]
        BY <2>2 DEF PageTypeOK
      <4> QED
        BY <2>1, <2>2, <4>1, InvalidateFrees
    <3> QED
      BY <2>2, <3>1 DEF Offsets, PageOf, SlotOf
  <2>5. /\ IndexIntact' /\ OneMover' /\ \A d \in Clients : NewIntact(d)'
        /\ \A x \in Offsets \ {old[c]}, k \in Keys : HoldsKey(x, k) => HoldsKey(x, k)'
    <3>1. {old[c]} \in SUBSET Offsets
      BY <2>2
    <3>2. \A x \in {old[c]} : \E e \in Clients : Frees(e, x)
      BY <2>3
    <3>3. \A x \in Offsets \ {old[c]} : SlotOf(x) \in free_slots'[PageOf(x)]
                                        => SlotOf(x) \in free_slots[PageOf(x)]
      BY <2>4
    <3>4. pc[c] \in {"samepage"} \cup FreePcs /\ pc'[c] \notin {"lock", "write", "resolve"}
      BY <2>1, <2>3 DEF FreePcs
    <3>5. UNCHANGED <<data, index, opVars>> /\ \A d \in Clients \ {c} : pc'[d] = pc[d]
      BY <2>1, <2>3
    <3> HIDE DEF PageInv, Records
    <3> QED
      BY <3>1, <3>2, <3>3, <3>4, <3>5, FreeSparesOthers
  <2>6. \A q \in Pages : free_slots[q] \subseteq free_slots'[q]
    BY <2>1, <2>2, InvalidateFrees DEF PageTypeOK
  <2>7. ASSUME NEW d \in Clients PROVE OldIntact(d)'
    <3>1. CASE d = c
      BY <2>1, <2>2, <2>3, <3>1 DEF OldIntact, FreePcs, HoldsKey
    <3>2. CASE d # c
      <4>1. HoldsKey(old[d], key[d]) /\ Mover(d) => old[d] # old[c]
        BY <2>2, <3>2 DEF HoldsKey, OneMover
      <4> QED
        BY <2>1, <2>3, <2>5, <2>6, <3>2, <4>1 DEF OldIntact, ClientOK, FreePcs, Offsets,
           PageOf, Mover
    <3> QED
      BY <3>1, <3>2
  <2> QED
    BY <2>5, <2>7
<1>FreeDequeue. ASSUME FreeDequeue(c) PROVE Records'
  <2>x. IndexIntact'
    BY <1>FreeDequeue DEF FreeDequeue, PageTypeOK, ClientOK, FreePcs, UpdatePcs, Mover,
       HoldsKey, IndexIntact
  <2>m. OneMover'
    BY <1>FreeDequeue DEF FreeDequeue, PageTypeOK, ClientOK, FreePcs, UpdatePcs, Mover,
       HoldsKey, OneMover
  <2>o. \A d \in Clients : OldIntact(d)'
    BY <1>FreeDequeue DEF FreeDequeue, PageTypeOK, ClientOK, FreePcs, UpdatePcs, Mover,
       HoldsKey, OldIntact
  <2>n. \A d \in Clients : NewIntact(d)'
    BY <1>FreeDequeue DEF FreeDequeue, PageTypeOK, ClientOK, FreePcs, UpdatePcs, Mover,
       HoldsKey, NewIntact
  <2> QED
    BY <2>x, <2>m, <2>o, <2>n
<1>UnlockOld. ASSUME UnlockOld(c) PROVE Records'
  <2>x. IndexIntact'
    BY <1>UnlockOld DEF UnlockOld, PageTypeOK, ClientOK, FreePcs, UpdatePcs, Mover,
       HoldsKey, IndexIntact
  <2>m. OneMover'
    BY <1>UnlockOld DEF UnlockOld, PageTypeOK, ClientOK, FreePcs, UpdatePcs, Mover,
       HoldsKey, OneMover
  <2>o. \A d \in Clients : OldIntact(d)'
    BY <1>UnlockOld DEF UnlockOld, PageTypeOK, ClientOK, FreePcs, UpdatePcs, Mover,
       HoldsKey, OldIntact
  <2>n. \A d \in Clients : NewIntact(d)'
    BY <1>UnlockOld DEF UnlockOld, PageTypeOK, ClientOK, FreePcs, UpdatePcs, Mover,
       HoldsKey, NewIntact
  <2> QED
    BY <2>x, <2>m, <2>o, <2>n
<1>FreeClear. ASSUME FreeClear(c) PROVE Records'
  <2>x. IndexIntact'
    BY <1>FreeClear DEF FreeClear, AfterFree, PageTypeOK, ClientOK, FreePcs, UpdatePcs,
       Mover, HoldsKey, IndexIntact
  <2>m. OneMover'
    BY <1>FreeClear DEF FreeClear, AfterFree, PageTypeOK, ClientOK, FreePcs, UpdatePcs,
       Mover, HoldsKey, OneMover
  <2>o. \A d \in Clients : OldIntact(d)'
    BY <1>FreeClear DEF FreeClear, AfterFree, PageTypeOK, ClientOK, FreePcs, UpdatePcs,
       Mover, HoldsKey, OldIntact
  <2>n. \A d \in Clients : NewIntact(d)'
    BY <1>FreeClear DEF FreeClear, AfterFree, PageTypeOK, ClientOK, FreePcs, UpdatePcs,
       Mover, HoldsKey, NewIntact
  <2> QED
    BY <2>x, <2>m, <2>o, <2>n
<1>UnlockPage. ASSUME UnlockPage(c) PROVE Records'
  <2>x. IndexIntact'
    BY <1>UnlockPage DEF UnlockPage, PageTypeOK, ClientOK, FreePcs, UpdatePcs, Mover,
       HoldsKey, IndexIntact
  <2>m. OneMover'
    BY <1>UnlockPage DEF UnlockPage, PageTypeOK, ClientOK, FreePcs, UpdatePcs, Mover,
       HoldsKey, OneMover
  <2>o. \A d \in Clients : OldIntact(d)'
    BY <1>UnlockPage DEF UnlockPage, PageTypeOK, ClientOK, FreePcs, UpdatePcs, Mover,
       HoldsKey, OldIntact
  <2>n. \A d \in Clients : NewIntact(d)'
    BY <1>UnlockPage DEF UnlockPage, PageTypeOK, ClientOK, FreePcs, UpdatePcs, Mover,
       HoldsKey, NewIntact
  <2> QED
    BY <2>x, <2>m, <2>o, <2>n
<1>Done. ASSUME Done(c) PROVE Records'
  <2>1. /\ pc[c] = "done" /\ pc'[c] = "idle" /\ op'[c] = "none" /\ key[c] \in Keys
        /\ \A d \in Clients \ {c} : /\ pc'[d] = pc[d] /\ op'[d] = op[d] /\ key'[d] = key[d]
                                    /\ old'[d] = old[d] /\ new'[d] = new[d]
                                    /\ drained'[d] = drained[d]
        /\ UNCHANGED <<free_slots, data>>
    BY <1>Done DEF Done, PageTypeOK, ClientOK
  <2>2. \A k \in Keys \ {key[c]} : index'[k] = index[k]
    BY <1>Done DEF Done, PageTypeOK
  <2>3. index'[key[c]] = CASE op[c] = "put" -> new[c] [] op[c] = "remove" -> None
                           [] OTHER -> index[key[c]]
    BY <1>Done, <2>1 DEF Done, PageTypeOK
  <2>4. ~Mover(c) => \A k \in Keys : index'[k] = index[k]
    BY <2>2, <2>3 DEF Mover
  <2>5. \A d \in Clients \ {c} : Mover(d) => index'[key[d]] = index[key[d]]
    <3>1. \A d \in Clients \ {c} : Mover(d) => key[d] \in Keys /\ (Mover(c) => key[d] # key[c])
      BY <2>1 DEF OneMover, ClientOK, Mover
    <3> QED
      BY <2>2, <2>4, <3>1
  <2>6. IndexIntact'
    <3> SUFFICES ASSUME NEW k \in Keys, index'[k] # None,
                        \A d \in Clients : Mover(d)' /\ key'[d] = k
                                           => pc'[d] \in {"lock", "write", "resolve"}
                 PROVE  HoldsKey(index'[k], k)
      BY <2>1 DEF IndexIntact, HoldsKey
    <3>1. \A d \in Clients \ {c} : Mover(d) /\ key[d] = k => pc[d] \in {"lock", "write", "resolve"}
      BY <2>1 DEF Mover
    <3>2. CASE Mover(c) /\ key[c] = k
      <4>1. op[c] = "put" /\ index'[k] = new[c]
        BY <2>3, <3>2 DEF Mover
      <4> QED
        BY <2>1, <3>2, <4>1 DEF NewIntact
    <3>3. CASE ~(Mover(c) /\ key[c] = k)
      <4>1. index'[k] = index[k]
        BY <2>2, <2>4, <3>3
      <4> QED
        BY <3>1, <3>3, <4>1 DEF IndexIntact
    <3> QED
      BY <3>2, <3>3
  <2>7. OneMover'
    BY <2>1 DEF OneMover, Mover
  <2>8. ASSUME NEW d \in Clients PROVE OldIntact(d)'
    <3>1. CASE d = c
      BY <2>1, <3>1 DEF OldIntact, FreePcs
    <3>2. CASE d # c
      <4>1. pc[d] \in {"samepage"} \cup FreePcs => index'[key[d]] = index[key[d]]
        BY <2>5, <3>2 DEF ClientOK, FreePcs
      <4> QED
        BY <2>1, <3>2, <4>1 DEF OldIntact, HoldsKey, FreePcs
    <3> QED
      BY <3>1, <3>2
  <2>9. ASSUME NEW d \in Clients PROVE NewIntact(d)'
    <3>1. CASE d = c
      BY <2>1, <3>1 DEF NewIntact
    <3>2. CASE d # c
      <4>1. op[d] = "put" => index'[key[d]] = index[key[d]]
        BY <2>5, <3>2 DEF Mover
      <4> QED
        BY <2>1, <3>2, <4>1 DEF NewIntact, HoldsKey
    <3> QED
      BY <3>1, <3>2
  <2> QED
    BY <2>6, <2>7, <2>8, <2>9
<1>UpdateMiss. ASSUME UpdateMiss(c) PROVE Records'
  <2>x. IndexIntact'
    BY <1>UpdateMiss DEF UpdateMiss, PageTypeOK, ClientOK, FreePcs, UpdatePcs, Mover,
       HoldsKey, IndexIntact
  <2>m. OneMover'
    BY <1>UpdateMiss DEF UpdateMiss, PageTypeOK, ClientOK, FreePcs, UpdatePcs, Mover,
       HoldsKey, OneMover
  <2>o. \A d \in Clients : OldIntact(d)'
    BY <1>UpdateMiss DEF UpdateMiss, PageTypeOK, ClientOK, FreePcs, UpdatePcs, Mover,
       HoldsKey, OldIntact
  <2>n. \A d \in Clients : NewIntact(d)'
    BY <1>UpdateMiss DEF UpdateMiss, PageTypeOK, ClientOK, FreePcs, UpdatePcs, Mover,
       HoldsKey, NewIntact
  <2> QED
    BY <2>x, <2>m, <2>o, <2>n
<1>UpdatePublish. ASSUME UpdatePublish(c) PROVE Records'
  <2>x. IndexIntact'
    BY <1>UpdatePublish DEF UpdatePublish, PageTypeOK, ClientOK, FreePcs, UpdatePcs, Mover,
       HoldsKey, IndexIntact
  <2>m. OneMover'
    BY <1>UpdatePublish DEF UpdatePublish, PageTypeOK, ClientOK, FreePcs, UpdatePcs, Mover,
       HoldsKey, OneMover
  <2>o. \A d \in Clients : OldIntact(d)'
    BY <1>UpdatePublish DEF UpdatePublish, PageTypeOK, ClientOK, FreePcs, UpdatePcs, Mover,
       HoldsKey, OldIntact
  <2>n. \A d \in Clients : NewIntact(d)'
    BY <1>UpdatePublish DEF UpdatePublish, PageTypeOK, ClientOK, FreePcs, UpdatePcs, Mover,
       HoldsKey, NewIntact
  <2> QED
    BY <2>x, <2>m, <2>o, <2>n
<1>UpdateLock. ASSUME UpdateLock(c) PROVE Records'
  <2>x. IndexIntact'
    BY <1>UpdateLock DEF UpdateLock, PageTypeOK, ClientOK, FreePcs, UpdatePcs, Mover,
       HoldsKey, IndexIntact
  <2>m. OneMover'
    BY <1>UpdateLock DEF UpdateLock, PageTypeOK, ClientOK, FreePcs, UpdatePcs, Mover,
       HoldsKey, OneMover
  <2>o. \A d \in Clients : OldIntact(d)'
    BY <1>UpdateLock DEF UpdateLock, PageTypeOK, ClientOK, FreePcs, UpdatePcs, Mover,
       HoldsKey, OldIntact
  <2>n. \A d \in Clients : NewIntact(d)'
    BY <1>UpdateLock DEF UpdateLock, PageTypeOK, ClientOK, FreePcs, UpdatePcs, Mover,
       HoldsKey, NewIntact
  <2> QED
    BY <2>x, <2>m, <2>o, <2>n
<1>UpdateBusy. ASSUME UpdateBusy(c) PROVE Records'
  <2>x. IndexIntact'
    BY <1>UpdateBusy DEF UpdateBusy, PageTypeOK, ClientOK, FreePcs, UpdatePcs, Mover,
       HoldsKey, IndexIntact
  <2>m. OneMover'
    BY <1>UpdateBusy DEF UpdateBusy, PageTypeOK, ClientOK, FreePcs, UpdatePcs, Mover,
       HoldsKey, OneMover
  <2>o. \A d \in Clients : OldIntact(d)'
    BY <1>UpdateBusy DEF UpdateBusy, PageTypeOK, ClientOK, FreePcs, UpdatePcs, Mover,
       HoldsKey, OldIntact
  <2>n. \A d \in Clients : NewIntact(d)'
    BY <1>UpdateBusy DEF UpdateBusy, PageTypeOK, ClientOK, FreePcs, UpdatePcs, Mover,
       HoldsKey, NewIntact
  <2> QED
    BY <2>x, <2>m, <2>o, <2>n
<1>UpdateRetry. ASSUME UpdateRetry(c) PROVE Records'
  <2>x. IndexIntact'
    BY <1>UpdateRetry DEF UpdateRetry, PageTypeOK, ClientOK, FreePcs, UpdatePcs, Mover,
       HoldsKey, IndexIntact
  <2>m. OneMover'
    BY <1>UpdateRetry DEF UpdateRetry, PageTypeOK, ClientOK, FreePcs, UpdatePcs, Mover,
       HoldsKey, OneMover
  <2>o. \A d \in Clients : OldIntact(d)'
    BY <1>UpdateRetry DEF UpdateRetry, PageTypeOK, ClientOK, FreePcs, UpdatePcs, Mover,
       HoldsKey, OldIntact
  <2>n. \A d \in Clients : NewIntact(d)'
    BY <1>UpdateRetry DEF UpdateRetry, PageTypeOK, ClientOK, FreePcs, UpdatePcs, Mover,
       HoldsKey, NewIntact
  <2> QED
    BY <2>x, <2>m, <2>o, <2>n
<1>UpdateApply. ASSUME UpdateApply(c) PROVE Records'
  <2>1. /\ pc[c] = "apply" /\ \A d \in Clients \ {c} : pc'[d] = pc[d]
        /\ pc'[c] \in {"applied", "mismatch"}
        /\ UNCHANGED <<free_slots, index, opVars, drained>>
    BY <1>UpdateApply DEF UpdateApply, PageTypeOK
  <2>2. \A p \in Pages, s \in Slots : data'[p][s].key = data[p][s].key
    <3>1. key[c] \in Keys /\ PageOf(old[c]) \in Pages /\ SlotOf(old[c]) \in Slots
      BY <2>1, <1>old DEF ClientOK, UpdatePcs
    <3>2. data \in [Pages -> [Slots -> [key : Keys, val : Keys]]]
      BY DEF PageTypeOK
    <3>3. \/ UNCHANGED data
          \/ data' = [data EXCEPT ![PageOf(old[c])][SlotOf(old[c])].val = key[c]]
      BY <1>UpdateApply DEF UpdateApply
    <3> QED
      BY <3>1, <3>2, <3>3, UpdateKeepsKeys
  <2>3. \A x \in Offsets : data'[PageOf(x)][SlotOf(x)].key = data[PageOf(x)][SlotOf(x)].key
    BY <2>2 DEF Offsets, PageOf, SlotOf
  <2>4. \A x \in Offsets, k \in Keys : HoldsKey(x, k) => HoldsKey(x, k)'
    BY <2>1, <2>3 DEF HoldsKey
  <2>5. ~Mover(c)
    BY <2>1 DEF ClientOK, UpdatePcs, Mover
  <2>6. IndexIntact'
    <3> SUFFICES ASSUME NEW k \in Keys, index[k] # None,
                        \A d \in Clients : Mover(d) /\ key[d] = k
                                           => pc'[d] \in {"lock", "write", "resolve"}
                 PROVE  HoldsKey(index[k], k)'
      BY <2>1 DEF IndexIntact, Mover, HoldsKey
    <3>1. HoldsKey(index[k], k)
      BY <2>1, <2>5 DEF IndexIntact
    <3> QED
      BY <2>1, <2>4, <3>1 DEF PageTypeOK
  <2>7. OneMover'
    BY <2>1 DEF OneMover, Mover
  <2>8. ASSUME NEW d \in Clients PROVE OldIntact(d)' /\ NewIntact(d)'
    <3>1. CASE d = c
      BY <2>1, <2>5, <3>1 DEF OldIntact, NewIntact, FreePcs, Mover
    <3>2. CASE d # c
      <4>1. OldIntact(d)'
        BY <2>1, <2>3, <2>4, <3>2 DEF OldIntact, ClientOK, FreePcs
      <4>2. NewIntact(d)'
        BY <2>1, <2>4, <3>2 DEF NewIntact, ClientOK
      <4> QED
        BY <4>1, <4>2
    <3> QED
      BY <3>1, <3>2
  <2> QED
    BY <2>6, <2>7, <2>8
<1>UpdateUnlock. ASSUME UpdateUnlock(c) PROVE Records'
  <2>x. IndexIntact'
    BY <1>UpdateUnlock DEF UpdateUnlock, PageTypeOK, ClientOK, FreePcs, UpdatePcs, Mover,
       HoldsKey, IndexIntact
  <2>m. OneMover'
    BY <1>UpdateUnlock DEF UpdateUnlock, PageTypeOK, ClientOK, FreePcs, UpdatePcs, Mover,
       HoldsKey, OneMover
  <2>o. \A d \in Clients : OldIntact(d)'
    BY <1>UpdateUnlock DEF UpdateUnlock, PageTypeOK, ClientOK, FreePcs, UpdatePcs, Mover,
       HoldsKey, OldIntact
  <2>n. \A d \in Clients : NewIntact(d)'
    BY <1>UpdateUnlock DEF UpdateUnlock, PageTypeOK, ClientOK, FreePcs, UpdatePcs, Mover,
       HoldsKey, NewIntact
  <2> QED
    BY <2>x, <2>m, <2>o, <2>n
<1>UpdateClear. ASSUME UpdateClear(c) PROVE Records'
  <2>x. IndexIntact'
    BY <1>UpdateClear DEF UpdateClear, PageTypeOK, ClientOK, FreePcs, UpdatePcs, Mover,
       HoldsKey, IndexIntact
  <2>m. OneMover'
    BY <1>UpdateClear DEF UpdateClear, PageTypeOK, ClientOK, FreePcs, UpdatePcs, Mover,
       HoldsKey, OneMover
  <2>o. \A d \in Clients : OldIntact(d)'
    BY <1>UpdateClear DEF UpdateClear, PageTypeOK, ClientOK, FreePcs, UpdatePcs, Mover,
       HoldsKey, OldIntact
  <2>n. \A d \in Clients : NewIntact(d)'
    BY <1>UpdateClear DEF UpdateClear, PageTypeOK, ClientOK, FreePcs, UpdatePcs, Mover,
       HoldsKey, NewIntact
  <2> QED
    BY <2>x, <2>m, <2>o, <2>n
<1>UpdateSlow. ASSUME UpdateSlow(c) PROVE Records'
  <2>1. /\ pc[c] = "missed" /\ pc'[c] \in {"try", "done"}
        /\ ~Mover(c) /\ ~Mover(c)'
        /\ \A d \in Clients \ {c} : pc'[d] = pc[d] /\ op'[d] = op[d] /\ old'[d] = old[d]
        /\ UNCHANGED <<free_slots, data, index, key, new, drained>>
    BY <1>UpdateSlow DEF UpdateSlow, PageTypeOK, ClientOK, Mover
  <2>2. IndexIntact' /\ OneMover'
    BY <2>1 DEF IndexIntact, OneMover, Mover, HoldsKey
  <2>3. ASSUME NEW d \in Clients PROVE OldIntact(d)' /\ NewIntact(d)'
    <3>1. CASE d = c
      BY <2>1, <3>1 DEF OldIntact, NewIntact, FreePcs, Mover
    <3>2. CASE d # c
      BY <2>1, <3>2 DEF OldIntact, NewIntact, HoldsKey
    <3> QED
      BY <3>1, <3>2
  <2> QED
    BY <2>2, <2>3
<1> QED
  BY <1>put, <1>remove, <1>update, <1>LockPage, <1>WriteRecord, <1>Resolve, <1>SamePage,
     <1>FreePublish, <1>FreeLock, <1>FreeGiveUp, <1>FreeQueue, <1>FreeWithdraw,
     <1>FreeRepublish, <1>FreeSlot, <1>FreeDequeue, <1>UnlockOld, <1>FreeClear,
     <1>UnlockPage, <1>Done, <1>UpdateMiss, <1>UpdatePublish, <1>UpdateLock,
     <1>UpdateBusy, <1>UpdateRetry, <1>UpdateApply, <1>UpdateUnlock, <1>UpdateClear,
     <1>UpdateSlow DEF ClientStep, free_occupied_slot, Updating

LEMMA RecordsInit == Init => Records
<1> SUFFICES ASSUME Init PROVE Records
  OBVIOUS
<1>1. FirstSlot \in Slots
  BY MinIsMember, SlotAssumption DEF FirstSlot
<1>2. IndexIntact
  <2> SUFFICES ASSUME NEW k \in Keys PROVE HoldsKey(index[k], k)
    BY DEF IndexIntact
  <2>1. index[k] = <<k, FirstSlot>> /\ k \in Pages
    BY DEF Init, Keys
  <2> QED
    BY <1>1, <2>1 DEF Init, HoldsKey, PageOf, SlotOf
<1> QED
  BY <1>2 DEF Init, Records, OneMover, OldIntact, NewIntact, Mover, FreePcs

LEMMA RecordsStep ==
    ASSUME PageInv, Exclusive, ~refreed => Records, [Next]_vars
    PROVE  (~refreed => Records)'
<1> SUFFICES ASSUME ~refreed' PROVE Records'
  OBVIOUS
<1>1. ASSUME UNCHANGED clientVars PROVE Records'
  BY <1>1 DEF clientVars, sharedVars, opVars, freeVars, Records, IndexIntact, OneMover, OldIntact,
              NewIntact, Mover, HoldsKey
<1>2. ASSUME NEW r \in Readers, (\E k \in Keys : get(r, k)) \/ Reading(r) PROVE Records'
  <2>1. UNCHANGED clientVars
    BY <1>2, ReaderFrame
  <2> QED
    BY <2>1, <1>1
<1>3. ASSUME NEW a \in Actors, hiom_try_repair_stale_lock(a) PROVE Records'
  <2>1. UNCHANGED clientVars
    BY <1>3, RepairFrame
  <2> QED
    BY <2>1, <1>1
<1>4. ASSUME NEW c \in Clients,
             (\E k \in Keys : put(c, k) \/ remove(c, k) \/ update(c, k)) \/ ClientStep(c)
      PROVE  Records'
  <2>1. ~refreed
    BY <1>4 DEF put, remove, update, Begin, ClientStep, LockPage, WriteRecord, Resolve,
                free_occupied_slot, SamePage, FreePublish, FreeLock, FreeGiveUp, FreeQueue,
                FreeWithdraw, FreeRepublish, FreeSlot, FreeDequeue, UnlockOld, FreeClear,
                UnlockPage, Done, Updating, UpdateMiss, UpdatePublish, UpdateLock, UpdateBusy,
                UpdateRetry, UpdateApply, UpdateUnlock, UpdateClear, UpdateSlow, freeVars
  <2> QED
    BY <1>4, <2>1, ClientKeepsRecords
<1>5. CASE UNCHANGED vars
  BY <1>1, <1>5 DEF vars, pmVars, freeVars, clientVars
<1> QED
  BY <1>2, <1>3, <1>4, <1>5 DEF Next

-----------------------------------------------------------------------------
(* What holds until two repairs race for one word.                         *)

LEMMA LockInvInit == Init => LockInv
BY PageInvInit, ExclusiveInit, RecordsInit DEF LockInv

LEMMA LockInvStep == LockInv /\ NoRepairLap /\ [Next]_vars => LockInv'
<1> SUFFICES ASSUME LockInv, NoRepairLap, [Next]_vars PROVE LockInv'
  OBVIOUS
<1>1. PageInv /\ PageInv'
  BY PageInvStep DEF LockInv
<1>2. ASSUME ~raced' PROVE (Exclusive /\ NoLiveRepair /\ (~refreed => Records))'
  <2>1. ~raced
    BY <1>1, <1>2, RacedStays
  <2>2. Exclusive /\ NoLiveRepair /\ (~refreed => Records)
    BY <2>1 DEF LockInv
  <2> QED
    BY <1>1, <2>1, <2>2, ExclusiveStep, RecordsStep
<1> QED
  BY <1>1, <1>2 DEF LockInv

\* As long as no lock brings back the word a repair has loaded, LockInv holds in
\* every reachable state: a holder's page is locked and its only holder's, no
\* repair is about to unlock it, and the records are in their places.
THEOREM LockInvariance == Spec /\ []NoRepairLap => []LockInv
<1> QED
  BY LockInvInit, LockInvStep, PTL DEF Spec

\* A page lock has one live holder, whose bit stays set and whose intent stays
\* published, for any number of clients, pages and operations and of threads that
\* repair, until two of them are about to unlock a page for the same loaded word:
\* the two loads and scans of one repair are enough, wherever its steps fall.
THEOREM OneHolder == Spec /\ []NoRepairLap => []LockExclusive
<1>1. LockInv => LockExclusive
  <2> SUFFICES ASSUME LockInv, ~raced, NEW p \in Pages
               PROVE  /\ \A c, d \in Holders(p) : c = d
                      /\ \A c \in Holders(p) : IS_LOCKED(version_lock[p]) /\ p \in lock_intents[c]
    BY DEF LockInv, PageInv, LockExclusive
  <2>1. \A c \in Clients : Holds(c, p) => p \in lock_intents[c]
    BY DEF LockInv, PageInv, Holds, IntentOK
  <2> QED
    BY <2>1 DEF LockInv, Exclusive, Holders
<1> QED
  BY <1>1, LockInvariance, PTL

\* A key that no put or remove is moving keeps its record, whatever the clients
\* free for each other through deadlock_offsets_, unless one of them has freed an
\* offset that the page's owner had freed for it, or two repairs have raced.
THEOREM RecordsSurvive == Spec /\ []NoRepairLap => []RecordsIntact
<1>1. LockInv => RecordsIntact
  <2> SUFFICES ASSUME LockInv, ~refreed, ~raced, NEW k \in Keys \ Moving, index[k] # None
               PROVE  HoldsKey(index[k], k)
    BY DEF RecordsIntact, HoldsKey
  <2>1. \A c \in Clients : ~(Mover(c) /\ key[c] = k)
    BY DEF Moving, Mover
  <2> QED
    BY <2>1 DEF LockInv, Records, IndexIntact
<1> QED
  BY <1>1, LockInvariance, PTL

-----------------------------------------------------------------------------
(* The optimistic read.                                                    *)

\* A key changes on a page that a client holds.
KeysMove(p) ==
    (\E s \in Slots : data'[p][s].key # data[p][s].key) => \E c \in Clients : Holds(c, p)

\* put writes keys, on the page it holds; an update changes values only.
LEMMA ClientMovesKeys ==
    ASSUME PageInv, NEW c \in Clients,
           (\E k \in Keys : put(c, k) \/ remove(c, k) \/ update(c, k)) \/ ClientStep(c)
    PROVE  /\ \A p \in Pages : KeysMove(p)
           /\ UNCHANGED reader
<1> USE DEF PageInv, At, Goto, pmVars, readerVars
<1>1. CASE WriteRecord(c)
  <2>1. Holds(c, c)
    BY <1>1 DEF WriteRecord, Holds, ClientOK
  <2>2. \A p \in Pages \ {c} : data'[p] = data[p]
    BY <1>1 DEF WriteRecord, PageTypeOK
  <2> QED
    BY <1>1, <2>1, <2>2 DEF WriteRecord, KeysMove
<1>2. CASE UpdateApply(c)
  <2>1. CASE UNCHANGED data
    BY <1>2, <2>1 DEF UpdateApply, KeysMove
  <2>2. CASE data' = [data EXCEPT ![PageOf(old[c])][SlotOf(old[c])].val = key[c]]
    <3>1. PageOf(old[c]) \in Pages /\ SlotOf(old[c]) \in Slots /\ key[c] \in Keys
      BY <1>2 DEF UpdateApply, ClientOK, UpdatePcs, Offsets, PageOf, SlotOf
    <3>2. \A p \in Pages, s \in Slots : data'[p][s].key = data[p][s].key
      BY <2>2, <3>1, UpdateKeepsKeys DEF PageTypeOK
    <3> QED
      BY <1>2, <3>2 DEF UpdateApply, KeysMove
  <2> QED
    BY <1>2, <2>1, <2>2 DEF UpdateApply
<1>3. ASSUME ~WriteRecord(c), ~UpdateApply(c) PROVE UNCHANGED <<data, reader>>
  BY <1>3 DEF put, remove, update, Begin, LockPage, Resolve, SamePage, FreePublish,
     FreeLock, FreeGiveUp, FreeQueue, FreeWithdraw, FreeRepublish, FreeSlot, FreeDequeue,
     UnlockOld, FreeClear, UnlockPage, Done, UpdateMiss, UpdatePublish, UpdateLock,
     UpdateBusy, UpdateRetry, UpdateUnlock, UpdateClear, UpdateSlow, ClientStep,
     free_occupied_slot, Updating
<1>4. UNCHANGED <<data, reader>> => (\A p \in Pages : KeysMove(p)) /\ UNCHANGED reader
  BY DEF KeysMove
<1> QED
  BY <1>1, <1>2, <1>3, <1>4

\* What a reader knows between its two loads of the version.  The lock of its
\* page is a client's: the page was free when it looked.  As long as the version
\* is the one it has loaded, what it has copied is of one record.
Copying(r) ==
    reader[r].at \in {"key", "val", "check"} =>
        /\ ~IS_LOCKED(reader[r].lock)
        /\ IS_LOCKED(RLock(r)) => \E c \in Clients : Holds(c, PageOf(ROff(r)))
        /\ reader[r].at = "val" /\ SameVersion(r) => reader[r].key = RRecord(r).key
        /\ reader[r].at = "check" /\ SameVersion(r) => reader[r].val = reader[r].key

ReadInv ==
    LockInv /\ ReadConsistent /\ (~raced => \A r \in Readers : Copying(r))

\* No reader has begun.
LEMMA ReadInvInit == Init => ReadInv
<1> SUFFICES ASSUME Init PROVE ReadInv
  OBVIOUS
<1>1. LockInv
  BY LockInvInit
<1>2. \A r \in Readers : reader[r].at = "idle"
  BY DEF Init, NoRead
<1> QED
  BY <1>1, <1>2 DEF ReadInv, ReadConsistent, Copying

\* Where the readers are.
LEMMA ReadersOffsets ==
    ASSUME PageInv, NEW r \in Readers, reader[r].at # "idle"
    PROVE  PageOf(ROff(r)) \in Pages /\ SlotOf(ROff(r)) \in Slots
BY DEF PageInv, ReadersOK, ROff, Offsets, PageOf, SlotOf

\* A client's step disturbs no reader: a key changes under a lock, when the
\* version is not the reader's, and a release does not bring that version back.
LEMMA ClientKeepsReaders ==
    ASSUME PageInv, Exclusive, NoLap, ~raced, ReadConsistent, \A r \in Readers : Copying(r),
           NEW c \in Clients, \A p \in Pages : WordMoves(c, p) /\ KeysMove(p), UNCHANGED reader
    PROVE  ReadConsistent' /\ \A r \in Readers : Copying(r)'
<1>1. ReadConsistent'
  BY DEF ReadConsistent
<1> SUFFICES ASSUME NEW r \in Readers, reader[r].at \in {"key", "val", "check"}
             PROVE  Copying(r)'
  BY <1>1 DEF Copying
<1> DEFINE p == PageOf(ROff(r))
           s == SlotOf(ROff(r))
<1>2. p \in Pages /\ s \in Slots
  BY ReadersOffsets
<1>3. /\ ~IS_LOCKED(reader[r].lock)
      /\ IS_LOCKED(version_lock[p]) => \E d \in Clients : Holds(d, p)
      /\ reader[r].at = "val" /\ version_lock[p] = reader[r].lock
             => reader[r].key = data[p][s].key
      /\ reader[r].at = "check" /\ version_lock[p] = reader[r].lock
             => reader[r].val = reader[r].key
  BY DEF Copying, SameVersion, RLock, RRecord
<1>4. version_lock[p] \in 0 .. USED_BIT - 1
  BY <1>2 DEF PageInv, PageTypeOK
<1>5. IS_LOCKED(version_lock[p]) => (version_lock[p] + 1) % USED_BIT # reader[r].lock
  BY DEF NoLap, RLock
<1>6. data'[p][s].key # data[p][s].key => IS_LOCKED(version_lock[p])
  BY <1>2 DEF KeysMove, Exclusive
<1>7. UNCHANGED <<ROff(r), reader>>
  BY DEF ROff
<1> HIDE DEF p, s
<1> SUFFICES /\ IS_LOCKED(version_lock'[p]) => \E d \in Clients : Holds(d, p)'
             /\ reader[r].at = "val" /\ version_lock'[p] = reader[r].lock
                    => reader[r].key = data'[p][s].key
             /\ reader[r].at = "check" /\ version_lock'[p] = reader[r].lock
                    => reader[r].val = reader[r].key
  BY <1>3, <1>7 DEF Copying, SameVersion, RLock, RRecord, p, s, IS_LOCKED
<1>8. CASE /\ version_lock'[p] = version_lock[p]
           /\ \A d \in Clients : Holds(d, p)' <=> Holds(d, p)
  <2>1. version_lock[p] = reader[r].lock => data'[p][s].key = data[p][s].key
    BY <1>3, <1>6
  <2> QED
    BY <1>3, <1>8, <2>1
<1>9. CASE ~IS_LOCKED(version_lock[p]) /\ version_lock'[p] = version_lock[p] + 1 /\ Holds(c, p)'
  <2>1. IS_LOCKED(version_lock'[p])
    BY <1>4, <1>9, LockedWord
  <2>2. version_lock'[p] # reader[r].lock
    BY <1>3, <2>1
  <2> QED
    BY <1>9, <2>2
<1>10. CASE /\ IS_LOCKED(version_lock[p])
            /\ version_lock'[p] = (version_lock[p] + 1) % USED_BIT
  <2>1. ~IS_LOCKED(version_lock'[p])
    BY <1>4, <1>10, UnlockedWord
  <2> QED
    BY <1>5, <1>10, <2>1
<1>11. WordMoves(c, p)
  BY <1>2
<1> QED
  BY <1>11, <1>8, <1>9, <1>10 DEF WordMoves

\* A repair leaves the page of a reader that is copying alone: if that page is
\* locked, a client holds it.
LEMMA RepairKeepsReaders ==
    ASSUME PageInv, NoLiveRepair, ~raced, ReadConsistent, \A r \in Readers : Copying(r),
           NEW a \in Actors, hiom_try_repair_stale_lock(a)
    PROVE  ReadConsistent' /\ \A r \in Readers : Copying(r)'
<1>f. UNCHANGED <<clientVars, readerVars>>
  BY RepairFrame
<1>1. ReadConsistent'
  BY <1>f DEF readerVars, ReadConsistent
<1>2. ASSUME NEW r \in Readers, reader[r].at \in {"key", "val", "check"}
      PROVE  version_lock'[PageOf(ROff(r))] = version_lock[PageOf(ROff(r))]
  <2>1. CASE UNCHANGED version_lock
    BY <2>1
  <2>2. CASE /\ repair[a].at = "cas" /\ version_lock[repair[a].page] = repair[a].lv
             /\ version_lock' = [version_lock EXCEPT ![repair[a].page] = @ - 1]
    <3>1. \A d \in Clients : ~Holds(d, repair[a].page)
      BY <2>2 DEF NoLiveRepair, Holders
    <3>2. IS_LOCKED(version_lock[repair[a].page])
      BY <2>2 DEF PageInv, RepairsOK
    <3>3. PageOf(ROff(r)) # repair[a].page
      BY <1>2, <3>1, <3>2 DEF Copying, RLock
    <3>4. PageOf(ROff(r)) \in Pages
      BY <1>2, ReadersOffsets
    <3> QED
      BY <2>2, <3>3, <3>4 DEF PageInv, PageTypeOK
  <2> QED
    BY <2>1, <2>2, RepairMoves DEF PageInv
<1>3. ASSUME NEW r \in Readers PROVE Copying(r)'
  <2>1. \A d, p : Holds(d, p)' = Holds(d, p)
    BY <1>f DEF clientVars, opVars, Holds
  <2> QED
    BY <1>2, <1>f, <2>1 DEF Copying, clientVars, readerVars, SameVersion, RLock, RRecord, ROff,
       IS_LOCKED
<1> QED
  BY <1>1, <1>3

\* A reader's own step: from a free page, a key and then the value that belongs
\* to it, and success only on the version it began with.
LEMMA ReaderKeepsReaders ==
    ASSUME PageInv, ~raced, ReadConsistent, \A q \in Readers : Copying(q),
           NEW r \in Readers, (\E k \in Keys : get(r, k)) \/ Reading(r)
    PROVE  ReadConsistent' /\ \A q \in Readers : Copying(q)'
<1>f. UNCHANGED <<version_lock, clientVars>>
  BY ReaderFrame
<1>1. \A d, p : Holds(d, p)' = Holds(d, p)
  BY <1>f DEF clientVars, opVars, Holds
<1>2. /\ reader \in [Readers -> [at : {"idle", "bit", "version", "key", "val", "check", "found"},
                                 want : Keys \cup {None}, off : ReadOffsets,
                                 lock : 0 .. USED_BIT - 1,
                                 key : Keys \cup {None}, val : Keys \cup {None}]]
      /\ Copying(r)
  BY DEF PageInv, ReaderType
\* What the reader becomes.
<1> DEFINE Good(rd) ==
               /\ reader' = [reader EXCEPT ![r] = rd]
               /\ rd.at = "found" => rd.val = rd.key
               /\ rd.at \in {"key", "val", "check"} =>
                      /\ ~IS_LOCKED(rd.lock) /\ rd.off = ROff(r)
                      /\ IS_LOCKED(RLock(r)) => \E c \in Clients : Holds(c, PageOf(ROff(r)))
                      /\ rd.at = "val" /\ RLock(r) = rd.lock => rd.key = RRecord(r).key
                      /\ rd.at = "check" /\ RLock(r) = rd.lock => rd.val = rd.key
<1>3. \E rd : Good(rd)
  <2> USE DEF RTo, RAt
  <2>0. NoRead.at = "idle"
    BY DEF NoRead
  <2>1. ASSUME NEW k \in Keys, get(r, k) PROVE \E rd : Good(rd)
    <3>1. [NoRead EXCEPT !.at = "bit", !.want = k, !.off = index[k]].at = "bit"
      BY DEF NoRead
    <3> QED
      BY <2>1, <3>1 DEF get
  <2>2. ASSUME ReadBit(r) PROVE \E rd : Good(rd)
    <3>1. [reader[r] EXCEPT !.at = "version"].at = "version"
      BY <1>2
    <3> QED
      BY <2>0, <2>2, <3>1 DEF ReadBit
  <2>3. ASSUME ReadLocked(r) PROVE \E rd : Good(rd)
    <3>1. [reader[r] EXCEPT !.at = "bit"].at = "bit"
      BY <1>2
    <3> QED
      BY <2>0, <2>3, <3>1 DEF ReadLocked
  <2>4. ASSUME ReadVersion(r) PROVE \E rd : Good(rd)
    <3> DEFINE rd == [reader[r] EXCEPT !.at = "key", !.lock = RLock(r)]
    <3>1. rd.at = "key" /\ rd.lock = RLock(r) /\ rd.off = ROff(r)
      BY <1>2 DEF ROff
    <3>2. reader' = [reader EXCEPT ![r] = rd] /\ ~IS_LOCKED(RLock(r))
      BY <2>4 DEF ReadVersion
    <3> HIDE DEF rd
    <3> QED
      BY <3>1, <3>2
  <2>5. ASSUME ReadKey(r) PROVE \E rd : Good(rd)
    <3> DEFINE rd == [reader[r] EXCEPT !.at = "val", !.key = RRecord(r).key]
    <3>1. /\ rd.at = "val" /\ rd.key = RRecord(r).key /\ rd.lock = reader[r].lock
          /\ rd.off = ROff(r)
      BY <1>2 DEF ROff
    <3>2. reader' = [reader EXCEPT ![r] = rd] /\ reader[r].at = "key"
      BY <2>5 DEF ReadKey
    <3> HIDE DEF rd
    <3> QED
      BY <1>2, <3>1, <3>2 DEF Copying
  <2>6. ASSUME ReadVal(r) PROVE \E rd : Good(rd)
    <3> DEFINE rd == [reader[r] EXCEPT !.at = "check", !.val = RRecord(r).val]
    <3>1. /\ rd.at = "check" /\ rd.val = RRecord(r).val /\ rd.lock = reader[r].lock
          /\ rd.key = reader[r].key /\ rd.off = ROff(r)
      BY <1>2 DEF ROff
    <3>2. reader' = [reader EXCEPT ![r] = rd] /\ reader[r].at = "val"
      BY <2>6 DEF ReadVal
    <3>3. RRecord(r).val = RRecord(r).key
      BY <3>2, ReadersOffsets DEF PageInv, ValuesBelong, RRecord
    <3>4. /\ ~IS_LOCKED(reader[r].lock)
          /\ IS_LOCKED(RLock(r)) => \E c \in Clients : Holds(c, PageOf(ROff(r)))
          /\ RLock(r) = reader[r].lock => reader[r].key = RRecord(r).key
      BY <1>2, <3>2 DEF Copying, SameVersion
    <3> HIDE DEF rd
    <3>5. RLock(r) = rd.lock => rd.val = rd.key
      BY <3>1, <3>3, <3>4
    <3> QED
      BY <3>1, <3>2, <3>4, <3>5
  <2>7. ASSUME ReadCheck(r) PROVE \E rd : Good(rd)
    <3>1. [NoRead EXCEPT !.at = "bit", !.want = reader[r].want, !.off = ROff(r)].at = "bit"
      BY DEF NoRead
    <3>2. LET rd == [reader[r] EXCEPT !.at = "found"]
          IN  rd.at = "found" /\ rd.val = reader[r].val /\ rd.key = reader[r].key
      BY <1>2
    <3>3. SameVersion(r) => reader[r].val = reader[r].key
      BY <1>2, <2>7 DEF ReadCheck, Copying
    <3> QED
      BY <2>0, <2>7, <3>1, <3>2, <3>3 DEF ReadCheck
  <2>8. ASSUME ReadReturn(r) PROVE \E rd : Good(rd)
    BY <2>0, <2>8 DEF ReadReturn
  <2> QED
    BY <2>1, <2>2, <2>3, <2>4, <2>5, <2>6, <2>7, <2>8 DEF Reading
<1>4. PICK rd : Good(rd)
  BY <1>3
<1>5. reader'[r] = rd /\ \A q \in Readers \ {r} : reader'[q] = reader[q]
  BY <1>2, <1>4
<1>6. ReadConsistent'
  BY <1>4, <1>5 DEF ReadConsistent
<1>7. Copying(r)'
  BY <1>1, <1>4, <1>5, <1>f DEF Copying, SameVersion, RLock, RRecord, ROff, IS_LOCKED, clientVars
<1>8. ASSUME NEW q \in Readers \ {r} PROVE Copying(q)'
  BY <1>1, <1>5, <1>f DEF Copying, SameVersion, RLock, RRecord, ROff, IS_LOCKED, clientVars
<1> QED
  BY <1>6, <1>7, <1>8

\* Every step keeps what the readers know.
LEMMA ReadInvStep ==
    ASSUME ReadInv, NoRepairLap, NoLap, [Next]_vars
    PROVE  ReadInv'
<1>1. PageInv /\ LockInv'
  BY LockInvStep DEF ReadInv, LockInv
<1> SUFFICES ASSUME ~raced'
             PROVE  ReadConsistent' /\ \A r \in Readers : Copying(r)'
  BY <1>1 DEF ReadInv, ReadConsistent
<1>2. ~raced
  BY <1>1, RacedStays
<1>3. Exclusive /\ NoLiveRepair /\ ReadConsistent /\ \A r \in Readers : Copying(r)
  BY <1>2 DEF ReadInv, LockInv
<1>4. ASSUME NEW c \in Clients,
             (\E k \in Keys : put(c, k) \/ remove(c, k) \/ update(c, k)) \/ ClientStep(c)
      PROVE  ReadConsistent' /\ \A r \in Readers : Copying(r)'
  BY <1>1, <1>2, <1>3, <1>4, ClientMovesWords, ClientMovesKeys, ClientKeepsReaders
<1>5. CASE UNCHANGED vars
  BY <1>3, <1>5 DEF vars, pmVars, opVars, freeVars, readerVars, ReadConsistent, Copying,
                    SameVersion, RLock, RRecord, ROff, IS_LOCKED, Holds
<1> QED
  BY <1>1, <1>2, <1>3, <1>4, <1>5, ReaderKeepsReaders, RepairKeepsReaders DEF Next

\* A read that succeeds returns a key and a value that were written together,
\* for any number of readers and clients, whatever they put, update, free and
\* use again beside it: the two loads of the version suffice as long as the
\* version does not go all the way round between them, until two repairs race.
THEOREM ReadsConsistent == Spec /\ []NoRepairLap /\ []NoLap => []ReadConsistent
<1>1. ReadInv /\ NoRepairLap /\ NoLap /\ [Next]_vars => ReadInv'
  BY ReadInvStep
<1>2. ReadInv => ReadConsistent
  BY DEF ReadInv
<1> QED
  BY <1>1, <1>2, ReadInvInit, PTL DEF Spec
=============================================================================
