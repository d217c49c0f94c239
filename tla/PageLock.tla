------------------------------- MODULE PageLock -------------------------------
(***************************************************************************)
(* The version lock of a VPage, the lock-intent registry that tells a live *)
(* lock from one left by a killed process, and the client operations that  *)
(* take the lock (viper.hpp): put, update and remove, free_occupied_slot   *)
(* with its queue of offsets for clients that wait for each other, the     *)
(* optimistic read, and hiom_try_repair_stale_lock.                        *)
(*                                                                         *)
(* HiOM owns the index (hiom_owns_index_): old offsets come from the       *)
(* resolver.  Here the index is one offset per key; KeyIndex has the tiers *)
(* behind it.  A client keeps its page (update_access_information is in    *)
(* Frontier), and a key has one put or remove at a time.                   *)
(***************************************************************************)
EXTENDS Integers, FiniteSets, FiniteSetsExt

CONSTANTS
    Clients, Readers,
    OldPages,          \* pages of an earlier process: no client puts there
    Slots,             \* num_slots_per_page, as a set of numbers
    kLockIntentSlots,
    USED_BIT,          \* the lock word counts modulo this: 64
    FirstVersion,      \* the lock word of every page at the start
    Requests,          \* bound: the <<actor, operation, key>> that are asked for
    MaxOps,            \* bound: puts, updates and removes
    MaxReads           \* bound: reads

ASSUME LockWordAssumption == USED_BIT \in Nat /\ USED_BIT > 2 /\ USED_BIT % 2 = 0
ASSUME VersionAssumption  == FirstVersion \in 0 .. USED_BIT - 2 /\ FirstVersion % 2 = 0
ASSUME SlotAssumption     == Slots \subseteq Nat /\ Slots # {}
ASSUME RegistryAssumption == kLockIntentSlots \in Nat
ASSUME ActorAssumption    == Clients \cap Readers = {} /\ Clients \cap OldPages = {}
ASSUME FiniteAssumption   == IsFiniteSet(Clients) /\ IsFiniteSet(OldPages)
ASSUME LockBounds         == MaxOps \in Nat /\ MaxReads \in Nat

\* A client's page is named after the client; each page holds one record at
\* the start, and its key is named after the page.
Pages   == Clients \cup OldPages
Keys    == Pages
Actors  == Clients \cup Readers
Offsets == Pages \X Slots
None    == <<>>                            \* KVOffset::Tombstone()
AllRequests ==
    (Clients \X {"put", "update", "remove"} \X Keys) \cup (Readers \X {"get"} \X Keys)
PageOf(o) == o[1]
SlotOf(o) == o[2]

NoRepair == [at |-> "none", page |-> None, lv |-> 0]
NoRead   == [at |-> "idle", want |-> None, off |-> None, lock |-> 0, key |-> None, val |-> None]

VARIABLES
    version_lock,      \* the lock word of each page, without its upper bits
    free_slots,        \* the free slots of each page
    data,              \* the record of each slot: its key, and whose value
    index,             \* what the resolver would find
    lock_intents,      \* the registry: pages each client has published
    deadlock_offsets,
    pc, op, key, old, new,    \* each client: its operation and its offsets
    queued,            \* deadlock_offset_inserted
    seen,              \* encountered_own_offset
    repair,            \* each actor in hiom_try_repair_stale_lock
    reader,            \* each reader
    ops, reads,
    drained,           \* history: the queued offset was freed by its page's owner
    refreed,           \* history: a client has freed such an offset again
    raced              \* history: a repair unlocked a page while another thread had
                       \* loaded the same word and was about to unlock it too

pmVars     == <<version_lock, free_slots, data>>
sharedVars == <<index, lock_intents, deadlock_offsets>>
opVars     == <<op, key, old, new>>
freeVars   == <<queued, seen, drained, refreed, raced>>
readerVars == <<reader, reads>>
vars == <<pmVars, sharedVars, pc, opVars, freeVars, repair, readerVars, ops>>

FirstSlot == Min(Slots)

(***************************************************************************)
(* A pool in use: every key has its record in the first slot of its page.  *)
(* An old page may carry the lock of a process that was killed.            *)
(***************************************************************************)
Init ==
    /\ \E stale \in SUBSET OldPages :
           version_lock = [p \in Pages |-> FirstVersion + (IF p \in stale THEN 1 ELSE 0)]
    /\ free_slots = [p \in Pages |-> Slots \ {FirstSlot}]
    /\ data = [p \in Pages |-> [s \in Slots |-> [key |-> p, val |-> p]]]
    /\ index = [k \in Keys |-> <<k, FirstSlot>>]
    /\ lock_intents = [c \in Clients |-> {}] /\ deadlock_offsets = {}
    /\ pc = [c \in Clients |-> "idle"] /\ op = [c \in Clients |-> "none"]
    /\ key = [c \in Clients |-> None]
    /\ old = [c \in Clients |-> None] /\ new = [c \in Clients |-> None]
    /\ queued = [c \in Clients |-> FALSE] /\ seen = [c \in Clients |-> FALSE]
    /\ drained = [c \in Clients |-> FALSE] /\ refreed = FALSE /\ raced = FALSE
    /\ repair = [a \in Actors |-> NoRepair]
    /\ reader = [r \in Readers |-> NoRead]
    /\ ops = 0 /\ reads = 0

-----------------------------------------------------------------------------
(* The lock word and the registry.                                         *)

IS_LOCKED(w) == w % 2 = 1

\* lock: the CAS that sets the lowest bit; its caller decides what a failed
\* CAS means.
lock(p) ==
    /\ ~IS_LOCKED(version_lock[p])
    /\ version_lock' = [version_lock EXCEPT ![p] = @ + 1]

unlock(p) ==
    version_lock' = [version_lock EXCEPT ![p] = (@ + 1) % USED_BIT]

\* A client publishes a page at most once; publishing spins while the
\* registry is full.
Intents   == {i \in Clients \X Pages : i[2] \in lock_intents[i[1]]}
Published == Cardinality(Intents)

hiom_lock_intent_publish(c, p) ==
    /\ Published < kLockIntentSlots
    /\ lock_intents' = [lock_intents EXCEPT ![c] = @ \cup {p}]

hiom_lock_intent_clear(c, p) ==
    lock_intents' = [lock_intents EXCEPT ![c] = @ \ {p}]

hiom_lock_intent_registered(p) == \E c \in Clients : p \in lock_intents[c]

-----------------------------------------------------------------------------
(* hiom_try_repair_stale_lock: load, scan, load and scan again, CAS.       *)

RepairBegin(a, p) ==
    /\ repair[a] = NoRepair
    /\ repair' = [repair EXCEPT ![a] = [at |-> "load", page |-> p, lv |-> 0]]

RepairGoto(a, l) == repair' = [repair EXCEPT ![a].at = l]
RepairEnd(a)     == repair' = [repair EXCEPT ![a] = NoRepair]

RepairUnchanged ==
    UNCHANGED <<free_slots, data, sharedVars, pc, opVars, queued, seen, drained, refreed,
                readerVars, ops>>

RepairLoad(a, from, to) ==
    /\ repair[a].at = from
    /\ LET lv == version_lock[repair[a].page]
       IN  IF IS_LOCKED(lv)
           THEN repair' = [repair EXCEPT ![a].at = to, ![a].lv = lv]
           ELSE RepairEnd(a)
    /\ UNCHANGED <<version_lock, raced>> /\ RepairUnchanged

RepairScan(a, from, to) ==
    /\ repair[a].at = from
    /\ IF hiom_lock_intent_registered(repair[a].page) THEN RepairEnd(a) ELSE RepairGoto(a, to)
    /\ UNCHANGED <<version_lock, raced>> /\ RepairUnchanged

\* Mutant: the second scan is left out.
RepairRescanSkipped(a) ==
    /\ repair[a].at = "scan2" /\ RepairGoto(a, "cas")
    /\ UNCHANGED <<version_lock, raced>> /\ RepairUnchanged

RepairRescan(a) == RepairScan(a, "scan2", "cas")

\* Another thread repairs the same page, past its second load of the same word.
BesideRepair(a) ==
    \E b \in Actors \ {a} : /\ repair[b].at \in {"scan2", "cas"}
                            /\ repair[b].page = repair[a].page /\ repair[b].lv = repair[a].lv

\* The CAS succeeds on the exact value loaded, which differs from the value
\* before the lock by the lowest bit only.
RepairCAS(a) ==
    /\ repair[a].at = "cas"
    /\ LET p == repair[a].page
       IN  IF version_lock[p] = repair[a].lv
           THEN /\ version_lock' = [version_lock EXCEPT ![p] = @ - 1]
                /\ raced' = (raced \/ BesideRepair(a))
           ELSE UNCHANGED <<version_lock, raced>>
    /\ RepairEnd(a) /\ RepairUnchanged

hiom_try_repair_stale_lock(a) ==
    \/ RepairLoad(a, "load", "scan") \/ RepairScan(a, "scan", "load2")
    \/ RepairLoad(a, "load2", "scan2") \/ RepairRescan(a)
    \/ RepairCAS(a)

-----------------------------------------------------------------------------
(* Clients.  At(c, l): client c is at l, and not in the repair routine.    *)

At(c, l)   == pc[c] = l /\ repair[c] = NoRepair
Goto(c, l) == pc' = [pc EXCEPT ![c] = l]

\* A key has one put or remove at a time.
Moving == {key[c] : c \in {d \in Clients : op[d] \in {"put", "remove"}}}

Begin(c, o, k, l) ==
    /\ At(c, "idle") /\ ops < MaxOps /\ ops' = ops + 1
    /\ <<c, o, k>> \in Requests
    /\ o \in {"put", "remove"} => k \notin Moving
    /\ op' = [op EXCEPT ![c] = o] /\ key' = [key EXCEPT ![c] = k]
    /\ Goto(c, l)
    /\ UNCHANGED <<new, freeVars>>

\* put publishes its page before it takes the lock.
put(c, k) ==
    /\ free_slots[c] # {}
    /\ Begin(c, "put", k, "lock") /\ UNCHANGED old
    /\ hiom_lock_intent_publish(c, c)
    /\ UNCHANGED <<pmVars, index, deadlock_offsets, repair, readerVars>>

LockPage(c) ==
    /\ At(c, "lock") /\ lock(c) /\ Goto(c, "write")
    /\ UNCHANGED <<free_slots, data, sharedVars, opVars, freeVars, repair, readerVars, ops>>

\* The record, then its bit, in the first free slot.
WriteRecord(c) ==
    LET s == Min(free_slots[c])
    IN  /\ At(c, "write") /\ Goto(c, "resolve")
        /\ data' = [data EXCEPT ![c][s] = [key |-> key[c], val |-> key[c]]]
        /\ free_slots' = [free_slots EXCEPT ![c] = @ \ {s}]
        /\ new' = [new EXCEPT ![c] = <<c, s>>]
        /\ UNCHANGED <<version_lock, sharedVars, op, key, old, freeVars, repair, readerVars,
                       ops>>

remove(c, k) ==
    /\ Begin(c, "remove", k, "resolve") /\ UNCHANGED old
    /\ UNCHANGED <<pmVars, sharedVars, repair, readerVars>>

AfterFree(c) == IF op[c] = "put" THEN "unlock" ELSE "done"

\* A record the optimistic read can return.
Readable(o, k) ==
    /\ o # None /\ ~IS_LOCKED(version_lock[PageOf(o)])
    /\ SlotOf(o) \notin free_slots[PageOf(o)] /\ data[PageOf(o)][SlotOf(o)].key = k

Resolved(c) == Readable(index[key[c]], key[c])

\* The resolver reads the record it would return, once behind each tier: on a
\* locked page, its own too, it gives up and the old record stays.
Resolve(c) ==
    LET o == index[key[c]]
    IN  /\ At(c, "resolve")
        /\ \/ /\ Resolved(c)
              /\ old' = [old EXCEPT ![c] = o]
              /\ Goto(c, IF PageOf(o) = c THEN "samepage" ELSE "publish")
           \/ /\ ~Resolved(c)
              /\ Goto(c, AfterFree(c)) /\ UNCHANGED old
        /\ UNCHANGED <<pmVars, sharedVars, op, key, new, freeVars, repair, readerVars, ops>>

-----------------------------------------------------------------------------
(* free_occupied_slot                                                      *)

\* A remove changes the bits of its client's page without the page lock.  Bits
\* are set by plain stores: beside a holder that sets another bit, either of
\* the two may be lost.
BesideHolder(c) == op[c] = "remove" /\ \E d \in Clients : pc[d] = "free" /\ PageOf(old[d]) = c

BesideRemove(p) ==
    p \in Clients /\ op[p] = "remove" /\ pc[p] \in {"samepage", "queue"}

invalidate_records(p, S, beside) ==
    \/ free_slots' = [free_slots EXCEPT ![p] = @ \cup S]
    \/ beside /\ UNCHANGED free_slots

SamePage(c) ==
    /\ At(c, "samepage") /\ Goto(c, AfterFree(c))
    /\ invalidate_records(c, {SlotOf(old[c])}, BesideHolder(c))
    /\ UNCHANGED <<version_lock, data, sharedVars, opVars, freeVars, repair, readerVars, ops>>

FreePublish(c) ==
    /\ At(c, "publish") /\ Goto(c, "cas")
    /\ hiom_lock_intent_publish(c, PageOf(old[c]))
    /\ UNCHANGED <<pmVars, index, deadlock_offsets, opVars, freeVars, repair, readerVars, ops>>

FreeLock(c) ==
    /\ At(c, "cas") /\ lock(PageOf(old[c])) /\ Goto(c, "free")
    /\ UNCHANGED <<free_slots, data, sharedVars, opVars, freeVars, repair, readerVars, ops>>

\* num_deadlock_retries failed attempts.
FreeGiveUp(c) ==
    /\ At(c, "cas") /\ IS_LOCKED(version_lock[PageOf(old[c])]) /\ Goto(c, "queue")
    /\ UNCHANGED <<pmVars, sharedVars, opVars, freeVars, repair, readerVars, ops>>

\* The page's owner frees the queued offsets S.
Drain(S) == drained' = [c \in Clients |-> drained[c] \/ (queued[c] /\ old[c] \in S)]

\* Mutant: the page of a queued offset is not compared.
FreeQueueAnyPage(c) ==
    LET all  == deadlock_offsets \cup (IF queued[c] THEN {} ELSE {old[c]})
    IN  /\ At(c, "queue") /\ Goto(c, "withdraw")
        /\ queued' = [queued EXCEPT ![c] = TRUE] /\ seen' = [seen EXCEPT ![c] = old[c] \in all]
        /\ deadlock_offsets' = {}
        /\ Drain(all)
        /\ invalidate_records(c, {SlotOf(o) : o \in all}, FALSE)
        /\ UNCHANGED <<version_lock, data, index, lock_intents, opVars, refreed, raced, repair,
                       readerVars, ops>>

\* Under deadlock_offset_lock_: queue the offset once, free what others have
\* queued on this client's page.
FreeQueue(c) ==
    LET all  == deadlock_offsets \cup (IF queued[c] THEN {} ELSE {old[c]})
        mine == {o \in all : PageOf(o) = c}
    IN  /\ At(c, "queue") /\ Goto(c, "withdraw")
        /\ queued' = [queued EXCEPT ![c] = TRUE]
        /\ seen' = [seen EXCEPT ![c] = old[c] \in all]
        /\ deadlock_offsets' = all \ mine
        /\ Drain(mine)
        /\ invalidate_records(c, {SlotOf(o) : o \in mine}, BesideHolder(c))
        /\ UNCHANGED <<version_lock, data, index, lock_intents, opVars, refreed, raced, repair,
                       readerVars, ops>>

\* The client's own intent would make the repair refuse.
FreeWithdraw(c) ==
    /\ At(c, "withdraw") /\ Goto(c, "republish")
    /\ RepairBegin(c, PageOf(old[c]))
    /\ hiom_lock_intent_clear(c, PageOf(old[c]))
    /\ UNCHANGED <<pmVars, index, deadlock_offsets, opVars, freeVars, readerVars, ops>>

FreeRepublish(c) ==
    /\ At(c, "republish")
    /\ hiom_lock_intent_publish(c, PageOf(old[c]))
    /\ Goto(c, IF seen[c] THEN "cas" ELSE "clear")
    /\ UNCHANGED <<pmVars, index, deadlock_offsets, opVars, freeVars, repair, readerVars, ops>>

FreeSlot(c) ==
    LET o == old[c]
    IN  /\ At(c, "free") /\ Goto(c, IF queued[c] /\ seen[c] THEN "dequeue" ELSE "unlockold")
        /\ invalidate_records(PageOf(o), {SlotOf(o)}, BesideRemove(PageOf(o)))
        /\ refreed' = (refreed \/ drained[c])
        /\ UNCHANGED <<version_lock, data, sharedVars, opVars, queued, seen, drained, raced, repair,
                       readerVars, ops>>

\* Mutant: the client's offset is left in the queue.
FreeDequeueForgotten(c) ==
    /\ At(c, "dequeue") /\ Goto(c, "unlockold")
    /\ UNCHANGED <<pmVars, sharedVars, opVars, freeVars, repair, readerVars, ops>>

FreeDequeue(c) ==
    /\ At(c, "dequeue") /\ Goto(c, "unlockold")
    /\ deadlock_offsets' = deadlock_offsets \ {old[c]}
    /\ UNCHANGED <<pmVars, index, lock_intents, opVars, freeVars, repair, readerVars, ops>>

UnlockOld(c) ==
    /\ At(c, "unlockold") /\ unlock(PageOf(old[c])) /\ Goto(c, "clear")
    /\ UNCHANGED <<free_slots, data, sharedVars, opVars, freeVars, repair, readerVars, ops>>

FreeClear(c) ==
    /\ At(c, "clear") /\ Goto(c, AfterFree(c))
    /\ hiom_lock_intent_clear(c, PageOf(old[c]))
    /\ UNCHANGED <<pmVars, index, deadlock_offsets, opVars, freeVars, repair, readerVars, ops>>

free_occupied_slot(c) ==
    \/ SamePage(c) \/ FreePublish(c) \/ FreeLock(c) \/ FreeGiveUp(c) \/ FreeQueue(c)
    \/ FreeWithdraw(c) \/ FreeRepublish(c) \/ FreeSlot(c) \/ FreeDequeue(c)
    \/ UnlockOld(c) \/ FreeClear(c)

-----------------------------------------------------------------------------
\* put releases its page and withdraws its intent.
UnlockPage(c) ==
    /\ At(c, "unlock") /\ unlock(c) /\ Goto(c, "done")
    /\ UNCHANGED <<free_slots, data, sharedVars, opVars, freeVars, repair, readerVars, ops>>

\* The caller then mirrors the new offset, or its absence, into the index; a
\* remove does so even when it resolved nothing.
Done(c) ==
    /\ At(c, "done") /\ Goto(c, "idle")
    /\ hiom_lock_intent_clear(c, c)
    /\ index' = [index EXCEPT ![key[c]] = CASE op[c] = "put" -> new[c]
                                            [] op[c] = "remove" -> None
                                            [] OTHER -> @]
    /\ op' = [op EXCEPT ![c] = "none"]
    /\ old' = [old EXCEPT ![c] = None] /\ new' = [new EXCEPT ![c] = None]
    /\ key' = [key EXCEPT ![c] = None]
    /\ queued' = [queued EXCEPT ![c] = FALSE] /\ seen' = [seen EXCEPT ![c] = FALSE]
    /\ drained' = [drained EXCEPT ![c] = FALSE]
    /\ UNCHANGED <<pmVars, deadlock_offsets, refreed, raced, repair, readerVars, ops>>

-----------------------------------------------------------------------------
(* update: try_at on the offset HotTier gave, unverified, and then on the   *)
(* one the resolver gives.                                                 *)

update(c, k) ==
    /\ Begin(c, "update", k, "try") /\ index[k] # None
    /\ old' = [old EXCEPT ![c] = index[k]]
    /\ UNCHANGED <<pmVars, sharedVars, repair, readerVars>>

\* A freed slot: the record is not there any more.
UpdateMiss(c) ==
    /\ At(c, "try") /\ SlotOf(old[c]) \in free_slots[PageOf(old[c])]
    /\ Goto(c, "missed")
    /\ UNCHANGED <<pmVars, sharedVars, opVars, freeVars, repair, readerVars, ops>>

UpdatePublish(c) ==
    /\ At(c, "try") /\ SlotOf(old[c]) \notin free_slots[PageOf(old[c])]
    /\ Goto(c, "trylock")
    /\ hiom_lock_intent_publish(c, PageOf(old[c]))
    /\ UNCHANGED <<pmVars, index, deadlock_offsets, opVars, freeVars, repair, readerVars, ops>>

UpdateLock(c) ==
    /\ At(c, "trylock") /\ lock(PageOf(old[c])) /\ Goto(c, "apply")
    /\ UNCHANGED <<free_slots, data, sharedVars, opVars, freeVars, repair, readerVars, ops>>

\* Mutant: the intent stays published during the repair.
UpdateBusyKept(c) ==
    /\ At(c, "trylock") /\ IS_LOCKED(version_lock[PageOf(old[c])]) /\ Goto(c, "busy")
    /\ UNCHANGED <<pmVars, sharedVars, opVars, freeVars, repair, readerVars, ops>>

\* The lock is busy: the intent is withdrawn before the next attempt, ...
UpdateBusy(c) ==
    /\ At(c, "trylock") /\ IS_LOCKED(version_lock[PageOf(old[c])]) /\ Goto(c, "busy")
    /\ hiom_lock_intent_clear(c, PageOf(old[c]))
    /\ UNCHANGED <<pmVars, index, deadlock_offsets, opVars, freeVars, repair, readerVars, ops>>

\* ... and every STALE_LOCK_SPIN_THRESHOLD attempts a repair is tried; on a
\* page that is unlocked or registered it changes nothing.
UpdateRetry(c) ==
    /\ At(c, "busy") /\ Goto(c, "try")
    /\ RepairBegin(c, PageOf(old[c]))
    /\ UNCHANGED <<pmVars, sharedVars, opVars, freeVars, readerVars, ops>>

\* Mutant: the record is not looked at again under the lock.
HoldsKeyUnchecked(o, k) == TRUE

HoldsKey(o, k) ==
    /\ SlotOf(o) \notin free_slots[PageOf(o)]
    /\ data[PageOf(o)][SlotOf(o)].key = k

UpdateApply(c) ==
    LET o == old[c]
    IN  /\ At(c, "apply")
        /\ IF HoldsKey(o, key[c])
           THEN data' = [data EXCEPT ![PageOf(o)][SlotOf(o)].val = key[c]] /\ Goto(c, "applied")
           ELSE UNCHANGED data /\ Goto(c, "mismatch")
        /\ UNCHANGED <<version_lock, free_slots, sharedVars, opVars, freeVars, repair,
                       readerVars, ops>>

UpdateUnlock(c) ==
    /\ At(c, "applied") \/ At(c, "mismatch")
    /\ unlock(PageOf(old[c]))
    /\ Goto(c, IF pc[c] = "applied" THEN "withdrawapplied" ELSE "withdrawmissed")
    /\ UNCHANGED <<free_slots, data, sharedVars, opVars, freeVars, repair, readerVars, ops>>

UpdateClear(c) ==
    /\ At(c, "withdrawapplied") \/ At(c, "withdrawmissed")
    /\ Goto(c, IF pc[c] = "withdrawapplied" THEN "done" ELSE "missed")
    /\ hiom_lock_intent_clear(c, PageOf(old[c]))
    /\ UNCHANGED <<pmVars, index, deadlock_offsets, opVars, freeVars, repair, readerVars, ops>>

\* The slow path is tried once.
UpdateSlow(c) ==
    /\ At(c, "missed")
    /\ IF op[c] = "update" /\ Resolved(c)
       THEN /\ old' = [old EXCEPT ![c] = index[key[c]]]
            /\ op' = [op EXCEPT ![c] = "update_slow"] /\ Goto(c, "try")
       ELSE Goto(c, "done") /\ UNCHANGED <<op, old>>
    /\ UNCHANGED <<pmVars, sharedVars, key, new, freeVars, repair, readerVars, ops>>

Updating(c) ==
    \/ UpdateMiss(c) \/ UpdatePublish(c) \/ UpdateLock(c) \/ UpdateBusy(c) \/ UpdateRetry(c)
    \/ UpdateApply(c) \/ UpdateUnlock(c) \/ UpdateClear(c) \/ UpdateSlow(c)

-----------------------------------------------------------------------------
(* verify_and_read_offset around hiom_read_at_offset_status.               *)

RAt(r, l)  == reader[r].at = l /\ repair[r] = NoRepair
RTo(r, rd) == reader' = [reader EXCEPT ![r] = rd]
ROff(r)    == reader[r].off
RRecord(r) == data[PageOf(ROff(r))][SlotOf(ROff(r))]
RLock(r)   == version_lock[PageOf(ROff(r))]

ReaderUnchanged == UNCHANGED <<pmVars, sharedVars, pc, opVars, freeVars, ops>>

get(r, k) ==
    /\ RAt(r, "idle") /\ reads < MaxReads /\ reads' = reads + 1
    /\ <<r, "get", k>> \in Requests /\ index[k] # None
    /\ RTo(r, [NoRead EXCEPT !.at = "bit", !.want = k, !.off = index[k]])
    /\ UNCHANGED repair /\ ReaderUnchanged

\* kSlotFree is final.
ReadBit(r) ==
    /\ RAt(r, "bit")
    /\ RTo(r, IF SlotOf(ROff(r)) \in free_slots[PageOf(ROff(r))] THEN NoRead
              ELSE [reader[r] EXCEPT !.at = "version"])
    /\ UNCHANGED <<repair, reads>> /\ ReaderUnchanged

\* kTransient: read again, after a repair; the attempts are bounded.
ReadLocked(r) ==
    /\ RAt(r, "version") /\ IS_LOCKED(RLock(r))
    /\ \/ RTo(r, [reader[r] EXCEPT !.at = "bit"]) /\ RepairBegin(r, PageOf(ROff(r)))
       \/ RTo(r, NoRead) /\ UNCHANGED repair
    /\ UNCHANGED reads /\ ReaderUnchanged

ReadVersion(r) ==
    /\ RAt(r, "version") /\ ~IS_LOCKED(RLock(r))
    /\ RTo(r, [reader[r] EXCEPT !.at = "key", !.lock = RLock(r)])
    /\ UNCHANGED <<repair, reads>> /\ ReaderUnchanged

ReadKey(r) ==
    /\ RAt(r, "key")
    /\ RTo(r, [reader[r] EXCEPT !.at = "val", !.key = RRecord(r).key])
    /\ UNCHANGED <<repair, reads>> /\ ReaderUnchanged

ReadVal(r) ==
    /\ RAt(r, "val")
    /\ RTo(r, [reader[r] EXCEPT !.at = "check", !.val = RRecord(r).val])
    /\ UNCHANGED <<repair, reads>> /\ ReaderUnchanged

\* Mutant: the version is not loaded again after the copies.
SameVersionUnchecked(r) == TRUE

SameVersion(r) == RLock(r) = reader[r].lock

\* kOk if the version has not moved; then the key decides.
ReadCheck(r) ==
    /\ RAt(r, "check")
    /\ RTo(r, IF ~SameVersion(r) THEN [NoRead EXCEPT !.at = "bit", !.want = reader[r].want,
                                                    !.off = ROff(r)]
              ELSE IF reader[r].key = reader[r].want THEN [reader[r] EXCEPT !.at = "found"]
              ELSE NoRead)
    /\ UNCHANGED <<repair, reads>> /\ ReaderUnchanged

ReadReturn(r) ==
    /\ RAt(r, "found") /\ RTo(r, NoRead)
    /\ UNCHANGED <<repair, reads>> /\ ReaderUnchanged

Reading(r) ==
    \/ ReadBit(r) \/ ReadLocked(r) \/ ReadVersion(r) \/ ReadKey(r) \/ ReadVal(r)
    \/ ReadCheck(r) \/ ReadReturn(r)

-----------------------------------------------------------------------------
ClientStep(c) ==
    \/ LockPage(c) \/ WriteRecord(c) \/ Resolve(c)
    \/ free_occupied_slot(c) \/ UnlockPage(c) \/ Done(c) \/ Updating(c)

Next ==
    \/ \E c \in Clients : \/ \E k \in Keys : put(c, k) \/ remove(c, k) \/ update(c, k)
                          \/ ClientStep(c)
    \/ \E r \in Readers : (\E k \in Keys : get(r, k)) \/ Reading(r)
    \/ \E a \in Actors : hiom_try_repair_stale_lock(a)

Spec == Init /\ [][Next]_vars

\* A thread inside an operation goes on.
Fairness ==
    /\ \A c \in Clients : WF_vars(ClientStep(c) \/ hiom_try_repair_stale_lock(c))
    /\ \A r \in Readers : WF_vars(Reading(r) \/ hiom_try_repair_stale_lock(r))

FairSpec == Spec /\ Fairness

-----------------------------------------------------------------------------
(* Properties                                                              *)

\* What the client has locked: put its own page to the end, free_occupied_slot
\* and update the page of the old record.
Holds(c, p) ==
    \/ /\ op[c] = "put" /\ p = c
       /\ pc[c] \in {"write", "resolve", "samepage", "publish", "cas", "queue", "withdraw",
                    "republish", "free", "dequeue", "unlockold", "clear", "unlock"}
    \/ /\ pc[c] \in {"free", "dequeue", "unlockold", "apply", "applied", "mismatch"}
       /\ p = PageOf(old[c])

Holders(p) == {c \in Clients : Holds(c, p)}

\* The types of the variables.
PageTypeOK ==
    /\ version_lock \in [Pages -> 0 .. USED_BIT - 1]
    /\ free_slots \in [Pages -> SUBSET Slots]
    /\ data \in [Pages -> [Slots -> [key : Keys, val : Keys]]]
    /\ index \in [Keys -> Offsets \cup {None}]
    /\ lock_intents \in [Clients -> SUBSET Pages] /\ Published <= kLockIntentSlots
    /\ deadlock_offsets \subseteq Offsets
    /\ pc \in [Clients -> {"idle", "lock", "write", "resolve", "samepage", "publish", "cas",
                           "queue", "withdraw", "republish", "free", "dequeue", "unlockold",
                           "clear", "unlock", "done", "try", "trylock", "busy", "apply",
                           "applied", "mismatch", "withdrawapplied", "withdrawmissed", "missed"}]
    /\ op \in [Clients -> {"none", "put", "remove", "update", "update_slow"}]
    /\ key \in [Clients -> Keys \cup {None}]
    /\ old \in [Clients -> Offsets \cup {None}] /\ new \in [Clients -> Offsets \cup {None}]
    /\ queued \in [Clients -> BOOLEAN] /\ seen \in [Clients -> BOOLEAN]
    /\ drained \in [Clients -> BOOLEAN] /\ refreed \in BOOLEAN /\ raced \in BOOLEAN
    /\ repair \in [Actors -> [at : {"none", "load", "scan", "load2", "scan2", "cas"},
                             page : Pages \cup {None}, lv : 0 .. USED_BIT - 1]]
    /\ ops \in 0 .. MaxOps /\ reads \in 0 .. MaxReads

\* A page lock has one live holder, whose lock bit stays set and whose intent
\* stays published: what the repair of crash-stale locks relies on (viper.hpp
\* :731-757) and must itself preserve, whatever it meets between its loads, its
\* scans and its CAS, and however many threads repair.  Excepted are the histories
\* in which two threads were about to unlock a page for the same loaded word: the
\* code can lose a live lock in them (LiveLockKept).  With the types: the version
\* stays below USED_BIT when it wraps, and the registry never holds more than its
\* slots.
LockExclusive ==
    /\ PageTypeOK
    /\ ~raced => \A p \in Pages :
        /\ \A c, d \in Holders(p) : c = d
        /\ \A c \in Holders(p) : IS_LOCKED(version_lock[p]) /\ p \in lock_intents[c]

\* No repair ever unlocks a page a live client has locked, however many threads
\* repair at once: "Safe to call concurrently from any thread" (viper.hpp:792),
\* and only a full turn of the version "between the repairer's re-scan and its
\* CAS" could clear a lock a new holder just took (viper.hpp:751-757).  The code
\* does not keep it; LockExclusive says what it does keep.
LiveLockKept == \A p \in Pages : Holders(p) # {} => IS_LOCKED(version_lock[p])

\* While a thread is between its second load and its CAS no lock brings back the
\* word it has loaded: the full turn of the six-bit version that the comment at
\* viper.hpp:751-757 rules out by its length.
NoRepairLap ==
    ~raced => \A a \in Actors :
        LET w == version_lock[repair[a].page]
        IN  repair[a].at \in {"scan2", "cas"} /\ ~IS_LOCKED(w) => w + 1 # repair[a].lv

\* While a reader copies a record the version of its page does not go all the
\* way round: no release brings back the version the reader began with.  Six
\* bits are enough only then (viper.hpp:2660).
NoLap ==
    ~raced => \A r \in Readers :
        reader[r].at \in {"key", "val", "check"} /\ IS_LOCKED(RLock(r))
        => (RLock(r) + 1) % USED_BIT # reader[r].lock

\* A read that succeeds returns a key and a value that were written together:
\* the version check catches a put or an update between the two copies, and a
\* record that was freed and its slot used again.  It relies on the page locks:
\* the histories that have lost one are excepted.
ReadConsistent ==
    ~raced => \A r \in Readers : reader[r].at = "found" => reader[r].val = reader[r].key

\* An update never reaches another key's record.
ValuesBelong ==
    \A p \in Pages, s \in Slots : data[p][s].val = data[p][s].key

\* The record of every key that no put or remove is moving stays live, whatever
\* offsets other clients queue and free for each other, unless a client that got
\* the lock at last freed an offset which the page's owner had freed already, or
\* a page lock was lost to a race of repairs.
RecordsIntact ==
    ~refreed /\ ~raced => \A k \in Keys \ Moving :
        LET o == index[k]
        IN  o # None => /\ SlotOf(o) \notin free_slots[PageOf(o)]
                        /\ data[PageOf(o)][SlotOf(o)].key = k

\* A queued offset belongs to a client that is still waiting to free it; else a
\* later client would free whatever the slot holds by then.
QueueOwned ==
    \A o \in deadlock_offsets :
        \E c \in Clients : /\ old[c] = o /\ queued[c]
                           /\ pc[c] \in {"cas", "queue", "withdraw", "republish", "free",
                                         "dequeue"}

\* Two clients after one crash-stale page keep each other's repair from
\* succeeding, as each sees the other's intent.
StaleContended ==
    \E c, d \in Clients : /\ c # d /\ old[c] # None /\ old[d] # None
                          /\ PageOf(old[c]) = PageOf(old[d])
                          /\ Holders(PageOf(old[c])) = {}
                          /\ IS_LOCKED(version_lock[PageOf(old[c])])

\* Clients that wait for each other's pages, or for a page a killed process
\* left locked, get on: every operation ends.
OperationsEnd ==
    (\E c \in Clients : pc[c] # "idle") ~> ((\A c \in Clients : pc[c] = "idle") \/ StaleContended)
=============================================================================
