------------------------------- MODULE KeyIndex -------------------------------
(***************************************************************************)
(* One key of the store: its records in VPage slots (viper.hpp), its       *)
(* HotTier slot (hot_tier.hpp), its ColdTier entry (cold_tier.hpp) and its *)
(* commit entries, with the steps of Client::put, update, remove and get   *)
(* and of the flusher's apply_batch (hiom.hpp) interleaved.                *)
(*                                                                         *)
(* One client writes the key and one reads it.  Around them: puts of other *)
(* keys that take and free VPage slots and hold page locks, and another    *)
(* fingerprint that competes for the HotTier bucket, here of one slot.     *)
(***************************************************************************)
EXTENDS Integers, Sequences, FiniteSets, FiniteSetsExt, OffsetCodec

CONSTANTS
    NumOffsets,    \* VPage slots
    Address,       \* the block, page and slot of each
    MaxOps,        \* bound: writes of the key
    MaxGets,       \* bound: reads of the key
    MaxRivals,     \* bound: HotTier inserts of the rival fingerprint
    MaxOthers      \* bound: records and page locks of other keys

ASSUME AddressAssumption ==
    /\ NumOffsets \in Nat \ {0}
    /\ Address \in [0 .. NumOffsets - 1 -> [block : Nat, page : Nat, slot : Nat]]
    /\ \A o, p \in DOMAIN Address : Address[o] = Address[p] => o = p
ASSUME KeyBounds        == /\ MaxOps \in Nat /\ MaxGets \in Nat
                           /\ MaxRivals \in Nat /\ MaxOthers \in Nat

Offsets   == 0 .. NumOffsets - 1
Tombstone == -1                            \* KVOffset::Tombstone()
PageOf(o) == <<Address[o].block, Address[o].page>>
Pages     == {PageOf(o) : o \in Offsets}

\* The content of a VPage slot: the number of the write that stored the key's
\* value, or one of these.
Free  == 0
Other == -1

\* A HotTier slot holds a fingerprint and an encoded offset.
Word(o) == encode(Address[o].block, Address[o].page, Address[o].slot)
Far(o)  == Word(o) = nullopt
EmptySlot == [fp |-> "none", off |-> nullopt]
RivalSlot == [fp |-> "rival", off |-> nullopt]
KeySlot(o) == [fp |-> "key", off |-> Word(o)]

Entry == [op : {"kPut", "kRemove"}, off : Offsets \cup {Tombstone}, ref : BOOLEAN]
NoEntry == [op |-> "none", off |-> Tombstone, ref |-> FALSE]

VARIABLES
    vslot,              \* VPage slots
    held,               \* pages whose lock a client with another key holds
    hot, hstate,        \* HotTier: the bucket's slot and its SlotState
    cold,               \* the key's ColdTier entry
    queue,              \* commit entries of the key in its lane
    fpc, batch, canonical, winner, k,     \* the flusher in apply_batch
    pc, op, off, new, ref,                \* the writer
    ops, num, done,     \* writes begun, the current one, the last completed
    cur,                \* offset the last completed write left the key at
    rpc, roff, gets,    \* the reader
    began, found,       \* done when its get began, the value it read (0: none)
    xpc, rivals,        \* the rival fingerprint
    others,             \* steps of other keys
    places,             \* history: the offsets the key was ever written at
    leaked              \* history: a resolver missed the key's live record

pmVars     == <<vslot, held, cold>>
hotVars    == <<hot, hstate>>
flushVars  == <<fpc, batch, canonical, winner, k>>
writerVars == <<pc, op, off, new, ref, ops, num, done, cur>>
readerVars == <<rpc, roff, gets, began, found>>
envVars    == <<xpc, rivals, others>>
vars == <<pmVars, hotVars, queue, flushVars, writerVars, readerVars, envVars, places, leaked>>

HoldsKey(o) == vslot[o] > 0
KeyRecords  == {o \in Offsets : HoldsKey(o)}

\* The types, and that no step follows a tombstone to a VPage (Client::get,
\* update and the resolver test for one before they read).
KeyTypeOK ==
    /\ vslot \in [Offsets -> Other .. MaxOps + 1]
    /\ held \subseteq Pages
    /\ hot \in {EmptySlot, RivalSlot} \cup {KeySlot(o) : o \in Offsets}
    /\ hstate \in {"kUnpinned", "kPinned", "kInFlush"}
    /\ cold \in Offsets \cup {Tombstone}
    /\ queue \in Seq(Entry) /\ batch \in Seq(Entry)
    /\ fpc \in {"idle", "read", "pick", "upsert", "take", "release"}
    /\ canonical \in Offsets \cup {Tombstone}
    /\ winner \in Entry \cup {NoEntry}
    /\ k \in 1 .. Len(batch) + 1
    /\ pc \in {"idle", "hotonly", "try", "resolve", "verifyhot", "resolvecold",
               "verifycold", "resolved", "unlock", "mirror", "pinor", "pinand",
               "hotremove", "push", "drain"}
    /\ op \in {"kPut", "kRemove", "update"}
    /\ off \in Offsets \cup {Tombstone} /\ new \in Offsets \cup {Tombstone}
    /\ ref \in BOOLEAN
    /\ ops \in 1 .. MaxOps + 1 /\ num \in 1 .. ops /\ done \in 1 .. ops
    /\ cur \in Offsets \cup {Tombstone}
    /\ rpc \in {"idle", "hot", "verifyhot", "cold", "verifycold", "warm"}
    /\ roff \in Offsets \cup {Tombstone}
    /\ gets \in 0 .. MaxGets /\ began \in 1 .. ops /\ found \in 0 .. ops
    /\ xpc \in {"idle", "evict", "insert", "pin", "pinned"}
    /\ rivals \in 0 .. MaxRivals /\ others \in 0 .. MaxOthers
    /\ places \subseteq Offsets /\ leaked \in BOOLEAN
    \* what is dereferenced is an offset, what is upserted is a put
    /\ pc \in {"try", "verifyhot", "verifycold"} => off # Tombstone
    /\ rpc \in {"verifyhot", "verifycold", "warm"} => roff # Tombstone
    /\ fpc = "upsert" => winner.op = "kPut"

(***************************************************************************)
(* A reopened pool: the first write left the key in slot 0, ColdTier knows *)
(* it, HotTier is empty.                                                   *)
(***************************************************************************)
Init ==
    /\ vslot = [o \in Offsets |-> IF o = 0 THEN 1 ELSE Free]
    /\ held = {}
    /\ hot = EmptySlot /\ hstate = "kUnpinned"
    /\ cold = 0
    /\ queue = <<>> /\ batch = <<>>
    /\ fpc = "idle" /\ canonical = Tombstone /\ winner = NoEntry /\ k = 1
    /\ pc = "idle" /\ op = "kPut" /\ off = Tombstone /\ new = Tombstone /\ ref = FALSE
    /\ ops = 1 /\ num = 1 /\ done = 1 /\ cur = 0
    /\ rpc = "idle" /\ roff = Tombstone /\ gets = 0 /\ began = 1 /\ found = 0
    /\ xpc = "idle" /\ rivals = 0 /\ others = 0
    /\ places = {0} /\ leaked = FALSE

(***************************************************************************)
(* A put of the key holds the version lock of its page from the write to   *)
(* the release of the old record.  hiom_read_at_offset fails on a locked   *)
(* page, whoever holds the lock; hiom_get_slot_key does not look at it.    *)
(***************************************************************************)
HoldsLock == op = "kPut" /\ pc \in {"resolve", "verifyhot", "resolvecold", "verifycold",
                                   "resolved", "unlock"}

Locked(p) == p \in held \/ (HoldsLock /\ p = PageOf(new))

Readable(o) == HoldsKey(o) /\ ~Locked(PageOf(o))

\* The live record a resolver of the writer should find.
OldRecord == KeyRecords \ {new}

\* The offset the HotTier slot names.
HotOffset ==
    LET at == {o \in Offsets : hot.fp = "key" /\ decode(hot.off) = Address[o]}
    IN  IF at = {} THEN Tombstone ELSE CHOOSE o \in at : TRUE

\* The key's record is found by way of HotTier or ColdTier.
Reachable(o) == hot = KeySlot(o) \/ cold = o

(***************************************************************************)
(* Client::put, remove and update begin.                                   *)
(***************************************************************************)
Begin(o, l) ==
    /\ pc = "idle" /\ ops <= MaxOps
    /\ ops' = ops + 1 /\ num' = ops + 1
    /\ op' = o /\ pc' = l /\ off' = Tombstone /\ ref' = FALSE

PutWrite(o) ==
    /\ Begin("kPut", "resolve")
    /\ vslot[o] = Free /\ ~Locked(PageOf(o))
    /\ vslot' = [vslot EXCEPT ![o] = ops + 1]
    /\ new' = o
    /\ UNCHANGED <<held, cold, hotVars, queue, flushVars, done, cur, readerVars, envVars>>

RemoveBegin ==
    /\ Begin("kRemove", "resolve")
    /\ new' = Tombstone
    /\ UNCHANGED <<pmVars, hotVars, queue, flushVars, done, cur, readerVars, envVars>>

UpdateBegin ==
    /\ Begin("update", "hotonly")
    /\ new' = Tombstone
    /\ UNCHANGED <<pmVars, hotVars, queue, flushVars, done, cur, readerVars, envVars>>

(***************************************************************************)
(* The old-offset resolver: HotTier, verify, then ColdTier, verify.        *)
(***************************************************************************)
WriterGoto(l, o) == pc' = l /\ off' = o

ResolverUnchanged ==
    UNCHANGED <<pmVars, hotVars, queue, flushVars, op, new, ref, ops, num, done, cur,
                readerVars, envVars>>

ResolveHot ==
    /\ pc = "resolve"
    /\ IF hot.fp = "key" THEN WriterGoto("verifyhot", HotOffset)
                         ELSE WriterGoto("resolvecold", Tombstone)
    /\ ResolverUnchanged

\* Mutant: HotTier's answer is trusted without reading the record.
VerifyHotTrusted ==
    /\ pc = "verifyhot"
    /\ WriterGoto("resolved", off)
    /\ ResolverUnchanged

VerifyHot ==
    /\ pc = "verifyhot"
    /\ IF Readable(off) THEN WriterGoto("resolved", off)
                        ELSE WriterGoto("resolvecold", Tombstone)
    /\ ResolverUnchanged

ResolveCold ==
    /\ pc = "resolvecold"
    /\ IF cold # Tombstone THEN WriterGoto("verifycold", cold)
                           ELSE WriterGoto("resolved", Tombstone)
    /\ ResolverUnchanged

VerifyCold ==
    /\ pc = "verifycold"
    /\ WriterGoto("resolved", IF Readable(off) THEN off ELSE Tombstone)
    /\ ResolverUnchanged

\* Mutant: put does not free the record it replaces.
FreeOldSkipped ==
    /\ pc = "resolved" /\ op \in {"kPut", "kRemove"}
    /\ vslot' = IF off = Tombstone \/ op = "kPut" THEN vslot ELSE [vslot EXCEPT ![off] = Free]
    /\ pc' = IF op = "kPut" THEN "unlock" ELSE "hotremove"
    /\ UNCHANGED <<held, cold, hotVars, queue, flushVars, op, off, new, ref, ops, num,
                   done, cur, readerVars, envVars>>

\* free_occupied_slot(off).  When the page of the old record is locked, its
\* holder frees the record through deadlock_offsets_: the outcome is the same.
FreeOld ==
    /\ pc = "resolved" /\ op \in {"kPut", "kRemove"}
    /\ vslot' = IF off = Tombstone THEN vslot ELSE [vslot EXCEPT ![off] = Free]
    /\ pc' = IF op = "kPut" THEN "unlock" ELSE "hotremove"
    /\ UNCHANGED <<held, cold, hotVars, queue, flushVars, op, off, new, ref, ops, num,
                   done, cur, readerVars, envVars>>

Unlock ==
    /\ pc = "unlock"
    /\ pc' = "mirror"
    /\ UNCHANGED <<pmVars, hotVars, queue, flushVars, op, off, new, ref, ops, num,
                   done, cur, readerVars, envVars>>

(***************************************************************************)
(* update: the HotTier candidate is tried under the page lock, then what   *)
(* the resolver finds.  The value changes in place.                        *)
(***************************************************************************)
UpdateHotOnly ==
    /\ pc = "hotonly"
    /\ IF hot.fp = "key" THEN WriterGoto("try", HotOffset)
                         ELSE WriterGoto("resolve", Tombstone)
    /\ ResolverUnchanged

UpdateApply(o) ==
    /\ vslot' = [vslot EXCEPT ![o] = num]
    /\ pc' = "idle" /\ off' = Tombstone
    /\ done' = num
    /\ UNCHANGED <<held, cold, hotVars, queue, flushVars, op, new, ref, ops, num, cur,
                   readerVars, envVars>>

\* The offsets update gives up: a free slot at once, another key's under the
\* lock that try_at takes.
Mismatched == {Tombstone} \cup
    {o \in Offsets : vslot[o] = Free \/ (vslot[o] = Other /\ ~Locked(PageOf(o)))}

UpdateTryHot ==
    /\ pc = "try"
    /\ \/ Readable(off) /\ UpdateApply(off)
       \/ off \in Mismatched /\ WriterGoto("resolve", Tombstone) /\ ResolverUnchanged

UpdateTryCold ==
    /\ pc = "resolved" /\ op = "update"
    /\ \/ off # Tombstone /\ Readable(off) /\ UpdateApply(off)
       \/ off \in Mismatched /\ WriterGoto("idle", Tombstone) /\ ResolverUnchanged

(***************************************************************************)
(* mirror_write_with_offset: encode, upsert_pinned, push_commit.           *)
(***************************************************************************)
MirrorUnchanged ==
    UNCHANGED <<pmVars, queue, flushVars, op, off, new, ops, num, done, cur, readerVars,
                envVars>>

EncodeFails ==
    /\ pc = "mirror" /\ Far(new)
    /\ pc' = "push"
    /\ UNCHANGED <<hotVars, ref>>
    /\ MirrorUnchanged

\* The slot matches, is empty, or is evicted from the rival.
Claimable == hot.fp \in {"key", "none"} \/ hstate = "kUnpinned"

HotStore ==
    /\ pc = "mirror" /\ ~Far(new)
    /\ Claimable
    /\ hot' = KeySlot(new)
    /\ pc' = "pinor"
    /\ UNCHANGED <<hstate, ref>>
    /\ MirrorUnchanged

\* force_pinned sets one bit of the state and then clears the other.
PinOr ==
    /\ pc = "pinor"
    /\ hstate' = IF hstate = "kUnpinned" THEN "kPinned" ELSE hstate
    /\ pc' = "pinand"
    /\ UNCHANGED <<hot, ref>>
    /\ MirrorUnchanged

PinAnd ==
    /\ pc = "pinand"
    /\ hstate' = IF hstate = "kInFlush" THEN "kPinned" ELSE hstate
    /\ ref' = TRUE
    /\ pc' = "push"
    /\ UNCHANGED hot
    /\ MirrorUnchanged

\* The bucket stayed full of pinned slots for kMaxBackpressureRetries.
PinFails ==
    /\ pc = "mirror" /\ ~Far(new)
    /\ ~Claimable
    /\ pc' = "push"
    /\ UNCHANGED <<hotVars, ref>>
    /\ MirrorUnchanged

HotRemove ==
    /\ pc = "hotremove"
    /\ hot' = IF hot.fp = "key" THEN EmptySlot ELSE hot
    /\ pc' = "push"
    /\ UNCHANGED <<hstate, ref>>
    /\ MirrorUnchanged

\* The write returns: cur is where readers should find the key.
Return ==
    /\ pc' = "idle"
    /\ done' = num /\ cur' = new

\* A put that failed to pin waits for the buffer to drain.
MustDrain == op = "kPut" /\ ~ref /\ ~Far(new)

Push ==
    /\ pc = "push"
    /\ queue' = Append(queue, [op |-> op, off |-> new, ref |-> ref])
    /\ IF MustDrain THEN pc' = "drain" /\ UNCHANGED <<done, cur>> ELSE Return
    /\ UNCHANGED <<pmVars, hotVars, flushVars, op, off, new, ref, ops, num, readerVars,
                   envVars>>

DrainWait ==
    /\ pc = "drain" /\ queue = <<>>
    /\ Return
    /\ UNCHANGED <<pmVars, hotVars, queue, flushVars, op, off, new, ref, ops, num,
                   readerVars, envVars>>

(***************************************************************************)
(* The flusher (or a producer in try_inline_flush): one drained lane.      *)
(***************************************************************************)
DrainLane ==
    /\ fpc = "idle" /\ queue # <<>>
    /\ batch' = queue /\ queue' = <<>>
    /\ fpc' = "read"
    /\ UNCHANGED <<pmVars, hotVars, canonical, winner, k, writerVars, readerVars, envVars>>

\* HotTier truth: the slot of the batch's first pinned put.
ReadSlot ==
    /\ fpc = "read"
    /\ canonical' = IF \E i \in DOMAIN batch : batch[i].ref THEN HotOffset ELSE Tombstone
    /\ fpc' = "pick"
    /\ UNCHANGED <<pmVars, hotVars, queue, batch, winner, k, writerVars, readerVars,
                   envVars>>

AlivePut(e) == e.op = "kPut" /\ HoldsKey(e.off)

\* Mutant: the put that HotTier names wins without a look at its record.
WinnerUnchecked(b, c) ==
    LET truth == {i \in DOMAIN b : b[i].op = "kPut" /\ b[i].off = c}
        walk  == {i \in DOMAIN b : b[i].op = "kRemove" \/ AlivePut(b[i])}
    IN  IF truth # {} THEN b[Min(truth)]
        ELSE IF walk # {} THEN b[Max(walk)]
        ELSE NoEntry

\* The put that HotTier names, else the last entry that is a remove or a put
\* whose record is still the key's.
Winner(b, c) ==
    LET truth == {i \in DOMAIN b : AlivePut(b[i]) /\ b[i].off = c}
        walk  == {i \in DOMAIN b : b[i].op = "kRemove" \/ AlivePut(b[i])}
    IN  IF truth # {} THEN b[Min(truth)]
        ELSE IF walk # {} THEN b[Max(walk)]
        ELSE NoEntry

PickWinner ==
    LET w == Winner(batch, canonical) IN
    /\ fpc = "pick"
    /\ winner' = w
    /\ cold' = IF w.op = "kRemove" THEN Tombstone ELSE cold
    /\ fpc' = IF w.op = "kPut" THEN "upsert" ELSE "take"
    /\ UNCHANGED <<vslot, held, hotVars, queue, batch, canonical, k, writerVars,
                   readerVars, envVars>>

BulkUpsert ==
    /\ fpc = "upsert"
    /\ cold' = winner.off
    /\ fpc' = "take"
    /\ UNCHANGED <<vslot, held, hotVars, queue, batch, canonical, winner, k, writerVars,
                   readerVars, envVars>>

\* Stage 2: PINNED -> IN_FLUSH -> UNPINNED for every entry's slot.
NextEntry ==
    IF k = Len(batch)
    THEN fpc' = "idle" /\ k' = 1 /\ batch' = <<>> /\ canonical' = Tombstone /\ winner' = NoEntry
    ELSE fpc' = "take" /\ k' = k + 1 /\ UNCHANGED <<batch, canonical, winner>>

TakeSlot ==
    /\ fpc = "take"
    /\ IF batch[k].ref /\ hstate = "kPinned"
       THEN hstate' = "kInFlush" /\ fpc' = "release" /\ UNCHANGED <<batch, canonical, winner, k>>
       ELSE NextEntry /\ UNCHANGED hstate
    /\ UNCHANGED <<pmVars, hot, queue, writerVars, readerVars, envVars>>

ReleaseSlot ==
    /\ fpc = "release"
    /\ hstate' = IF hstate = "kInFlush" THEN "kUnpinned" ELSE hstate
    /\ NextEntry
    /\ UNCHANGED <<pmVars, hot, queue, writerVars, readerVars, envVars>>

(***************************************************************************)
(* Client::get.                                                            *)
(***************************************************************************)
ReaderUnchanged ==
    UNCHANGED <<pmVars, hstate, queue, flushVars, writerVars, gets, began, envVars>>

GetBegin ==
    /\ rpc = "idle" /\ gets < MaxGets
    /\ gets' = gets + 1 /\ began' = done /\ found' = 0
    /\ rpc' = "hot" /\ roff' = Tombstone
    /\ UNCHANGED <<pmVars, hotVars, queue, flushVars, writerVars, envVars>>

GetHot ==
    /\ rpc = "hot"
    /\ IF hot.fp = "key" THEN rpc' = "verifyhot" /\ roff' = HotOffset
                         ELSE rpc' = "cold" /\ roff' = Tombstone
    /\ UNCHANGED <<hot, found>>
    /\ ReaderUnchanged

\* A locked page is retried, kMaxRetries times at most.
GetVerifyHot ==
    /\ rpc = "verifyhot"
    /\ \/ Readable(roff) /\ rpc' = "idle" /\ found' = vslot[roff]
       \/ ~Readable(roff) /\ rpc' = "cold" /\ UNCHANGED found
    /\ UNCHANGED <<hot, roff>>
    /\ ReaderUnchanged

GetCold ==
    /\ rpc = "cold"
    /\ roff' = cold
    /\ rpc' = IF cold = Tombstone THEN "idle" ELSE "verifycold"
    /\ UNCHANGED <<hot, found>>
    /\ ReaderUnchanged

GetVerifyCold ==
    /\ rpc = "verifycold"
    /\ \/ Readable(roff) /\ rpc' = "warm" /\ found' = vslot[roff]
       \/ ~Readable(roff) /\ rpc' = "idle" /\ UNCHANGED found
    /\ UNCHANGED <<hot, roff>>
    /\ ReaderUnchanged

\* mirror_into_hot_with_offset: the offset read from ColdTier, unpinned.
Warm ==
    /\ rpc = "warm"
    /\ hot' = IF ~Far(roff) /\ Claimable THEN KeySlot(roff) ELSE hot
    /\ rpc' = "idle"
    /\ UNCHANGED <<roff, found>>
    /\ ReaderUnchanged

(***************************************************************************)
(* The rival fingerprint: upsert_pinned of a key of the same bucket.       *)
(* sieve_evict reads the state before it loads and clears the slot.        *)
(***************************************************************************)
RivalUnchanged ==
    UNCHANGED <<pmVars, queue, flushVars, writerVars, readerVars, others>>

RivalProbe ==
    /\ xpc = "idle" /\ rivals < MaxRivals
    /\ hot.fp = "none" \/ (hot.fp = "key" /\ hstate = "kUnpinned")
    /\ rivals' = rivals + 1
    /\ xpc' = IF hot.fp = "none" THEN "insert" ELSE "evict"
    /\ UNCHANGED hotVars
    /\ RivalUnchanged

RivalEvict ==
    /\ xpc = "evict"
    /\ hot' = EmptySlot
    /\ xpc' = "insert"
    /\ UNCHANGED <<hstate, rivals>>
    /\ RivalUnchanged

RivalInsert ==
    /\ xpc = "insert"
    /\ IF hot.fp = "none" THEN hot' = RivalSlot /\ xpc' = "pin"
                          ELSE hot' = hot /\ xpc' = "idle"
    /\ UNCHANGED <<hstate, rivals>>
    /\ RivalUnchanged

RivalPin ==
    /\ xpc = "pin"
    /\ hstate' = "kPinned"
    /\ xpc' = "pinned"
    /\ UNCHANGED <<hot, rivals>>
    /\ RivalUnchanged

\* Stage 2 of the rival's batch.
RivalUnpin ==
    /\ xpc = "pinned"
    /\ hstate' = IF hstate = "kPinned" THEN "kUnpinned" ELSE hstate
    /\ xpc' = "idle"
    /\ UNCHANGED <<hot, rivals>>
    /\ RivalUnchanged

(***************************************************************************)
(* Other keys: a slot is written or freed, a page is locked for a while.   *)
(***************************************************************************)
OtherUnchanged ==
    UNCHANGED <<cold, hotVars, queue, flushVars, writerVars, readerVars, xpc, rivals>>

OtherPut(o) ==
    /\ others < MaxOthers /\ others' = others + 1
    /\ vslot[o] = Free /\ ~Locked(PageOf(o))
    /\ vslot' = [vslot EXCEPT ![o] = Other]
    /\ UNCHANGED held
    /\ OtherUnchanged

OtherFree(o) ==
    /\ vslot[o] = Other /\ ~Locked(PageOf(o))
    /\ vslot' = [vslot EXCEPT ![o] = Free]
    /\ UNCHANGED <<held, others>>
    /\ OtherUnchanged

OtherLock(p) ==
    /\ others < MaxOthers /\ others' = others + 1
    /\ ~Locked(p)
    /\ held' = held \cup {p}
    /\ UNCHANGED vslot
    /\ OtherUnchanged

OtherUnlock(p) ==
    /\ p \in held
    /\ held' = held \ {p}
    /\ UNCHANGED <<vslot, others>>
    /\ OtherUnchanged

Write ==
    \/ \E o \in Offsets : PutWrite(o)
    \/ RemoveBegin \/ UpdateBegin
    \/ ResolveHot \/ VerifyHot \/ ResolveCold \/ VerifyCold \/ FreeOld \/ Unlock
    \/ UpdateHotOnly \/ UpdateTryHot \/ UpdateTryCold
    \/ EncodeFails \/ HotStore \/ PinOr \/ PinAnd \/ PinFails \/ HotRemove
    \/ Push \/ DrainWait

Flush == DrainLane \/ ReadSlot \/ PickWinner \/ BulkUpsert \/ TakeSlot \/ ReleaseSlot

Get == GetBegin \/ GetHot \/ GetVerifyHot \/ GetCold \/ GetVerifyCold \/ Warm

Rival == RivalProbe \/ RivalEvict \/ RivalInsert \/ RivalPin \/ RivalUnpin

Others ==
    \/ \E o \in Offsets : OtherPut(o) \/ OtherFree(o)
    \/ \E p \in Pages : OtherLock(p) \/ OtherUnlock(p)

\* A put or a remove is about to go on without the live record it replaces.
Missed == pc = "resolved" /\ op # "update" /\ off = Tombstone /\ OldRecord # {}

Next ==
    /\ Write \/ Flush \/ Get \/ Rival \/ Others
    /\ leaked' = (leaked \/ Missed')
    /\ places' = places \cup KeyRecords'

Spec == Init /\ [][Next]_vars

(***************************************************************************)
(* Properties.  `leaked' remembers whether the resolver of a put or remove *)
(* ever missed the live record, as it does when HotTier and ColdTier both  *)
(* lost it or its page was locked; the first three say what the store      *)
(* promises as long as it did not.                                         *)
(***************************************************************************)
Quiet == pc = "idle" /\ fpc = "idle" /\ queue = <<>>

\* A get that finds a value finds that of the last write completed before it
\* began, or of a later one: neither a stale HotTier slot nor a ColdTier entry
\* that a batch has not reached yet serves an overwritten or removed value
\* (Client::get, verify_and_read_offset, free_occupied_slot).
FreshReads == ~leaked /\ found # 0 => found >= began

\* Between two writes the key has one live VPage slot, the one its last write
\* left it in, and none after a remove: no put leaks the record it replaces
\* (Client::put, old-offset resolver, free_occupied_slot).
SingleLive == ~leaked /\ pc = "idle" => KeyRecords = {cur} \ {Tombstone}

\* Once every commit entry is applied, ColdTier holds the offset of the key's
\* live record and nothing for a removed key, whatever order, coalescing and
\* interleaving the batches had (apply_batch's winner choice).
QuietConverged == ~leaked /\ Quiet => cold = cur

\* HotTier never leads a get, an update or the resolver to a place the key was
\* never stored at: an offset comes back from its packed word as it went in, and
\* one that does not fit is not mirrored (encode, decode, mirror_write_with_offset).
\* With the types: no step follows a tombstone to a VPage.
HotNamesKey ==
    /\ KeyTypeOK
    /\ hot.fp = "key" => HotOffset \in places

\* hiom.hpp:2297-2298: "each key has at most one live offset on PM".
OneLiveOffset == pc = "idle" => Cardinality(KeyRecords) <= 1

\* hiom.hpp:663-665: until ColdTier has a recently written key, its reads
\* "must hit the still-PINNED HotTier slot".
AckedReachable == pc = "idle" /\ cur # Tombstone => Reachable(cur)
=============================================================================
