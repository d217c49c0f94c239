-------------------------------- MODULE CCEH --------------------------------
(***************************************************************************)
(* The extendible hash table that is Viper's index when HiOM does not own   *)
(* it (cceh.hpp): a directory of segments, a counting lock per segment with *)
(* a split-request bit, lock-free slots inside, lazy deletion after a       *)
(* split, and a directory lock for updates and doubling.                    *)
(*                                                                          *)
(* Keys of at most 8 bytes (using_fp_ is false): a slot holds the key.  The *)
(* table is volatile (CCEH_PERSISTENT is not defined).  dir is loaded with  *)
(* its entry in one step: a thread that reads the directory another one     *)
(* deletes is outside the model.                                            *)
(***************************************************************************)
EXTENDS Integers, FiniteSets

CONSTANTS
    Threads, Keys,
    Bits,              \* of each key: the top MaxDepth bits of its hash, ...
    Loc,               \* ... and the slot its low bits lead to
    InitDepth,         \* log2(initCap)
    MaxDepth,          \* bound: no segment is split beyond this depth
    kNumSlot,
    ProbeLength,       \* kNumPairPerCacheLine * kNumCacheLine
    Filled,            \* the keys in the slots of each segment at the start
    Requests,          \* bound: the <<operation, key>> that are asked for
    MaxOps             \* bound: inserts and gets

\* pow(2, n), as far as it is needed
Pow2 == LET pow[n \in 0 .. MaxDepth] == IF n = 0 THEN 1 ELSE 2 * pow[n - 1] IN pow

Slots  == 0 .. kNumSlot - 1
SegIds == 0 .. Pow2[MaxDepth] - 1

INVALID   == "INVALID"
SENTINEL  == "SENTINEL"
Tombstone == 0                             \* IndexV::Tombstone(), IndexV::NONE()

ASSUME DepthAssumption == InitDepth \in Nat /\ MaxDepth \in Nat /\ InitDepth <= MaxDepth
ASSUME TableAssumption == /\ kNumSlot \in Nat \ {0} /\ ProbeLength \in 1 .. kNumSlot
                          /\ Bits \in [Keys -> SegIds] /\ Loc \in [Keys -> Slots]
                          /\ Keys \cap {INVALID, SENTINEL} = {}
ASSUME TableBounds     == /\ MaxOps \in Nat /\ IsFiniteSet(Threads)
                          /\ Requests \subseteq {"Insert", "Delete", "Get"} \X Keys

\* key_hash >> (8 * sizeof(key_hash) - d)
Prefix(k, d) == Bits[k] \div Pow2[MaxDepth - d]

\* The slots a key may be in.
Window(k) == [j \in 0 .. ProbeLength - 1 |-> (Loc[k] + j) % kNumSlot]

\* A key at the start is in its segment, in its window and in no other slot.
ASSUME FilledAssumption ==
    /\ Filled \in [0 .. Pow2[InitDepth] - 1 -> [Slots -> Keys \cup {INVALID}]]
    /\ \A g \in DOMAIN Filled : \A s \in Slots :
          Filled[g][s] # INVALID =>
              /\ Prefix(Filled[g][s], InitDepth) = g
              /\ \E j \in 0 .. ProbeLength - 1 : s = Window(Filled[g][s])[j]
              /\ \A r \in Slots : Filled[g][r] = Filled[g][s] => r = s

EmptySlots == [s \in Slots |-> [key |-> INVALID, val |-> Tombstone]]
Idle == [at |-> "idle", op |-> "none", key |-> INVALID, val |-> Tombstone, seg |-> 0, i |-> 0,
         shift |-> 0, seen |-> INVALID, ret |-> 1, new |-> 0]

VARIABLES
    depth, dir,        \* the directory: entry number to segment
    dir_lock,
    segs,              \* local_depth, pattern and slots of each segment
    sema,              \* of each segment: threads inside, SPLIT_REQUEST_BIT, EXCLUSIVE_LOCK
    used,              \* segments allocated
    thread, ops,
    last,              \* history: the last value inserted under each key
    shared,            \* history: two inserts were in one segment at once
    stray,             \* history: a thread worked on a segment its key had left
    late,              \* history: an insert counted itself in with the pattern_shift of
                       \* before a split, which makes keys of the segment look moved
    wrapped,           \* history: a split met an entry probed past the last slot
    doubled            \* history: a key got a second slot

tableVars == <<depth, dir, segs, used>>
history   == <<last, shared, stray, late, wrapped, doubled>>
vars == <<tableVars, dir_lock, sema, thread, ops, history>>

\* Value 1 is the one the keys in Filled start with.
FirstSlots(g) ==
    IF g \notin DOMAIN Filled THEN EmptySlots
    ELSE [s \in Slots |-> [key |-> Filled[g][s],
                          val |-> IF Filled[g][s] = INVALID THEN Tombstone ELSE 1]]

Init ==
    /\ depth = InitDepth
    /\ dir = [x \in 0 .. Pow2[InitDepth] - 1 |-> x]
    /\ dir_lock = FALSE
    /\ used = Pow2[InitDepth]
    /\ segs = [g \in SegIds |-> [local_depth |-> InitDepth, pattern |-> g, slots |-> FirstSlots(g)]]
    /\ sema = [g \in SegIds |-> [n |-> 0, split |-> FALSE, excl |-> FALSE]]
    /\ thread = [t \in Threads |-> Idle] /\ ops = 0
    /\ last = [k \in Keys |-> IF \E g \in DOMAIN Filled, s \in Slots : Filled[g][s] = k
                            THEN 1 ELSE Tombstone]
    /\ shared = FALSE /\ stray = FALSE /\ late = FALSE /\ wrapped = FALSE /\ doubled = FALSE

-----------------------------------------------------------------------------
At(t, l)   == thread[t].at = l
To(t, rec) == thread' = [thread EXCEPT ![t] = rec]
Goto(t, l) == To(t, [thread[t] EXCEPT !.at = l])
Seg(t)     == segs[thread[t].seg]
Sema(t)    == sema[thread[t].seg]
Writes(t)  == thread[t].op = "Insert"

\* The segment still answers for the key.
Covers(g, k) == Prefix(k, segs[g].local_depth) = segs[g].pattern

\* A history variable that stays set.
Note(h, cond) == h' = (h \/ cond)

Begin(t, op, k, v) ==
    /\ At(t, "idle") /\ ops < MaxOps /\ ops' = ops + 1
    /\ ~stray               \* bound: a history that went astray is not prolonged
    /\ To(t, [Idle EXCEPT !.at = "target", !.op = op, !.key = k, !.val = v])
    /\ UNCHANGED <<tableVars, dir_lock, sema, history>>

Insert(t, k) == <<"Insert", k>> \in Requests /\ Begin(t, "Insert", k, ops + 2)
Delete(t, k) == <<"Delete", k>> \in Requests /\ Begin(t, "Insert", k, Tombstone)
Get(t, k)    == <<"Get", k>> \in Requests /\ Begin(t, "Get", k, Tombstone)

Target(t) ==
    /\ At(t, "target")
    /\ To(t, [thread[t] EXCEPT !.seg = dir[Prefix(thread[t].key, depth)], !.ret = 1, !.i = 0,
                               !.at = IF Writes(t) THEN "check" ELSE "enter"])
    /\ UNCHANGED <<tableVars, dir_lock, sema, ops, history>>

\* Segment::Insert looks at the lock first, ...
Check(t) ==
    /\ At(t, "check")
    /\ Goto(t, CASE Sema(t).excl -> "target"
                 [] ~Sema(t).excl /\ Sema(t).split -> "split"
                 [] ~Sema(t).excl /\ ~Sema(t).split -> "depth")
    /\ UNCHANGED <<tableVars, dir_lock, sema, ops, history>>

\* Split stores the new local_depth before CCEH::Insert stores the pattern.
DepthsSeen(g) ==
    {segs[g].local_depth} \cup
    {segs[g].local_depth + 1 : u \in {u \in Threads : At(u, "copy") /\ thread[u].seg = g}}

\* ... takes pattern_shift from the local depth, for the whole insert, ...
ReadDepth(t) ==
    /\ At(t, "depth")
    /\ \E d \in DepthsSeen(thread[t].seg) : To(t, [thread[t] EXCEPT !.at = "pattern", !.shift = d])
    /\ UNCHANGED <<tableVars, dir_lock, sema, ops, history>>

\* ... compares the pattern ...
ReadPattern(t) ==
    /\ At(t, "pattern")
    /\ Goto(t, IF Prefix(thread[t].key, thread[t].shift) = Seg(t).pattern THEN "enter" ELSE "target")
    /\ UNCHANGED <<tableVars, dir_lock, sema, ops, history>>

\* Mutant: a pending split does not keep new threads out.
MayEnterSplit(m) == TRUE

MayEnter(m) == ~m.excl /\ ~m.split

\* With the shift of before a split, keys the segment answers for look moved.
Misjudges(t) ==
    \E k \in Keys : Covers(thread[t].seg, k) /\ Prefix(k, thread[t].shift) # Seg(t).pattern

\* ... and then counts itself in.  Neither the depth nor the key's pattern is
\* looked at again.
Enter(t) ==
    LET g == thread[t].seg
    IN  /\ At(t, "enter")
        /\ IF MayEnter(Sema(t))
           THEN Goto(t, "scan") /\ sema' = [sema EXCEPT ![g].n = @ + 1]
           ELSE /\ Goto(t, IF Writes(t) /\ ~Sema(t).excl THEN "split" ELSE "target")
                /\ UNCHANGED sema
        /\ LET in == sema'[g].n # sema[g].n
           IN  /\ Note(stray, in /\ ~Covers(g, thread[t].key))
               /\ Note(late, in /\ Writes(t) /\ Misjudges(t))
               /\ Note(shared, in /\ Writes(t) /\ sema[g].n > 0)
        /\ UNCHANGED <<tableVars, dir_lock, ops, last, wrapped, doubled>>

-----------------------------------------------------------------------------
(* The scan of a segment, one slot after the other.                        *)

SlotNo(t) == (Loc[thread[t].key] + thread[t].i) % kNumSlot
SlotAt(t) == Seg(t).slots[SlotNo(t)]
SetSlot(t, rec) == segs' = [segs EXCEPT ![thread[t].seg].slots[SlotNo(t)] = rec]

\* Its hash, cut with the shift that was read, is not the pattern of now: a key
\* of the other half after a split; a slot being filled looks like one.
Stale(t, k) == k # INVALID /\ (k = SENTINEL \/ Prefix(k, thread[t].shift) # Seg(t).pattern)

NextProbe(t) ==
    IF thread[t].i + 1 < ProbeLength THEN To(t, [thread[t] EXCEPT !.at = "scan", !.i = @ + 1])
    ELSE Goto(t, "leave")

ScanGet(t) ==
    /\ At(t, "scan") /\ ~Writes(t)
    /\ IF SlotAt(t).key = thread[t].key
       THEN To(t, [thread[t] EXCEPT !.at = "leave", !.val = SlotAt(t).val, !.ret = 0])
       ELSE NextProbe(t)
    /\ UNCHANGED <<tableVars, dir_lock, sema, ops, history>>

ScanInsert(t) ==
    /\ At(t, "scan") /\ Writes(t)
    /\ To(t, [thread[t] EXCEPT !.at = IF Stale(t, SlotAt(t).key) THEN "invalidate" ELSE "claim",
                               !.seen = SlotAt(t).key])
    /\ UNCHANGED <<tableVars, dir_lock, sema, ops, history>>

Invalidate(t) ==
    /\ At(t, "invalidate")
    /\ IF SlotAt(t).key = thread[t].seen
       THEN SetSlot(t, [SlotAt(t) EXCEPT !.key = INVALID]) /\ Goto(t, "wipe")
       ELSE UNCHANGED segs /\ Goto(t, "claim")
    /\ UNCHANGED <<depth, dir, used, dir_lock, sema, ops, history>>

Wipe(t) ==
    /\ At(t, "wipe") /\ SetSlot(t, [SlotAt(t) EXCEPT !.val = Tombstone]) /\ Goto(t, "claim")
    /\ UNCHANGED <<depth, dir, used, dir_lock, sema, ops, history>>

Claim(t) ==
    /\ At(t, "claim")
    /\ CASE SlotAt(t).key = INVALID ->
                SetSlot(t, [SlotAt(t) EXCEPT !.key = SENTINEL]) /\ Goto(t, "fill")
         [] SlotAt(t).key = thread[t].key -> UNCHANGED segs /\ Goto(t, "update")
         [] OTHER -> UNCHANGED segs /\ NextProbe(t)
    /\ UNCHANGED <<depth, dir, used, dir_lock, sema, ops, history>>

Stored(t)  == last' = [last EXCEPT ![thread[t].key] = thread[t].val]
Success(t) == To(t, [thread[t] EXCEPT !.at = "leave", !.ret = 0])

\* The key's own slot may come after the one that was claimed.
InLaterSlot(t) ==
    \E j \in 0 .. ProbeLength - 1 : Seg(t).slots[(Loc[thread[t].key] + j) % kNumSlot].key = thread[t].key

Fill(t) ==
    LET r == thread[t]
    IN  /\ At(t, "fill") /\ Success(t) /\ Stored(t)
        /\ SetSlot(t, [key |-> IF r.val = Tombstone THEN INVALID ELSE r.key, val |-> r.val])
        /\ Note(doubled, InLaterSlot(t))
        /\ UNCHANGED <<depth, dir, used, dir_lock, sema, ops, shared, stray, late, wrapped>>

Update(t) ==
    /\ At(t, "update") /\ Stored(t)
    /\ SetSlot(t, [SlotAt(t) EXCEPT !.val = thread[t].val])
    /\ IF thread[t].val = Tombstone THEN Goto(t, "erase") ELSE Success(t)
    /\ UNCHANGED <<depth, dir, used, dir_lock, sema, ops, shared, stray, late, wrapped, doubled>>

Erase(t) ==
    /\ At(t, "erase") /\ Success(t)
    /\ IF SlotAt(t).key = thread[t].key
       THEN SetSlot(t, [SlotAt(t) EXCEPT !.key = INVALID]) ELSE UNCHANGED segs
    /\ UNCHANGED <<depth, dir, used, dir_lock, sema, ops, history>>

Leave(t) ==
    /\ At(t, "leave")
    /\ sema' = [sema EXCEPT ![thread[t].seg].n = @ - 1]
    /\ IF thread[t].ret = 0 \/ ~Writes(t) THEN To(t, Idle) ELSE Goto(t, "split")
    /\ UNCHANGED <<tableVars, dir_lock, ops, history>>

Scan(t) ==
    \/ ScanGet(t) \/ ScanInsert(t) \/ Invalidate(t) \/ Wipe(t) \/ Claim(t) \/ Fill(t)
    \/ Update(t) \/ Erase(t) \/ Leave(t)

-----------------------------------------------------------------------------
(* Segment::Split                                                          *)

Drained(m) == ~m.excl /\ m.n = 0

\* An empty segment is taken exclusively; else the split is requested, and the
\* insert starts over.  A thread that was here before another's split does not
\* notice it.
SplitLock(t) ==
    LET g == thread[t].seg
    IN  /\ At(t, "split") /\ Seg(t).local_depth < MaxDepth
        /\ IF Drained(Sema(t))
           THEN sema' = [sema EXCEPT ![g] = [n |-> 0, split |-> FALSE, excl |-> TRUE]]
                /\ Goto(t, "copy")
           ELSE sema' = [sema EXCEPT ![g].split = @ \/ ~Sema(t).excl]
                /\ Goto(t, "target")
        /\ Note(stray, Drained(Sema(t)) /\ ~Covers(g, thread[t].key))
        /\ UNCHANGED <<tableVars, dir_lock, ops, last, shared, late, wrapped, doubled>>

\* The bound MaxDepth: such an insert is given up.
SplitBound(t) ==
    /\ At(t, "split") /\ Seg(t).local_depth = MaxDepth /\ To(t, Idle)
    /\ sema' = [sema EXCEPT ![thread[t].seg].split = FALSE]
    /\ UNCHANGED <<tableVars, dir_lock, ops, history>>

\* Insert4split: the first INVALID slot of the window; without one the entry is
\* dropped.
Insert4split(slots, rec) ==
    LET at(j) == (Loc[rec.key] + j) % kNumSlot
        room  == {j \in 0 .. ProbeLength - 1 : slots[at(j)].key = INVALID}
    IN  IF room = {} THEN slots
        ELSE [slots EXCEPT ![at(CHOOSE j \in room : \A l \in room : j <= l)] = rec]

\* Mutant: the last bit the segment already shares is looked at.
MovesEarly(k, ld) == k \notin {INVALID, SENTINEL} /\ Prefix(k, ld) % 2 = 1

\* The bit after the local depth sends a key to the new segment.
Moves(k, ld) == k \notin {INVALID, SENTINEL} /\ Prefix(k, ld + 1) % 2 = 1

Copied(slots, ld) ==
    LET step[n \in 0 .. kNumSlot] ==
            IF n = 0 THEN EmptySlots
            ELSE IF Moves(slots[n - 1].key, ld) THEN Insert4split(step[n - 1], slots[n - 1])
            ELSE step[n - 1]
    IN  step[kNumSlot]

PastEnd(slots) == \E s \in Slots : slots[s].key \notin {INVALID, SENTINEL} /\ s < Loc[slots[s].key]

\* Both halves get their pattern from the hash of the key being inserted.  What
\* a stray split makes of the directory is not followed.
SplitCopy(t) ==
    LET g  == thread[t].seg
        ld == Seg(t).local_depth
        p  == 2 * Prefix(thread[t].key, ld)
    IN  /\ At(t, "copy") /\ ~stray
        /\ To(t, [thread[t] EXCEPT !.at = "lockdir", !.new = used])
        /\ segs' = [segs EXCEPT ![g] = [@ EXCEPT !.local_depth = ld + 1, !.pattern = p],
                                ![used] = [local_depth |-> ld + 1, pattern |-> p + 1,
                                           slots |-> Copied(Seg(t).slots, ld)]]
        /\ used' = used + 1
        /\ Note(wrapped, PastEnd(Seg(t).slots))
        /\ UNCHANGED <<depth, dir, dir_lock, sema, ops, last, shared, stray, late, doubled>>

-----------------------------------------------------------------------------
(* CCEH::Insert: the directory takes the new segment in.                   *)

LockDir(t) ==
    /\ At(t, "lockdir") /\ ~dir_lock /\ dir_lock' = TRUE /\ Goto(t, "dir")
    /\ UNCHANGED <<tableVars, sema, ops, history>>

\* Mutant: the lower half.
SecondHalfLower(x, ld) ==
    LET chunk == Pow2[depth - (ld - 1)]
        first == x - (x % chunk)
    IN  first .. first + chunk \div 2 - 1

\* The upper half of the entries that shared the segment.
SecondHalf(x, ld) ==
    LET chunk == Pow2[depth - (ld - 1)]
        first == x - (x % chunk)
    IN  first + chunk \div 2 .. first + chunk - 1

\* Mutant: the directory stays locked.
ReleaseDirForgotten == dir_lock' = TRUE

ReleaseDir == dir_lock' = FALSE

\* Release follows the stores; a doubled directory comes with a lock of its own.
\* Threads that read an old entry meet the exclusive lock of the segment.
UpdateDir(t) ==
    LET x  == Prefix(thread[t].key, depth)
        ld == Seg(t).local_depth
        s1 == thread[t].new
    IN  /\ At(t, "dir") /\ Goto(t, "unlock") /\ ReleaseDir
        /\ \/ /\ segs[dir[x]].local_depth - 1 < depth
              /\ dir' = [y \in DOMAIN dir |-> IF y \in SecondHalf(x, ld) THEN s1 ELSE dir[y]]
              /\ UNCHANGED depth
           \/ /\ segs[dir[x]].local_depth - 1 >= depth
              /\ dir' = [y \in 0 .. Pow2[depth + 1] - 1 |->
                            IF y = 2 * x + 1 THEN s1 ELSE dir[y \div 2]]
              /\ depth' = depth + 1
        /\ UNCHANGED <<segs, used, sema, ops, history>>

SplitUnlock(t) ==
    /\ At(t, "unlock") /\ Goto(t, "target")
    /\ sema' = [sema EXCEPT ![thread[t].seg] = [n |-> 0, split |-> FALSE, excl |-> FALSE]]
    /\ UNCHANGED <<tableVars, dir_lock, ops, history>>

-----------------------------------------------------------------------------
Step(t) ==
    \/ Target(t) \/ Check(t) \/ ReadDepth(t) \/ ReadPattern(t) \/ Enter(t) \/ Scan(t)
    \/ SplitLock(t) \/ SplitBound(t) \/ SplitCopy(t)
    \/ LockDir(t) \/ UpdateDir(t) \/ SplitUnlock(t)

Next ==
    \E t \in Threads : \/ \E k \in Keys : Insert(t, k) \/ Delete(t, k) \/ Get(t, k)
                       \/ Step(t)

Spec == Init /\ [][Next]_vars

\* A thread inside an operation goes on.
FairSpec == Spec /\ \A t \in Threads : WF_vars(Step(t))

-----------------------------------------------------------------------------
(* Properties                                                              *)

Inside(g)   == {t \in Threads : thread[t].seg = g /\ thread[t].at \in
                    {"scan", "invalidate", "wipe", "claim", "fill", "update", "erase", "leave"}}
Splitting(g) == {t \in Threads : thread[t].seg = g /\ thread[t].at \in
                    {"copy", "lockdir", "dir", "unlock"}}

\* The types of the variables.
TableTypeOK ==
    /\ depth \in InitDepth .. MaxDepth /\ dir \in [0 .. Pow2[depth] - 1 -> 0 .. used - 1]
    /\ used \in 0 .. Pow2[MaxDepth]
    /\ \A g \in 0 .. used - 1 :
          /\ segs[g].local_depth \in InitDepth .. MaxDepth
          /\ segs[g].slots \in [Slots -> [key : Keys \cup {INVALID, SENTINEL}, val : 0 .. MaxOps + 1]]
    /\ \A t \in Threads : /\ thread[t].i \in 0 .. ProbeLength - 1 /\ thread[t].seg \in SegIds
                          /\ thread[t].new \in SegIds
    /\ last \in [Keys -> 0 .. MaxOps + 1]

\* The segment lock counts the threads inside exactly, and a split has the
\* segment for itself.  With the types.
SemaExact ==
    /\ TableTypeOK
    /\ \A g \in SegIds : /\ sema[g].n = Cardinality(Inside(g))
                         /\ sema[g].excl <=> Splitting(g) # {}
                         /\ sema[g].excl => Inside(g) = {} /\ Cardinality(Splitting(g)) = 1

\* The directory leads every hash to the segment whose pattern it has, unless
\* that segment is being split; a split and a doubling beside it agree.
DirectoryExact ==
    ~stray => \A x \in DOMAIN dir :
        LET s == segs[dir[x]]
        IN  sema[dir[x]].excl \/ (s.local_depth <= depth /\ x \div Pow2[depth - s.local_depth] = s.pattern)

\* What Get would return.
Found(k) ==
    LET slots == segs[dir[Prefix(k, depth)]].slots
        hits  == {j \in DOMAIN Window(k) : slots[Window(k)[j]].key = k}
    IN  IF hits = {} THEN Tombstone
        ELSE slots[Window(k)[CHOOSE j \in hits : \A l \in hits : j <= l]].val

\* No entry is lost or comes back: between operations a lookup finds the last
\* value stored under every key, across lazy deletion, splits and doublings that
\* ran at once.  The known ways to lose one are excepted: inserts that race for
\* slots of one segment, a thread that works on a segment its key has left, an
\* insert whose pattern_shift is of before a split and takes keys of the segment
\* for moved ones, an entry probed past the end when its segment is split, and a
\* key that an insert put into a second slot.
QuietFound ==
    (/\ \A t \in Threads : At(t, "idle")
     /\ ~shared /\ ~stray /\ ~late /\ ~wrapped /\ ~doubled)
        => \A k \in Keys : Found(k) = last[k]

\* Every operation ends: a requested split is carried out, and nobody waits for
\* a segment for ever.
InsertsEnd ==
    (\E t \in Threads : ~At(t, "idle")) ~> ((\A t \in Threads : At(t, "idle")) \/ stray)
=============================================================================
