------------------------------- MODULE HotTier -------------------------------
(***************************************************************************)
(* One bucket of HotTier (hot_tier.hpp): slots of one packed word each, the *)
(* SIEVE hand and visited bits, the two-bit state of every slot, and the    *)
(* threads that probe, claim, evict, pin and unpin with separate atomic     *)
(* operations.  A fingerprint always probes the same bucket, so buckets do  *)
(* not interact.                                                            *)
(*                                                                          *)
(* A put (hiom.hpp) pins its slot and pushes a commit entry with the slot;  *)
(* a flusher applies the entry to ColdTier and then drives the slot's       *)
(* state.  KeyIndex has what the tiers hold for a key; here are the steps   *)
(* in between.  visited is a hint: its relaxed updates are part of the step *)
(* before them.                                                             *)
(***************************************************************************)
EXTENDS Integers, FiniteSets

CONSTANTS
    Threads, Flushers, Fingerprints,
    kSlotsPerBucket,
    kMaxUpsertRetries,
    MaxOps                  \* bound: operations begun

ASSUME BucketAssumption == kSlotsPerBucket \in Nat \ {0}
ASSUME RetryAssumption  == kMaxUpsertRetries \in Nat \ {0}
ASSUME ActorAssumption  == Threads \cap Flushers = {}
ASSUME HotBounds        == MaxOps \in Nat

Slots == 0 .. kSlotsPerBucket - 1
kInvalidIdx == -1
Empty == <<>>                              \* packed == 0
Pack(fp, off) == <<fp, off>>
HasFp(v, fp)  == v # Empty /\ v[1] = fp

kUnpinned == 0
kPinned   == 1
kInFlush  == 3

None == "none"
NoEntry == [fp |-> None, off |-> 0, slot |-> kInvalidIdx]
Idle == [at |-> "idle", op |-> "none", fp |-> None, off |-> 0, i |-> 0,
         first_empty |-> kInvalidIdx, v |-> Empty, retry |-> 0, k |-> 0, hand |-> 0]
NoFlush == [at |-> "idle", entry |-> NoEntry]

VARIABLES
    packed, visited, hand, state,          \* Bucket and BucketMeta
    size,                                  \* size_
    pending,                               \* commit entries not yet applied
    thread, flusher,
    ops,
    latest,            \* history: offset of the last put of each fingerprint
    overlapped,        \* history: fingerprints two threads inserted at once
    alone,             \* history: sweeps no other step has disturbed
    exposed            \* history: puts whose pin came late or was taken away

metaVars == <<visited, hand, state>>
vars == <<packed, metaVars, size, pending, thread, flusher, ops, latest, overlapped, alone, exposed>>

Occupied == {i \in Slots : packed[i] # Empty}

(***************************************************************************)
(* A bucket in use: what earlier operations, all applied, may have left.   *)
(***************************************************************************)
Init ==
    /\ packed \in [Slots -> {Pack(fp, 0) : fp \in Fingerprints} \cup {Empty}]
    /\ \A i, j \in Occupied : packed[i] = packed[j] => i = j
    /\ visited \in SUBSET Occupied /\ hand = 0
    /\ state = [i \in Slots |-> kUnpinned]
    /\ size = Cardinality(Occupied) /\ pending = {}
    /\ thread = [t \in Threads |-> Idle]
    /\ flusher = [f \in Flushers |-> NoFlush]
    /\ ops = 0
    /\ latest = [fp \in Fingerprints |-> 0]
    /\ overlapped = {} /\ alone = {} /\ exposed = {}

-----------------------------------------------------------------------------
(* Threads                                                                 *)

At(t, l)    == thread[t].at = l
To(t, rec)  == thread' = [thread EXCEPT ![t] = rec]
Goto(t, l)  == To(t, [thread[t] EXCEPT !.at = l])
Done(t)     == To(t, Idle)
\* On with slot i: what the probe and the sweep remembered is out of scope.
OnWith(t, l, i) ==
    To(t, [Idle EXCEPT !.at = l, !.op = thread[t].op, !.fp = thread[t].fp, !.off = thread[t].off,
                       !.i = i, !.retry = IF l \in {"claim", "evicted"} THEN thread[t].retry ELSE 0])
Inserts(op) == op \in {"upsert", "upsert_pinned"}

\* Any step but a sweep's own ends the sweep's claim to have run undisturbed.
Disturbs(a) == alone' = alone \cap {a}

Begin(t, op, fp) ==
    /\ At(t, "idle") /\ ops < MaxOps /\ ops' = ops + 1
    /\ To(t, [Idle EXCEPT !.at = "probe", !.op = op, !.fp = fp, !.off = ops + 1])
    /\ overlapped' = IF Inserts(op) /\ \E u \in Threads : thread[u].fp = fp /\ Inserts(thread[u].op)
                     THEN overlapped \cup {fp} ELSE overlapped
    /\ Disturbs(t)
    /\ UNCHANGED <<packed, metaVars, size, pending, flusher, latest, exposed>>

upsert(t, fp)        == Begin(t, "upsert", fp)
upsert_pinned(t, fp) == Begin(t, "upsert_pinned", fp)
lookup(t, fp)        == Begin(t, "lookup", fp)
remove(t, fp)        == Begin(t, "remove", fp)

\* The end of a probe without a match: an insert claims the first empty slot
\* it saw, or sweeps; a lookup or remove has missed.
ProbeEnd(t, r) ==
    IF ~Inserts(r.op) THEN Done(t)
    ELSE IF r.first_empty # kInvalidIdx THEN OnWith(t, "claim", r.first_empty)
    ELSE To(t, [r EXCEPT !.at = "sieve", !.k = 0, !.hand = hand])

StartsSweep(t) == thread'[t].at = "sieve" /\ thread[t].at # "sieve"

\* Mutant: the probe stops at the first empty slot.
ProbeSlotEarly(t) ==
    LET r == thread[t]  v == packed[r.i]
        n == [r EXCEPT !.i = r.i + 1, !.first_empty = IF v = Empty THEN r.i ELSE @]
    IN  /\ At(t, "probe")
        /\ IF HasFp(v, r.fp) /\ r.op # "lookup"
           THEN To(t, [r EXCEPT !.at = "match", !.v = v]) /\ UNCHANGED visited
           ELSE IF HasFp(v, r.fp) THEN Done(t) /\ visited' = visited \cup {r.i}
           ELSE /\ IF v = Empty \/ n.i = kSlotsPerBucket THEN ProbeEnd(t, n) ELSE To(t, n)
                /\ UNCHANGED visited
        /\ alone' = (alone \cap {t}) \cup (IF StartsSweep(t) THEN {t} ELSE {})
        /\ UNCHANGED <<packed, hand, state, size, pending, flusher, ops, latest, overlapped, exposed>>

\* One load of the probe loop.  There is no early exit on an empty slot.
ProbeSlot(t) ==
    LET r == thread[t]
        v == packed[r.i]
        n == [r EXCEPT !.i = r.i + 1,
                       !.first_empty = IF v = Empty /\ @ = kInvalidIdx THEN r.i ELSE @]
    IN  /\ At(t, "probe")
        /\ \/ /\ HasFp(v, r.fp) /\ r.op # "lookup"
              /\ To(t, [r EXCEPT !.at = "match", !.v = v]) /\ UNCHANGED visited
           \/ /\ HasFp(v, r.fp) /\ r.op = "lookup"
              /\ Done(t) /\ visited' = visited \cup {r.i}
           \/ /\ ~HasFp(v, r.fp) /\ UNCHANGED visited
              /\ IF n.i = kSlotsPerBucket THEN ProbeEnd(t, n) ELSE To(t, n)
        /\ alone' = (alone \cap {t}) \cup (IF StartsSweep(t) THEN {t} ELSE {})
        /\ UNCHANGED <<packed, hand, state, size, pending, flusher, ops, latest, overlapped, exposed>>

\* A lost CAS: probe again, an insert at most kMaxUpsertRetries times.
Restart(t) ==
    LET r == thread[t]
    IN  IF Inserts(r.op) /\ r.retry + 1 = kMaxUpsertRetries THEN Done(t)
        ELSE To(t, [Idle EXCEPT !.at = "probe", !.op = r.op, !.fp = r.fp, !.off = r.off,
                                !.retry = IF Inserts(r.op) THEN r.retry + 1 ELSE 0])

Wrote(t, fp) ==
    latest' = IF thread[t].op = "upsert_pinned" THEN [latest EXCEPT ![fp] = thread[t].off]
              ELSE [latest EXCEPT ![fp] = 0]

AfterWrite(t) == IF thread[t].op = "upsert_pinned" THEN OnWith(t, "pin_or", thread[t].i) ELSE Done(t)

\* The fingerprint is there: an insert replaces the offset in place, a remove
\* clears the slot.  A slot's state is left alone.
MatchCAS(t) ==
    LET r == thread[t]
    IN  /\ At(t, "match")
        /\ \/ /\ packed[r.i] # r.v
              /\ Restart(t) /\ UNCHANGED <<packed, visited, latest>>
           \/ /\ packed[r.i] = r.v /\ Inserts(r.op)
              /\ packed' = [packed EXCEPT ![r.i] = Pack(r.fp, r.off)]
              /\ visited' = visited \cup {r.i}
              /\ Wrote(t, r.fp) /\ AfterWrite(t)
           \/ /\ packed[r.i] = r.v /\ r.op = "remove"
              /\ packed' = [packed EXCEPT ![r.i] = Empty]
              /\ UNCHANGED visited
              /\ Wrote(t, r.fp) /\ OnWith(t, "removed", r.i)
        /\ Disturbs(t)
        /\ UNCHANGED <<hand, state, size, pending, flusher, ops, overlapped, exposed>>

Removed(t) ==
    /\ At(t, "removed") /\ size' = size - 1
    /\ visited' = visited \ {thread[t].i} /\ Done(t)
    /\ Disturbs(t)
    /\ UNCHANGED <<packed, hand, state, pending, flusher, ops, latest, overlapped, exposed>>

ClaimCAS(t) ==
    LET r == thread[t]
    IN  /\ At(t, "claim")
        /\ IF packed[r.i] = Empty
           THEN /\ packed' = [packed EXCEPT ![r.i] = Pack(r.fp, r.off)]
                /\ Wrote(t, r.fp) /\ OnWith(t, "claimed", r.i)
           ELSE Restart(t) /\ UNCHANGED <<packed, latest>>
        /\ Disturbs(t)
        /\ UNCHANGED <<metaVars, size, pending, flusher, ops, overlapped, exposed>>

Claimed(t) ==
    /\ At(t, "claimed") /\ size' = size + 1
    /\ visited' = visited \ {thread[t].i} /\ AfterWrite(t)
    /\ Disturbs(t)
    /\ UNCHANGED <<packed, hand, state, pending, flusher, ops, latest, overlapped, exposed>>

-----------------------------------------------------------------------------
(* sieve_evict: at most two rounds from the hand.                          *)

SweepSlot(t) == (thread[t].hand + thread[t].k) % kSlotsPerBucket

\* Mutant: one round.
SweepStepsOnce == kSlotsPerBucket

SweepSteps == 2 * kSlotsPerBucket

NextSlot(i) == (i + 1) % kSlotsPerBucket

AdvanceHand(i) == hand' = NextSlot(i)

\* Every slot was pinned, or visited again: the insert is not stored.
SieveFail(t) ==
    /\ At(t, "sieve") /\ thread[t].k = SweepSteps
    /\ Goto(t, "failed")
    /\ Disturbs(t)
    /\ UNCHANGED <<packed, metaVars, size, pending, flusher, ops, latest, overlapped, exposed>>

SieveReturn(t) ==
    /\ At(t, "failed") /\ Done(t)
    /\ Disturbs(t)
    /\ UNCHANGED <<packed, metaVars, size, pending, flusher, ops, latest, overlapped, exposed>>

\* Mutant: pinned slots are swept like the others.
SkippedNever(i) == FALSE

\* A slot that is not kUnpinned is skipped, ...
Skipped(i) == state[i] # kUnpinned

\* ... a visited one gets a second chance.
SieveSlot(t) ==
    LET r == thread[t]
        i == SweepSlot(t)
    IN  /\ At(t, "sieve") /\ r.k < SweepSteps
        /\ IF Skipped(i) \/ i \in visited
           THEN To(t, [r EXCEPT !.k = @ + 1])
           ELSE To(t, [r EXCEPT !.at = "victim", !.i = i])
        /\ visited' = IF Skipped(i) THEN visited ELSE visited \ {i}
        /\ Disturbs(t)
        /\ UNCHANGED <<packed, hand, state, size, pending, flusher, ops, latest, overlapped, exposed>>

SieveLoad(t) ==
    LET r == thread[t]
    IN  /\ At(t, "victim")
        /\ IF packed[r.i] = Empty
           THEN AdvanceHand(r.i) /\ OnWith(t, "claim", r.i)
           ELSE UNCHANGED hand /\ To(t, [r EXCEPT !.at = "evict", !.v = packed[r.i]])
        /\ Disturbs(t)
        /\ UNCHANGED <<packed, visited, state, size, pending, flusher, ops, latest, overlapped, exposed>>

\* The state was read before the word: the CAS is on the word alone.
SieveCAS(t) ==
    LET r == thread[t]
    IN  /\ At(t, "evict")
        /\ IF packed[r.i] = r.v
           THEN packed' = [packed EXCEPT ![r.i] = Empty] /\ OnWith(t, "evicted", r.i)
           ELSE UNCHANGED packed /\ To(t, [r EXCEPT !.at = "sieve", !.k = @ + 1])
        /\ Disturbs(t)
        /\ UNCHANGED <<metaVars, size, pending, flusher, ops, latest, overlapped, exposed>>

\* Mutant: size_ is not decremented.
EvictedUncounted(t) ==
    /\ At(t, "evicted")
    /\ AdvanceHand(thread[t].i) /\ OnWith(t, "claim", thread[t].i)
    /\ Disturbs(t)
    /\ UNCHANGED <<packed, visited, state, size, pending, flusher, ops, latest, overlapped, exposed>>

Evicted(t) ==
    /\ At(t, "evicted") /\ size' = size - 1
    /\ AdvanceHand(thread[t].i) /\ OnWith(t, "claim", thread[t].i)
    /\ Disturbs(t)
    /\ UNCHANGED <<packed, visited, state, pending, flusher, ops, latest, overlapped, exposed>>

sieve_evict(t) ==
    \/ SieveFail(t) \/ SieveReturn(t) \/ SieveSlot(t) \/ SieveLoad(t) \/ SieveCAS(t) \/ Evicted(t)

-----------------------------------------------------------------------------
(* The slot state: force_pinned is two atomics, the flusher's CASes two    *)
(* more.                                                                   *)

SetState(i, s) == state' = [state EXCEPT ![i] = s]

PinOr(t) ==
    LET i == thread[t].i
    IN  /\ At(t, "pin_or") /\ Goto(t, "pin_and")
        /\ SetState(i, IF state[i] % 2 = 0 THEN state[i] + 1 ELSE state[i])
        /\ Disturbs(t)
        /\ UNCHANGED <<packed, visited, hand, size, pending, flusher, ops, latest, overlapped, exposed>>

\* The pin comes too late for a put whose slot a sweep has already passed as
\* unpinned, and for one whose word is gone.
Late(t) ==
    LET r == thread[t]
    IN  \/ packed[r.i] # Pack(r.fp, r.off)
        \/ \E u \in Threads : thread[u].at \in {"victim", "evict"} /\ thread[u].i = r.i

PinAnd(t) ==
    LET r == thread[t]
    IN  /\ At(t, "pin_and") /\ Goto(t, "push")
        /\ SetState(r.i, state[r.i] % 2)
        /\ exposed' = IF Late(t) \/ state[r.i] % 2 = 0 THEN exposed \cup {r.off} ELSE exposed
        /\ Disturbs(t)
        /\ UNCHANGED <<packed, visited, hand, size, pending, flusher, ops, latest, overlapped>>

\* The put pushes its commit entry with the slot it was given.
Push(t) ==
    LET r == thread[t]
    IN  /\ At(t, "push") /\ Done(t)
        /\ pending' = pending \cup {[fp |-> r.fp, off |-> r.off, slot |-> r.i]}
        /\ Disturbs(t)
        /\ UNCHANGED <<packed, metaVars, size, flusher, ops, latest, overlapped, exposed>>

cas_slot_state(i, from, to) ==
    IF state[i] = from THEN SetState(i, to) ELSE UNCHANGED state

\* ColdTier has the entry: it stops being pending, and its slot is released.
Apply(f) ==
    /\ flusher[f].at = "idle"
    /\ \E e \in pending : /\ flusher' = [flusher EXCEPT ![f] = [at |-> "own", entry |-> e]]
                          /\ pending' = pending \ {e}
    /\ Disturbs(f)
    /\ UNCHANGED <<packed, metaVars, size, thread, ops, latest, overlapped, exposed>>

FlushOwn(f) ==
    LET i == flusher[f].entry.slot
    IN  /\ flusher[f].at = "own"
        /\ cas_slot_state(i, kPinned, kInFlush)
        /\ flusher' = [flusher EXCEPT ![f] = IF state[i] = kPinned
                                             THEN [@ EXCEPT !.at = "release"] ELSE NoFlush]
        /\ Disturbs(f)
        /\ UNCHANGED <<packed, visited, hand, size, pending, thread, ops, latest, overlapped, exposed>>

\* Mutant: a slot found kInFlush is left to its owner.
FlushReleaseLeft(f) ==
    /\ flusher[f].at = "release" /\ flusher' = [flusher EXCEPT ![f] = NoFlush]
    /\ Disturbs(f)
    /\ UNCHANGED <<packed, metaVars, size, pending, thread, ops, latest, overlapped, exposed>>

\* The puts that count on the pin of slot i.
Holders(i) ==
    {e.off : e \in {x \in pending : x.slot = i}}
    \cup {thread[t].off : t \in {u \in Threads : /\ thread[u].at \in {"pin_and", "push"}
                                                 /\ thread[u].i = i}}

\* The slot, not the entry, is released: it may hold a newer put by now.
FlushRelease(f) ==
    LET e == flusher[f].entry
    IN  /\ flusher[f].at = "release"
        /\ cas_slot_state(e.slot, kInFlush, kUnpinned)
        /\ exposed' = IF state[e.slot] = kInFlush
                      THEN exposed \cup Holders(e.slot) ELSE exposed
        /\ flusher' = [flusher EXCEPT ![f] = NoFlush]
        /\ Disturbs(f)
        /\ UNCHANGED <<packed, visited, hand, size, pending, thread, ops, latest, overlapped>>

-----------------------------------------------------------------------------
Next ==
    \/ \E t \in Threads :
        \/ \E fp \in Fingerprints :
               upsert(t, fp) \/ upsert_pinned(t, fp) \/ lookup(t, fp) \/ remove(t, fp)
        \/ ProbeSlot(t) \/ MatchCAS(t) \/ Removed(t) \/ ClaimCAS(t) \/ Claimed(t)
        \/ sieve_evict(t) \/ PinOr(t) \/ PinAnd(t) \/ Push(t)
    \/ \E f \in Flushers : Apply(f) \/ FlushOwn(f) \/ FlushRelease(f)

Spec == Init /\ [][Next]_vars

-----------------------------------------------------------------------------
(* Properties                                                              *)

Entries == [fp : Fingerprints \cup {None}, off : 0 .. MaxOps, slot : Slots \cup {kInvalidIdx}]
Words   == (Fingerprints \X (0 .. MaxOps)) \cup {Empty}

\* The types of the variables.
HotTypeOK ==
    /\ packed \in [Slots -> Words] /\ visited \subseteq Slots /\ hand \in Slots
    /\ state \in [Slots -> {kUnpinned, kPinned, kInFlush}]
    /\ size \in Int /\ pending \subseteq Entries
    /\ \A t \in Threads : /\ thread[t].i \in 0 .. kSlotsPerBucket
                          /\ thread[t].first_empty \in Slots \cup {kInvalidIdx}
                          /\ thread[t].v \in Words /\ thread[t].k \in 0 .. SweepSteps
                          /\ thread[t].retry < kMaxUpsertRetries
    /\ \A f \in Flushers : flusher[f].entry \in Entries
    /\ latest \in [Fingerprints -> 0 .. MaxOps]
    /\ overlapped \subseteq Fingerprints /\ alone \subseteq Threads
    /\ exposed \subseteq 0 .. MaxOps

Count(l) == Cardinality({t \in Threads : At(t, l)})

\* size_ counts the occupied slots, but for the claims, removes and evictions
\* between their CAS and their counter: none is counted twice or lost.  With the types.
SizeExact ==
    /\ HotTypeOK
    /\ size + Count("claimed") - Count("removed") - Count("evicted") = Cardinality(Occupied)

\* A fingerprint has one slot as long as no two threads inserted it at once, so
\* lookup and remove, which stop at the first match, see the entry that counts.
OneSlotPerFp ==
    \A fp \in Fingerprints \ overlapped :
        \A i, j \in Slots : HasFp(packed[i], fp) /\ HasFp(packed[j], fp) => i = j

\* Two rounds suffice: a sweep that nothing disturbed fails only in a bucket
\* whose slots are all pinned.
SweepSuffices ==
    \A t \in alone : At(t, "failed") => \A i \in Slots : state[i] # kUnpinned

Quiet == pending = {} /\ (\A t \in Threads : At(t, "idle"))
                      /\ (\A f \in Flushers : flusher[f].at = "idle")

\* No interleaving of force_pinned with the flushers' CASes leaves a slot pinned
\* for good: once every entry is applied, every slot can be evicted.
QuietUnpinned == Quiet => \A i \in Slots : state[i] = kUnpinned

\* A put whose pin came in time keeps its slot, visible to lookups, until a
\* flusher has applied it to ColdTier or a newer write of the fingerprint takes
\* its place: no sweep evicts it (sieve_evict, force_pinned, apply_batch).
PinnedKept ==
    \A e \in pending :
        e.off = latest[e.fp] /\ e.off \notin exposed => packed[e.slot] = Pack(e.fp, e.off)
=============================================================================
