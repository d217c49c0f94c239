----------------------------- MODULE CommitBuffer -----------------------------
(***************************************************************************)
(* The lanes of the commit buffer (hiom/commit_buffer.hpp), the flushers   *)
(* that drain them (hiom.hpp, drain_to_empty_and_apply_locked) and         *)
(* flush_and_wait.  Each lane has a lock-free queue, a size counter that   *)
(* is updated apart from the queue, and a bit of nonempty_mask that is     *)
(* updated apart from both: one step per atomic access.                    *)
(*                                                                         *)
(* An entry is <<p, n>>, the n-th push of producer p.                      *)
(***************************************************************************)
EXTENDS Integers, Sequences, FiniteSets, SequencesExt

CONSTANTS
    Producers,     \* client threads
    kNumLanes,
    num_flushers,
    kPerCall,      \* most entries one try_drain_lane takes
    MaxPushes,     \* bound: pushes of one producer
    MaxWaits       \* bound: calls of flush_and_wait

ASSUME LanesAssumption ==
    /\ kNumLanes \in Nat \ {0} /\ num_flushers \in Nat \ {0}
    /\ kNumLanes % num_flushers = 0       \* or the constructor throws
ASSUME BufferBounds == kPerCall \in Nat \ {0} /\ MaxPushes \in Nat /\ MaxWaits \in Nat

Lanes    == 0 .. kNumLanes - 1
Flushers == 0 .. num_flushers - 1
Entry    == Producers \X (1 .. MaxPushes)
NoLane   == -1

VARIABLES
    q,              \* lane -> its queue
    approx_size,    \* lane -> counter
    nonempty_mask,  \* the lanes whose bit is set
    ppc, plane,     \* push: control state and lane of each producer
    before,         \* push: what its fetch_add returned
    pushes,         \* pushes begun by each producer
    fpc, flane,     \* drain: control state and lane of each flusher
    bits,           \* drain: lanes of the mask still to visit
    round,          \* drain: round_total # 0
    got,            \* drain: entries of the last dequeue, not yet subtracted
    batch,          \* drain: entries taken from flane
    flushing,       \* flushing_in_progress_
    applied,        \* lane -> entries apply_batch has applied, in order
    wpc, wi,        \* flush_and_wait: control state, lane or flusher to read
    waits, owed     \* its calls, and the entries pushed before the call

producerVars == <<ppc, plane, before, pushes>>
flusherVars  == <<fpc, flane, bits, round, got, batch, flushing>>
waiterVars   == <<wpc, wi, waits, owed>>
vars == <<q, approx_size, nonempty_mask, producerVars, flusherVars, applied, waiterVars>>

\* The types; in particular the unsigned counters of commit_buffer.hpp never
\* go below zero.
BufferTypeOK ==
    /\ q \in [Lanes -> Seq(Entry)]
    /\ approx_size \in [Lanes -> Nat]          \* an unsigned counter
    /\ nonempty_mask \subseteq Lanes
    /\ ppc \in [Producers -> {"idle", "added", "enqueued"}]
    /\ plane \in [Producers -> Lanes]
    /\ before \in [Producers -> Nat]
    /\ pushes \in [Producers -> 0 .. MaxPushes]
    /\ fpc \in [Flushers -> {"idle", "mask", "lane", "dequeue", "sub", "clear", "apply", "end"}]
    /\ flane \in [Flushers -> Lanes \cup {NoLane}]
    /\ bits \in [Flushers -> SUBSET Lanes]
    /\ round \in [Flushers -> BOOLEAN]
    /\ got \in [Flushers -> Nat]
    /\ batch \in [Flushers -> Seq(Entry)]
    /\ flushing \in [Flushers -> BOOLEAN]
    /\ applied \in [Lanes -> Seq(Entry)]
    /\ wpc \in {"idle", "size", "flag", "returned"}
    /\ wi \in Nat
    /\ waits \in 0 .. MaxWaits
    /\ owed \subseteq Entry

Init ==
    /\ q = [l \in Lanes |-> <<>>]
    /\ approx_size = [l \in Lanes |-> 0]
    /\ nonempty_mask = {}
    /\ ppc = [p \in Producers |-> "idle"]
    /\ plane = [p \in Producers |-> 0]
    /\ before = [p \in Producers |-> 0]
    /\ pushes = [p \in Producers |-> 0]
    /\ fpc = [f \in Flushers |-> "idle"]
    /\ flane = [f \in Flushers |-> NoLane]
    /\ bits = [f \in Flushers |-> {}]
    /\ round = [f \in Flushers |-> FALSE]
    /\ got = [f \in Flushers |-> 0]
    /\ batch = [f \in Flushers |-> <<>>]
    /\ flushing = [f \in Flushers |-> FALSE]
    /\ applied = [l \in Lanes |-> <<>>]
    /\ wpc = "idle" /\ wi = 0 /\ waits = 0 /\ owed = {}

(***************************************************************************)
(* push: count, enqueue, and set the lane's bit on the 0 -> 1 transition.  *)
(***************************************************************************)
PGoto(p, l) == ppc' = [ppc EXCEPT ![p] = l]

\* Mutant: the entry is visible to the flushers before it is counted.
PushUncounted(p, l) ==
    /\ ppc[p] = "idle"
    /\ pushes[p] < MaxPushes
    /\ pushes' = [pushes EXCEPT ![p] = @ + 1]
    /\ plane' = [plane EXCEPT ![p] = l]
    /\ before' = [before EXCEPT ![p] = approx_size[l]]
    /\ q' = [q EXCEPT ![l] = Append(@, <<p, pushes[p] + 1>>)]
    /\ PGoto(p, "added")
    /\ UNCHANGED <<approx_size, nonempty_mask, flusherVars, applied, waiterVars>>

PushAdd(p, l) ==
    /\ ppc[p] = "idle"
    /\ pushes[p] < MaxPushes
    /\ pushes' = [pushes EXCEPT ![p] = @ + 1]
    /\ plane' = [plane EXCEPT ![p] = l]
    /\ before' = [before EXCEPT ![p] = approx_size[l]]
    /\ approx_size' = [approx_size EXCEPT ![l] = @ + 1]
    /\ PGoto(p, "added")
    /\ UNCHANGED <<q, nonempty_mask, flusherVars, applied, waiterVars>>

PushEnqueue(p) ==
    /\ ppc[p] = "added"
    /\ q' = [q EXCEPT ![plane[p]] = Append(@, <<p, pushes[p]>>)]
    /\ PGoto(p, IF before[p] = 0 THEN "enqueued" ELSE "idle")
    /\ UNCHANGED <<approx_size, nonempty_mask, plane, before, pushes, flusherVars,
                   applied, waiterVars>>

PushSetBit(p) ==
    /\ ppc[p] = "enqueued"
    /\ nonempty_mask' = nonempty_mask \cup {plane[p]}
    /\ PGoto(p, "idle")
    /\ UNCHANGED <<q, approx_size, plane, before, pushes, flusherVars, applied, waiterVars>>

(***************************************************************************)
(* drain_to_empty_and_apply_locked(f), under flusher_mus_[f]: by the       *)
(* flusher thread (on its timer or woken) or by a producer in              *)
(* try_inline_flush.  Lanes are owned in contiguous runs.                  *)
(***************************************************************************)
FGoto(f, l) == fpc' = [fpc EXCEPT ![f] = l]

\* Mutant: the runs overlap by one lane.
LanesMaskOverlap(f) ==
    LET per == kNumLanes \div num_flushers
    IN  {l \in Lanes : f * per <= l /\ l <= (f + 1) * per}

LanesMaskForFlusher(f) ==
    LET per == kNumLanes \div num_flushers
    IN  {l \in Lanes : f * per <= l /\ l < (f + 1) * per}

DrainBegin(f) ==
    /\ fpc[f] = "idle"
    /\ flushing' = [flushing EXCEPT ![f] = TRUE]
    /\ FGoto(f, "mask")
    /\ UNCHANGED <<q, approx_size, nonempty_mask, producerVars, flane, bits, round,
                   got, batch, applied, waiterVars>>

LoadMask(f) ==
    LET mine == nonempty_mask \cap LanesMaskForFlusher(f) IN
    /\ fpc[f] = "mask"
    /\ bits' = [bits EXCEPT ![f] = mine]
    /\ round' = [round EXCEPT ![f] = FALSE]
    /\ FGoto(f, IF mine = {} THEN "end" ELSE "lane")
    /\ UNCHANGED <<q, approx_size, nonempty_mask, producerVars, flane, got, batch,
                   flushing, applied, waiterVars>>

\* The lowest set bit; after the last one a round that drained nothing ends
\* the drain, any other loads the mask again.
NextLane(f) ==
    /\ fpc[f] = "lane"
    /\ \/ /\ bits[f] # {}
          /\ \E l \in bits[f] :
                /\ \A k \in bits[f] : l <= k
                /\ flane' = [flane EXCEPT ![f] = l]
                /\ bits' = [bits EXCEPT ![f] = @ \ {l}]
          /\ FGoto(f, "dequeue")
       \/ /\ bits[f] = {}
          /\ FGoto(f, IF round[f] THEN "mask" ELSE "end")
          /\ UNCHANGED <<flane, bits>>
    /\ UNCHANGED <<q, approx_size, nonempty_mask, producerVars, round, got, batch,
                   flushing, applied, waiterVars>>

\* try_drain_lane, called until it finds nothing.  The cap of hint + 64 never
\* binds before max does in this model.
Dequeue(f) ==
    LET l == flane[f]
        n == IF Len(q[l]) < kPerCall THEN Len(q[l]) ELSE kPerCall
    IN  /\ fpc[f] = "dequeue"
        /\ batch' = [batch EXCEPT ![f] = @ \o SubSeq(q[l], 1, n)]
        /\ q' = [q EXCEPT ![l] = SubSeq(@, n + 1, Len(@))]
        /\ got' = [got EXCEPT ![f] = n]
        /\ FGoto(f, IF n > 0 THEN "sub" ELSE IF batch[f] # <<>> THEN "apply" ELSE "lane")
        /\ UNCHANGED <<approx_size, nonempty_mask, producerVars, flane, bits, round,
                       flushing, applied, waiterVars>>

SubtractSize(f) ==
    LET l == flane[f] IN
    /\ fpc[f] = "sub"
    /\ approx_size' = [approx_size EXCEPT ![l] = @ - got[f]]
    /\ FGoto(f, IF approx_size[l] = got[f] THEN "clear" ELSE "dequeue")
    /\ got' = [got EXCEPT ![f] = 0]
    /\ UNCHANGED <<q, nonempty_mask, producerVars, flane, bits, round, batch,
                   flushing, applied, waiterVars>>

ClearBit(f) ==
    /\ fpc[f] = "clear"
    /\ nonempty_mask' = nonempty_mask \ {flane[f]}
    /\ FGoto(f, "dequeue")
    /\ UNCHANGED <<q, approx_size, producerVars, flane, bits, round, got, batch,
                   flushing, applied, waiterVars>>

ApplyLane(f) ==
    /\ fpc[f] = "apply"
    /\ applied' = [applied EXCEPT ![flane[f]] = @ \o batch[f]]
    /\ batch' = [batch EXCEPT ![f] = <<>>]
    /\ round' = [round EXCEPT ![f] = TRUE]
    /\ FGoto(f, "lane")
    /\ UNCHANGED <<q, approx_size, nonempty_mask, producerVars, flane, bits, got,
                   flushing, waiterVars>>

DrainEnd(f) ==
    /\ fpc[f] = "end"
    /\ flushing' = [flushing EXCEPT ![f] = FALSE]
    /\ flane' = [flane EXCEPT ![f] = NoLane]
    /\ FGoto(f, "idle")
    /\ UNCHANGED <<q, approx_size, nonempty_mask, producerVars, bits, round, got,
                   batch, applied, waiterVars>>

(***************************************************************************)
(* flush_and_wait: it returns after it saw every lane's size 0 and then no *)
(* flusher in a drain (the code asks again four times).                    *)
(***************************************************************************)
Pushed == {e \in Entry : \/ e[2] < pushes[e[1]]
                         \/ e[2] = pushes[e[1]] /\ ppc[e[1]] = "idle"}

WaitBegin ==
    /\ wpc = "idle" /\ waits < MaxWaits
    /\ waits' = waits + 1
    /\ wpc' = "size" /\ wi' = 0
    /\ owed' = Pushed
    /\ UNCHANGED <<q, approx_size, nonempty_mask, producerVars, flusherVars, applied>>

\* Mutant: the flags are read before the sizes.
WaitFlagsFirst ==
    /\ UNCHANGED <<q, approx_size, nonempty_mask, producerVars, flusherVars, applied, waits, owed>>
    /\ \/ /\ wpc = "size"
          /\ IF flushing[wi] THEN wpc' = "size" /\ wi' = 0
             ELSE IF wi + 1 = num_flushers THEN wpc' = "flag" /\ wi' = 0
             ELSE wpc' = "size" /\ wi' = wi + 1
       \/ /\ wpc = "flag"
          /\ IF approx_size[wi] # 0 THEN wpc' = "size" /\ wi' = 0
             ELSE IF wi + 1 = kNumLanes THEN wpc' = "returned" /\ wi' = 0
             ELSE wpc' = "flag" /\ wi' = wi + 1

WaitRead ==
    /\ UNCHANGED <<q, approx_size, nonempty_mask, producerVars, flusherVars, applied, waits, owed>>
    /\ \/ /\ wpc = "size"
          /\ IF approx_size[wi] # 0 THEN wpc' = "size" /\ wi' = 0
             ELSE IF wi + 1 = kNumLanes THEN wpc' = "flag" /\ wi' = 0
             ELSE wpc' = "size" /\ wi' = wi + 1
       \/ /\ wpc = "flag"
          /\ IF flushing[wi] THEN wpc' = "size" /\ wi' = 0
             ELSE IF wi + 1 = num_flushers THEN wpc' = "returned" /\ wi' = 0
             ELSE wpc' = "flag" /\ wi' = wi + 1

WaitReturn ==
    /\ wpc = "returned"
    /\ wpc' = "idle" /\ owed' = {}
    /\ UNCHANGED <<q, approx_size, nonempty_mask, producerVars, flusherVars, applied,
                   wi, waits>>

Push(p)  == (\E l \in Lanes : PushAdd(p, l)) \/ PushEnqueue(p) \/ PushSetBit(p)
Drain(f) == \/ DrainBegin(f) \/ LoadMask(f) \/ NextLane(f) \/ Dequeue(f)
            \/ SubtractSize(f) \/ ClearBit(f) \/ ApplyLane(f) \/ DrainEnd(f)
Wait     == WaitBegin \/ WaitRead \/ WaitReturn

Next == (\E p \in Producers : Push(p)) \/ (\E f \in Flushers : Drain(f)) \/ Wait

Spec == Init /\ [][Next]_vars

(***************************************************************************)
(* Properties.                                                             *)
(***************************************************************************)

\* The counter is never behind the queue: it exceeds what is queued by exactly
\* the pushes that have counted and not enqueued and the entries dequeued and
\* not subtracted, so the unsigned fetch_sub never wraps
\* (commit_buffer.hpp:140-151, 163-190).  With the types.
SizeExact ==
    /\ BufferTypeOK
    /\ \A l \in Lanes :
        approx_size[l] = Len(q[l])
            + Cardinality({p \in Producers : ppc[p] = "added" /\ plane[p] = l})
            + (IF \E f \in Flushers : fpc[f] = "sub" /\ flane[f] = l
               THEN got[CHOOSE f \in Flushers : fpc[f] = "sub" /\ flane[f] = l] ELSE 0)

\* The entries of a lane are applied once each and, for one producer, in push
\* order, across batches and whichever thread drains
\* (commit_buffer.hpp:18-23: the property the winner picker rests on).
LaneOrder ==
    \A l \in Lanes :
        \A i, j \in 1 .. Len(applied[l]) :
            i < j /\ applied[l][i][1] = applied[l][j][1]
                => applied[l][i][2] < applied[l][j][2]

\* When flush_and_wait returns, every entry whose push had returned when it was
\* called has been applied (hiom.hpp:1343).
FlushWaits ==
    wpc = "returned" => owed \subseteq UNION {Range(applied[l]) : l \in Lanes}

\* A lane with entries is visible: with no push and no drain in progress, the
\* bit of a non-empty lane is set (commit_buffer.hpp:181-186, "a concurrent push
\* will re-set the bit via its own 0->1 transition check").
NonEmptyLaneHasBit ==
    (\A p \in Producers : ppc[p] = "idle") /\ (\A f \in Flushers : fpc[f] = "idle")
        => \A l \in Lanes : q[l] # <<>> => l \in nonempty_mask
=============================================================================
