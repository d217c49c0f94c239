----------------------------- MODULE FrontierInv -----------------------------
(***************************************************************************)
(* The inductive invariant of Frontier, in layers: each layer is inductive *)
(* given the ones before it.  FrontierProofs proves them; the runs check   *)
(* their conjunction.                                                      *)
(***************************************************************************)
EXTENDS Frontier

\* A live client owns its block, and blocks are handed out below current_block_
Ownership ==
    /\ \A c \in Clients : pc[c] \in HasBlock =>
          owner[block[c]] = c /\ block[c] < current_block
    /\ num_used_blocks <= current_block
    /\ mode = "recovering" => \A c \in Clients : pc[c] \notin HasBlock

\* The mark of a client's block is persisted before the client writes to it.
Ceiling ==
    /\ CeilingCoversRecords
    /\ \A c \in Clients : pc[c] \in HasBlock \ {"claimed", "grow"} =>
          block[c] < num_used_blocks

\* A record is about one put: it is written once, by the owner of its block,
\* and it is in one place between its write and its retirement.
Putting(c, r) == pc[c] \in {"written", "freed", "noted", "registered"} /\ rec[c] = r

InLane(f, r)  == [op |-> "kPut", off |-> r] \in commit_buf[f]
InBatch(f, r) == [op |-> "kPut", off |-> r] \in batch[f]

Written(r) == r[2] <= puts[r[1]]

AllWritten ==
    /\ \A r \in live : Written(r)
    /\ \A c \in Clients : pc[c] \in HasRecord => Written(rec[c])
    /\ \A f \in Flushers : \A r \in Records :
          InLane(f, r) \/ InBatch(f, r) => Written(r)

PutPlace ==
    \A c \in Clients, r \in Records : Putting(c, r) =>
        /\ r[1] = block[c]
        /\ \A f \in Flushers : ~InLane(f, r) /\ ~InBatch(f, r)

FlushPlace ==
    /\ \A f, g \in Flushers, r \in Records :
          /\ ~(InLane(f, r) /\ InBatch(g, r))
          /\ InLane(f, r) /\ InLane(g, r) => f = g
          /\ InBatch(f, r) /\ InBatch(g, r) => f = g
    /\ \A f \in Flushers : fpc[f] = "idle" => batch[f] = {}

OnePlace == AllWritten /\ PutPlace /\ FlushPlace

\* A live client holds an active slot of its own; once it has published, the
\* slot's inflight_block bounds its block from below.
SlotBounds ==
    /\ \A c \in Clients : pc[c] \in HasSlot => active[slot[c]]
    /\ \A c, d \in Clients :
          pc[c] \in HasSlot /\ pc[d] \in HasSlot /\ slot[c] = slot[d] => c = d
    /\ \A c \in published : pc[c] \in HasBlock =>
          /\ pc[c] \in HasSlot \ {"reserved", "reset"}
          /\ inflight_block[slot[c]] <= block[c]
    /\ \A c \in published : pc[c] # "none"
    /\ \A c \in Clients : pc[c] \in HasRecord \ {"removed"} => c \in published
    /\ \A c \in Clients : pc[c] \in {"put", "grow"} => c \in published

\* What is removed is not live.
RemovedNotLive ==
    /\ \A c \in Clients : pc[c] = "removed" => rec[c] \notin live /\ Written(rec[c])
    /\ \A f \in Flushers, r \in Records :
          [op |-> "kRemove", off |-> r] \in commit_buf[f] \cup batch[f]
              => r \notin live /\ Written(r)

\* Every live record outside ColdTier is on its way: its put is in progress or
\* the ring counts it; a batch being retired is in ColdTier already.
Covered ==
    /\ mode = "up" => \A r \in (live \ lost) \ cold :
          \/ \E c \in Clients : Putting(c, r)
          \/ \E f \in Flushers : InLane(f, r) \/ InBatch(f, r)
    /\ \A f \in Flushers, r \in Records :
          fpc[f] = "retire" /\ InBatch(f, r) /\ r \in live => r \in cold

\* The checkpoint in progress has passed slot i.
Passed(i) == ck_pc \in {"next", "ring", "write"} \/ i < ck_i

\* Its minimum bounds the block of every client it is not blind to, once that
\* client's slot is passed; and, once their ring slot is passed too, the block
\* of every record ColdTier does not have.
ScanMode == ck_pc # "idle" => mode = "up"

ScanSlots ==
    ck_pc \in ScanPCs => \A c \in Clients \ ck_blind :
        pc[c] \in HasBlock =>
            c \in published /\ (Passed(slot[c]) => ck_min <= block[c])

ScanRing ==
    ck_pc \in {"ring", "write"} =>
        /\ ck_min <= current_block
        /\ \A c \in Clients \ ck_blind : pc[c] \in HasBlock => ck_min <= block[c]
        /\ \A r \in (live \ lost) \ cold :
              /\ owner[r[1]] \notin ck_blind
              /\ ck_pc = "write" \/ RingSlot(r[1]) < ck_i
              => ck_min <= r[1]

Scan == ScanMode /\ ScanSlots /\ ScanRing

\* The frontier bounds what is still to be written.
FutureBound ==
    /\ ~old => frontier <= current_block
    /\ \A c \in Clients \ blind :
          pc[c] \in HasBlock => frontier <= block[c]

\* Replayed blocks are in ColdTier.
Replayed ==
    mode = "recovering" =>
        \A r \in live : r[1] \in TailBlocks \ todo => r \in cold

\* The inductive invariant: block ownership, the ceiling, the life of a record,
\* the ring, the client slots, and what a frontier, written or being computed,
\* bounds (hiom.hpp, try_write_checkpoint and the writers it races with).
IndInv ==
    /\ TypeOK /\ Ownership /\ Ceiling /\ OnePlace /\ PendingExact
    /\ SlotBounds /\ RemovedNotLive /\ Covered /\ Scan /\ FutureBound
    /\ FrontierDurable /\ Replayed
=============================================================================
