---------------------------- MODULE FrontierProofs ----------------------------
(***************************************************************************)
(* The durable frontier, proved for any number of clients, client slots,   *)
(* flushers, ring slots, blocks, puts and crashes: each layer of IndInv is *)
(* preserved by every step given the layers before it, and the properties  *)
(* of Frontier follow from the whole.  The checkpoint file that persists   *)
(* the frontier is at the end.                                             *)
(***************************************************************************)
EXTENDS FrontierInv, Checkpoint, FiniteSetTheorems, TLAPS

\* A record is a pair of a block and a put number.
LEMMA RecordFacts ==
  /\ \A r \in Records : r[1] \in Blocks /\ r[2] \in 1 .. MaxPuts /\ r = <<r[1], r[2]>>
  /\ \A b \in Blocks, n \in 1 .. MaxPuts : <<b, n>> \in Records
                                         /\ <<b, n>>[1] = b /\ <<b, n>>[2] = n
  BY DEF Records

\* A commit entry is determined by its operation and its record.
LEMMA EntryFacts ==
  /\ \A e \in Entries : e.op \in {"kPut", "kRemove"} /\ e.off \in Records
                        /\ e = [op |-> e.op, off |-> e.off]
  /\ \A r \in Records : [op |-> "kPut", off |-> r] \in Entries
                        /\ [op |-> "kRemove", off |-> r] \in Entries
  /\ \A r, q : [op |-> "kPut", off |-> r] = [op |-> "kPut", off |-> q] => r = q
  /\ \A r, q : [op |-> "kPut", off |-> r] # [op |-> "kRemove", off |-> q]
  BY DEF Entries

\* Every block has a slot of the ring.
LEMMA RingSlotType == \A b \in Blocks : RingSlot(b) \in RingSlots
  BY WindowAssumption, BoundsAssumption DEF Blocks, RingSlot, RingSlots

\* The minimum that try_write_checkpoint accumulates stays in range and below
\* both arguments.
LEMMA MinFacts ==
  \A a \in 0 .. kNoActiveBlock, b \in Nat :
      /\ MinOf(a, b) \in 0 .. kNoActiveBlock
      /\ MinOf(a, b) <= a /\ MinOf(a, b) <= b
      /\ MinOf(a, b) = a \/ MinOf(a, b) = b
  BY BoundsAssumption DEF MinOf, kNoActiveBlock

\* A new pool is well typed.
LEMMA TypeInit == Init => TypeOK
  <1> SUFFICES ASSUME Init PROVE TypeOK
    OBVIOUS
  <1> USE NumSlotsAssumption, WindowAssumption, BoundsAssumption
      DEF Init, Blocks, Slots, kNoActiveBlock
  <1>1. TypePM
    BY DEF TypePM
  <1>2. TypeClients
    BY DEF TypeClients, HasBlock, HasRecord, ClientPCs
  <1>3. TypeSlots
    BY DEF TypeSlots, NoBlocks
  <1>4. TypeFlush
    BY DEF TypeFlush, EmptyRing, NoEntries
  <1>5. TypeCk
    BY DEF TypeCk
  <1>6. TypeRun
    <2>1. owner \in [Blocks -> Clients \cup {"nobody"}]
      OBVIOUS
    <2>2. puts \in [Blocks -> 0 .. MaxPuts]
      OBVIOUS
    <2>3. crashes \in 0 .. MaxCrashes
      OBVIOUS
    <2>4. QED
      BY <2>1, <2>2, <2>3 DEF TypeRun
  <1>7. QED
    BY <1>1, <1>2, <1>3, <1>4, <1>5, <1>6 DEF TypeOK

\* A client that owns a block owns one of the pool.
LEMMA BlockKnown ==
  ASSUME TypeClients, NEW c \in Clients, pc[c] \notin {"none", "gone"}
  PROVE  block[c] \in Blocks /\ block[c] \in 0 .. MaxBlock - 1
  BY DEF TypeClients, HasBlock, Blocks

\* A put or remove in progress is about a record of the pool.
LEMMA RecordKnown ==
  ASSUME TypeClients, NEW c \in Clients,
         pc[c] \in {"written", "freed", "noted", "registered", "removed"}
  PROVE  rec[c] \in Records /\ rec[c][1] \in Blocks
         /\ RingSlot(rec[c][1]) \in RingSlots
  BY RecordFacts, RingSlotType DEF TypeClients, HasRecord

\* Every step keeps the types: the checkpoint's walk ends at the last client slot
\* and the last ring slot, and a retire finds a positive count.
LEMMA TypeNext == TypeOK /\ [Next]_vars => TypeOK'
  <1> USE NumSlotsAssumption, WindowAssumption, BoundsAssumption
  <1> SUFFICES ASSUME TypeOK, [Next]_vars PROVE TypeOK'
    OBVIOUS
  <1> USE DEF vars, pmVars, clientVars, slotVars, flushVars, runVars, ghostVars,
              ckVars, At, Goto, CkGoto, TypeOK,
              Blocks, Slots, kNoActiveBlock, HasBlock, HasRecord, ClientPCs, ScanPCs
  <1>1. ASSUME NEW c \in Clients, ClaimFirstBlock(c) PROVE TypeOK'
    <2> USE <1>1 DEF ClaimFirstBlock, GetNewBlock
    <2>1. TypePM'
      BY DEF TypePM
    <2>2. TypeClients'
      BY DEF TypeClients, TypePM
    <2>3. TypeCk'
      BY DEF MarkBlind, TypeCk
    <2>4. TypeRun'
      BY DEF MarkBlind, TypeRun, TypePM
    <2>5. QED
      BY <2>1, <2>2, <2>3, <2>4 DEF TypeSlots, TypeFlush
  <1>2. ASSUME NEW c \in Clients, PersistFirstBlock(c) PROVE TypeOK'
    <2> USE <1>2 DEF PersistFirstBlock
    <2>1. TypePM'
      <3>1. num_used_blocks' \in 0 .. MaxBlock
        BY BlockKnown DEF RaiseHighWaterMark, MaxOf, TypePM
      <3>2. QED
        BY <3>1 DEF TypePM
    <2>2. TypeClients'
      BY DEF TypeClients
    <2>5. QED
      BY <2>1, <2>2 DEF TypeSlots, TypeFlush, TypeCk, TypeRun
  <1>3. ASSUME NEW c \in Clients, NEW i \in Slots, ReserveSlot(c, i) PROVE TypeOK'
    BY <1>3 DEF ReserveSlot, TypePM, TypeClients, TypeSlots, TypeFlush, TypeCk, TypeRun
  <1>4. ASSUME NEW c \in Clients, ResetLastBlock(c) PROVE TypeOK'
    BY <1>4 DEF ResetLastBlock, TypePM, TypeClients, TypeSlots, TypeFlush, TypeCk, TypeRun
  <1>5. ASSUME NEW c \in Clients, ResetInflightBlock(c) PROVE TypeOK'
    BY <1>5 DEF ResetInflightBlock, TypePM, TypeClients, TypeSlots, TypeFlush, TypeCk, TypeRun
  <1>6. ASSUME NEW c \in Clients, ReleaseSlot(c) PROVE TypeOK'
    BY <1>6 DEF ReleaseSlot, TypePM, TypeClients, TypeSlots, TypeFlush, TypeCk, TypeRun
  <1>7. ASSUME NEW c \in Clients, NoteInflightBlock(c) PROVE TypeOK'
    BY <1>7 DEF NoteInflightBlock, TypePM, TypeClients, TypeSlots, TypeFlush, TypeCk, TypeRun
  <1>8. ASSUME NEW c \in Clients, ClaimNextBlock(c) PROVE TypeOK'
    <2> USE <1>8 DEF ClaimNextBlock, GetNewBlock
    <2>1. TypePM'
      BY DEF TypePM
    <2>2. TypeClients'
      BY DEF TypeClients, TypePM
    <2>4. TypeRun'
      BY DEF TypeRun, TypePM
    <2>5. QED
      BY <2>1, <2>2, <2>4 DEF TypeSlots, TypeFlush, TypeCk
  <1>9. ASSUME NEW c \in Clients, PersistNextBlock(c) PROVE TypeOK'
    <2> USE <1>9 DEF PersistNextBlock
    <2>1. TypePM'
      <3>1. num_used_blocks' \in 0 .. MaxBlock
        BY BlockKnown DEF RaiseHighWaterMark, MaxOf, TypePM
      <3>2. QED
        BY <3>1 DEF TypePM
    <2>2. TypeClients'
      BY DEF TypeClients
    <2>5. QED
      BY <2>1, <2>2 DEF TypeSlots, TypeFlush, TypeCk, TypeRun
  <1>10. ASSUME NEW c \in Clients, WriteRecord(c) PROVE TypeOK'
    <2> USE <1>10 DEF WriteRecord
    <2>0. block[c] \in Blocks /\ <<block[c], puts[block[c]] + 1>> \in Records
      <3>1. block[c] \in Blocks
        BY BlockKnown
      <3>2. puts[block[c]] + 1 \in 1 .. MaxPuts
        BY <3>1 DEF TypeRun
      <3>3. QED
        BY <3>1, <3>2, RecordFacts
    <2>1. TypePM'
      BY <2>0 DEF TypePM
    <2>2. TypeClients'
      BY <2>0 DEF TypeClients
    <2>4. TypeRun'
      <3>1. puts' \in [Blocks -> 0 .. MaxPuts]
        BY <2>0 DEF TypeRun
      <3>2. QED
        BY <3>1 DEF TypeRun
    <2>5. QED
      BY <2>1, <2>2, <2>4 DEF TypeSlots, TypeFlush, TypeCk
  <1>11. ASSUME NEW c \in Clients, NEW r \in Records, FreeOldRecord(c, r) PROVE TypeOK'
    BY <1>11 DEF FreeOldRecord, TypePM, TypeClients, TypeSlots, TypeFlush, TypeCk, TypeRun
  <1>12. ASSUME NEW c \in Clients, NoteClientBlock(c) PROVE TypeOK'
    <2> USE <1>12 DEF NoteClientBlock
    <2>1. TypeSlots'
      BY RecordKnown DEF TypeSlots
    <2>2. TypeClients'
      BY DEF TypeClients
    <2>3. QED
      BY <2>1, <2>2 DEF TypePM, TypeFlush, TypeCk, TypeRun
  <1>13. ASSUME NEW c \in Clients, PendingRegister(c) PROVE TypeOK'
    <2> USE <1>13 DEF PendingRegister, Tagged
    <2>1. TypeFlush'
      <3>1. rec[c][1] \in Blocks /\ RingSlot(rec[c][1]) \in RingSlots
        BY RecordFacts, RingSlotType DEF TypeClients
      <3>2. QED
        BY <3>1 DEF TypeFlush
    <2>2. TypeClients'
      BY DEF TypeClients
    <2>5. QED
      BY <2>1, <2>2 DEF TypePM, TypeSlots, TypeCk, TypeRun
  <1>14. ASSUME NEW c \in Clients, NEW f \in Flushers, PushPut(c, f) PROVE TypeOK'
    <2> USE <1>14 DEF PushPut, OperationDone
    <2>1. TypeFlush'
      <3>1. [op |-> "kPut", off |-> rec[c]] \in Entries
        BY RecordKnown, EntryFacts
      <3>2. QED
        BY <3>1 DEF TypeFlush
    <2>2. TypeClients'
      BY DEF TypeClients
    <2>5. QED
      BY <2>1, <2>2 DEF TypePM, TypeSlots, TypeCk, TypeRun
  <1>15. ASSUME NEW c \in Clients, NEW r \in Records, RemoveRecord(c, r) PROVE TypeOK'
    BY <1>15 DEF RemoveRecord, TypePM, TypeClients, TypeSlots, TypeFlush, TypeCk, TypeRun
  <1>16. ASSUME NEW c \in Clients, NEW f \in Flushers, PushRemove(c, f) PROVE TypeOK'
    <2> USE <1>16 DEF PushRemove, OperationDone
    <2>1. TypeFlush'
      <3>1. [op |-> "kRemove", off |-> rec[c]] \in Entries
        BY RecordKnown, EntryFacts
      <3>2. QED
        BY <3>1 DEF TypeFlush
    <2>2. TypeClients'
      BY DEF TypeClients
    <2>5. QED
      BY <2>1, <2>2 DEF TypePM, TypeSlots, TypeCk, TypeRun
  <1>17. ASSUME NEW f \in Flushers, NEW D \in SUBSET commit_buf[f], DrainLane(f, D) PROVE TypeOK'
    BY <1>17 DEF DrainLane, TypePM, TypeClients, TypeSlots, TypeFlush, TypeCk, TypeRun
  <1>18. ASSUME NEW f \in Flushers, ApplyBatch(f) PROVE TypeOK'
    BY <1>18 DEF ApplyBatch, PutWinners, Removed, TypePM, TypeClients, TypeSlots,
                 TypeFlush, TypeCk, TypeRun
  <1>19. ASSUME NEW f \in Flushers, NEW e \in batch[f], RetireEntry(f, e) PROVE TypeOK'
    <2> USE <1>19 DEF RetireEntry, PendingRetire, Tagged
    <2>1. TypeFlush'
      <3>1. e.off[1] \in Blocks /\ RingSlot(e.off[1]) \in RingSlots
        BY RecordFacts, EntryFacts, RingSlotType DEF TypeFlush
      <3>2. pending' \in [RingSlots -> [block : Nat, count : Nat]]
        <4>1. CASE e.op # "kPut"
          BY <4>1 DEF TypeFlush
        <4>2. CASE e.op = "kPut"
          <5>1. pending[RingSlot(e.off[1])].count \in Nat \ {0}
            BY <3>1, <4>2 DEF TypeFlush, RetireMatches
          <5>2. Tagged(e.off[1], pending[RingSlot(e.off[1])].count - 1)
                  \in [block : Nat, count : Nat]
            BY <3>1, <5>1 DEF Blocks
          <5>3. QED
            BY <3>1, <4>2, <5>2 DEF TypeFlush
        <4>3. QED
          BY <4>1, <4>2
      <3>3. QED
        BY <3>2 DEF TypeFlush
    <2>5. QED
      BY <2>1 DEF TypePM, TypeClients, TypeSlots, TypeCk, TypeRun
  <1>20. ASSUME CkRead PROVE TypeOK'
    <2> SUFFICES TypeCk'
      BY <1>20 DEF CkRead, TypePM, TypeClients, TypeSlots, TypeFlush, TypeRun
    <2> USE DEF TypeCk, TypeSlots, TypeFlush, TypePM, RingSlots
    <2>1. CASE CkBegin
      BY <2>1 DEF CkBegin, Unpublished
    <2>2. CASE CkLoadActive
      <3>1. CASE active[ck_i]
        BY <2>2, <3>1 DEF CkLoadActive
      <3>2. CASE ~active[ck_i]
        BY <2>2, <3>2 DEF CkLoadActive, AfterSlot
      <3>3. QED
        BY <3>1, <3>2
    <2>3. CASE CkLoadLast
      <3>1. last_block[ck_i] \in Nat /\ ck_min \in 0 .. kNoActiveBlock
        BY <2>3 DEF CkLoadLast
      <3>2. MinOf(ck_min, last_block[ck_i]) \in 0 .. kNoActiveBlock
        BY <3>1, MinFacts
      <3>3. QED
        BY <2>3, <3>2 DEF CkLoadLast
    <2>4. CASE CkLoadInflight
      <3>1. inflight_block[ck_i] \in Nat /\ ck_min \in 0 .. kNoActiveBlock
        BY <2>4 DEF CkLoadInflight
      <3>2. MinOf(ck_min, inflight_block[ck_i]) \in 0 .. kNoActiveBlock
        BY <3>1, MinFacts
      <3>3. QED
        BY <2>4, <3>2 DEF CkLoadInflight, AfterSlot
    <2>5. CASE CkLoadNext
      <3>1. ck_min \in 0 .. kNoActiveBlock /\ current_block \in Nat
        OBVIOUS
      <3>2. MinOf(ck_min, current_block) \in 0 .. kNoActiveBlock
        BY <3>1, MinFacts
      <3>3. QED
        BY <2>5, <3>2 DEF CkLoadNext
    <2>6. CASE CkLoadRing
      <3>1. pending[ck_i].block \in Nat /\ ck_min \in 0 .. kNoActiveBlock
        BY <2>6 DEF CkLoadRing
      <3>2. MinOf(ck_min, pending[ck_i].block) \in 0 .. kNoActiveBlock
        BY <3>1, MinFacts
      <3>3. QED
        BY <2>6, <3>2 DEF CkLoadRing
    <2>7. QED
      BY <1>20, <2>1, <2>2, <2>3, <2>4, <2>5, <2>6 DEF CkRead
  <1>21. ASSUME CkWrite PROVE TypeOK'
    <2> USE <1>21 DEF CkWrite
    <2>1. TypePM'
      BY DEF TypePM, TypeCk
    <2>2. TypeCk'
      BY DEF TypeCk
    <2>3. TypeRun'
      BY DEF TypeRun, TypeCk
    <2>5. QED
      BY <2>1, <2>2, <2>3 DEF TypeClients, TypeSlots, TypeFlush
  <1>22. ASSUME Crash PROVE TypeOK'
    <2> USE <1>22 DEF Crash
    <2>1. TypePM'
      BY DEF TypePM
    <2>2. TypeClients'
      BY DEF TypeClients
    <2>3. TypeSlots'
      BY DEF TypeSlots, NoBlocks
    <2>4. TypeFlush'
      BY DEF TypeFlush, EmptyRing, NoEntries
    <2>5. TypeCk'
      BY DEF TypeCk
    <2>6. TypeRun'
      BY DEF TypeRun, TailBlocks
    <2>7. QED
      BY <2>1, <2>2, <2>3, <2>4, <2>5, <2>6
  <1>23. ASSUME NEW b \in Blocks, ReplayBlock(b) PROVE TypeOK'
    BY <1>23 DEF ReplayBlock, TypePM, TypeClients, TypeSlots, TypeFlush, TypeCk, TypeRun
  <1>24. ASSUME RecoveryDone PROVE TypeOK'
    BY <1>24 DEF RecoveryDone, TypePM, TypeClients, TypeSlots, TypeFlush, TypeCk, TypeRun
  <1>25. CASE UNCHANGED vars
    BY <1>25 DEF TypePM, TypeClients, TypeSlots, TypeFlush, TypeCk, TypeRun
  <1>26. QED
    BY <1>1, <1>2, <1>3, <1>4, <1>5, <1>6, <1>7, <1>8, <1>9, <1>10, <1>11, <1>12,
       <1>13, <1>14, <1>15, <1>16, <1>17, <1>18, <1>19, <1>20, <1>21, <1>22, <1>23,
       <1>24, <1>25
       DEF Next, GetClient, PutStep, RemoveStep, FlusherStep, Recovery

\* Block numbers, the snapshot's indices and the ring's counters stay in range,
\* for every value of the constants.
THEOREM TypeCorrect == Spec => []TypeOK
  BY TypeInit, TypeNext, PTL DEF Spec

(***************************************************************************)
(* Block ownership and the scan ceiling.                                   *)
(***************************************************************************)
\* A flusher's step leaves the clients, the allocator and the checkpoint alone.
LEMMA FlusherFrame ==
  ASSUME NEW f \in Flushers, FlusherStep(f)
  PROVE  UNCHANGED <<live, num_used_blocks, frontier, current_block, clientVars,
                     slotVars, ckVars, runVars, ghostVars>>
  <1>1. ASSUME NEW D, DrainLane(f, D)
        PROVE  UNCHANGED <<live, num_used_blocks, frontier, current_block, clientVars,
                           slotVars, ckVars, runVars, ghostVars>>
    BY <1>1 DEF DrainLane, pmVars
  <1>2. CASE ApplyBatch(f)
    BY <1>2 DEF ApplyBatch
  <1>3. ASSUME NEW e, RetireEntry(f, e)
        PROVE  UNCHANGED <<live, num_used_blocks, frontier, current_block, clientVars,
                           slotVars, ckVars, runVars, ghostVars>>
    BY <1>3 DEF RetireEntry, pmVars
  <1>4. QED
    BY <1>1, <1>2, <1>3 DEF FlusherStep

\* get_new_block hands a block to one client at a time, below current_block_page_.
LEMMA OwnershipNext ==
  TypeOK /\ Ownership /\ [Next]_vars => Ownership'
  <1> SUFFICES ASSUME TypeOK, Ownership, [Next]_vars PROVE Ownership'
    OBVIOUS
  <1> USE BoundsAssumption
      DEF vars, pmVars, clientVars, slotVars, flushVars, runVars, ghostVars, ckVars,
          At, Goto, CkGoto, HasBlock, ClientPCs, Ownership, OperationDone
  <1>t. /\ TypeClients /\ current_block \in 0 .. MaxBlock /\ num_used_blocks \in 0 .. MaxBlock
        /\ owner \in [Blocks -> Clients \cup {"nobody"}]
    BY DEF TypeOK, TypePM, TypeRun
  <1>b. \A c \in Clients : pc[c] \in HasBlock => block[c] \in Blocks /\ block[c] \in Int
    BY <1>t DEF TypeClients, Blocks
  <1>p. pc \in [Clients -> ClientPCs] /\ block \in [Clients -> Blocks \cup {kNoActiveBlock}]
    BY <1>t DEF TypeClients
  <1>1. ASSUME NEW c \in Clients, ClaimFirstBlock(c) \/ ClaimNextBlock(c) PROVE Ownership'
    <2>1. /\ current_block < MaxBlock /\ current_block' = current_block + 1
          /\ block' = [block EXCEPT ![c] = current_block]
          /\ owner' = [owner EXCEPT ![current_block] = c]
          /\ num_used_blocks' = num_used_blocks /\ mode = "up" /\ mode' = mode
          /\ \A d \in Clients \ {c} : pc'[d] = pc[d]
      BY <1>1, <1>p DEF ClaimFirstBlock, ClaimNextBlock, GetNewBlock
    <2>2. current_block \in Blocks
      BY <2>1, <1>t DEF Blocks
    <2>3. owner'[block'[c]] = c /\ block'[c] < current_block'
      BY <2>1, <2>2, <1>t, <1>p
    <2>4. ASSUME NEW d \in Clients \ {c}, pc'[d] \in HasBlock
          PROVE  owner'[block'[d]] = d /\ block'[d] < current_block'
      <3>1. pc[d] \in HasBlock /\ block'[d] = block[d]
        BY <2>1, <2>4, <1>p
      <3>2. block[d] < current_block /\ owner[block[d]] = d /\ block[d] \in Blocks /\ block[d] \in Int
        BY <3>1, <1>b
      <3>3. QED
        BY <3>1, <3>2, <2>1, <1>t, <2>2
    <2>5. QED
      BY <2>1, <2>3, <2>4, <1>t
  <1>2. ASSUME NEW c \in Clients, PersistFirstBlock(c) \/ PersistNextBlock(c) PROVE Ownership'
    <2>1. num_used_blocks' <= current_block
      BY <1>2, <1>t, <1>b DEF PersistFirstBlock, PersistNextBlock, RaiseHighWaterMark, MaxOf
    <2>2. QED
      BY <2>1, <1>2, <1>p DEF PersistFirstBlock, PersistNextBlock
  <1>3. ASSUME NEW c \in Clients, NEW i \in Slots, ReserveSlot(c, i) PROVE Ownership'
    BY <1>3, <1>p DEF ReserveSlot
  <1>4. ASSUME NEW c \in Clients, ResetLastBlock(c) PROVE Ownership'
    BY <1>4, <1>p DEF ResetLastBlock
  <1>5. ASSUME NEW c \in Clients, ResetInflightBlock(c) PROVE Ownership'
    BY <1>5, <1>p DEF ResetInflightBlock
  <1>6. ASSUME NEW c \in Clients, ReleaseSlot(c) PROVE Ownership'
    BY <1>6, <1>p DEF ReleaseSlot
  <1>7. ASSUME NEW c \in Clients, NoteInflightBlock(c) PROVE Ownership'
    BY <1>7, <1>p DEF NoteInflightBlock
  <1>8. ASSUME NEW c \in Clients, WriteRecord(c) PROVE Ownership'
    BY <1>8, <1>p DEF WriteRecord
  <1>9. ASSUME NEW c \in Clients, NEW r \in Records, FreeOldRecord(c, r) PROVE Ownership'
    BY <1>9, <1>p DEF FreeOldRecord
  <1>10. ASSUME NEW c \in Clients, NoteClientBlock(c) PROVE Ownership'
    BY <1>10, <1>p DEF NoteClientBlock
  <1>11. ASSUME NEW c \in Clients, PendingRegister(c) PROVE Ownership'
    BY <1>11, <1>p DEF PendingRegister
  <1>12. ASSUME NEW c \in Clients, NEW f \in Flushers, PushPut(c, f) PROVE Ownership'
    BY <1>12, <1>p DEF PushPut
  <1>13. ASSUME NEW c \in Clients, NEW r \in Records, RemoveRecord(c, r) PROVE Ownership'
    BY <1>13, <1>p DEF RemoveRecord
  <1>14. ASSUME NEW c \in Clients, NEW f \in Flushers, PushRemove(c, f) PROVE Ownership'
    BY <1>14, <1>p DEF PushRemove
  <1>15. ASSUME NEW f \in Flushers, FlusherStep(f) PROVE Ownership'
    BY <1>15, FlusherFrame
  <1>16. CASE CkRead \/ CkWrite
    BY <1>16 DEF CkRead, CkWrite
  <1>17. CASE Crash
    BY <1>17, <1>t DEF Crash
  <1>18. CASE Recovery
    BY <1>18 DEF Recovery, ReplayBlock, RecoveryDone
  <1>19. CASE UNCHANGED vars
    BY <1>19
  <1>20. QED
    BY <1>1, <1>2, <1>3, <1>4, <1>5, <1>6, <1>7, <1>8, <1>9, <1>10, <1>11, <1>12, <1>13, <1>14, <1>15, <1>16, <1>17, <1>18, <1>19
       DEF Next, GetClient, PutStep, RemoveStep

\* A client writes to a block only after it raised the persisted high-water mark
\* above it.
LEMMA CeilingNext ==
  TypeOK /\ Ownership /\ Ceiling /\ [Next]_vars => Ceiling'
  <1> SUFFICES ASSUME TypeOK, Ownership, Ceiling, [Next]_vars PROVE Ceiling'
    OBVIOUS
  <1> USE BoundsAssumption
      DEF vars, pmVars, clientVars, slotVars, flushVars, runVars, ghostVars, ckVars,
          At, Goto, CkGoto, HasBlock, ClientPCs, OperationDone,
          Ceiling, CeilingCoversRecords
  <1>t. /\ num_used_blocks \in Int /\ live \subseteq Records
        /\ pc \in [Clients -> ClientPCs] /\ block \in [Clients -> Blocks \cup {kNoActiveBlock}]
        /\ \A r \in Records : r[1] \in Int
    BY RecordFacts DEF TypeOK, TypePM, TypeClients, Blocks
  <1>b. \A c \in Clients : pc[c] \in HasBlock => block[c] \in Int
    BY DEF TypeOK, TypeClients, Blocks
  <1>1. ASSUME NEW c \in Clients, ClaimFirstBlock(c) PROVE Ceiling'
    BY <1>1, <1>t DEF ClaimFirstBlock, GetNewBlock
  <1>2. ASSUME NEW c \in Clients, PersistFirstBlock(c) PROVE Ceiling'
    <2>1. num_used_blocks' >= num_used_blocks /\ block[c] < num_used_blocks'
      BY <1>2, <1>t, <1>b DEF PersistFirstBlock, RaiseHighWaterMark, MaxOf
    <2>2. num_used_blocks' \in Int
      BY <1>2, <1>t, <1>b DEF PersistFirstBlock, RaiseHighWaterMark, MaxOf
    <2>3. QED
      BY <2>1, <2>2, <1>2, <1>t, <1>b DEF PersistFirstBlock
  <1>3. ASSUME NEW c \in Clients, NEW i \in Slots, ReserveSlot(c, i) PROVE Ceiling'
    BY <1>3, <1>t DEF ReserveSlot
  <1>4. ASSUME NEW c \in Clients, ResetLastBlock(c) PROVE Ceiling'
    BY <1>4, <1>t DEF ResetLastBlock
  <1>5. ASSUME NEW c \in Clients, ResetInflightBlock(c) PROVE Ceiling'
    BY <1>5, <1>t DEF ResetInflightBlock
  <1>6. ASSUME NEW c \in Clients, ReleaseSlot(c) PROVE Ceiling'
    BY <1>6, <1>t DEF ReleaseSlot
  <1>7. ASSUME NEW c \in Clients, NoteInflightBlock(c) PROVE Ceiling'
    BY <1>7, <1>t DEF NoteInflightBlock
  <1>8. ASSUME NEW c \in Clients, ClaimNextBlock(c) PROVE Ceiling'
    BY <1>8, <1>t DEF ClaimNextBlock, GetNewBlock
  <1>9. ASSUME NEW c \in Clients, PersistNextBlock(c) PROVE Ceiling'
    <2>1. num_used_blocks' >= num_used_blocks /\ block[c] < num_used_blocks'
      BY <1>9, <1>t, <1>b DEF PersistNextBlock, RaiseHighWaterMark, MaxOf
    <2>2. num_used_blocks' \in Int
      BY <1>9, <1>t, <1>b DEF PersistNextBlock, RaiseHighWaterMark, MaxOf
    <2>3. QED
      BY <2>1, <2>2, <1>9, <1>t, <1>b DEF PersistNextBlock
  <1>10. ASSUME NEW c \in Clients, WriteRecord(c) PROVE Ceiling'
    BY <1>10, <1>t DEF WriteRecord
  <1>11. ASSUME NEW c \in Clients, NEW r \in Records, FreeOldRecord(c, r) PROVE Ceiling'
    BY <1>11, <1>t DEF FreeOldRecord
  <1>12. ASSUME NEW c \in Clients, NoteClientBlock(c) PROVE Ceiling'
    BY <1>12, <1>t DEF NoteClientBlock
  <1>13. ASSUME NEW c \in Clients, PendingRegister(c) PROVE Ceiling'
    BY <1>13, <1>t DEF PendingRegister
  <1>14. ASSUME NEW c \in Clients, NEW f \in Flushers, PushPut(c, f) PROVE Ceiling'
    BY <1>14, <1>t DEF PushPut
  <1>15. ASSUME NEW c \in Clients, NEW r \in Records, RemoveRecord(c, r) PROVE Ceiling'
    BY <1>15, <1>t DEF RemoveRecord
  <1>16. ASSUME NEW c \in Clients, NEW f \in Flushers, PushRemove(c, f) PROVE Ceiling'
    BY <1>16, <1>t DEF PushRemove
  <1>17. ASSUME NEW f \in Flushers, FlusherStep(f) PROVE Ceiling'
    BY <1>17, FlusherFrame
  <1>18. ASSUME CkRead PROVE Ceiling'
    BY <1>18 DEF CkRead
  <1>19. ASSUME CkWrite PROVE Ceiling'
    BY <1>19, <1>t DEF CkWrite
  <1>20. ASSUME Crash PROVE Ceiling'
    BY <1>20, <1>t DEF Crash
  <1>21. ASSUME NEW b \in Blocks, ReplayBlock(b) PROVE Ceiling'
    BY <1>21, <1>t DEF ReplayBlock
  <1>22. ASSUME RecoveryDone PROVE Ceiling'
    BY <1>22, <1>t DEF RecoveryDone
  <1>23. ASSUME UNCHANGED vars PROVE Ceiling'
    BY <1>23
  <1>24. QED
    BY <1>1, <1>2, <1>3, <1>4, <1>5, <1>6, <1>7, <1>8, <1>9, <1>10, <1>11,
       <1>12, <1>13, <1>14, <1>15, <1>16, <1>17, <1>18, <1>19, <1>20, <1>21,
       <1>22, <1>23
       DEF Next, GetClient, PutStep, RemoveStep, Recovery

\* The scan ceiling, for any number of clients, blocks and crashes: a record is
\* durable only in a block below the high-water mark that get_block_based_access
\* raised before the client could write there.
THEOREM CeilingCorrect == Spec => []CeilingCoversRecords
  <1>1. Init => Ownership /\ Ceiling
    BY BoundsAssumption DEF Init, Ownership, Ceiling, CeilingCoversRecords, HasBlock, ClientPCs
  <1>2. QED
    BY <1>1, TypeInit, TypeNext, OwnershipNext, CeilingNext, PTL DEF Spec, Ceiling

(***************************************************************************)
(* A put's record is in one place at a time.                               *)
(***************************************************************************)
\* A put moves from its client to one lane and from there to one batch.
LEMMA OnePlaceNext ==
  TypeOK /\ Ownership /\ OnePlace /\ [Next]_vars => OnePlace'
  <1> SUFFICES ASSUME TypeOK, Ownership, OnePlace, [Next]_vars PROVE OnePlace'
    OBVIOUS
  <1> USE DEF vars, pmVars, clientVars, slotVars, flushVars, runVars, ghostVars, ckVars,
          At, Goto, CkGoto, HasRecord, OperationDone, Written,
          OnePlace, AllWritten, PutPlace, FlushPlace, Putting, InLane, InBatch
  <1>t. /\ live \subseteq Records /\ pc \in [Clients -> ClientPCs]
        /\ rec \in [Clients -> Records \cup {<<>>}]
        /\ block \in [Clients -> Blocks \cup {kNoActiveBlock}]
        /\ puts \in [Blocks -> 0 .. MaxPuts]
        /\ commit_buf \in [Flushers -> SUBSET Entries]
        /\ batch \in [Flushers -> SUBSET Entries]
        /\ fpc \in [Flushers -> {"idle", "apply", "retire"}]
    BY DEF TypeOK, TypePM, TypeClients, TypeFlush, TypeRun
  <1>1. ASSUME NEW c \in Clients, ClaimFirstBlock(c) PROVE OnePlace'
    BY <1>1, <1>t DEF ClaimFirstBlock, GetNewBlock
  <1>2. ASSUME NEW c \in Clients, PersistFirstBlock(c) PROVE OnePlace'
    BY <1>2, <1>t DEF PersistFirstBlock
  <1>3. ASSUME NEW c \in Clients, NEW i \in Slots, ReserveSlot(c, i) PROVE OnePlace'
    BY <1>3, <1>t DEF ReserveSlot
  <1>4. ASSUME NEW c \in Clients, ResetLastBlock(c) PROVE OnePlace'
    BY <1>4, <1>t DEF ResetLastBlock
  <1>5. ASSUME NEW c \in Clients, ResetInflightBlock(c) PROVE OnePlace'
    BY <1>5, <1>t DEF ResetInflightBlock
  <1>6. ASSUME NEW c \in Clients, ReleaseSlot(c) PROVE OnePlace'
    BY <1>6, <1>t DEF ReleaseSlot
  <1>7. ASSUME NEW c \in Clients, NoteInflightBlock(c) PROVE OnePlace'
    BY <1>7, <1>t DEF NoteInflightBlock
  <1>8. ASSUME NEW c \in Clients, ClaimNextBlock(c) PROVE OnePlace'
    BY <1>8, <1>t DEF ClaimNextBlock, GetNewBlock
  <1>9. ASSUME NEW c \in Clients, PersistNextBlock(c) PROVE OnePlace'
    BY <1>9, <1>t DEF PersistNextBlock
  <1>10. ASSUME NEW c \in Clients, WriteRecord(c) PROVE OnePlace'
    <2> DEFINE b == block[c]
               new == <<b, puts[b] + 1>>
    <2>1. b \in Blocks /\ new \in Records /\ new[1] = b /\ new[2] = puts[b] + 1
      <3>1. b \in Blocks
        BY <1>10, BlockKnown DEF WriteRecord, TypeOK
      <3>2. puts[b] \in 0 .. MaxPuts /\ puts[b] < MaxPuts
        BY <3>1, <1>t, <1>10 DEF WriteRecord
      <3>3. puts[b] + 1 \in 1 .. MaxPuts
        BY <3>2, BoundsAssumption
      <3>4. QED
        BY <3>1, <3>3, RecordFacts
    <2>2. /\ puts' = [puts EXCEPT ![b] = puts[b] + 1]
          /\ rec' = [rec EXCEPT ![c] = new] /\ live' = live \cup {new}
          /\ pc' = [pc EXCEPT ![c] = "written"]
          /\ block' = block /\ commit_buf' = commit_buf /\ batch' = batch /\ fpc' = fpc
      BY <1>10 DEF WriteRecord
    <2> HIDE DEF new, b
    <2>3. ~Written(new)
      BY <2>1, <1>t
    <2>4. \A r \in Records : Written(r) => Written(r)'
      BY <2>1, <2>2, <1>t, RecordFacts
    <2>5. new[2] <= puts'[new[1]]
      BY <2>1, <2>2, <1>t
    <2>6. AllWritten'
      <3>1. \A d \in Clients : pc'[d] \in HasRecord => Written(rec[d])'
        <4>1. ASSUME NEW d \in Clients, d # c, pc'[d] \in HasRecord PROVE Written(rec[d])'
          <5>1. pc[d] \in HasRecord /\ rec'[d] = rec[d] /\ rec[d] \in Records
            BY <4>1, <2>2, <1>t DEF TypeOK, TypeClients
          <5>2. QED
            BY <5>1, <2>4
        <4>2. rec'[c] = new
          BY <2>2, <1>t
        <4>3. QED
          BY <4>1, <4>2, <2>5
      <3>2. QED
        BY <3>1, <2>2, <2>4, <2>5, <1>t
    <2>7. PutPlace'
      BY <2>1, <2>2, <2>3, <1>t DEF b
    <2>8. FlushPlace'
      BY <2>2
    <2>9. QED
      BY <2>6, <2>7, <2>8
  <1>11. ASSUME NEW c \in Clients, NEW r \in Records, FreeOldRecord(c, r) PROVE OnePlace'
    BY <1>11, <1>t DEF FreeOldRecord
  <1>12. ASSUME NEW c \in Clients, NoteClientBlock(c) PROVE OnePlace'
    BY <1>12, <1>t DEF NoteClientBlock
  <1>13. ASSUME NEW c \in Clients, PendingRegister(c) PROVE OnePlace'
    BY <1>13, <1>t DEF PendingRegister
  <1>14. ASSUME NEW c \in Clients, NEW f \in Flushers, PushPut(c, f) PROVE OnePlace'
    <2> DEFINE new == [op |-> "kPut", off |-> rec[c]]
    <2>1. /\ commit_buf' = [commit_buf EXCEPT ![f] = commit_buf[f] \cup {new}]
          /\ rec' = [rec EXCEPT ![c] = <<>>] /\ pc' = [pc EXCEPT ![c] = "idle"]
          /\ pc[c] = "registered"
          /\ UNCHANGED <<block, live, puts, batch, fpc>>
      BY <1>14 DEF PushPut
    <2>2. rec[c] \in Records
      BY <2>1 DEF TypeOK, TypeClients
    <2>3. \A g \in Flushers, r \in Records :
             InLane(g, r)' <=> InLane(g, r) \/ (g = f /\ r = rec[c])
      BY <2>1, <2>2, <1>t, EntryFacts
    <2>4. \A d \in Clients, r \in Records : Putting(d, r)' => d # c /\ Putting(d, r)
      BY <2>1, <1>t
    <2>5. Putting(c, rec[c])
      BY <2>1
    <2>6. \A d \in Clients : d # c => ~Putting(d, rec[c])
      <3>1. SUFFICES ASSUME NEW d \in Clients, Putting(d, rec[c]) PROVE d = c
        OBVIOUS
      <3>2. rec[c][1] = block[c] /\ rec[c][1] = block[d]
        BY <2>2, <2>5, <3>1
      <3>3. owner[block[c]] = c /\ owner[block[d]] = d
        BY <2>1, <3>1 DEF Ownership, HasBlock, ClientPCs
      <3>4. QED
        BY <3>2, <3>3
    <2>7. QED
      BY <2>1, <2>2, <2>3, <2>4, <2>5, <2>6, <1>t
  <1>15. ASSUME NEW c \in Clients, NEW r \in Records, RemoveRecord(c, r) PROVE OnePlace'
    BY <1>15, <1>t DEF RemoveRecord
  <1>16. ASSUME NEW c \in Clients, NEW f \in Flushers, PushRemove(c, f) PROVE OnePlace'
    BY <1>16, <1>t DEF PushRemove
  <1>17. ASSUME NEW f \in Flushers, NEW D \in SUBSET commit_buf[f], DrainLane(f, D) PROVE OnePlace'
    BY <1>17, <1>t DEF DrainLane
  <1>18. ASSUME NEW f \in Flushers, ApplyBatch(f) PROVE OnePlace'
    BY <1>18, <1>t DEF ApplyBatch
  <1>19. ASSUME NEW f \in Flushers, NEW e \in batch[f], RetireEntry(f, e) PROVE OnePlace'
    BY <1>19, <1>t DEF RetireEntry
  <1>20. ASSUME CkRead PROVE OnePlace'
    BY <1>20 DEF CkRead
  <1>21. ASSUME CkWrite PROVE OnePlace'
    BY <1>21, <1>t DEF CkWrite
  <1>22. ASSUME Crash PROVE OnePlace'
    BY <1>22, <1>t DEF Crash, NoEntries
  <1>23. ASSUME NEW b \in Blocks, ReplayBlock(b) PROVE OnePlace'
    BY <1>23, <1>t DEF ReplayBlock
  <1>24. ASSUME RecoveryDone PROVE OnePlace'
    BY <1>24, <1>t DEF RecoveryDone
  <1>25. ASSUME UNCHANGED vars PROVE OnePlace'
    BY <1>25
  <1>26. QED
    BY <1>1, <1>2, <1>3, <1>4, <1>5, <1>6, <1>7, <1>8, <1>9, <1>10, <1>11,
       <1>12, <1>13, <1>14, <1>15, <1>16, <1>17, <1>18, <1>19, <1>20, <1>21,
       <1>22, <1>23, <1>24, <1>25
       DEF Next, GetClient, PutStep, RemoveStep, Recovery, FlusherStep

(***************************************************************************)
(* The pending ring is exact.                                              *)
(***************************************************************************)
\* The puts of a block are finitely many, so that they can be counted.
LEMMA RegisteredFinite == \A b \in Blocks : IsFiniteSet(Registered(b))
  <1>1. IsFiniteSet(Blocks) /\ IsFiniteSet(1 .. MaxPuts)
    BY FS_Interval, BoundsAssumption DEF Blocks
  <1>2. IsFiniteSet(Records)
    BY <1>1, FS_Product DEF Records
  <1>3. \A b \in Blocks : Registered(b) \subseteq Records
    BY DEF Registered
  <1>4. QED
    BY <1>2, <1>3, FS_Subset

\* Registering, pushing, draining and retiring keep the slot's tag and count
\* equal to the block and number of its outstanding puts.
LEMMA PendingNext ==
  TypeOK /\ Ownership /\ OnePlace /\ PendingExact /\ [Next]_vars => PendingExact'
  <1> SUFFICES ASSUME TypeOK, Ownership, OnePlace, PendingExact, [Next]_vars
               PROVE  PendingExact'
    OBVIOUS
  <1> USE DEF vars, pmVars, clientVars, slotVars, flushVars, runVars, ghostVars, ckVars,
          At, Goto, CkGoto, OperationDone
  <1>t. /\ pc \in [Clients -> ClientPCs]
        /\ rec \in [Clients -> Records \cup {<<>>}]
        /\ commit_buf \in [Flushers -> SUBSET Entries]
        /\ batch \in [Flushers -> SUBSET Entries]
        /\ fpc \in [Flushers -> {"idle", "apply", "retire"}]
        /\ pending \in [RingSlots -> [block : Nat, count : Nat]]
    BY DEF TypeOK, TypeClients, TypeFlush
  <1>q. ASSUME pending' = pending, \A b \in Blocks : Registered(b)' = Registered(b)
        PROVE  PendingExact'
    BY <1>q DEF PendingExact
  <1>1. ASSUME NEW c \in Clients, ClaimFirstBlock(c) PROVE PendingExact'
    <2>1. \A b \in Blocks : Registered(b)' = Registered(b)
      BY <1>1, <1>t DEF ClaimFirstBlock, Registered, GetNewBlock
    <2>2. QED
      BY <1>q, <2>1, <1>1 DEF ClaimFirstBlock
  <1>2. ASSUME NEW c \in Clients, PersistFirstBlock(c) PROVE PendingExact'
    <2>1. \A b \in Blocks : Registered(b)' = Registered(b)
      BY <1>2, <1>t DEF PersistFirstBlock, Registered
    <2>2. QED
      BY <1>q, <2>1, <1>2 DEF PersistFirstBlock
  <1>3. ASSUME NEW c \in Clients, NEW i \in Slots, ReserveSlot(c, i) PROVE PendingExact'
    <2>1. \A b \in Blocks : Registered(b)' = Registered(b)
      BY <1>3, <1>t DEF ReserveSlot, Registered
    <2>2. QED
      BY <1>q, <2>1, <1>3 DEF ReserveSlot
  <1>4. ASSUME NEW c \in Clients, ResetLastBlock(c) PROVE PendingExact'
    <2>1. \A b \in Blocks : Registered(b)' = Registered(b)
      BY <1>4, <1>t DEF ResetLastBlock, Registered
    <2>2. QED
      BY <1>q, <2>1, <1>4 DEF ResetLastBlock
  <1>5. ASSUME NEW c \in Clients, ResetInflightBlock(c) PROVE PendingExact'
    <2>1. \A b \in Blocks : Registered(b)' = Registered(b)
      BY <1>5, <1>t DEF ResetInflightBlock, Registered
    <2>2. QED
      BY <1>q, <2>1, <1>5 DEF ResetInflightBlock
  <1>6. ASSUME NEW c \in Clients, ReleaseSlot(c) PROVE PendingExact'
    <2>1. \A b \in Blocks : Registered(b)' = Registered(b)
      BY <1>6, <1>t DEF ReleaseSlot, Registered
    <2>2. QED
      BY <1>q, <2>1, <1>6 DEF ReleaseSlot
  <1>7. ASSUME NEW c \in Clients, NoteInflightBlock(c) PROVE PendingExact'
    <2>1. \A b \in Blocks : Registered(b)' = Registered(b)
      BY <1>7, <1>t DEF NoteInflightBlock, Registered
    <2>2. QED
      BY <1>q, <2>1, <1>7 DEF NoteInflightBlock
  <1>8. ASSUME NEW c \in Clients, ClaimNextBlock(c) PROVE PendingExact'
    <2>1. \A b \in Blocks : Registered(b)' = Registered(b)
      BY <1>8, <1>t DEF ClaimNextBlock, Registered, GetNewBlock
    <2>2. QED
      BY <1>q, <2>1, <1>8 DEF ClaimNextBlock
  <1>9. ASSUME NEW c \in Clients, PersistNextBlock(c) PROVE PendingExact'
    <2>1. \A b \in Blocks : Registered(b)' = Registered(b)
      BY <1>9, <1>t DEF PersistNextBlock, Registered
    <2>2. QED
      BY <1>q, <2>1, <1>9 DEF PersistNextBlock
  <1>10. ASSUME NEW c \in Clients, WriteRecord(c) PROVE PendingExact'
    <2>1. \A b \in Blocks : Registered(b)' = Registered(b)
      BY <1>10, <1>t DEF WriteRecord, Registered
    <2>2. QED
      BY <1>q, <2>1, <1>10 DEF WriteRecord
  <1>11. ASSUME NEW c \in Clients, NEW r \in Records, FreeOldRecord(c, r) PROVE PendingExact'
    <2>1. \A b \in Blocks : Registered(b)' = Registered(b)
      BY <1>11, <1>t DEF FreeOldRecord, Registered
    <2>2. QED
      BY <1>q, <2>1, <1>11 DEF FreeOldRecord
  <1>12. ASSUME NEW c \in Clients, NoteClientBlock(c) PROVE PendingExact'
    <2>1. \A b \in Blocks : Registered(b)' = Registered(b)
      BY <1>12, <1>t DEF NoteClientBlock, Registered
    <2>2. QED
      BY <1>q, <2>1, <1>12 DEF NoteClientBlock
  <1>13. ASSUME NEW c \in Clients, PendingRegister(c) PROVE PendingExact'
    <2> DEFINE new == rec[c]
               b == new[1]
               i == RingSlot(b)
    <2>1. new \in Records /\ b \in Blocks /\ i \in RingSlots
      BY <1>13, RecordKnown DEF PendingRegister, TypeOK
    <2>2. /\ pc[c] = "noted" /\ pc' = [pc EXCEPT ![c] = "registered"]
          /\ UNCHANGED <<rec, commit_buf, batch>>
      BY <1>13 DEF PendingRegister
    <2>3. new \notin Registered(b)
      <3>1. Putting(c, new)
        BY <2>2 DEF Putting
      <3>2. \A f \in Flushers : ~InLane(f, new) /\ ~InBatch(f, new)
        BY <3>1, <2>1 DEF OnePlace, PutPlace
      <3>3. ASSUME NEW d \in Clients, pc[d] = "registered", rec[d] = new PROVE FALSE
        <4>1. Putting(d, new)
          BY <3>3 DEF Putting
        <4>2. block[d] = b /\ block[c] = b
          BY <4>1, <3>1, <2>1 DEF OnePlace, PutPlace
        <4>3. owner[block[d]] = d /\ owner[block[c]] = c
          BY <2>2, <3>3 DEF Ownership, HasBlock, ClientPCs
        <4>4. QED
          BY <4>2, <4>3, <3>3, <2>2
      <3>4. QED
        BY <3>2, <3>3 DEF Registered, InLane, InBatch
    <2>4. \A k \in Blocks : Registered(k)' = IF k = b THEN Registered(k) \cup {new} ELSE Registered(k)
      BY <2>1, <2>2, <1>t DEF Registered
    <2>5. ASSUME NEW k \in Blocks, k = b
          PROVE  /\ Cardinality(Registered(k)') = Cardinality(Registered(k)) + 1
                 /\ Cardinality(Registered(k)) \in Nat
      BY <2>5, <2>1, <2>3, <2>4, RegisteredFinite, FS_AddElement, FS_CardinalityType
    <2>6. /\ pending' = [pending EXCEPT ![i] = Tagged(b, pending[i].count + 1)]
          /\ pending[i].count = 0 \/ pending[i].block = b
          /\ pending[i].count \in Nat
      BY <1>13, <1>t, <2>1 DEF PendingRegister, Tagged
    <2>7. /\ pending'[i].block = b /\ pending'[i].count = pending[i].count + 1
          /\ \A j \in RingSlots : j # i => pending'[j] = pending[j]
      BY <2>6, <2>1, <1>t DEF Tagged
    <2> HIDE DEF new, b, i
    <2>8. \A k \in Blocks : RingSlot(k) = i /\ k # b => Cardinality(Registered(k)) = 0
      BY <2>6 DEF PendingExact
    <2>9. Cardinality(Registered(b)) = pending[i].count
      BY <2>1, <2>6 DEF PendingExact, i
    <2>10. ASSUME NEW k \in Blocks
           PROVE  Cardinality(Registered(k))' =
                    IF pending'[RingSlot(k)].block = k THEN pending'[RingSlot(k)].count ELSE 0
      <3>1. CASE k = b
        BY <3>1, <2>5, <2>7, <2>9 DEF i
      <3>2. CASE k # b /\ RingSlot(k) = i
        BY <3>2, <2>4, <2>7, <2>8
      <3>3. CASE RingSlot(k) # i
        BY <3>3, <2>4, <2>7, RingSlotType DEF PendingExact, i
      <3>4. QED
        BY <3>1, <3>2, <3>3
    <2>11. QED
      BY <2>10 DEF PendingExact, RingSlot
  <1>14. ASSUME NEW c \in Clients, NEW f \in Flushers, PushPut(c, f) PROVE PendingExact'
    <2>1. rec[c] \in Records
      BY <1>14, RecordKnown DEF PushPut, TypeOK
    <2>2. \A b \in Blocks : Registered(b)' = Registered(b)
      <3>1. /\ pc[c] = "registered"
            /\ pc' = [pc EXCEPT ![c] = "idle"] /\ rec' = [rec EXCEPT ![c] = <<>>]
            /\ batch' = batch
            /\ commit_buf' = [commit_buf EXCEPT ![f] = commit_buf[f] \cup
                                {[op |-> "kPut", off |-> rec[c]]}]
        BY <1>14 DEF PushPut
      <3>2. ASSUME NEW r \in Records
            PROVE  (\E g \in Flushers : [op |-> "kPut", off |-> r] \in commit_buf'[g] \cup batch'[g])
                   <=> \/ \E g \in Flushers : [op |-> "kPut", off |-> r] \in commit_buf[g] \cup batch[g]
                       \/ r = rec[c]
        BY <3>1, <1>t, EntryFacts
      <3>3. ASSUME NEW r \in Records
            PROVE  (\E d \in Clients : pc'[d] = "registered" /\ rec'[d] = r)
                   <=> \E d \in Clients \ {c} : pc[d] = "registered" /\ rec[d] = r
        BY <3>1, <1>t
      <3>4. QED
        BY <3>1, <3>2, <3>3, <2>1 DEF Registered
    <2>3. QED
      BY <1>q, <2>2, <1>14 DEF PushPut
  <1>15. ASSUME NEW c \in Clients, NEW r \in Records, RemoveRecord(c, r) PROVE PendingExact'
    <2>1. \A b \in Blocks : Registered(b)' = Registered(b)
      BY <1>15, <1>t DEF RemoveRecord, Registered
    <2>2. QED
      BY <1>q, <2>1, <1>15 DEF RemoveRecord
  <1>16. ASSUME NEW c \in Clients, NEW f \in Flushers, PushRemove(c, f) PROVE PendingExact'
    <2>1. \A b \in Blocks : Registered(b)' = Registered(b)
      <3>1. \A g \in Flushers, r \in Records : [op |-> "kPut", off |-> r] \in commit_buf'[g]
                <=> [op |-> "kPut", off |-> r] \in commit_buf[g]
        BY <1>16, <1>t, EntryFacts DEF PushRemove
      <3>2. \A d \in Clients : pc'[d] = "registered" <=> pc[d] = "registered"
        BY <1>16, <1>t DEF PushRemove
      <3>3. \A d \in Clients : pc[d] = "registered" => rec'[d] = rec[d]
        BY <1>16, <1>t DEF PushRemove
      <3>4. QED
        BY <3>1, <3>2, <3>3, <1>16 DEF Registered, PushRemove
    <2>2. QED
      BY <1>q, <2>1, <1>16 DEF PushRemove
  <1>17. ASSUME NEW f \in Flushers, NEW D \in SUBSET commit_buf[f], DrainLane(f, D) PROVE PendingExact'
    <2>1. \A b \in Blocks : Registered(b)' = Registered(b)
      BY <1>17, <1>t DEF DrainLane, Registered, OnePlace, FlushPlace
    <2>2. QED
      BY <1>q, <2>1, <1>17 DEF DrainLane
  <1>18. ASSUME NEW f \in Flushers, ApplyBatch(f) PROVE PendingExact'
    <2>1. \A b \in Blocks : Registered(b)' = Registered(b)
      BY <1>18, <1>t DEF ApplyBatch, Registered
    <2>2. QED
      BY <1>q, <2>1, <1>18 DEF ApplyBatch
  <1>19. ASSUME NEW f \in Flushers, NEW e \in batch[f], RetireEntry(f, e) PROVE PendingExact'
    <2> DEFINE gone == e.off
               b == gone[1]
               i == RingSlot(b)
    <2>1. gone \in Records /\ b \in Blocks /\ i \in RingSlots /\ e \in Entries
      BY <1>19, <1>t, EntryFacts, RecordFacts, RingSlotType
    <2>2. batch' = [batch EXCEPT ![f] = batch[f] \ {e}] /\ UNCHANGED <<pc, rec, commit_buf>>
      BY <1>19 DEF RetireEntry
    <2>3. CASE e.op # "kPut"
      <3>1. \A r \in Records : [op |-> "kPut", off |-> r] # e
        BY <2>3
      <3>2. \A k \in Blocks : Registered(k)' = Registered(k)
        BY <3>1, <2>2, <1>t DEF Registered
      <3>3. QED
        BY <1>q, <3>2, <2>3, <1>19 DEF RetireEntry
    <2>4. CASE e.op = "kPut"
      <3>1. e = [op |-> "kPut", off |-> gone] /\ InBatch(f, gone)
        BY <2>1, <2>4, EntryFacts, <1>19 DEF InBatch
      <3>2. /\ \A d \in Clients : ~Putting(d, gone)
            /\ \A g \in Flushers : ~InLane(g, gone) /\ (g # f => ~InBatch(g, gone))
        BY <3>1, <2>1 DEF OnePlace, PutPlace, FlushPlace
      <3>3. \A r \in Records : [op |-> "kPut", off |-> r] = e <=> r = gone
        BY <3>1, EntryFacts
      <3>4. \A k \in Blocks : Registered(k)' = IF k = b THEN Registered(k) \ {gone} ELSE Registered(k)
        <4>1. \A g \in Flushers, r \in Records :
                [op |-> "kPut", off |-> r] \in commit_buf'[g] \cup batch'[g]
                <=> r # gone /\ [op |-> "kPut", off |-> r] \in commit_buf[g] \cup batch[g]
          BY <3>2, <3>3, <2>2, <1>t DEF InLane, InBatch
        <4>2. \A d \in Clients : pc[d] = "registered" => rec[d] # gone
          BY <3>2 DEF Putting
        <4>3. ASSUME NEW k \in Blocks, NEW r \in Records
              PROVE  r \in Registered(k)' <=> r \in Registered(k) /\ r # gone
          BY <4>1, <4>2, <2>2 DEF Registered
        <4>4. \A k \in Blocks : Registered(k) \subseteq Records /\ Registered(k)' \subseteq Records
          BY DEF Registered
        <4>5. \A k \in Blocks : k # b => gone \notin Registered(k)
          BY DEF Registered
        <4>6. QED
          BY <4>3, <4>4, <4>5
      <3>5. gone \in Registered(b)
        BY <3>1, <2>1 DEF Registered, InBatch
      <3>6. ASSUME NEW k \in Blocks, k = b
            PROVE  /\ Cardinality(Registered(k)') = Cardinality(Registered(k)) - 1
                   /\ Cardinality(Registered(k)) \in Nat
        BY <3>6, <2>1, <3>4, <3>5, RegisteredFinite, FS_RemoveElement, FS_CardinalityType
      <3>7. /\ pending' = [pending EXCEPT ![i] = Tagged(b, pending[i].count - 1)]
            /\ pending[i].block = b
        BY <1>19, <2>4 DEF RetireEntry, PendingRetire, RetireMatches
      <3>8. /\ pending'[i].block = b /\ pending'[i].count = pending[i].count - 1
            /\ \A j \in RingSlots : j # i => pending'[j] = pending[j]
        BY <3>7, <2>1, <1>t DEF Tagged
      <3> HIDE DEF gone, b, i
      <3>9. \A k \in Blocks : RingSlot(k) = i /\ k # b => Cardinality(Registered(k)) = 0
        BY <3>7 DEF PendingExact
      <3>10. Cardinality(Registered(b)) = pending[i].count
        BY <2>1, <3>7 DEF PendingExact, i
      <3>11. ASSUME NEW k \in Blocks
             PROVE  Cardinality(Registered(k))' =
                      IF pending'[RingSlot(k)].block = k THEN pending'[RingSlot(k)].count ELSE 0
        <4>1. CASE k = b
          BY <4>1, <3>6, <3>8, <3>10 DEF i
        <4>2. CASE k # b /\ RingSlot(k) = i
          BY <4>2, <3>4, <3>8, <3>9
        <4>3. CASE RingSlot(k) # i
          BY <4>3, <3>4, <3>8, RingSlotType DEF PendingExact, i
        <4>4. QED
          BY <4>1, <4>2, <4>3
      <3>12. QED
        BY <3>11 DEF PendingExact, RingSlot
    <2>5. QED
      BY <2>3, <2>4
  <1>20. ASSUME CkRead PROVE PendingExact'
    <2>1. \A b \in Blocks : Registered(b)' = Registered(b)
      BY <1>20, <1>t DEF CkRead, Registered
    <2>2. QED
      BY <1>q, <2>1, <1>20 DEF CkRead
  <1>21. ASSUME CkWrite PROVE PendingExact'
    <2>1. \A b \in Blocks : Registered(b)' = Registered(b)
      BY <1>21, <1>t DEF CkWrite, Registered
    <2>2. QED
      BY <1>q, <2>1, <1>21 DEF CkWrite
  <1>22. ASSUME Crash PROVE PendingExact'
    <2>1. \A b \in Blocks : Registered(b)' = {}
      BY <1>22 DEF Crash, Registered, NoEntries
    <2>2. \A b \in Blocks : pending'[RingSlot(b)].count = 0
      BY <1>22, RingSlotType DEF Crash, EmptyRing
    <2>3. QED
      BY <2>1, <2>2, FS_EmptySet DEF PendingExact, RingSlot
  <1>23. ASSUME NEW b \in Blocks, ReplayBlock(b) PROVE PendingExact'
    <2>1. \A x \in Blocks : Registered(x)' = Registered(x)
      BY <1>23, <1>t DEF ReplayBlock, Registered
    <2>2. QED
      BY <1>q, <2>1, <1>23 DEF ReplayBlock
  <1>24. ASSUME RecoveryDone PROVE PendingExact'
    <2>1. \A b \in Blocks : Registered(b)' = Registered(b)
      BY <1>24, <1>t DEF RecoveryDone, Registered
    <2>2. QED
      BY <1>q, <2>1, <1>24 DEF RecoveryDone
  <1>25. ASSUME UNCHANGED vars PROVE PendingExact'
    <2>1. \A b \in Blocks : Registered(b)' = Registered(b)
      BY <1>25 DEF Registered
    <2>2. QED
      BY <1>q, <2>1, <1>25
  <1>26. QED
    BY <1>1, <1>2, <1>3, <1>4, <1>5, <1>6, <1>7, <1>8, <1>9, <1>10, <1>11,
       <1>12, <1>13, <1>14, <1>15, <1>16, <1>17, <1>18, <1>19, <1>20, <1>21,
       <1>22, <1>23, <1>24, <1>25
       DEF Next, GetClient, PutStep, RemoveStep, Recovery, FlusherStep

\* A registered put makes its slot non-empty and tagged with its block.
LEMMA RegisteredCounts ==
  ASSUME TypeOK, PendingExact, NEW r \in Records, r \in Registered(r[1])
  PROVE  pending[RingSlot(r[1])].block = r[1] /\ pending[RingSlot(r[1])].count > 0
  <1> DEFINE b == r[1]
  <1>1. b \in Blocks /\ RingSlot(b) \in RingSlots
    BY RecordFacts, RingSlotType
  <1>2. IsFiniteSet(Registered(b)) /\ Registered(b) # {}
    BY <1>1, RegisteredFinite
  <1>3. Cardinality(Registered(b)) # 0 /\ Cardinality(Registered(b)) \in Nat
    BY <1>2, FS_EmptySet, FS_CardinalityType
  <1>4. pending[RingSlot(b)].count \in Nat
    BY <1>1 DEF TypeOK, TypeFlush
  <1>5. QED
    BY <1>1, <1>3, <1>4 DEF PendingExact

\* An exact ring never sends pending_retire to its abort.
LEMMA RetireFromPending ==
  TypeOK /\ PendingExact => RetireNeverFatal
  <1> SUFFICES ASSUME TypeOK, PendingExact, NEW f \in Flushers, NEW e \in batch[f],
                      e.op = "kPut"
               PROVE  RetireMatches(e)
    BY DEF RetireNeverFatal
  <1>1. e \in Entries
    BY DEF TypeOK, TypeFlush
  <1>2. e.off \in Records /\ e = [op |-> "kPut", off |-> e.off]
    BY <1>1, EntryFacts
  <1>3. e.off \in Registered(e.off[1])
    BY <1>2 DEF Registered
  <1>4. QED
    BY <1>2, <1>3, RegisteredCounts DEF RetireMatches

(***************************************************************************)
(* Client slots and their bounds.                                          *)
(***************************************************************************)
\* A client slot has one holder, and the inflight_block it published stays a lower
\* bound of its block, also when it moves on to a new block.
LEMMA SlotBoundsNext ==
  TypeOK /\ Ownership /\ SlotBounds /\ [Next]_vars => SlotBounds'
  <1> SUFFICES ASSUME TypeOK, Ownership, SlotBounds, [Next]_vars PROVE SlotBounds'
    OBVIOUS
  <1> USE BoundsAssumption
      DEF vars, pmVars, clientVars, slotVars, flushVars, runVars, ghostVars, ckVars,
          At, Goto, CkGoto, OperationDone, SlotBounds, HasBlock, HasSlot, HasRecord, ClientPCs
  <1>t. /\ pc \in [Clients -> ClientPCs] /\ slot \in [Clients -> Slots]
        /\ block \in [Clients -> Blocks \cup {kNoActiveBlock}]
        /\ active \in [Slots -> BOOLEAN]
        /\ inflight_block \in [Slots -> Blocks \cup {kNoActiveBlock}]
        /\ published \subseteq Clients
    BY DEF TypeOK, TypeClients, TypeSlots, TypeRun
  <1>b. /\ \A c \in Clients : pc[c] \in HasBlock => block[c] \in Int /\ block[c] < current_block
        /\ current_block \in Int
        /\ \A i \in Slots : inflight_block[i] \in Int
    BY DEF TypeOK, TypePM, TypeClients, TypeSlots, Ownership, Blocks, kNoActiveBlock
  <1>1. ASSUME NEW c \in Clients, ClaimFirstBlock(c) PROVE SlotBounds'
    BY <1>1, <1>t DEF ClaimFirstBlock, GetNewBlock
  <1>2. ASSUME NEW c \in Clients, PersistFirstBlock(c) PROVE SlotBounds'
    BY <1>2, <1>t DEF PersistFirstBlock
  <1>3. ASSUME NEW c \in Clients, NEW i \in Slots, ReserveSlot(c, i) PROVE SlotBounds'
    BY <1>3, <1>t DEF ReserveSlot
  <1>4. ASSUME NEW c \in Clients, ResetLastBlock(c) PROVE SlotBounds'
    BY <1>4, <1>t DEF ResetLastBlock
  <1>5. ASSUME NEW c \in Clients, ResetInflightBlock(c) PROVE SlotBounds'
    BY <1>5, <1>t DEF ResetInflightBlock
  <1>6. ASSUME NEW c \in Clients, ReleaseSlot(c) PROVE SlotBounds'
    BY <1>6, <1>t DEF ReleaseSlot
  <1>7. ASSUME NEW c \in Clients, NoteInflightBlock(c) PROVE SlotBounds'
    BY <1>7, <1>t, <1>b DEF NoteInflightBlock
  <1>8. ASSUME NEW c \in Clients, ClaimNextBlock(c) PROVE SlotBounds'
    BY <1>8, <1>t, <1>b DEF ClaimNextBlock, GetNewBlock
  <1>9. ASSUME NEW c \in Clients, PersistNextBlock(c) PROVE SlotBounds'
    BY <1>9, <1>t DEF PersistNextBlock
  <1>10. ASSUME NEW c \in Clients, WriteRecord(c) PROVE SlotBounds'
    BY <1>10, <1>t DEF WriteRecord
  <1>11. ASSUME NEW c \in Clients, NEW r \in Records, FreeOldRecord(c, r) PROVE SlotBounds'
    BY <1>11, <1>t DEF FreeOldRecord
  <1>12. ASSUME NEW c \in Clients, NoteClientBlock(c) PROVE SlotBounds'
    BY <1>12, <1>t DEF NoteClientBlock
  <1>13. ASSUME NEW c \in Clients, PendingRegister(c) PROVE SlotBounds'
    BY <1>13, <1>t DEF PendingRegister
  <1>14. ASSUME NEW c \in Clients, NEW f \in Flushers, PushPut(c, f) PROVE SlotBounds'
    BY <1>14, <1>t DEF PushPut
  <1>15. ASSUME NEW c \in Clients, NEW r \in Records, RemoveRecord(c, r) PROVE SlotBounds'
    BY <1>15, <1>t DEF RemoveRecord
  <1>16. ASSUME NEW c \in Clients, NEW f \in Flushers, PushRemove(c, f) PROVE SlotBounds'
    BY <1>16, <1>t DEF PushRemove
  <1>17. ASSUME NEW f \in Flushers, FlusherStep(f) PROVE SlotBounds'
    BY <1>17, FlusherFrame
  <1>18. ASSUME CkRead PROVE SlotBounds'
    BY <1>18 DEF CkRead
  <1>19. ASSUME CkWrite PROVE SlotBounds'
    BY <1>19, <1>t DEF CkWrite
  <1>20. ASSUME Crash PROVE SlotBounds'
    BY <1>20, <1>t DEF Crash
  <1>21. ASSUME NEW b \in Blocks, ReplayBlock(b) PROVE SlotBounds'
    BY <1>21, <1>t DEF ReplayBlock
  <1>22. ASSUME RecoveryDone PROVE SlotBounds'
    BY <1>22, <1>t DEF RecoveryDone
  <1>23. ASSUME UNCHANGED vars PROVE SlotBounds'
    BY <1>23
  <1>24. QED
    BY <1>1, <1>2, <1>3, <1>4, <1>5, <1>6, <1>7, <1>8, <1>9, <1>10, <1>11,
       <1>12, <1>13, <1>14, <1>15, <1>16, <1>17, <1>18, <1>19, <1>20, <1>21,
       <1>22, <1>23
       DEF Next, GetClient, PutStep, RemoveStep, Recovery

(***************************************************************************)
(* What a remove entry names is not live.                                  *)
(***************************************************************************)
\* The record of a kRemove entry was freed before the entry was pushed and is not
\* written again.
LEMMA RemovedNext ==
  TypeOK /\ OnePlace /\ RemovedNotLive /\ [Next]_vars => RemovedNotLive'
  <1> SUFFICES ASSUME TypeOK, OnePlace, RemovedNotLive, [Next]_vars PROVE RemovedNotLive'
    OBVIOUS
  <1> USE DEF vars, pmVars, clientVars, slotVars, flushVars, runVars, ghostVars, ckVars,
          At, Goto, CkGoto, OperationDone, RemovedNotLive
  <1>t. /\ live \subseteq Records /\ pc \in [Clients -> ClientPCs]
        /\ rec \in [Clients -> Records \cup {<<>>}]
        /\ puts \in [Blocks -> 0 .. MaxPuts]
        /\ commit_buf \in [Flushers -> SUBSET Entries]
        /\ batch \in [Flushers -> SUBSET Entries]
    BY DEF TypeOK, TypePM, TypeClients, TypeFlush, TypeRun
  <1>w. \A r \in live : Written(r)
    BY DEF OnePlace, AllWritten
  <1>1. ASSUME NEW c \in Clients, ClaimFirstBlock(c) PROVE RemovedNotLive'
    BY <1>1, <1>t DEF ClaimFirstBlock, Written, GetNewBlock
  <1>2. ASSUME NEW c \in Clients, PersistFirstBlock(c) PROVE RemovedNotLive'
    BY <1>2, <1>t DEF PersistFirstBlock, Written
  <1>3. ASSUME NEW c \in Clients, NEW i \in Slots, ReserveSlot(c, i) PROVE RemovedNotLive'
    BY <1>3, <1>t DEF ReserveSlot, Written
  <1>4. ASSUME NEW c \in Clients, ResetLastBlock(c) PROVE RemovedNotLive'
    BY <1>4, <1>t DEF ResetLastBlock, Written
  <1>5. ASSUME NEW c \in Clients, ResetInflightBlock(c) PROVE RemovedNotLive'
    BY <1>5, <1>t DEF ResetInflightBlock, Written
  <1>6. ASSUME NEW c \in Clients, ReleaseSlot(c) PROVE RemovedNotLive'
    BY <1>6, <1>t DEF ReleaseSlot, Written
  <1>7. ASSUME NEW c \in Clients, NoteInflightBlock(c) PROVE RemovedNotLive'
    BY <1>7, <1>t DEF NoteInflightBlock, Written
  <1>8. ASSUME NEW c \in Clients, ClaimNextBlock(c) PROVE RemovedNotLive'
    BY <1>8, <1>t DEF ClaimNextBlock, Written, GetNewBlock
  <1>9. ASSUME NEW c \in Clients, PersistNextBlock(c) PROVE RemovedNotLive'
    BY <1>9, <1>t DEF PersistNextBlock, Written
  <1>10. ASSUME NEW c \in Clients, WriteRecord(c) PROVE RemovedNotLive'
    <2> DEFINE b == block[c]
               new == <<b, puts[b] + 1>>
    <2>1. b \in Blocks /\ new[1] = b /\ new[2] = puts[b] + 1 /\ puts[b] \in Int
      BY <1>10, <1>t, BlockKnown DEF WriteRecord, TypeOK
    <2>2. /\ puts' = [puts EXCEPT ![b] = puts[b] + 1]
          /\ rec' = [rec EXCEPT ![c] = new] /\ live' = live \cup {new}
          /\ pc' = [pc EXCEPT ![c] = "written"]
          /\ commit_buf' = commit_buf /\ batch' = batch
      BY <1>10 DEF WriteRecord
    <2> HIDE DEF new, b
    <2>3. ~Written(new)
      BY <2>1, <1>t DEF Written
    <2>4. \A r \in Records : Written(r) => r[2] <= puts'[r[1]]
      BY <2>1, <2>2, <1>t, RecordFacts DEF Written
    <2>5. ASSUME NEW d \in Clients, pc'[d] = "removed"
          PROVE  rec'[d] \notin live' /\ rec'[d][2] <= puts'[rec'[d][1]]
      <3>1. d # c /\ pc[d] = "removed" /\ rec'[d] = rec[d]
        BY <2>5, <2>2, <1>t
      <3>2. rec[d] \in Records /\ Written(rec[d]) /\ rec[d] \notin live
        BY <3>1 DEF TypeOK, TypeClients, HasRecord
      <3>3. QED
        BY <3>1, <3>2, <2>2, <2>3, <2>4
    <2>6. ASSUME NEW f \in Flushers, NEW r \in Records,
                 [op |-> "kRemove", off |-> r] \in commit_buf'[f] \cup batch'[f]
          PROVE  r \notin live' /\ r[2] <= puts'[r[1]]
      BY <2>2, <2>3, <2>4, <2>6
    <2>7. QED
      BY <2>5, <2>6 DEF Written
  <1>11. ASSUME NEW c \in Clients, NEW r \in Records, FreeOldRecord(c, r) PROVE RemovedNotLive'
    BY <1>11, <1>t DEF FreeOldRecord, Written
  <1>12. ASSUME NEW c \in Clients, NoteClientBlock(c) PROVE RemovedNotLive'
    BY <1>12, <1>t DEF NoteClientBlock, Written
  <1>13. ASSUME NEW c \in Clients, PendingRegister(c) PROVE RemovedNotLive'
    BY <1>13, <1>t DEF PendingRegister, Written
  <1>14. ASSUME NEW c \in Clients, NEW f \in Flushers, PushPut(c, f) PROVE RemovedNotLive'
    <2>1. \A g \in Flushers, r \in Records : [op |-> "kRemove", off |-> r] \in commit_buf'[g]
             <=> [op |-> "kRemove", off |-> r] \in commit_buf[g]
      BY <1>14, <1>t, EntryFacts DEF PushPut
    <2>2. QED
      BY <1>14, <2>1, <1>t DEF PushPut, Written
  <1>15. ASSUME NEW c \in Clients, NEW r \in Records, RemoveRecord(c, r) PROVE RemovedNotLive'
    <2>1. Written(r) /\ live' = live \ {r} /\ puts' = puts
      BY <1>15, <1>w DEF RemoveRecord
    <2>2. QED
      BY <1>15, <2>1, <1>t DEF RemoveRecord, Written
  <1>16. ASSUME NEW c \in Clients, NEW f \in Flushers, PushRemove(c, f) PROVE RemovedNotLive'
    <2>1. rec[c] \notin live /\ Written(rec[c]) /\ live' = live /\ puts' = puts
      BY <1>16 DEF PushRemove
    <2>2. \A g \in Flushers, r \in Records : [op |-> "kRemove", off |-> r] \in commit_buf'[g]
             => [op |-> "kRemove", off |-> r] \in commit_buf[g] \/ r = rec[c]
      BY <1>16, <1>t, EntryFacts DEF PushRemove
    <2>3. QED
      BY <1>16, <2>1, <2>2, <1>t DEF PushRemove, Written
  <1>17. ASSUME NEW f \in Flushers, NEW D \in SUBSET commit_buf[f], DrainLane(f, D) PROVE RemovedNotLive'
    BY <1>17, <1>t DEF DrainLane, Written
  <1>18. ASSUME NEW f \in Flushers, ApplyBatch(f) PROVE RemovedNotLive'
    BY <1>18, <1>t DEF ApplyBatch, Written
  <1>19. ASSUME NEW f \in Flushers, NEW e \in batch[f], RetireEntry(f, e) PROVE RemovedNotLive'
    BY <1>19, <1>t DEF RetireEntry, Written
  <1>20. ASSUME CkRead PROVE RemovedNotLive'
    BY <1>20, <1>t DEF CkRead, Written
  <1>21. ASSUME CkWrite PROVE RemovedNotLive'
    BY <1>21, <1>t DEF CkWrite, Written
  <1>22. ASSUME Crash PROVE RemovedNotLive'
    BY <1>22 DEF Crash, NoEntries, Written
  <1>23. ASSUME NEW b \in Blocks, ReplayBlock(b) PROVE RemovedNotLive'
    BY <1>23, <1>t DEF ReplayBlock, Written
  <1>24. ASSUME RecoveryDone PROVE RemovedNotLive'
    BY <1>24, <1>t DEF RecoveryDone, Written
  <1>25. ASSUME UNCHANGED vars PROVE RemovedNotLive'
    BY <1>25 DEF Written
  <1>26. QED
    BY <1>1, <1>2, <1>3, <1>4, <1>5, <1>6, <1>7, <1>8, <1>9, <1>10, <1>11,
       <1>12, <1>13, <1>14, <1>15, <1>16, <1>17, <1>18, <1>19, <1>20, <1>21,
       <1>22, <1>23, <1>24, <1>25
       DEF Next, GetClient, PutStep, RemoveStep, Recovery, FlusherStep

(***************************************************************************)
(* A live record outside ColdTier is on its way there.                     *)
(***************************************************************************)
\* Until apply_batch has put a record into ColdTier, its put is in progress, in a
\* lane or in a batch.
LEMMA CoveredNext ==
  TypeOK /\ OnePlace /\ RemovedNotLive /\ Covered /\ [Next]_vars => Covered'
  <1> SUFFICES ASSUME TypeOK, OnePlace, RemovedNotLive, Covered, [Next]_vars PROVE Covered'
    OBVIOUS
  <1> USE DEF vars, pmVars, clientVars, slotVars, flushVars, runVars, ghostVars, ckVars,
          At, Goto, CkGoto, OperationDone, Covered
  <1>t. /\ live \subseteq Records /\ pc \in [Clients -> ClientPCs]
        /\ rec \in [Clients -> Records \cup {<<>>}]
        /\ commit_buf \in [Flushers -> SUBSET Entries]
        /\ batch \in [Flushers -> SUBSET Entries]
        /\ fpc \in [Flushers -> {"idle", "apply", "retire"}]
    BY DEF TypeOK, TypePM, TypeClients, TypeFlush
  <1>1. ASSUME NEW c \in Clients, ClaimFirstBlock(c) PROVE Covered'
    BY <1>1, <1>t DEF ClaimFirstBlock, Putting, InLane, InBatch, GetNewBlock
  <1>2. ASSUME NEW c \in Clients, PersistFirstBlock(c) PROVE Covered'
    BY <1>2, <1>t DEF PersistFirstBlock, Putting, InLane, InBatch
  <1>3. ASSUME NEW c \in Clients, NEW i \in Slots, ReserveSlot(c, i) PROVE Covered'
    BY <1>3, <1>t DEF ReserveSlot, Putting, InLane, InBatch
  <1>4. ASSUME NEW c \in Clients, ResetLastBlock(c) PROVE Covered'
    BY <1>4, <1>t DEF ResetLastBlock, Putting, InLane, InBatch
  <1>5. ASSUME NEW c \in Clients, ResetInflightBlock(c) PROVE Covered'
    BY <1>5, <1>t DEF ResetInflightBlock, Putting, InLane, InBatch
  <1>6. ASSUME NEW c \in Clients, ReleaseSlot(c) PROVE Covered'
    BY <1>6, <1>t DEF ReleaseSlot, Putting, InLane, InBatch
  <1>7. ASSUME NEW c \in Clients, NoteInflightBlock(c) PROVE Covered'
    BY <1>7, <1>t DEF NoteInflightBlock, Putting, InLane, InBatch
  <1>8. ASSUME NEW c \in Clients, ClaimNextBlock(c) PROVE Covered'
    BY <1>8, <1>t DEF ClaimNextBlock, Putting, InLane, InBatch, GetNewBlock
  <1>9. ASSUME NEW c \in Clients, PersistNextBlock(c) PROVE Covered'
    BY <1>9, <1>t DEF PersistNextBlock, Putting, InLane, InBatch
  <1>10. ASSUME NEW c \in Clients, WriteRecord(c) PROVE Covered'
    <2> DEFINE b == block[c]
               new == <<b, puts[b] + 1>>
    <2>1. ~Written(new)
      BY <1>10, BlockKnown DEF WriteRecord, TypeOK, TypeRun, Written
    <2>2. /\ rec' = [rec EXCEPT ![c] = new] /\ live' = live \cup {new}
          /\ pc' = [pc EXCEPT ![c] = "written"] /\ pc[c] = "put"
          /\ UNCHANGED <<commit_buf, batch, fpc, cold, lost, mode>>
      BY <1>10 DEF WriteRecord
    <2> HIDE DEF new, b
    <2>3. \A f \in Flushers : new \in Records => ~InBatch(f, new)
      BY <2>1 DEF OnePlace, AllWritten
    <2>4. QED
      BY <2>2, <2>3, <1>t DEF Putting, InLane, InBatch, TypeOK, TypePM
  <1>11. ASSUME NEW c \in Clients, NEW r \in Records, FreeOldRecord(c, r) PROVE Covered'
    BY <1>11, <1>t DEF FreeOldRecord, Putting, InLane, InBatch
  <1>12. ASSUME NEW c \in Clients, NoteClientBlock(c) PROVE Covered'
    BY <1>12, <1>t DEF NoteClientBlock, Putting, InLane, InBatch
  <1>13. ASSUME NEW c \in Clients, PendingRegister(c) PROVE Covered'
    BY <1>13, <1>t DEF PendingRegister, Putting, InLane, InBatch
  <1>14. ASSUME NEW c \in Clients, NEW f \in Flushers, PushPut(c, f) PROVE Covered'
    <2>1. /\ commit_buf' = [commit_buf EXCEPT ![f] = commit_buf[f] \cup
                               {[op |-> "kPut", off |-> rec[c]]}]
          /\ pc' = [pc EXCEPT ![c] = "idle"]
          /\ rec' = [rec EXCEPT ![c] = <<>>]
          /\ UNCHANGED <<live, cold, lost, mode, batch, fpc>>
      BY <1>14 DEF PushPut
    <2>2. \A r \in Records, d \in Clients :
             Putting(d, r) => Putting(d, r)' \/ (r = rec[c] /\ d = c)
      BY <2>1, <1>t DEF Putting
    <2>3. \A r \in Records, g \in Flushers : InLane(g, r) => InLane(g, r)'
      BY <2>1, <1>t DEF InLane
    <2>4. ASSUME NEW r \in Records, r = rec[c] PROVE InLane(f, r)'
      BY <2>1, <2>4, <1>t DEF InLane
    <2>5. QED
      BY <2>1, <2>2, <2>3, <2>4, <1>t DEF InBatch
  <1>15. ASSUME NEW c \in Clients, NEW r \in Records, RemoveRecord(c, r) PROVE Covered'
    BY <1>15, <1>t DEF RemoveRecord, Putting, InLane, InBatch
  <1>16. ASSUME NEW c \in Clients, NEW f \in Flushers, PushRemove(c, f) PROVE Covered'
    BY <1>16, <1>t DEF PushRemove, Putting, InLane, InBatch
  <1>17. ASSUME NEW f \in Flushers, NEW D \in SUBSET commit_buf[f], DrainLane(f, D) PROVE Covered'
    BY <1>17, <1>t DEF DrainLane, Putting, InLane, InBatch, OnePlace, FlushPlace
  <1>18. ASSUME NEW f \in Flushers, ApplyBatch(f) PROVE Covered'
    <2>1. \A r \in live : r \in cold \/ InBatch(f, r) => r \in cold'
      BY <1>18, <1>t DEF ApplyBatch, PutWinners, Removed, InBatch, RemovedNotLive
    <2>2. QED
      BY <2>1, <1>18, <1>t DEF ApplyBatch, Putting, InLane, InBatch
  <1>19. ASSUME NEW f \in Flushers, NEW e \in batch[f], RetireEntry(f, e) PROVE Covered'
    <2>1. /\ batch' = [batch EXCEPT ![f] = batch[f] \ {e}] /\ fpc[f] = "retire"
          /\ UNCHANGED <<pc, rec, commit_buf, live, cold, lost, mode>>
          /\ \A g \in Flushers : fpc'[g] = "retire" => fpc[g] = "retire"
      BY <1>19, <1>t DEF RetireEntry
    <2>2. \A g \in Flushers, r \in Records :
             /\ InBatch(g, r)' => InBatch(g, r)
             /\ InBatch(g, r) => InBatch(g, r)' \/ g = f
      BY <2>1, <1>t DEF InBatch
    <2>3. QED
      BY <2>1, <2>2, <1>t DEF Putting, InLane
  <1>20. ASSUME CkRead PROVE Covered'
    BY <1>20, <1>t DEF CkRead, Putting, InLane, InBatch
  <1>21. ASSUME CkWrite PROVE Covered'
    BY <1>21, <1>t DEF CkWrite, Putting, InLane, InBatch
  <1>22. ASSUME Crash PROVE Covered'
    BY <1>22, <1>t DEF Crash, NoEntries, InBatch
  <1>23. ASSUME NEW b \in Blocks, ReplayBlock(b) PROVE Covered'
    BY <1>23, <1>t DEF ReplayBlock, Putting, InLane, InBatch
  <1>24. ASSUME RecoveryDone PROVE Covered'
    BY <1>24, <1>t DEF RecoveryDone, Putting, InLane, InBatch
  <1>25. ASSUME UNCHANGED vars PROVE Covered'
    BY <1>25 DEF Putting, InLane, InBatch
  <1>26. QED
    BY <1>1, <1>2, <1>3, <1>4, <1>5, <1>6, <1>7, <1>8, <1>9, <1>10, <1>11,
       <1>12, <1>13, <1>14, <1>15, <1>16, <1>17, <1>18, <1>19, <1>20, <1>21,
       <1>22, <1>23, <1>24, <1>25
       DEF Next, GetClient, PutStep, RemoveStep, Recovery, FlusherStep

(***************************************************************************)
(* The snapshot of try_write_checkpoint: ScanMode, then the part while the *)
(* client slots are read, then the part while the ring is read.            *)
(***************************************************************************)
\* Once a client's slot has been read, the minimum bounds its block; a client
\* that claims its first block during the scan is blind to it.
LEMMA ScanSlotsNext ==
  TypeOK /\ Ownership /\ SlotBounds /\ ScanMode /\ ScanSlots /\ [Next]_vars
    => ScanMode' /\ ScanSlots'
  <1> SUFFICES ASSUME TypeOK, Ownership, SlotBounds, ScanMode, ScanSlots, [Next]_vars
               PROVE  ScanMode' /\ ScanSlots'
    OBVIOUS
  <1> USE NumSlotsAssumption, BoundsAssumption
      DEF vars, pmVars, clientVars, slotVars, flushVars, runVars, ghostVars, ckVars,
          At, Goto, CkGoto, OperationDone, ScanMode, ScanSlots, HasBlock, ClientPCs
  <1>t. /\ pc \in [Clients -> ClientPCs] /\ slot \in [Clients -> Slots]
        /\ block \in [Clients -> Blocks \cup {kNoActiveBlock}]
        /\ published \subseteq Clients /\ ck_blind \subseteq Clients
        /\ \A i \in Slots : i \in Int /\ i <= NumSlots - 1
        /\ ck_i \in Int
    BY DEF TypeOK, TypeClients, TypeRun, TypeCk, Slots
  <1>b. /\ \A c \in Clients : pc[c] \in HasBlock => block[c] \in Int /\ block[c] < current_block
        /\ current_block \in Int /\ ck_min \in Int
        /\ \A i \in Slots : inflight_block[i] \in Nat /\ last_block[i] \in Nat
    BY DEF TypeOK, TypePM, TypeClients, TypeSlots, TypeCk, Ownership, Blocks, kNoActiveBlock
  <1>s. \A c \in Clients : c \in published /\ pc[c] \in HasBlock =>
            /\ pc[c] \notin {"claimed", "attached", "reserved", "reset"}
            /\ active[slot[c]] /\ inflight_block[slot[c]] <= block[c]
    BY DEF SlotBounds, HasSlot
  <1>1. ASSUME NEW c \in Clients, ClaimFirstBlock(c) PROVE ScanMode' /\ ScanSlots'
    BY <1>1, <1>t DEF ClaimFirstBlock, MarkBlind, GetNewBlock, Passed, ScanPCs
  <1>2. ASSUME NEW c \in Clients, PersistFirstBlock(c) PROVE ScanMode' /\ ScanSlots'
    BY <1>2, <1>t, <1>s DEF PersistFirstBlock, Passed, ScanPCs
  <1>3. ASSUME NEW c \in Clients, NEW i \in Slots, ReserveSlot(c, i) PROVE ScanMode' /\ ScanSlots'
    BY <1>3, <1>t, <1>s DEF ReserveSlot, Passed, ScanPCs
  <1>4. ASSUME NEW c \in Clients, ResetLastBlock(c) PROVE ScanMode' /\ ScanSlots'
    BY <1>4, <1>t, <1>s DEF ResetLastBlock, Passed, ScanPCs
  <1>5. ASSUME NEW c \in Clients, ResetInflightBlock(c) PROVE ScanMode' /\ ScanSlots'
    BY <1>5, <1>t, <1>s DEF ResetInflightBlock, Passed, ScanPCs
  <1>6. ASSUME NEW c \in Clients, ReleaseSlot(c) PROVE ScanMode' /\ ScanSlots'
    BY <1>6, <1>t, <1>s DEF ReleaseSlot, Passed, ScanPCs
  <1>7. ASSUME NEW c \in Clients, NoteInflightBlock(c) PROVE ScanMode' /\ ScanSlots'
    BY <1>7, <1>t, <1>s DEF NoteInflightBlock, Passed, ScanPCs
  <1>8. ASSUME NEW c \in Clients, ClaimNextBlock(c) PROVE ScanMode' /\ ScanSlots'
    <2>1. /\ block' = [block EXCEPT ![c] = current_block] /\ pc[c] = "put"
          /\ UNCHANGED <<ckVars, slot, published, mode>>
          /\ pc' = [pc EXCEPT ![c] = "grow"]
      BY <1>8 DEF ClaimNextBlock, GetNewBlock
    <2>2. ASSUME NEW d \in Clients \ ck_blind, ck_pc \in ScanPCs, pc'[d] \in HasBlock
          PROVE  d \in published /\ (Passed(slot[d]) => ck_min <= block'[d])
      BY <2>1, <2>2, <1>t, <1>b
    <2>3. QED
      BY <2>1, <2>2 DEF Passed
  <1>9. ASSUME NEW c \in Clients, PersistNextBlock(c) PROVE ScanMode' /\ ScanSlots'
    BY <1>9, <1>t, <1>s DEF PersistNextBlock, Passed, ScanPCs
  <1>10. ASSUME NEW c \in Clients, WriteRecord(c) PROVE ScanMode' /\ ScanSlots'
    BY <1>10, <1>t, <1>s DEF WriteRecord, Passed, ScanPCs
  <1>11. ASSUME NEW c \in Clients, NEW r \in Records, FreeOldRecord(c, r) PROVE ScanMode' /\ ScanSlots'
    BY <1>11, <1>t, <1>s DEF FreeOldRecord, Passed, ScanPCs
  <1>12. ASSUME NEW c \in Clients, NoteClientBlock(c) PROVE ScanMode' /\ ScanSlots'
    BY <1>12, <1>t, <1>s DEF NoteClientBlock, Passed, ScanPCs
  <1>13. ASSUME NEW c \in Clients, PendingRegister(c) PROVE ScanMode' /\ ScanSlots'
    BY <1>13, <1>t, <1>s DEF PendingRegister, Passed, ScanPCs
  <1>14. ASSUME NEW c \in Clients, NEW f \in Flushers, PushPut(c, f) PROVE ScanMode' /\ ScanSlots'
    BY <1>14, <1>t, <1>s DEF PushPut, Passed, ScanPCs
  <1>15. ASSUME NEW c \in Clients, NEW r \in Records, RemoveRecord(c, r) PROVE ScanMode' /\ ScanSlots'
    BY <1>15, <1>t, <1>s DEF RemoveRecord, Passed, ScanPCs
  <1>16. ASSUME NEW c \in Clients, NEW f \in Flushers, PushRemove(c, f) PROVE ScanMode' /\ ScanSlots'
    BY <1>16, <1>t, <1>s DEF PushRemove, Passed, ScanPCs
  <1>17. ASSUME NEW f \in Flushers, FlusherStep(f) PROVE ScanMode' /\ ScanSlots'
    BY <1>17, FlusherFrame DEF Passed
  <1>18. ASSUME CkRead PROVE ScanMode' /\ ScanSlots'
    <2>0. UNCHANGED <<pmVars, current_block, clientVars, slotVars, pending, flushVars,
                      runVars, ghostVars>>
      BY <1>18 DEF CkRead
    <2>1. CASE CkBegin
      BY <2>0, <2>1, <1>t DEF CkBegin, Unpublished, Passed, Slots
    <2>2. CASE CkLoadActive
      <3>1. \A c \in Clients : c \in published /\ pc[c] \in HasBlock /\ ~active[ck_i] => slot[c] # ck_i
        BY <1>s
      <3>2. CASE active[ck_i]
        BY <3>2, <2>0, <2>2 DEF CkLoadActive, Passed, ScanPCs
      <3>3. CASE ~active[ck_i]
        BY <3>1, <3>3, <2>0, <2>2, <1>t DEF CkLoadActive, AfterSlot, Passed, ScanPCs
      <3>4. QED
        BY <3>2, <3>3
    <2>3. CASE CkLoadLast
      <3>1. ck_min' \in Int /\ ck_min' <= ck_min
        BY <2>3, <1>b, MinFacts DEF CkLoadLast, TypeOK, TypeCk
      <3>2. QED
        BY <3>1, <2>0, <2>3, <1>t, <1>b DEF CkLoadLast, Passed, ScanPCs
    <2>4. CASE CkLoadInflight
      <3>1. /\ ck_min' \in Int /\ ck_min' <= ck_min /\ ck_min' <= inflight_block[ck_i]
            /\ ck_i \in Slots
        BY <2>4, <1>b, MinFacts DEF CkLoadInflight, TypeOK, TypeCk
      <3>2. ck_pc \in ScanPCs /\ mode = "up" /\ ck_blind' = ck_blind
            /\ \/ ck_pc' = "next" /\ ck_i + 1 = NumSlots
               \/ ck_pc' = "active" /\ ck_i' = ck_i + 1
        BY <2>4 DEF CkLoadInflight, AfterSlot, ScanPCs
      <3>3. ASSUME NEW c \in Clients \ ck_blind, pc[c] \in HasBlock, slot[c] <= ck_i
            PROVE  ck_min' <= block[c]
        <4>1. c \in published /\ block[c] \in Int /\ slot[c] \in Slots
          BY <3>2, <3>3, <1>b, <1>t
        <4>2. CASE slot[c] = ck_i
          BY <4>1, <4>2, <3>1, <3>3, <1>s, <1>b
        <4>3. CASE slot[c] < ck_i
          BY <4>1, <4>3, <3>1, <3>2, <3>3, <1>b DEF Passed
        <4>4. QED
          BY <4>1, <4>2, <4>3, <3>3, <1>t
      <3>4. \A c \in Clients : slot[c] \in Slots /\ (slot[c] < ck_i + 1 => slot[c] <= ck_i)
            /\ (ck_i + 1 = NumSlots => slot[c] <= ck_i)
        BY <1>t
      <3>5. QED
        BY <3>2, <3>3, <3>4, <2>0, <2>4 DEF CkLoadInflight, Passed
    <2>5. CASE CkLoadNext
      BY <2>0, <2>5 DEF CkLoadNext, ScanPCs
    <2>6. CASE CkLoadRing
      BY <2>0, <2>6 DEF CkLoadRing, ScanPCs
    <2>7. QED
      BY <1>18, <2>1, <2>2, <2>3, <2>4, <2>5, <2>6 DEF CkRead
  <1>19. ASSUME CkWrite PROVE ScanMode' /\ ScanSlots'
    BY <1>19, <1>t, <1>s DEF CkWrite, Passed, ScanPCs
  <1>20. ASSUME Crash PROVE ScanMode' /\ ScanSlots'
    BY <1>20, <1>t, <1>s DEF Crash, Passed, ScanPCs
  <1>21. ASSUME NEW b \in Blocks, ReplayBlock(b) PROVE ScanMode' /\ ScanSlots'
    BY <1>21, <1>t, <1>s DEF ReplayBlock, Passed, ScanPCs
  <1>22. ASSUME RecoveryDone PROVE ScanMode' /\ ScanSlots'
    BY <1>22, <1>t, <1>s DEF RecoveryDone, Passed, ScanPCs
  <1>23. ASSUME UNCHANGED vars PROVE ScanMode' /\ ScanSlots'
    BY <1>23 DEF Passed
  <1>24. QED
    BY <1>1, <1>2, <1>3, <1>4, <1>5, <1>6, <1>7, <1>8, <1>9, <1>10, <1>11,
       <1>12, <1>13, <1>14, <1>15, <1>16, <1>17, <1>18, <1>19, <1>20, <1>21,
       <1>22, <1>23
       DEF Next, GetClient, PutStep, RemoveStep, Recovery

\* The snapshot bounds every record ColdTier lacks: what the ring no longer
\* holds is in ColdTier, what it does not hold yet is bounded by its writer.
LEMMA ScanRingNext ==
  TypeOK /\ Ownership /\ Ceiling /\ OnePlace /\ PendingExact /\ RemovedNotLive
    /\ SlotBounds /\ Covered /\ Scan /\ [Next]_vars
    => ScanRing'
  <1> SUFFICES ASSUME TypeOK, Ownership, Ceiling, OnePlace, PendingExact, RemovedNotLive,
                      SlotBounds, Covered, Scan, [Next]_vars
               PROVE  ScanRing'
    OBVIOUS
  <1> USE BoundsAssumption
      DEF vars, pmVars, clientVars, slotVars, flushVars, runVars, ghostVars, ckVars,
          At, Goto, CkGoto, OperationDone, HasBlock, ClientPCs
  <1>t. /\ live \subseteq Records /\ pc \in [Clients -> ClientPCs]
        /\ block \in [Clients -> Blocks \cup {kNoActiveBlock}]
        /\ owner \in [Blocks -> Clients \cup {"nobody"}]
        /\ blind \subseteq Clients /\ ck_blind \subseteq Clients
    BY DEF TypeOK, TypePM, TypeClients, TypeRun, TypeCk
  <1>b. /\ \A c \in Clients : pc[c] \in HasBlock =>
             block[c] \in Blocks /\ block[c] \in Int /\ block[c] < current_block
        /\ current_block \in Int /\ ck_min \in Int /\ ck_i \in Int /\ frontier \in Int
    BY DEF TypeOK, TypePM, TypeClients, TypeCk, Ownership, Blocks, kNoActiveBlock
  <1>o. \A r \in live : r[1] \in Int /\ r[1] \in Blocks /\ r[1] < current_block
    <2>1. \A r \in live : r[1] < num_used_blocks /\ r \in Records
      BY <1>t DEF Ceiling, CeilingCoversRecords
    <2>2. num_used_blocks \in Int /\ num_used_blocks <= current_block
      BY DEF TypeOK, TypePM, Ownership
    <2>3. QED
      BY <2>1, <2>2, <1>b, RecordFacts DEF Blocks
  <1>i. ScanMode /\ ScanSlots /\ ScanRing
    BY DEF Scan
  <1>1. ASSUME NEW c \in Clients, ClaimFirstBlock(c) PROVE ScanRing'
    <2>1. /\ block' = [block EXCEPT ![c] = current_block] /\ current_block' = current_block + 1
          /\ owner' = [owner EXCEPT ![current_block] = c]
          /\ UNCHANGED <<live, cold, lost, ck_pc, ck_i, ck_min>>
          /\ \A d \in Clients : d # c => pc'[d] = pc[d]
          /\ current_block < MaxBlock
      BY <1>1, <1>t DEF ClaimFirstBlock, GetNewBlock
    <2>2. ck_pc \in {"ring", "write"} => ck_blind' = ck_blind
      BY <1>1 DEF ClaimFirstBlock, MarkBlind, ScanPCs
    <2>3. \A r \in live : owner'[r[1]] = owner[r[1]]
      BY <2>1, <1>o, <1>t
    <2>4. block'[c] = current_block /\ \A d \in Clients : d # c => block'[d] = block[d]
      BY <2>1, <1>t
    <2>5. QED
      BY <2>1, <2>2, <2>3, <2>4, <1>b, <1>i DEF ScanRing, RingSlot
  <1>2. ASSUME NEW c \in Clients, PersistFirstBlock(c) PROVE ScanRing'
    BY <1>2, <1>t, <1>i DEF PersistFirstBlock, ScanRing, RingSlot
  <1>3. ASSUME NEW c \in Clients, NEW i \in Slots, ReserveSlot(c, i) PROVE ScanRing'
    BY <1>3, <1>t, <1>i DEF ReserveSlot, ScanRing, RingSlot
  <1>4. ASSUME NEW c \in Clients, ResetLastBlock(c) PROVE ScanRing'
    BY <1>4, <1>t, <1>i DEF ResetLastBlock, ScanRing, RingSlot
  <1>5. ASSUME NEW c \in Clients, ResetInflightBlock(c) PROVE ScanRing'
    BY <1>5, <1>t, <1>i DEF ResetInflightBlock, ScanRing, RingSlot
  <1>6. ASSUME NEW c \in Clients, ReleaseSlot(c) PROVE ScanRing'
    BY <1>6, <1>t, <1>i DEF ReleaseSlot, ScanRing, RingSlot
  <1>7. ASSUME NEW c \in Clients, NoteInflightBlock(c) PROVE ScanRing'
    BY <1>7, <1>t, <1>i DEF NoteInflightBlock, ScanRing, RingSlot
  <1>8. ASSUME NEW c \in Clients, ClaimNextBlock(c) PROVE ScanRing'
    <2>1. /\ block' = [block EXCEPT ![c] = current_block] /\ current_block' = current_block + 1
          /\ owner' = [owner EXCEPT ![current_block] = c]
          /\ UNCHANGED <<live, cold, lost, ck_pc, ck_i, ck_min>>
          /\ \A d \in Clients : d # c => pc'[d] = pc[d]
          /\ current_block < MaxBlock
      BY <1>8, <1>t DEF ClaimNextBlock, GetNewBlock
    <2>2. ck_pc \in {"ring", "write"} => ck_blind' = ck_blind
      BY <1>8 DEF ClaimNextBlock, MarkBlind, ScanPCs
    <2>3. \A r \in live : owner'[r[1]] = owner[r[1]]
      BY <2>1, <1>o, <1>t
    <2>4. block'[c] = current_block /\ \A d \in Clients : d # c => block'[d] = block[d]
      BY <2>1, <1>t
    <2>5. QED
      BY <2>1, <2>2, <2>3, <2>4, <1>b, <1>i DEF ScanRing, RingSlot
  <1>9. ASSUME NEW c \in Clients, PersistNextBlock(c) PROVE ScanRing'
    BY <1>9, <1>t, <1>i DEF PersistNextBlock, ScanRing, RingSlot
  <1>10. ASSUME NEW c \in Clients, WriteRecord(c) PROVE ScanRing'
    <2> DEFINE new == <<block[c], puts[block[c]] + 1>>
    <2>1. /\ live' = live \cup {new} /\ new[1] = block[c] /\ pc[c] = "put"
          /\ pc' = [pc EXCEPT ![c] = "written"]
          /\ UNCHANGED <<block, owner, cold, lost, ckVars, current_block>>
      BY <1>10 DEF WriteRecord
    <2> HIDE DEF new
    <2>2. owner[new[1]] = c
      BY <2>1 DEF Ownership
    <2>3. QED
      BY <2>1, <2>2, <1>i, <1>t DEF ScanRing, RingSlot
  <1>11. ASSUME NEW c \in Clients, NEW r \in Records, FreeOldRecord(c, r) PROVE ScanRing'
    BY <1>11, <1>t, <1>i DEF FreeOldRecord, ScanRing, RingSlot
  <1>12. ASSUME NEW c \in Clients, NoteClientBlock(c) PROVE ScanRing'
    BY <1>12, <1>t, <1>i DEF NoteClientBlock, ScanRing, RingSlot
  <1>13. ASSUME NEW c \in Clients, PendingRegister(c) PROVE ScanRing'
    BY <1>13, <1>t, <1>i DEF PendingRegister, ScanRing, RingSlot
  <1>14. ASSUME NEW c \in Clients, NEW f \in Flushers, PushPut(c, f) PROVE ScanRing'
    BY <1>14, <1>t, <1>i DEF PushPut, ScanRing, RingSlot
  <1>15. ASSUME NEW c \in Clients, NEW r \in Records, RemoveRecord(c, r) PROVE ScanRing'
    BY <1>15, <1>t, <1>i DEF RemoveRecord, ScanRing, RingSlot
  <1>16. ASSUME NEW c \in Clients, NEW f \in Flushers, PushRemove(c, f) PROVE ScanRing'
    BY <1>16, <1>t, <1>i DEF PushRemove, ScanRing, RingSlot
  <1>17. ASSUME NEW f \in Flushers, NEW D \in SUBSET commit_buf[f], DrainLane(f, D) PROVE ScanRing'
    BY <1>17, <1>t, <1>i DEF DrainLane, ScanRing, RingSlot
  <1>18. ASSUME NEW f \in Flushers, ApplyBatch(f) PROVE ScanRing'
    <2>1. \A r \in live : r \in cold => r \in cold'
      BY <1>18, <1>t DEF ApplyBatch, Removed, RemovedNotLive
    <2>2. QED
      BY <2>1, <1>18, <1>i DEF ApplyBatch, ScanRing, RingSlot
  <1>19. ASSUME NEW f \in Flushers, NEW e \in batch[f], RetireEntry(f, e) PROVE ScanRing'
    BY <1>19, <1>t, <1>i DEF RetireEntry, ScanRing, RingSlot
  <1>20. ASSUME CkRead PROVE ScanRing'
    <2>0. UNCHANGED <<pmVars, current_block, clientVars, slotVars, pending, flushVars,
                      runVars, ghostVars>>
      BY <1>20 DEF CkRead
    <2>1. CASE CkBegin
      BY <2>1 DEF CkBegin, ScanRing
    <2>2. CASE CkLoadActive \/ CkLoadLast \/ CkLoadInflight
      BY <2>2 DEF CkLoadActive, CkLoadLast, CkLoadInflight, AfterSlot, ScanRing
    <2>3. CASE CkLoadNext
      <3>1. ck_min' \in Int /\ ck_min' <= ck_min /\ ck_min' <= current_block
        BY <2>3, MinFacts DEF CkLoadNext, TypeOK, TypeCk, TypePM
      <3>2. ck_pc = "next" /\ ck_pc' = "ring" /\ ck_i' = 0 /\ ck_blind' = ck_blind
        BY <2>3 DEF CkLoadNext
      <3>3. \A c \in Clients \ ck_blind : pc[c] \in HasBlock => ck_min <= block[c]
        BY <3>2, <1>i DEF ScanSlots, Passed, ScanPCs
      <3>4. \A r \in live : ~(RingSlot(r[1]) < 0)
        BY <1>o, RingSlotType DEF RingSlots
      <3>5. QED
        BY <3>1, <3>2, <3>3, <3>4, <2>0, <1>b DEF ScanRing, RingSlot
    <2>4. CASE CkLoadRing
      <3>1. /\ ck_pc = "ring" /\ ck_blind' = ck_blind /\ ck_i \in RingSlots
            /\ ck_i' = ck_i + 1
            /\ (ck_pc' = "write" /\ ck_i + 1 = kWindow) \/ ck_pc' = "ring"
        BY <2>4 DEF CkLoadRing, TypeOK, TypeCk
      <3>2. /\ ck_min' \in Int /\ ck_min' <= ck_min
            /\ pending[ck_i].count > 0 => ck_min' <= pending[ck_i].block
        <4>1. pending[ck_i].block \in Nat /\ ck_min \in 0 .. kNoActiveBlock
          BY <3>1 DEF TypeOK, TypeFlush, TypeCk
        <4>2. QED
          BY <4>1, <2>4, <1>b, MinFacts DEF CkLoadRing
      <3>3. ASSUME NEW r \in (live \ lost) \ cold, owner[r[1]] \notin ck_blind,
                   RingSlot(r[1]) = ck_i
            PROVE  ck_min' <= r[1]
        <4>1. r \in Records /\ r[1] \in Int
          BY <1>t, <1>o
        <4>2. mode = "up"
          BY <3>1, <1>i DEF ScanMode
        <4>3. ASSUME NEW c \in Clients, Putting(c, r) PROVE ck_min' <= r[1]
          <5>1. r[1] = block[c] /\ pc[c] \in HasBlock
            BY <4>1, <4>3 DEF OnePlace, PutPlace, Putting
          <5>2. owner[r[1]] = c
            BY <5>1 DEF Ownership
          <5>3. ck_min <= block[c]
            BY <5>1, <5>2, <3>1, <3>3, <1>i DEF ScanRing
          <5>4. QED
            BY <5>1, <5>3, <3>2, <4>1, <1>b
        <4>4. ASSUME NEW f \in Flushers, InLane(f, r) \/ InBatch(f, r) PROVE ck_min' <= r[1]
          <5>1. r \in Registered(r[1])
            BY <4>1, <4>4 DEF Registered, InLane, InBatch
          <5>2. pending[ck_i].block = r[1] /\ pending[ck_i].count > 0
            BY <4>1, <5>1, <3>3, RegisteredCounts
          <5>3. QED
            BY <5>2, <3>2
        <4>5. QED
          BY <4>2, <4>3, <4>4 DEF Covered
      <3>4. ASSUME NEW r \in (live \ lost) \ cold, owner[r[1]] \notin ck_blind,
                   ck_pc' = "write" \/ RingSlot(r[1]) < ck_i + 1
            PROVE  ck_min' <= r[1]
        <4>1. RingSlot(r[1]) \in RingSlots /\ r[1] \in Int
          BY <1>o, RingSlotType
        <4>2. RingSlot(r[1]) < ck_i \/ RingSlot(r[1]) = ck_i
          BY <4>1, <3>1, <3>4, WindowAssumption DEF RingSlots
        <4>3. CASE RingSlot(r[1]) < ck_i
          <5>1. ck_min <= r[1]
            BY <4>3, <3>1, <3>4, <1>i DEF ScanRing
          <5>2. QED
            BY <5>1, <4>1, <3>2, <1>b
        <4>4. QED
          BY <4>2, <4>3, <3>3, <3>4
      <3>5. ASSUME NEW c \in Clients \ ck_blind, pc[c] \in HasBlock PROVE ck_min' <= block[c]
        <4>1. ck_min <= block[c]
          BY <3>1, <3>5, <1>i DEF ScanRing
        <4>2. QED
          BY <4>1, <3>2, <3>5, <1>b
      <3>6. ck_min' <= current_block
        BY <3>1, <3>2, <1>b, <1>i DEF ScanRing
      <3>7. QED
        BY <3>1, <3>4, <3>5, <3>6, <2>0 DEF ScanRing, RingSlot
    <2>5. QED
      BY <1>20, <2>1, <2>2, <2>3, <2>4 DEF CkRead
  <1>21. ASSUME CkWrite PROVE ScanRing'
    BY <1>21, <1>t, <1>i DEF CkWrite, ScanRing, RingSlot
  <1>22. ASSUME Crash PROVE ScanRing'
    BY <1>22, <1>t, <1>i DEF Crash, ScanRing, RingSlot
  <1>23. ASSUME NEW b \in Blocks, ReplayBlock(b) PROVE ScanRing'
    BY <1>23, <1>i DEF ReplayBlock, ScanRing, ScanMode
  <1>24. ASSUME RecoveryDone PROVE ScanRing'
    BY <1>24, <1>i DEF RecoveryDone, ScanRing, ScanMode
  <1>25. ASSUME UNCHANGED vars PROVE ScanRing'
    BY <1>25, <1>i DEF ScanRing, RingSlot
  <1>26. QED
    BY <1>1, <1>2, <1>3, <1>4, <1>5, <1>6, <1>7, <1>8, <1>9, <1>10, <1>11,
       <1>12, <1>13, <1>14, <1>15, <1>16, <1>17, <1>18, <1>19, <1>20, <1>21,
       <1>22, <1>23, <1>24, <1>25
       DEF Next, GetClient, PutStep, RemoveStep, Recovery, FlusherStep

(***************************************************************************)
(* The frontier is durable.                                                *)
(***************************************************************************)
\* The published frontier bounds the blocks that clients go on writing to.
LEMMA FutureBoundNext ==
  TypeOK /\ Ownership /\ Ceiling /\ Scan /\ FutureBound /\ [Next]_vars => FutureBound'
  <1> SUFFICES ASSUME TypeOK, Ownership, Ceiling, Scan, FutureBound, [Next]_vars
               PROVE  FutureBound'
    OBVIOUS
  <1> USE BoundsAssumption
      DEF vars, pmVars, clientVars, slotVars, flushVars, runVars, ghostVars, ckVars,
          At, Goto, CkGoto, OperationDone, HasBlock, ClientPCs
  <1>t. /\ live \subseteq Records /\ pc \in [Clients -> ClientPCs]
        /\ block \in [Clients -> Blocks \cup {kNoActiveBlock}]
        /\ owner \in [Blocks -> Clients \cup {"nobody"}]
        /\ blind \subseteq Clients /\ ck_blind \subseteq Clients
    BY DEF TypeOK, TypePM, TypeClients, TypeRun, TypeCk
  <1>b. /\ \A c \in Clients : pc[c] \in HasBlock =>
             block[c] \in Blocks /\ block[c] \in Int /\ block[c] < current_block
        /\ current_block \in Int /\ ck_min \in Int /\ ck_i \in Int /\ frontier \in Int
    BY DEF TypeOK, TypePM, TypeClients, TypeCk, Ownership, Blocks, kNoActiveBlock
  <1>o. \A r \in live : r[1] \in Int /\ r[1] \in Blocks /\ r[1] < current_block
    <2>1. \A r \in live : r[1] < num_used_blocks /\ r \in Records
      BY <1>t DEF Ceiling, CeilingCoversRecords
    <2>2. num_used_blocks \in Int /\ num_used_blocks <= current_block
      BY DEF TypeOK, TypePM, Ownership
    <2>3. QED
      BY <2>1, <2>2, <1>b, RecordFacts DEF Blocks
  <1>1. ASSUME NEW c \in Clients, ClaimFirstBlock(c) PROVE FutureBound'
    <2>1. /\ block' = [block EXCEPT ![c] = current_block] /\ current_block' = current_block + 1
          /\ UNCHANGED <<frontier, old>> /\ blind \subseteq blind'
          /\ \A d \in Clients : d # c => pc'[d] = pc[d]
      BY <1>1, <1>t DEF ClaimFirstBlock, GetNewBlock, MarkBlind
    <2>2. frontier <= current_block \/ c \in blind'
      <3>1. CASE ~old
        BY <3>1 DEF FutureBound
      <3>2. CASE old
        BY <3>2, <1>1, <1>b DEF ClaimFirstBlock, MarkBlind
      <3>3. QED
        BY <3>1, <3>2
    <2>3. block'[c] = current_block /\ \A d \in Clients : d # c => block'[d] = block[d]
      BY <2>1, <1>t
    <2>4. ~old' => frontier' <= current_block'
      BY <2>1, <1>b DEF FutureBound
    <2>5. \A d \in Clients \ blind' : pc'[d] \in HasBlock => frontier' <= block'[d]
      BY <2>1, <2>2, <2>3 DEF FutureBound
    <2>6. QED
      BY <2>4, <2>5 DEF FutureBound
  <1>2. ASSUME NEW c \in Clients, PersistFirstBlock(c) PROVE FutureBound'
    BY <1>2, <1>t DEF PersistFirstBlock, FutureBound
  <1>3. ASSUME NEW c \in Clients, NEW i \in Slots, ReserveSlot(c, i) PROVE FutureBound'
    BY <1>3, <1>t DEF ReserveSlot, FutureBound
  <1>4. ASSUME NEW c \in Clients, ResetLastBlock(c) PROVE FutureBound'
    BY <1>4, <1>t DEF ResetLastBlock, FutureBound
  <1>5. ASSUME NEW c \in Clients, ResetInflightBlock(c) PROVE FutureBound'
    BY <1>5, <1>t DEF ResetInflightBlock, FutureBound
  <1>6. ASSUME NEW c \in Clients, ReleaseSlot(c) PROVE FutureBound'
    BY <1>6, <1>t DEF ReleaseSlot, FutureBound
  <1>7. ASSUME NEW c \in Clients, NoteInflightBlock(c) PROVE FutureBound'
    BY <1>7, <1>t DEF NoteInflightBlock, FutureBound
  <1>8. ASSUME NEW c \in Clients, ClaimNextBlock(c) PROVE FutureBound'
    <2>1. /\ block' = [block EXCEPT ![c] = current_block] /\ current_block' = current_block + 1
          /\ UNCHANGED <<frontier, old, blind>> /\ pc[c] = "put"
          /\ \A d \in Clients : d # c => pc'[d] = pc[d]
      BY <1>8, <1>t DEF ClaimNextBlock, GetNewBlock
    <2>2. frontier <= current_block \/ c \in blind
      BY <2>1, <1>b DEF FutureBound
    <2>3. block'[c] = current_block /\ \A d \in Clients : d # c => block'[d] = block[d]
      BY <2>1, <1>t
    <2>4. ~old' => frontier' <= current_block'
      BY <2>1, <1>b DEF FutureBound
    <2>5. \A d \in Clients \ blind' : pc'[d] \in HasBlock => frontier' <= block'[d]
      BY <2>1, <2>2, <2>3 DEF FutureBound
    <2>6. QED
      BY <2>4, <2>5 DEF FutureBound
  <1>9. ASSUME NEW c \in Clients, PersistNextBlock(c) PROVE FutureBound'
    BY <1>9, <1>t DEF PersistNextBlock, FutureBound
  <1>10. ASSUME NEW c \in Clients, WriteRecord(c) PROVE FutureBound'
    BY <1>10, <1>t DEF WriteRecord, FutureBound
  <1>11. ASSUME NEW c \in Clients, NEW r \in Records, FreeOldRecord(c, r) PROVE FutureBound'
    BY <1>11, <1>t DEF FreeOldRecord, FutureBound
  <1>12. ASSUME NEW c \in Clients, NoteClientBlock(c) PROVE FutureBound'
    BY <1>12, <1>t DEF NoteClientBlock, FutureBound
  <1>13. ASSUME NEW c \in Clients, PendingRegister(c) PROVE FutureBound'
    BY <1>13, <1>t DEF PendingRegister, FutureBound
  <1>14. ASSUME NEW c \in Clients, NEW f \in Flushers, PushPut(c, f) PROVE FutureBound'
    BY <1>14, <1>t DEF PushPut, FutureBound
  <1>15. ASSUME NEW c \in Clients, NEW r \in Records, RemoveRecord(c, r) PROVE FutureBound'
    BY <1>15, <1>t DEF RemoveRecord, FutureBound
  <1>16. ASSUME NEW c \in Clients, NEW f \in Flushers, PushRemove(c, f) PROVE FutureBound'
    BY <1>16, <1>t DEF PushRemove, FutureBound
  <1>17. ASSUME NEW f \in Flushers, FlusherStep(f) PROVE FutureBound'
    BY <1>17, FlusherFrame DEF FutureBound
  <1>18. ASSUME CkRead PROVE FutureBound'
    BY <1>18 DEF CkRead, FutureBound
  <1>19. ASSUME CkWrite PROVE FutureBound'
    BY <1>19 DEF CkWrite, FutureBound, Scan, ScanRing
  <1>20. ASSUME Crash PROVE FutureBound'
    BY <1>20, <1>t DEF Crash, FutureBound
  <1>21. ASSUME NEW b \in Blocks, ReplayBlock(b) PROVE FutureBound'
    BY <1>21, <1>t DEF ReplayBlock, FutureBound
  <1>22. ASSUME RecoveryDone PROVE FutureBound'
    BY <1>22, <1>t DEF RecoveryDone, FutureBound
  <1>23. ASSUME UNCHANGED vars PROVE FutureBound'
    BY <1>23 DEF FutureBound
  <1>24. QED
    BY <1>1, <1>2, <1>3, <1>4, <1>5, <1>6, <1>7, <1>8, <1>9, <1>10, <1>11,
       <1>12, <1>13, <1>14, <1>15, <1>16, <1>17, <1>18, <1>19, <1>20, <1>21,
       <1>22, <1>23
       DEF Next, GetClient, PutStep, RemoveStep, Recovery

\* No step makes a live record below the frontier leave ColdTier, and a new
\* frontier only covers records that are in it.
LEMMA DurableNext ==
  TypeOK /\ Ownership /\ Ceiling /\ RemovedNotLive /\ Scan /\ FutureBound
    /\ FrontierDurable /\ [Next]_vars
    => FrontierDurable'
  <1> SUFFICES ASSUME TypeOK, Ownership, Ceiling, RemovedNotLive, Scan, FutureBound,
                      FrontierDurable, [Next]_vars
               PROVE  FrontierDurable'
    OBVIOUS
  <1> USE BoundsAssumption
      DEF vars, pmVars, clientVars, slotVars, flushVars, runVars, ghostVars, ckVars,
          At, Goto, CkGoto, OperationDone, HasBlock, ClientPCs
  <1>t. /\ live \subseteq Records /\ pc \in [Clients -> ClientPCs]
        /\ block \in [Clients -> Blocks \cup {kNoActiveBlock}]
        /\ owner \in [Blocks -> Clients \cup {"nobody"}]
        /\ blind \subseteq Clients /\ ck_blind \subseteq Clients
    BY DEF TypeOK, TypePM, TypeClients, TypeRun, TypeCk
  <1>b. /\ \A c \in Clients : pc[c] \in HasBlock =>
             block[c] \in Blocks /\ block[c] \in Int /\ block[c] < current_block
        /\ current_block \in Int /\ ck_min \in Int /\ ck_i \in Int /\ frontier \in Int
    BY DEF TypeOK, TypePM, TypeClients, TypeCk, Ownership, Blocks, kNoActiveBlock
  <1>o. \A r \in live : r[1] \in Int /\ r[1] \in Blocks /\ r[1] < current_block
    <2>1. \A r \in live : r[1] < num_used_blocks /\ r \in Records
      BY <1>t DEF Ceiling, CeilingCoversRecords
    <2>2. num_used_blocks \in Int /\ num_used_blocks <= current_block
      BY DEF TypeOK, TypePM, Ownership
    <2>3. QED
      BY <2>1, <2>2, <1>b, RecordFacts DEF Blocks
  <1>1. ASSUME NEW c \in Clients, ClaimFirstBlock(c) PROVE FrontierDurable'
    <2>1. /\ owner' = [owner EXCEPT ![current_block] = c]
          /\ UNCHANGED <<live, cold, lost, frontier>> /\ blind \subseteq blind'
      BY <1>1 DEF ClaimFirstBlock, GetNewBlock, MarkBlind
    <2>2. \A r \in live : owner'[r[1]] = owner[r[1]]
      BY <2>1, <1>o, <1>t
    <2>3. QED
      BY <2>1, <2>2 DEF FrontierDurable
  <1>2. ASSUME NEW c \in Clients, PersistFirstBlock(c) PROVE FrontierDurable'
    BY <1>2, <1>t DEF PersistFirstBlock, FrontierDurable
  <1>3. ASSUME NEW c \in Clients, NEW i \in Slots, ReserveSlot(c, i) PROVE FrontierDurable'
    BY <1>3, <1>t DEF ReserveSlot, FrontierDurable
  <1>4. ASSUME NEW c \in Clients, ResetLastBlock(c) PROVE FrontierDurable'
    BY <1>4, <1>t DEF ResetLastBlock, FrontierDurable
  <1>5. ASSUME NEW c \in Clients, ResetInflightBlock(c) PROVE FrontierDurable'
    BY <1>5, <1>t DEF ResetInflightBlock, FrontierDurable
  <1>6. ASSUME NEW c \in Clients, ReleaseSlot(c) PROVE FrontierDurable'
    BY <1>6, <1>t DEF ReleaseSlot, FrontierDurable
  <1>7. ASSUME NEW c \in Clients, NoteInflightBlock(c) PROVE FrontierDurable'
    BY <1>7, <1>t DEF NoteInflightBlock, FrontierDurable
  <1>8. ASSUME NEW c \in Clients, ClaimNextBlock(c) PROVE FrontierDurable'
    <2>1. /\ owner' = [owner EXCEPT ![current_block] = c]
          /\ UNCHANGED <<live, cold, lost, frontier>> /\ blind \subseteq blind'
      BY <1>8 DEF ClaimNextBlock, GetNewBlock
    <2>2. \A r \in live : owner'[r[1]] = owner[r[1]]
      BY <2>1, <1>o, <1>t
    <2>3. QED
      BY <2>1, <2>2 DEF FrontierDurable
  <1>9. ASSUME NEW c \in Clients, PersistNextBlock(c) PROVE FrontierDurable'
    BY <1>9, <1>t DEF PersistNextBlock, FrontierDurable
  <1>10. ASSUME NEW c \in Clients, WriteRecord(c) PROVE FrontierDurable'
    <2> DEFINE new == <<block[c], puts[block[c]] + 1>>
    <2>1. /\ live' = live \cup {new} /\ new[1] = block[c] /\ pc[c] = "put"
          /\ UNCHANGED <<owner, cold, lost, frontier, blind>>
      BY <1>10 DEF WriteRecord
    <2> HIDE DEF new
    <2>2. owner[new[1]] = c /\ (c \in blind \/ frontier <= new[1]) /\ new[1] \in Int
      BY <2>1, <1>b DEF Ownership, FutureBound
    <2>3. QED
      BY <2>1, <2>2, <1>b DEF FrontierDurable
  <1>11. ASSUME NEW c \in Clients, NEW r \in Records, FreeOldRecord(c, r) PROVE FrontierDurable'
    BY <1>11, <1>t DEF FreeOldRecord, FrontierDurable
  <1>12. ASSUME NEW c \in Clients, NoteClientBlock(c) PROVE FrontierDurable'
    BY <1>12, <1>t DEF NoteClientBlock, FrontierDurable
  <1>13. ASSUME NEW c \in Clients, PendingRegister(c) PROVE FrontierDurable'
    BY <1>13, <1>t DEF PendingRegister, FrontierDurable
  <1>14. ASSUME NEW c \in Clients, NEW f \in Flushers, PushPut(c, f) PROVE FrontierDurable'
    BY <1>14, <1>t DEF PushPut, FrontierDurable
  <1>15. ASSUME NEW c \in Clients, NEW r \in Records, RemoveRecord(c, r) PROVE FrontierDurable'
    BY <1>15, <1>t DEF RemoveRecord, FrontierDurable
  <1>16. ASSUME NEW c \in Clients, NEW f \in Flushers, PushRemove(c, f) PROVE FrontierDurable'
    BY <1>16, <1>t DEF PushRemove, FrontierDurable
  <1>17. ASSUME NEW f \in Flushers, NEW D \in SUBSET commit_buf[f], DrainLane(f, D) PROVE FrontierDurable'
    BY <1>17, <1>t DEF DrainLane, FrontierDurable
  <1>18. ASSUME NEW f \in Flushers, ApplyBatch(f) PROVE FrontierDurable'
    <2>1. \A r \in live : r \in cold => r \in cold'
      BY <1>18, <1>t DEF ApplyBatch, Removed, RemovedNotLive
    <2>2. QED
      BY <2>1, <1>18 DEF ApplyBatch, FrontierDurable
  <1>19. ASSUME NEW f \in Flushers, NEW e \in batch[f], RetireEntry(f, e) PROVE FrontierDurable'
    BY <1>19, <1>t DEF RetireEntry, FrontierDurable
  <1>20. ASSUME CkRead PROVE FrontierDurable'
    BY <1>20, <1>t DEF CkRead, FrontierDurable
  <1>21. ASSUME CkWrite PROVE FrontierDurable'
    <2>1. \A r \in (live \ lost) \ cold : owner[r[1]] \notin ck_blind => ck_min <= r[1]
      BY <1>21 DEF CkWrite, Scan, ScanRing
    <2>2. \A r \in live : ck_min <= r[1] => ~(r[1] < ck_min)
      BY <1>o, <1>b
    <2>3. QED
      BY <2>1, <2>2, <1>21 DEF CkWrite, FrontierDurable
  <1>22. ASSUME Crash PROVE FrontierDurable'
    BY <1>22, <1>t DEF Crash, FrontierDurable
  <1>23. ASSUME NEW b \in Blocks, ReplayBlock(b) PROVE FrontierDurable'
    BY <1>23, <1>t DEF ReplayBlock, FrontierDurable
  <1>24. ASSUME RecoveryDone PROVE FrontierDurable'
    BY <1>24, <1>t DEF RecoveryDone, FrontierDurable
  <1>25. ASSUME UNCHANGED vars PROVE FrontierDurable'
    BY <1>25 DEF FrontierDurable
  <1>26. QED
    BY <1>1, <1>2, <1>3, <1>4, <1>5, <1>6, <1>7, <1>8, <1>9, <1>10, <1>11,
       <1>12, <1>13, <1>14, <1>15, <1>16, <1>17, <1>18, <1>19, <1>20, <1>21,
       <1>22, <1>23, <1>24, <1>25
       DEF Next, GetClient, PutStep, RemoveStep, Recovery, FlusherStep

(***************************************************************************)
(* Recovery replays enough.                                                *)
(***************************************************************************)
\* A replayed block stays replayed until recovery is done.
LEMMA ReplayedNext ==
  ScanMode /\ Replayed /\ [Next]_vars => Replayed'
  <1> SUFFICES ASSUME ScanMode, Replayed, [Next]_vars PROVE Replayed'
    OBVIOUS
  <1> USE DEF vars, pmVars, clientVars, slotVars, flushVars, runVars, ghostVars, ckVars,
          At, CkGoto, Replayed
  <1>1. CASE mode = "recovering"
    <2>1. ASSUME NEW c \in Clients,
                 GetClient(c) \/ NoteInflightBlock(c) \/ PutStep(c) \/ RemoveStep(c) \/ ReleaseSlot(c)
          PROVE  FALSE
      BY <1>1, <2>1 DEF GetClient, PutStep, RemoveStep, ClaimFirstBlock, PersistFirstBlock,
        ReserveSlot, ResetLastBlock, ResetInflightBlock, ReleaseSlot, NoteInflightBlock,
        ClaimNextBlock, PersistNextBlock, WriteRecord, FreeOldRecord, NoteClientBlock,
        PendingRegister, PushPut, RemoveRecord, PushRemove
    <2>2. ASSUME NEW f \in Flushers, FlusherStep(f) PROVE FALSE
      BY <1>1, <2>2 DEF FlusherStep, DrainLane, ApplyBatch, RetireEntry
    <2>3. CASE CkRead \/ CkWrite
      BY <1>1, <2>3 DEF CkRead, CkWrite, CkBegin, CkLoadActive, CkLoadLast, CkLoadInflight,
                        CkLoadNext, CkLoadRing
    <2>4. CASE Crash
      BY <2>4 DEF Crash, TailBlocks, StartBlock
    <2>5. ASSUME NEW b \in Blocks, ReplayBlock(b) PROVE Replayed'
      BY <1>1, <2>5 DEF ReplayBlock, TailBlocks, StartBlock
    <2>6. CASE RecoveryDone
      BY <2>6 DEF RecoveryDone
    <2>7. CASE UNCHANGED vars
      BY <2>7 DEF TailBlocks, StartBlock
    <2>8. QED
      BY <2>1, <2>2, <2>3, <2>4, <2>5, <2>6, <2>7 DEF Next, Recovery
  <1>2. CASE mode # "recovering"
    <2>1. CASE Crash
      BY <2>1 DEF Crash, TailBlocks, StartBlock
    <2>2. CASE ~Crash
      <3>1. mode' = mode
        <4>1. ASSUME NEW c \in Clients,
                     GetClient(c) \/ NoteInflightBlock(c) \/ PutStep(c) \/ RemoveStep(c) \/ ReleaseSlot(c)
              PROVE  mode' = mode
          BY <4>1 DEF GetClient, PutStep, RemoveStep, ClaimFirstBlock, PersistFirstBlock,
            ReserveSlot, ResetLastBlock, ResetInflightBlock, ReleaseSlot, NoteInflightBlock,
            ClaimNextBlock, PersistNextBlock, WriteRecord, FreeOldRecord, NoteClientBlock,
            PendingRegister, PushPut, RemoveRecord, PushRemove
        <4>2. ASSUME NEW f \in Flushers, FlusherStep(f) PROVE mode' = mode
          BY <4>2, FlusherFrame
        <4>3. CASE CkRead \/ CkWrite
          BY <4>3 DEF CkRead, CkWrite
        <4>4. CASE Recovery
          BY <1>2, <4>4 DEF Recovery, ReplayBlock, RecoveryDone
        <4>5. QED
          BY <2>2, <4>1, <4>2, <4>3, <4>4 DEF Next
      <3>2. QED
        BY <1>2, <3>1
    <2>3. QED
      BY <2>1, <2>2
  <1>3. QED
    BY <1>1, <1>2

\* A durable frontier and a replayed tail leave no live record out of ColdTier.
LEMMA RecoveryFromInvariant ==
  TypeOK /\ Ceiling /\ FrontierDurable /\ Replayed => RecoveryComplete
  <1> SUFFICES ASSUME TypeOK, Ceiling, FrontierDurable, Replayed,
                      mode = "recovering", todo = {},
                      NEW r \in live \ lost, owner[r[1]] \notin blind
               PROVE  r \in cold
    BY DEF RecoveryComplete
  <1>1. r[1] \in Blocks /\ r[1] \in Int /\ frontier \in Int /\ num_used_blocks \in Int
    BY RecordFacts, BoundsAssumption DEF TypeOK, TypePM, Blocks, kNoActiveBlock
  <1>2. r[1] < num_used_blocks
    BY DEF Ceiling, CeilingCoversRecords
  <1>3. CASE r[1] < frontier
    BY <1>3 DEF FrontierDurable
  <1>4. CASE frontier <= r[1]
    <2>1. r[1] \in TailBlocks
      BY <1>1, <1>2, <1>4, BoundsAssumption DEF TailBlocks, StartBlock, Blocks
    <2>2. QED
      BY <2>1 DEF Replayed
  <1>5. QED
    BY <1>1, <1>3, <1>4

(***************************************************************************)
(* The invariant and what follows from it.                                 *)
(***************************************************************************)
\* A new pool satisfies the invariant.
LEMMA IndInvInit == Init => IndInv
  <1> SUFFICES ASSUME Init PROVE IndInv
    OBVIOUS
  <1> USE BoundsAssumption
      DEF Init, HasBlock, HasSlot, HasRecord, ClientPCs
  <1>1. TypeOK
    BY TypeInit
  <1>2. Ownership /\ Ceiling
    BY DEF Ownership, Ceiling, CeilingCoversRecords
  <1>3. OnePlace /\ RemovedNotLive /\ Covered
    BY DEF OnePlace, AllWritten, PutPlace, FlushPlace, Putting, InLane, InBatch, NoEntries,
           RemovedNotLive, Covered
  <1>4. PendingExact
    <2>1. \A b \in Blocks : Registered(b) = {}
      BY DEF Registered, NoEntries
    <2>2. \A b \in Blocks : pending[RingSlot(b)].count = 0
      BY RingSlotType DEF EmptyRing
    <2>3. QED
      BY <2>1, <2>2, FS_EmptySet DEF PendingExact
  <1>5. SlotBounds
    BY DEF SlotBounds
  <1>6. Scan /\ FutureBound
    BY DEF Scan, ScanMode, ScanSlots, ScanRing, FutureBound, ScanPCs
  <1>7. FrontierDurable /\ Replayed
    BY DEF FrontierDurable, Replayed
  <1>8. QED
    BY <1>1, <1>2, <1>3, <1>4, <1>5, <1>6, <1>7 DEF IndInv

\* Every step preserves the invariant.
LEMMA IndInvNext == IndInv /\ [Next]_vars => IndInv'
  <1> SUFFICES ASSUME IndInv, [Next]_vars PROVE IndInv'
    OBVIOUS
  <1> USE DEF IndInv, Scan
  <1>1. TypeOK' /\ Ownership' /\ Ceiling' /\ OnePlace' /\ PendingExact'
    BY TypeNext, OwnershipNext, CeilingNext, OnePlaceNext, PendingNext
  <1>2. SlotBounds' /\ RemovedNotLive' /\ Covered'
    BY SlotBoundsNext, RemovedNext, CoveredNext
  <1>3. Scan'
    BY ScanSlotsNext, ScanRingNext
  <1>4. FutureBound' /\ FrontierDurable' /\ Replayed'
    BY FutureBoundNext, DurableNext, ReplayedNext
  <1>5. QED
    BY <1>1, <1>2, <1>3, <1>4

\* The layers together are an inductive invariant of the specification.
THEOREM Invariance == Spec => []IndInv
  BY IndInvInit, IndInvNext, PTL DEF Spec

\* pending_register, push_commit and pending_retire keep the ring an exact
\* multiset of the puts that are not applied yet, for any window, so the
\* earliest_pending of a checkpoint neither misses a put nor sticks.
THEOREM PendingCorrect == Spec => []PendingExact
  <1>1. IndInv => PendingExact
    BY DEF IndInv
  <1>2. QED
    BY <1>1, Invariance, PTL

\* pending_retire never reaches its abort.
THEOREM RetireCorrect == Spec => []RetireNeverFatal
  <1>1. IndInv => RetireNeverFatal
    BY RetireFromPending DEF IndInv
  <1>2. QED
    BY <1>1, Invariance, PTL

\* The frontier that try_write_checkpoint publishes is durable: below it every
\* live record of a client the checkpoint could see is in ColdTier, for any
\* number of clients, client slots, flushers, ring slots and crashes.
THEOREM FrontierCorrect == Spec => []FrontierDurable
  <1>1. IndInv => FrontierDurable
    BY DEF IndInv
  <1>2. QED
    BY <1>1, Invariance, PTL

\* recover_tail_into_cold replays enough: when the tail is replayed, ColdTier
\* has every live record of a client the checkpoint could see.
THEOREM RecoveryCorrect == Spec => []RecoveryComplete
  <1>1. IndInv => RecoveryComplete
    BY RecoveryFromInvariant DEF IndInv
  <1>2. QED
    BY <1>1, Invariance, PTL

(***************************************************************************)
(* The checkpoint file, which keeps the frontier, proved for any number of *)
(* writes and crashes to implement a durable register.                     *)
(***************************************************************************)

\* A record that verifies is neither zero, nor torn, nor std::nullopt, and its
\* sequence number is positive.
LEMMA RecordKinds ==
  /\ \A r \in Record : r.seq \in 1 .. MaxWrites /\ r # Nothing /\ r \notin Unverified
  /\ Nothing.seq = 0 /\ Nothing \notin Record
  /\ \A u \in Unverified : u \notin Record
  BY CheckpointBounds DEF Record, Nothing, Unverified

\* The slot that is written is never the one the pointer names.
LEMMA TargetFacts ==
  /\ \A p : TargetSlot(p) \in SlotNames
  /\ \A p \in SlotNames : TargetSlot(p) # p /\ TargetSlot(TargetSlot(p)) = p
  BY DEF TargetSlot, SlotNames

\* With FallbackUnused, read_valid is the slot the pointer names.
LEMMA DurableIs ==
  ASSUME CheckpointTypeOK, FallbackUnused
  PROVE  /\ Durable = IF vp_pm = kValidNone THEN Nothing ELSE slots[vp_pm]
         /\ Durable \in Record \cup {Nothing}
         /\ Durable.seq \in 0 .. MaxWrites
  BY RecordKinds, CheckpointBounds
     DEF Durable, ReadValid, ReadSlot, FallbackUnused, CheckpointTypeOK, SlotNames, kValidNone

\* A file fresh from create() satisfies the invariant.
LEMMA InvInit == FileInit => CheckpointInv
  <1> SUFFICES ASSUME FileInit PROVE CheckpointInv
    OBVIOUS
  <1> USE CheckpointBounds DEF FileInit
  <1>1. CheckpointTypeOK
    BY DEF CheckpointTypeOK, SlotNames, kValidNone, Unverified
  <1>2. FallbackUnused
    BY DEF FallbackUnused, SlotNames, kValidNone
  <1>3. WriteInInactiveSlot
    BY DEF WriteInInactiveSlot
  <1>4. SeqBounds
    BY DEF SeqBounds, Durable, ReadValid, Undecided, Nothing
  <1>5. QED
    BY <1>1, <1>2, <1>3, <1>4 DEF CheckpointInv

\* One step keeps the invariant and does to the register what it should.
LEMMA FileStep ==
  ASSUME CheckpointInv, [FileNext]_fileVars
  PROVE  /\ CheckpointInv'
         /\ Durable'.seq >= Durable.seq
         /\ wpc = "idle" /\ wpc' = "copy" => wrec'.seq > Durable.seq
         /\ [Register!Next]_<<Durable, IF Undecided THEN wrec ELSE Nothing>>
  <1> DEFINE Goal ==
         /\ CheckpointInv'
         /\ Durable'.seq >= Durable.seq
         /\ wpc = "idle" /\ wpc' = "copy" => wrec'.seq > Durable.seq
         /\ [Register!Next]_<<Durable, IF Undecided THEN wrec ELSE Nothing>>
  <1>d. /\ Durable = IF vp_pm = kValidNone THEN Nothing ELSE slots[vp_pm]
        /\ Durable \in Record \cup {Nothing} /\ Durable.seq \in 0 .. MaxWrites
    BY DurableIs DEF CheckpointInv
  <1>e. ASSUME CheckpointTypeOK', FallbackUnused'
        PROVE  /\ Durable' = IF vp_pm' = kValidNone THEN Nothing ELSE slots'[vp_pm']
               /\ Durable' \in Record \cup {Nothing} /\ Durable'.seq \in 0 .. MaxWrites
    BY <1>e, RecordKinds, CheckpointBounds
       DEF Durable, ReadValid, ReadSlot, FallbackUnused, CheckpointTypeOK, SlotNames, kValidNone
  <1> USE CheckpointBounds DEF CheckpointInv
  <1>1. ASSUME NEW v \in Payload, WriteBegin(v) PROVE Goal
    <2> USE <1>1 DEF WriteBegin
    <2>1. wrec' \in Record /\ wrec'.seq = seq + 1 /\ wrec' # Nothing
      BY RecordKinds DEF Record, CheckpointTypeOK
    <2>2. CheckpointTypeOK' /\ FallbackUnused'
      BY <2>1 DEF CheckpointTypeOK, FallbackUnused
    <2>3. Durable' = Durable /\ ~Undecided /\ Undecided'
      BY <2>2, <1>d, <1>e DEF Undecided
    <2>4. WriteInInactiveSlot'
      BY DEF WriteInInactiveSlot
    <2>5. Durable.seq <= seq /\ seq \in Nat
      BY DEF SeqBounds, CheckpointTypeOK
    <2>6. SeqBounds'
      BY <2>1, <2>3, <2>5, <1>d DEF SeqBounds
    <2>7. wrec'.seq > Durable.seq
      BY <2>1, <2>5, <1>d
    <2>8. Register!Next
      BY <2>1, <2>3 DEF Register!Next, Register!Propose
    <2>9. QED
      BY <2>2, <2>3, <2>4, <2>6, <2>7, <2>8, <1>d
  <1>2. ASSUME EvictSlot \/ PersistSlot PROVE Goal
    <2>1. /\ wpc = "copy" /\ wpc' \in {"copy", "copied"}
          /\ UNCHANGED <<vp_pm, vp, wrec, seq, up, failures, returned>>
          /\ \/ slots' = [slots EXCEPT ![TargetSlot(vp)] = wrec]
             \/ /\ slots' = [slots EXCEPT ![TargetSlot(vp)] = [seq |-> 0, data |-> "torn"]]
                /\ wpc' = "copy"
      BY <1>2 DEF EvictSlot, PersistSlot
    <2>2. up /\ vp_pm = vp /\ wrec \in Record
      BY <2>1 DEF WriteInInactiveSlot, CheckpointTypeOK
    <2>3. CheckpointTypeOK'
      BY <2>1, <2>2, TargetFacts DEF CheckpointTypeOK, Unverified
    <2>4. FallbackUnused' /\ (vp_pm \in SlotNames => slots'[vp_pm] = slots[vp_pm])
      BY <2>1, <2>2, TargetFacts DEF FallbackUnused, CheckpointTypeOK
    <2>5. Durable' = Durable /\ Undecided /\ Undecided'
      BY <2>1, <2>3, <2>4, <1>d, <1>e DEF Undecided, CheckpointTypeOK
    <2>6. WriteInInactiveSlot'
      BY <2>1, <2>2, TargetFacts DEF WriteInInactiveSlot, CheckpointTypeOK
    <2>7. SeqBounds'
      BY <2>1, <2>5 DEF SeqBounds
    <2>8. QED
      BY <2>1, <2>3, <2>4, <2>5, <2>6, <2>7, <1>d
  <1>3. ASSUME FlipPointer PROVE Goal
    <2> USE <1>3 DEF FlipPointer
    <2>1. up /\ vp_pm = vp /\ slots[TargetSlot(vp)] = wrec
      BY DEF WriteInInactiveSlot
    <2>2. CheckpointTypeOK' /\ FallbackUnused'
      BY TargetFacts DEF CheckpointTypeOK, FallbackUnused
    <2>3. vp_pm' # vp'
      BY <2>1, TargetFacts DEF CheckpointTypeOK, kValidNone, SlotNames
    <2>4. Durable' = Durable /\ Undecided /\ Undecided'
      BY <2>2, <2>3, <1>d, <1>e DEF Undecided
    <2>5. WriteInInactiveSlot'
      BY <2>1, TargetFacts DEF WriteInInactiveSlot, CheckpointTypeOK
    <2>6. SeqBounds'
      BY <2>4 DEF SeqBounds
    <2>7. QED
      BY <2>2, <2>4, <2>5, <2>6, <1>d
  <1>4. ASSUME EvictPointer \/ PersistPointer PROVE Goal
    <2>1. /\ wpc = "flipped" /\ vp_pm' = vp /\ vp' = vp /\ slots' = slots
          /\ UNCHANGED <<seq, up, failures>>
          /\ \/ wpc' = "idle" /\ returned' = wrec /\ wrec' = Nothing
             \/ wpc' = wpc /\ returned' = returned /\ wrec' = wrec
      BY <1>4 DEF EvictPointer, PersistPointer
    <2>2. vp \in SlotNames /\ slots[vp] = wrec /\ wrec \in Record /\ up /\ wrec.seq = seq
      BY <2>1 DEF WriteInInactiveSlot, CheckpointTypeOK, SeqBounds
    <2>3. CheckpointTypeOK' /\ FallbackUnused'
      BY <2>1, <2>2 DEF CheckpointTypeOK, FallbackUnused
    <2>4. Durable' = wrec /\ ~Undecided'
      BY <2>1, <2>2, <2>3, <1>e DEF Undecided, SlotNames, kValidNone
    <2>5. WriteInInactiveSlot'
      BY <2>1, <2>2 DEF WriteInInactiveSlot
    <2>6. /\ wrec.seq >= Durable.seq /\ wrec.seq \in Nat
          /\ returned.seq <= wrec.seq /\ (Undecided \/ Durable = wrec)
      <3>1. CASE vp_pm = vp
        BY <3>1, <2>1, <2>2, <1>d, RecordKinds DEF SeqBounds, SlotNames, kValidNone
      <3>2. CASE vp_pm # vp
        <4>1. Undecided
          BY <3>2, <2>1 DEF Undecided
        <4>2. Durable.seq < wrec.seq /\ returned.seq <= Durable.seq
          BY <4>1 DEF SeqBounds
        <4>3. returned.seq \in Nat /\ wrec.seq \in Nat
          BY <2>2, RecordKinds DEF CheckpointTypeOK
        <4>4. QED
          BY <4>1, <4>2, <4>3, <1>d
      <3>3. QED
        BY <3>1, <3>2
    <2>7. SeqBounds'
      BY <2>1, <2>2, <2>4, <2>6 DEF SeqBounds
    <2>8. [Register!Next]_<<Durable, IF Undecided THEN wrec ELSE Nothing>>
      <3>1. CASE Undecided
        BY <3>1, <2>2, <2>4, RecordKinds DEF Register!Next, Register!Commit
      <3>2. CASE ~Undecided
        BY <3>2, <2>4, <2>6
      <3>3. QED
        BY <3>1, <3>2
    <2>9. QED
      BY <2>1, <2>3, <2>4, <2>5, <2>6, <2>7, <2>8, <1>d
  <1>5. ASSUME PowerFails PROVE Goal
    <2> USE <1>5 DEF PowerFails
    <2>a. failures \in 0 .. MaxFailures /\ failures < MaxFailures /\ failures' = failures + 1
      BY DEF CheckpointTypeOK
    <2>b. failures' \in 0 .. MaxFailures
      BY <2>a
    <2>0. failures' \in 0 .. MaxFailures /\ up' \in BOOLEAN
      BY <2>b
    <2>1. CheckpointTypeOK' /\ FallbackUnused'
      BY <2>0 DEF CheckpointTypeOK, FallbackUnused
    <2>2. Durable' = Durable /\ ~Undecided'
      BY <2>1, <1>d, <1>e DEF Undecided
    <2>3. WriteInInactiveSlot'
      BY DEF WriteInInactiveSlot
    <2>4. SeqBounds'
      BY <2>2 DEF SeqBounds
    <2>5. Register!Next
      BY <2>2 DEF Register!Next, Register!Abandon
    <2>6. QED
      BY <2>1, <2>2, <2>3, <2>4, <2>5, <1>d
  <1>6. ASSUME Reopen PROVE Goal
    <2> USE <1>6 DEF Reopen
    <2>0. seq' = Durable.seq
      BY DEF PrimedSeq, Durable
    <2>1. CheckpointTypeOK' /\ FallbackUnused'
      BY <2>0, <1>d DEF CheckpointTypeOK, FallbackUnused
    <2>2. wpc = "idle"
      BY DEF WriteInInactiveSlot, CheckpointTypeOK
    <2>3. Durable' = Durable /\ ~Undecided /\ ~Undecided'
      BY <2>1, <2>2, <1>d, <1>e DEF Undecided
    <2>4. WriteInInactiveSlot'
      BY <2>2 DEF WriteInInactiveSlot
    <2>5. SeqBounds'
      BY <2>0, <2>2, <2>3, <1>d DEF SeqBounds
    <2>6. QED
      BY <2>1, <2>2, <2>3, <2>4, <2>5, <1>d
  <1>7. ASSUME UNCHANGED fileVars PROVE Goal
    <2> USE <1>7 DEF fileVars
    <2>1. CheckpointTypeOK' /\ FallbackUnused'
      BY DEF CheckpointTypeOK, FallbackUnused
    <2>2. Durable' = Durable /\ (Undecided' <=> Undecided)
      BY <2>1, <1>d, <1>e DEF Undecided
    <2>3. WriteInInactiveSlot' /\ SeqBounds'
      BY <2>2 DEF WriteInInactiveSlot, SeqBounds
    <2>4. QED
      BY <2>1, <2>2, <2>3, <1>d
  <1>8. QED
    BY <1>1, <1>2, <1>3, <1>4, <1>5, <1>6, <1>7 DEF FileNext

\* The slot being written is never the one a restart would read, and the
\* sequence numbers bound one another.
THEOREM CheckpointInvariance == FileSpec => []CheckpointInv
  <1>1. CheckpointInv /\ [FileNext]_fileVars => CheckpointInv'
    BY FileStep
  <1>2. QED
    BY InvInit, <1>1, PTL DEF FileSpec

\* A checkpoint whose write() has returned is never lost.
THEOREM CheckpointNeverLost == FileSpec => []CheckpointSurvives
  <1>1. CheckpointInv => CheckpointSurvives
    BY DurableIs, RecordKinds, CheckpointBounds
       DEF CheckpointInv, SeqBounds, CheckpointSurvives, CheckpointTypeOK
  <1>2. QED
    BY <1>1, CheckpointInvariance, PTL

\* seq_ primed from read_valid() keeps the persisted sequence strictly ordered
\* over any number of restarts.
THEOREM SeqCorrect == FileSpec => SeqStrictlyOrdered
  <1>1. CheckpointInv /\ [FileNext]_fileVars =>
          [/\ Durable'.seq >= Durable.seq
           /\ wpc = "idle" /\ wpc' = "copy" => wrec'.seq > Durable.seq]_fileVars
    BY FileStep
  <1>2. QED
    BY <1>1, CheckpointInvariance, PTL DEF FileSpec, SeqStrictlyOrdered

\* The two slots and the pointer implement a durable register: every write
\* takes effect in one step or not at all, at whatever point a crash comes.
THEOREM CheckpointImplementsRegister == FileSpec => RegisterSpec
  <1>1. FileInit => Register!Init
    BY RecordKinds DEF FileInit, Register!Init, Durable, ReadValid, Undecided
  <1>2. CheckpointInv /\ [FileNext]_fileVars
          => [Register!Next]_<<Durable, IF Undecided THEN wrec ELSE Nothing>>
    BY FileStep
  <1>3. QED
    BY <1>1, <1>2, CheckpointInvariance, PTL DEF FileSpec, RegisterSpec, Register!Spec
=============================================================================
