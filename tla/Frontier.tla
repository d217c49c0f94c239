------------------------------- MODULE Frontier -------------------------------
(***************************************************************************)
(* The durable checkpoint frontier of HiOM (hiom.hpp) over Viper's block   *)
(* allocator (viper.hpp).                                                  *)
(*                                                                         *)
(* A put makes its record durable in a VPage block first; the index        *)
(* (ColdTier) learns of it later, when a flusher applies the commit        *)
(* buffer.  A checkpoint publishes a block number, the frontier, below     *)
(* which the index needs no repair: after a crash only the blocks          *)
(* [frontier - 1, num_used_blocks) are replayed into ColdTier.  The        *)
(* frontier is the minimum of three snapshots that are read one word at a  *)
(* time while the clients and flushers run.                                *)
(*                                                                         *)
(* One step per shared-memory access.  A record is <<block, n>>: the n-th  *)
(* put into the block (keys, values and slots do not matter here).         *)
(***************************************************************************)
EXTENDS Integers, FiniteSets

CONSTANTS
    Clients,     \* HiOM::Client objects; each is created at most once
    NumSlots,    \* kMaxClientSlots
    Flushers,    \* flusher threads, one commit-buffer partition each
    kWindow,     \* slots of the pending ring
    MaxBlock,    \* bound: blocks of the pool
    MaxPuts,     \* bound: puts into one block
    MaxFrees,    \* bound: records freed by overwrites and removes
    MaxCrashes   \* bound: crashes of one behaviour

ASSUME NumSlotsAssumption == NumSlots \in Nat \ {0}
ASSUME WindowAssumption   == kWindow \in Nat \ {0}
ASSUME BoundsAssumption   == /\ MaxBlock \in Nat /\ MaxPuts \in Nat
                             /\ MaxFrees \in Nat /\ MaxCrashes \in Nat

Blocks         == 0 .. MaxBlock - 1
Records        == Blocks \X (1 .. MaxPuts)
Slots          == 0 .. NumSlots - 1
RingSlots      == 0 .. kWindow - 1
kNoActiveBlock == MaxBlock + 1          \* above every block number
Entries        == [op : {"kPut", "kRemove"}, off : Records]

VARIABLES
    \* Persistent memory.
    live,             \* records whose free_slots bit says occupied
    cold,             \* records ColdTier points at
    num_used_blocks,  \* ViperFileMetadata high-water mark
    frontier,         \* vpage_frontier of the valid CheckpointRecord
    \* Viper, volatile.
    current_block,    \* block number of current_block_page_
    \* Clients, volatile.
    pc, block, slot,  \* control, v_block_number_, slot_idx_
    rec,              \* the record the operation in progress is about
    \* HiOM, volatile.
    active, last_block, inflight_block,    \* client_slots_
    pending,                               \* the tagged-slot ring
    commit_buf, fpc, batch,                \* lanes and the flushers' batches
    ck_pc, ck_i, ck_min,                   \* try_write_checkpoint in progress
    \* The process and its history.
    mode, todo, crashes,
    owner,            \* the client that claimed a block
    puts,             \* puts into a block so far
    published,        \* clients that have stored an inflight_block
    blind, ck_blind,  \* clients the checkpoint (in progress) could not see
    old,              \* the checkpoint is from before the last crash
    lost              \* live records a recovery left out of ColdTier

pmVars     == <<live, cold, num_used_blocks, frontier>>
clientVars == <<pc, block, slot, rec>>
slotVars   == <<active, last_block, inflight_block>>
flushVars  == <<commit_buf, fpc, batch>>
ckVars     == <<ck_pc, ck_i, ck_min, ck_blind>>
runVars    == <<mode, todo, crashes>>
ghostVars  == <<owner, puts, published, blind, old, lost>>
vars == <<pmVars, current_block, clientVars, slotVars, pending, flushVars,
          ckVars, runVars, ghostVars>>

MaxOf(a, b) == IF a >= b THEN a ELSE b
MinOf(a, b) == IF a <= b THEN a ELSE b

(***************************************************************************)
(* Types.                                                                  *)
(***************************************************************************)
ClientPCs == {"none", "claimed", "attached", "reserved", "reset", "idle",
              "put", "grow", "written", "freed", "noted", "registered",
              "removed", "gone"}

\* The steps of try_write_checkpoint in which the slots or viper_next are
\* still to be read.
ScanPCs == {"active", "last", "inflight", "next"}

\* Control states in which the client owns a block, holds a client slot, and
\* is about a record.
HasBlock  == ClientPCs \ {"none", "gone"}
HasSlot   == HasBlock \ {"claimed", "attached"}
HasRecord == {"written", "freed", "noted", "registered", "removed"}

TypePM ==
    /\ live \subseteq Records
    /\ cold \subseteq Records
    /\ num_used_blocks \in 0 .. MaxBlock
    /\ current_block \in 0 .. MaxBlock
    /\ frontier \in 0 .. kNoActiveBlock

TypeClients ==
    /\ pc \in [Clients -> ClientPCs]
    /\ block \in [Clients -> Blocks \cup {kNoActiveBlock}]
    /\ \A c \in Clients : pc[c] \in HasBlock => block[c] \in Blocks
    /\ slot \in [Clients -> Slots]
    /\ rec \in [Clients -> Records \cup {<<>>}]
    /\ \A c \in Clients : pc[c] \in HasRecord => rec[c] \in Records

TypeSlots ==
    /\ active \in [Slots -> BOOLEAN]
    /\ last_block \in [Slots -> Blocks \cup {kNoActiveBlock}]
    /\ inflight_block \in [Slots -> Blocks \cup {kNoActiveBlock}]

TypeFlush ==
    /\ pending \in [RingSlots -> [block : Nat, count : Nat]]
    /\ commit_buf \in [Flushers -> SUBSET Entries]
    /\ batch \in [Flushers -> SUBSET Entries]
    /\ fpc \in [Flushers -> {"idle", "apply", "retire"}]

TypeCk ==
    /\ ck_pc \in {"idle", "ring", "write"} \cup ScanPCs
    /\ ck_i \in Nat
    /\ ck_pc \in {"active", "last", "inflight"} => ck_i \in Slots
    /\ ck_pc = "ring" => ck_i \in RingSlots
    /\ ck_min \in 0 .. kNoActiveBlock
    /\ ck_blind \subseteq Clients

TypeRun ==
    /\ mode \in {"up", "recovering"}
    /\ todo \subseteq Blocks
    /\ crashes \in 0 .. MaxCrashes
    /\ owner \in [Blocks -> Clients \cup {"nobody"}]
    /\ puts \in [Blocks -> 0 .. MaxPuts]
    /\ published \subseteq Clients
    /\ blind \subseteq Clients
    /\ old \in BOOLEAN
    /\ lost \subseteq Records

\* Block numbers stay in the pool and the checkpoint's walk stays inside
\* client_slots_ and the ring (hiom.hpp, min_active_writer_block and
\* earliest_pending_block).
TypeOK == /\ TypePM /\ TypeClients /\ TypeSlots /\ TypeFlush /\ TypeCk
          /\ TypeRun

(***************************************************************************)
(* A new pool, opened for the first time.                                  *)
(***************************************************************************)
NoBlocks    == [i \in Slots |-> kNoActiveBlock]
EmptyRing   == [i \in RingSlots |-> [block |-> 0, count |-> 0]]
NoEntries   == [f \in Flushers |-> {}]

Init ==
    /\ live = {} /\ cold = {}
    /\ num_used_blocks = 0
    /\ frontier = 0
    /\ current_block = 0
    /\ pc = [c \in Clients |-> "none"]
    /\ slot = [c \in Clients |-> 0]
    /\ block = [c \in Clients |-> kNoActiveBlock]
    /\ rec = [c \in Clients |-> <<>>]
    /\ active = [i \in Slots |-> FALSE]
    /\ last_block = NoBlocks /\ inflight_block = NoBlocks
    /\ pending = EmptyRing
    /\ commit_buf = NoEntries /\ batch = NoEntries
    /\ fpc = [f \in Flushers |-> "idle"]
    /\ ck_pc = "idle" /\ ck_i = 0 /\ ck_min = kNoActiveBlock /\ ck_blind = {}
    /\ mode = "up" /\ todo = {} /\ crashes = 0
    /\ owner = [b \in Blocks |-> "nobody"]
    /\ puts = [b \in Blocks |-> 0]
    /\ published = {} /\ blind = {} /\ old = FALSE
    /\ lost = {}

At(c, l) == mode = "up" /\ pc[c] = l
Goto(c, l) == pc' = [pc EXCEPT ![c] = l]
OperationDone(c) == Goto(c, "idle") /\ rec' = [rec EXCEPT ![c] = <<>>]

(***************************************************************************)
(* Viper's block allocator.  get_new_block hands out block numbers with a  *)
(* CAS on current_block_page_; the high-water mark that recovery reads as  *)
(* its ceiling is raised and persisted in a later step.                    *)
(***************************************************************************)
GetNewBlock(c) ==
    /\ current_block < MaxBlock
    /\ block' = [block EXCEPT ![c] = current_block]
    /\ current_block' = current_block + 1
    /\ owner' = [owner EXCEPT ![current_block] = c]

\* Mutant: a plain store, so that a late claimant of a lower block lowers it.
RaiseHighWaterMarkByStore(c) ==
    num_used_blocks' = block[c] + 1

RaiseHighWaterMark(c) ==
    num_used_blocks' = MaxOf(num_used_blocks, block[c] + 1)

(***************************************************************************)
(* HiOM::get_client: Viper's client claims its first block, then a slot of *)
(* client_slots_ is taken and its two block fields reset.  With no slot    *)
(* free the process aborts, which is a Crash.                              *)
(***************************************************************************)
\* A client is blind to a checkpoint when its block is claimed but no
\* inflight_block was ever published for it by the time the slots are read,
\* or when its block was handed out a second time, below the frontier, after
\* a crash that forgot the first claim.
MarkBlind(c) ==
    /\ ck_blind' = IF ck_pc \in ScanPCs THEN ck_blind \cup {c} ELSE ck_blind
    /\ blind' = IF old /\ current_block < frontier THEN blind \cup {c} ELSE blind

ClaimFirstBlock(c) ==
    /\ At(c, "none")
    /\ GetNewBlock(c)
    /\ MarkBlind(c)
    /\ Goto(c, "claimed")
    /\ UNCHANGED <<pmVars, slot, rec, slotVars, pending, flushVars, ck_pc, ck_i,
                   ck_min, runVars, puts, published, old, lost>>

PersistFirstBlock(c) ==
    /\ At(c, "claimed")
    /\ RaiseHighWaterMark(c)
    /\ Goto(c, "attached")
    /\ UNCHANGED <<live, cold, frontier, current_block, block, slot, rec,
                   slotVars, pending, flushVars, ckVars, runVars, ghostVars>>

ReserveSlot(c, i) ==
    /\ At(c, "attached")
    /\ ~active[i]
    /\ active' = [active EXCEPT ![i] = TRUE]
    /\ slot' = [slot EXCEPT ![c] = i]
    /\ Goto(c, "reserved")
    /\ UNCHANGED <<pmVars, current_block, block, rec, last_block,
                   inflight_block, pending, flushVars, ckVars, runVars, ghostVars>>

ResetLastBlock(c) ==
    /\ At(c, "reserved")
    /\ last_block' = [last_block EXCEPT ![slot[c]] = kNoActiveBlock]
    /\ Goto(c, "reset")
    /\ UNCHANGED <<pmVars, current_block, block, slot, rec, active,
                   inflight_block, pending, flushVars, ckVars, runVars, ghostVars>>

ResetInflightBlock(c) ==
    /\ At(c, "reset")
    /\ inflight_block' = [inflight_block EXCEPT ![slot[c]] = kNoActiveBlock]
    /\ Goto(c, "idle")
    /\ UNCHANGED <<pmVars, current_block, block, slot, rec, active, last_block,
                   pending, flushVars, ckVars, runVars, ghostVars>>

ReleaseSlot(c) ==
    /\ At(c, "idle")
    /\ active' = [active EXCEPT ![slot[c]] = FALSE]
    /\ Goto(c, "gone")
    /\ UNCHANGED <<pmVars, current_block, block, slot, rec, last_block,
                   inflight_block, pending, flushVars, ckVars, runVars, ghostVars>>

(***************************************************************************)
(* Client::put.                                                            *)
(***************************************************************************)
NoteInflightBlock(c) ==
    /\ At(c, "idle")
    /\ inflight_block' = [inflight_block EXCEPT ![slot[c]] = block[c]]
    /\ published' = published \cup {c}
    /\ Goto(c, "put")
    /\ UNCHANGED <<pmVars, current_block, block, slot, rec, active, last_block,
                   pending, flushVars, ckVars, runVars, owner, puts,
                   blind, old, lost>>

\* The client's page is full and it was the last one of its block.
ClaimNextBlock(c) ==
    /\ At(c, "put")
    /\ GetNewBlock(c)
    /\ Goto(c, "grow")
    /\ UNCHANGED <<pmVars, slot, rec, slotVars, pending, flushVars, ckVars,
                   runVars, puts, published, blind, old, lost>>

PersistNextBlock(c) ==
    /\ At(c, "grow")
    /\ RaiseHighWaterMark(c)
    /\ Goto(c, "put")
    /\ UNCHANGED <<live, cold, frontier, current_block, block, slot, rec,
                   slotVars, pending, flushVars, ckVars, runVars, ghostVars>>

\* Entry, then free_slots bit, both persisted: from here on the record
\* survives a crash.
WriteRecord(c) ==
    LET b == block[c] IN
    /\ At(c, "put")
    /\ puts[b] < MaxPuts
    /\ puts' = [puts EXCEPT ![b] = @ + 1]
    /\ rec' = [rec EXCEPT ![c] = <<b, puts[b] + 1>>]
    /\ live' = live \cup {<<b, puts[b] + 1>>}
    /\ Goto(c, "written")
    /\ UNCHANGED <<cold, num_used_blocks, frontier, current_block, block, slot,
                   slotVars, pending, flushVars, ckVars, runVars, owner,
                   published, blind, old, lost>>

\* Records that were written and are occupied no more, kept below MaxFrees.
Freed == {r \in Records : r[2] <= puts[r[1]]} \ live

MayFree == Cardinality(Freed) < MaxFrees

\* The put overwrote a key: free_occupied_slot frees its previous record r.
FreeOldRecord(c, r) ==
    /\ At(c, "written")
    /\ r \in live \ {rec[c]} /\ MayFree
    /\ live' = live \ {r}
    /\ Goto(c, "freed")
    /\ UNCHANGED <<cold, num_used_blocks, frontier, current_block, block, slot,
                   rec, slotVars, pending, flushVars, ckVars, runVars, ghostVars>>

NoteClientBlock(c) ==
    /\ At(c, "written") \/ At(c, "freed")
    /\ last_block' = [last_block EXCEPT ![slot[c]] = rec[c][1]]
    /\ Goto(c, "noted")
    /\ UNCHANGED <<pmVars, current_block, block, slot, rec, active,
                   inflight_block, pending, flushVars, ckVars, runVars, ghostVars>>

\* The CAS loop of pending_register: a free slot is claimed, a slot of the
\* same block counts up, and while the slot is tagged by another block the
\* producer waits (a wait beyond kPendingStallTimeoutNs aborts: a Crash).
RingSlot(b) == b % kWindow

\* A slot is one word: the block's tag and the count change in one CAS.
Tagged(b, n) == [block |-> b, count |-> n]

\* Mutant: on a collision the producer takes the slot over instead of waiting.
PendingRegisterNoWait(c) ==
    LET b == rec[c][1]
        i == RingSlot(b)
    IN  /\ At(c, "noted")
        /\ pending' = [pending EXCEPT ![i] =
               Tagged(b, IF pending[i].block = b THEN pending[i].count + 1 ELSE 1)]
        /\ Goto(c, "registered")
        /\ UNCHANGED <<pmVars, current_block, block, slot, rec, slotVars,
                       flushVars, ckVars, runVars, ghostVars>>

PendingRegister(c) ==
    LET b == rec[c][1]
        i == RingSlot(b)
    IN  /\ At(c, "noted")
        /\ \/ /\ pending[i].count = 0
              /\ pending' = [pending EXCEPT ![i] = Tagged(b, 1)]
           \/ /\ pending[i].count > 0
              /\ pending[i].block = b
              /\ pending' = [pending EXCEPT ![i] = Tagged(b, pending[i].count + 1)]
        /\ Goto(c, "registered")
        /\ UNCHANGED <<pmVars, current_block, block, slot, rec, slotVars,
                       flushVars, ckVars, runVars, ghostVars>>

PushPut(c, f) ==
    /\ At(c, "registered")
    /\ commit_buf' = [commit_buf EXCEPT ![f] = @ \cup {[op |-> "kPut", off |-> rec[c]]}]
    /\ OperationDone(c)
    /\ UNCHANGED <<pmVars, current_block, block, slot, slotVars, pending,
                   fpc, batch, ckVars, runVars, ghostVars>>

(***************************************************************************)
(* Client::remove: Viper frees the record, then a kRemove entry, which no  *)
(* pending slot counts, follows the key's puts through the buffer.  A      *)
(* kRemove takes the key out of ColdTier; it is modelled by the record it  *)
(* freed, so a remove that overlaps a put of the same key is out of scope. *)
(***************************************************************************)
RemoveRecord(c, r) ==
    /\ At(c, "idle")
    /\ r \in live /\ MayFree
    /\ live' = live \ {r}
    /\ rec' = [rec EXCEPT ![c] = r]
    /\ Goto(c, "removed")
    /\ UNCHANGED <<cold, num_used_blocks, frontier, current_block, block, slot,
                   slotVars, pending, flushVars, ckVars, runVars, ghostVars>>

PushRemove(c, f) ==
    /\ At(c, "removed")
    /\ commit_buf' = [commit_buf EXCEPT ![f] = @ \cup {[op |-> "kRemove", off |-> rec[c]]}]
    /\ OperationDone(c)
    /\ UNCHANGED <<pmVars, current_block, block, slot, slotVars, pending,
                   fpc, batch, ckVars, runVars, ghostVars>>

(***************************************************************************)
(* The flusher: drain its lanes, apply the batch to ColdTier, and only     *)
(* then retire the batch's puts from the ring, winners and losers alike.   *)
(***************************************************************************)
\* D is what the flusher finds in the next of its lanes.
DrainLane(f, D) ==
    /\ mode = "up" /\ fpc[f] = "idle"
    /\ D # {}
    /\ batch' = [batch EXCEPT ![f] = D]
    /\ commit_buf' = [commit_buf EXCEPT ![f] = @ \ D]
    /\ fpc' = [fpc EXCEPT ![f] = "apply"]
    /\ UNCHANGED <<pmVars, current_block, clientVars, slotVars, pending, ckVars,
                   runVars, ghostVars>>

\* A put whose record is no longer alive loses and reaches ColdTier never.
PutWinners(B) == {r \in live : [op |-> "kPut", off |-> r] \in B}
Removed(B)    == {r \in Records : [op |-> "kRemove", off |-> r] \in B}

ApplyBatch(f) ==
    /\ mode = "up" /\ fpc[f] = "apply"
    /\ cold' = (cold \cup PutWinners(batch[f])) \ Removed(batch[f])
    /\ fpc' = [fpc EXCEPT ![f] = "retire"]
    /\ UNCHANGED <<live, num_used_blocks, frontier, current_block, clientVars,
                   slotVars, pending, commit_buf, batch, ckVars, runVars, ghostVars>>

\* pending_retire; the code aborts unless RetireMatches, see RetireNeverFatal.
RetireMatches(e) ==
    LET i == RingSlot(e.off[1])
    IN  pending[i].block = e.off[1] /\ pending[i].count > 0

\* Mutant: the retire is forgotten.
PendingRetireForgotten(b) == UNCHANGED pending

PendingRetire(b) ==
    LET i == RingSlot(b) IN
    pending' = [pending EXCEPT ![i] = Tagged(b, pending[i].count - 1)]

\* Mutant: only winners are retired.
RetireWinner(f, e) ==
    /\ mode = "up" /\ fpc[f] = "retire"
    /\ e \in batch[f]
    /\ IF e.op = "kPut" /\ e.off \in live
       THEN RetireMatches(e) /\ PendingRetire(e.off[1])
       ELSE UNCHANGED pending
    /\ batch' = [batch EXCEPT ![f] = @ \ {e}]
    /\ fpc' = [fpc EXCEPT ![f] = IF batch[f] = {e} THEN "idle" ELSE "retire"]
    /\ UNCHANGED <<pmVars, current_block, clientVars, slotVars, commit_buf, ckVars,
                   runVars, ghostVars>>

RetireEntry(f, e) ==
    /\ mode = "up" /\ fpc[f] = "retire"
    /\ e \in batch[f]
    /\ IF e.op = "kPut" THEN RetireMatches(e) /\ PendingRetire(e.off[1])
                        ELSE UNCHANGED pending
    /\ batch' = [batch EXCEPT ![f] = @ \ {e}]
    /\ fpc' = [fpc EXCEPT ![f] = IF batch[f] = {e} THEN "idle" ELSE "retire"]
    /\ UNCHANGED <<pmVars, current_block, clientVars, slotVars, commit_buf, ckVars,
                   runVars, ghostVars>>

(***************************************************************************)
(* try_write_checkpoint, under checkpoint_mu_: the client slots first, one *)
(* load at a time, then viper_next, then the ring slot by slot, then the   *)
(* write (atomic: module Checkpoint).  A flusher runs it at a cadence      *)
(* boundary and force_checkpoint at any time, so it may start at any time. *)
(***************************************************************************)
Unpublished == {c \in Clients : pc[c] \notin {"none", "gone"}} \ published

CkGoto(l, i) == mode = "up" /\ ck_pc' = l /\ ck_i' = i

CkBegin ==
    /\ ck_pc = "idle"
    /\ CkGoto("active", 0)
    /\ ck_min' = kNoActiveBlock
    /\ ck_blind' = Unpublished

AfterSlot(i) == IF i + 1 = NumSlots THEN "next" ELSE "active"

CkLoadActive ==
    /\ ck_pc = "active"
    /\ IF active[ck_i] THEN CkGoto("last", ck_i)
                       ELSE CkGoto(AfterSlot(ck_i), ck_i + 1)
    /\ UNCHANGED <<ck_min, ck_blind>>

CkLoadLast ==
    /\ ck_pc = "last"
    /\ CkGoto("inflight", ck_i)
    /\ ck_min' = MinOf(ck_min, last_block[ck_i])
    /\ UNCHANGED ck_blind

CkLoadInflight ==
    /\ ck_pc = "inflight"
    /\ CkGoto(AfterSlot(ck_i), ck_i + 1)
    /\ ck_min' = MinOf(ck_min, inflight_block[ck_i])
    /\ UNCHANGED ck_blind

\* Mutant: the frontier of writer positions alone, without the ring.
CkLoadNextOnly ==
    /\ ck_pc = "next"
    /\ CkGoto("write", 0)
    /\ ck_min' = MinOf(ck_min, current_block)
    /\ UNCHANGED ck_blind

CkLoadNext ==
    /\ ck_pc = "next"
    /\ CkGoto("ring", 0)
    /\ ck_min' = MinOf(ck_min, current_block)
    /\ UNCHANGED ck_blind

CkLoadRing ==
    /\ ck_pc = "ring"
    /\ CkGoto(IF ck_i + 1 = kWindow THEN "write" ELSE "ring", ck_i + 1)
    /\ ck_min' = IF pending[ck_i].count > 0
                 THEN MinOf(ck_min, pending[ck_i].block) ELSE ck_min
    /\ UNCHANGED ck_blind

CkRead ==
    /\ \/ CkBegin \/ CkLoadActive \/ CkLoadLast \/ CkLoadInflight
       \/ CkLoadNext \/ CkLoadRing
    /\ UNCHANGED <<pmVars, current_block, clientVars, slotVars, pending,
                   flushVars, runVars, ghostVars>>

CkWrite ==
    /\ ck_pc = "write"
    /\ CkGoto("idle", 0)
    /\ frontier' = ck_min
    /\ blind' = ck_blind
    /\ old' = FALSE
    /\ ck_min' = kNoActiveBlock
    /\ ck_blind' = {}
    /\ UNCHANGED <<live, cold, num_used_blocks, current_block, clientVars,
                   slotVars, pending, flushVars, runVars, owner, puts, published,
                   lost>>

(***************************************************************************)
(* The process dies at any point (SIGKILL, power loss, one of the code's   *)
(* aborts) and is started again: the volatile state is gone, Viper takes   *)
(* current_block_page_ from num_used_blocks, and the HiOM constructor      *)
(* replays the tail, block by block in any order (parallel workers),       *)
(* before the first client exists.                                         *)
(***************************************************************************)
StartBlock == IF frontier > 0 THEN frontier - 1 ELSE 0

\* Mutant: the last used block is left out.
TailBlocksShort == {b \in Blocks : StartBlock <= b /\ b < num_used_blocks - 1}

TailBlocks == {b \in Blocks : StartBlock <= b /\ b < num_used_blocks}

Crash ==
    /\ crashes < MaxCrashes
    /\ crashes' = crashes + 1
    /\ mode' = "recovering"
    /\ todo' = TailBlocks
    /\ current_block' = num_used_blocks
    /\ old' = TRUE
    /\ pc' = [c \in Clients |-> IF pc[c] = "none" THEN "none" ELSE "gone"]
    /\ slot' = [c \in Clients |-> 0]
    /\ block' = [c \in Clients |-> kNoActiveBlock]
    /\ rec' = [c \in Clients |-> <<>>]
    /\ active' = [i \in Slots |-> FALSE]
    /\ last_block' = NoBlocks /\ inflight_block' = NoBlocks
    /\ pending' = EmptyRing
    /\ commit_buf' = NoEntries /\ batch' = NoEntries
    /\ fpc' = [f \in Flushers |-> "idle"]
    /\ ck_pc' = "idle" /\ ck_i' = 0 /\ ck_min' = kNoActiveBlock /\ ck_blind' = {}
    /\ UNCHANGED <<live, cold, num_used_blocks, frontier, owner, puts, published,
                   blind, lost>>

ReplayBlock(b) ==
    /\ mode = "recovering"
    /\ b \in todo
    /\ todo' = todo \ {b}
    /\ cold' = cold \cup {r \in live : r[1] = b}
    /\ UNCHANGED <<live, num_used_blocks, frontier, current_block, clientVars,
                   slotVars, pending, flushVars, ckVars, mode, crashes, ghostVars>>

RecoveryDone ==
    /\ mode = "recovering"
    /\ todo = {}
    /\ mode' = "up"
    /\ lost' = lost \cup (live \ cold)
    /\ UNCHANGED <<pmVars, current_block, clientVars, slotVars, pending,
                   flushVars, ckVars, todo, crashes, owner, puts, published, blind, old>>

(***************************************************************************)
(* The specification.                                                      *)
(***************************************************************************)
GetClient(c) ==
    \/ ClaimFirstBlock(c) \/ PersistFirstBlock(c)
    \/ \E i \in Slots : ReserveSlot(c, i)
    \/ ResetLastBlock(c) \/ ResetInflightBlock(c)

PutStep(c) ==
    \/ ClaimNextBlock(c) \/ PersistNextBlock(c) \/ WriteRecord(c)
    \/ \E r \in Records : FreeOldRecord(c, r)
    \/ NoteClientBlock(c) \/ PendingRegister(c)
    \/ \E f \in Flushers : PushPut(c, f)

RemoveStep(c) ==
    \/ \E r \in Records : RemoveRecord(c, r)
    \/ \E f \in Flushers : PushRemove(c, f)

FlusherStep(f) ==
    \/ \E D \in SUBSET commit_buf[f] : DrainLane(f, D)
    \/ ApplyBatch(f)
    \/ \E e \in batch[f] : RetireEntry(f, e)

Recovery == (\E b \in Blocks : ReplayBlock(b)) \/ RecoveryDone

Next ==
    \/ \E c \in Clients : \/ GetClient(c) \/ NoteInflightBlock(c)
                          \/ PutStep(c) \/ RemoveStep(c) \/ ReleaseSlot(c)
    \/ \E f \in Flushers : FlusherStep(f)
    \/ CkRead \/ CkWrite
    \/ Crash \/ Recovery

Spec == Init /\ [][Next]_vars

(***************************************************************************)
(* Properties.                                                             *)
(***************************************************************************)

\* The frontier is durable (hiom.hpp:2219): every live record in a block
\* below the checkpoint's frontier is in ColdTier already, whatever the
\* interleaving of the word-by-word snapshot with puts, frees, flushes, slot
\* reuse and crashes.  Two kinds of records are outside what the protocol
\* covers: those of a client that was blind to the checkpoint (see MarkBlind),
\* and those an earlier recovery lost for the same reason.
FrontierDurable ==
    \A r \in live \ lost :
        r[1] < frontier /\ owner[r[1]] \notin blind
            => r \in cold

\* Replaying [frontier - 1, num_used_blocks) is enough: when the tail has been
\* replayed, no live record of a client the checkpoint could see is missing
\* from ColdTier (recover_tail_into_cold).
RecoveryComplete ==
    mode = "recovering" /\ todo = {} =>
        \A r \in live \ lost :
            owner[r[1]] \notin blind => r \in cold

\* A crash now would lose no acknowledged record: every live record whose put
\* has returned is in ColdTier or in the tail that recovery replays, with no
\* exception for blind clients (hiom.hpp:1785, hiom.hpp:2219).
AckedRecordsSurvive ==
    mode = "up" =>
        \A r \in live \ lost :
            (\A c \in Clients : rec[c] # r) => r \in cold \/ r[1] \in TailBlocks

\* The scan ceiling covers every record (viper.hpp:1668): whatever the order
\* in which concurrent claimants raise the high-water mark, a record is
\* durable only in a block below it.
CeilingCoversRecords == \A r \in live : r[1] < num_used_blocks

\* The puts of block b that are registered in the ring and not yet retired:
\* about to be pushed, in a lane, or in a flusher's batch.
Registered(b) ==
    {r \in Records :
        /\ r[1] = b
        /\ \/ \E c \in Clients : pc[c] = "registered" /\ rec[c] = r
           \/ \E f \in Flushers :
                 [op |-> "kPut", off |-> r] \in commit_buf[f] \cup batch[f]}

\* The ring is an exact multiset (hiom.hpp:1455): a slot counts the
\* registered, unretired puts of the block in its tag, and of no other block
\* with the same residue; nothing registered is uncounted, nothing retired is
\* still counted (a leaked count would pin the frontier for good).
PendingExact ==
    \A b \in Blocks :
        LET s == pending[RingSlot(b)] IN
        Cardinality(Registered(b)) = IF s.block = b THEN s.count ELSE 0

\* pending_retire never takes its abort branch (hiom.hpp:1654): the slot of a
\* batched put carries that put's block and a positive count.
RetireNeverFatal ==
    \A f \in Flushers : \A e \in batch[f] :
        e.op = "kPut" => RetireMatches(e)

(***************************************************************************)
(* Liveness.  A client inside put and a flusher with work keep running     *)
(* (no lock is held across their steps, the flusher's timer re-arms every  *)
(* interval); nothing forces a client to start an operation, a checkpoint  *)
(* to be taken, or the process to crash.                                   *)
(***************************************************************************)
Fairness ==
    /\ \A c \in Clients : /\ WF_vars(NoteClientBlock(c))
                          /\ WF_vars(PendingRegister(c))
                          /\ WF_vars(\E f \in Flushers : PushPut(c, f))
    /\ \A f \in Flushers : WF_vars(FlusherStep(f))

FairSpec == Spec /\ Fairness

\* Backpressure ends (hiom.hpp:1585): a producer whose ring slot is held by
\* an older block gets past pending_register (or the process dies).
BackpressureEnds ==
    \A c \in Clients : pc[c] = "noted" ~> pc[c] # "noted"

=============================================================================
