------------------------------ MODULE Checkpoint ------------------------------
(***************************************************************************)
(* The A/B checkpoint file (hiom/checkpoint.hpp) and its writer's sequence *)
(* number (hiom.hpp, seq_).  write() copies the record into the slot that  *)
(* valid_pointer does not name, persists it, flips valid_pointer, persists *)
(* that.  Stores reach persistent memory when they are persisted, or       *)
(* earlier, when the cache evicts their line; the 64-byte record may reach *)
(* it in part, the 8-byte pointer may not.  A torn record fails its        *)
(* summary_hash.                                                           *)
(***************************************************************************)
EXTENDS Integers

CONSTANTS Payload,      \* what a checkpoint says (frontier, counters)
          MaxWrites,    \* bound: checkpoints written
          MaxFailures   \* bound: crashes of the process

ASSUME CheckpointBounds == MaxWrites \in Nat /\ MaxFailures \in Nat

SlotNames  == {"A", "B"}
kValidNone == "none"
Record     == [seq : 1 .. MaxWrites, data : Payload]
Nothing    == [seq |-> 0, data |-> "nothing"]     \* std::nullopt
Unverified == {[seq |-> 0, data |-> "zero"], [seq |-> 0, data |-> "torn"]}

VARIABLES
    slots,      \* persistent: a Record, or no magic, or torn
    vp_pm,      \* persistent: valid_pointer
    vp,         \* valid_pointer as the process sees it
    wpc, wrec,  \* write(): its control state and its record
    seq,        \* seq_, volatile
    up,         \* the process runs
    failures,
    returned    \* history: the last record whose write() returned

fileVars == <<slots, vp_pm, vp, wpc, wrec, seq, up, failures, returned>>

CheckpointTypeOK ==
    /\ slots \in [SlotNames -> Record \cup Unverified]
    /\ vp_pm \in SlotNames \cup {kValidNone}
    /\ vp \in SlotNames \cup {kValidNone}
    /\ wpc \in {"idle", "copy", "copied", "flipped"}
    /\ wrec \in Record \cup {Nothing}
    /\ wpc # "idle" => wrec \in Record
    /\ seq \in 0 .. MaxWrites
    /\ up \in BOOLEAN
    /\ failures \in 0 .. MaxFailures
    /\ returned \in Record \cup {Nothing}

(***************************************************************************)
(* read_valid: the slot valid_pointer names; if that one does not verify,  *)
(* the other.                                                              *)
(***************************************************************************)
ReadSlot(s) == IF slots[s] \in Record THEN slots[s] ELSE Nothing

Other(s) == IF s = "A" THEN "B" ELSE "A"

ReadValid(p) ==
    IF p = kValidNone THEN Nothing
    ELSE IF ReadSlot(p) # Nothing THEN ReadSlot(p)
    ELSE ReadSlot(Other(p))

(***************************************************************************)
(* create() zeroes the file and persists kValidNone.                       *)
(***************************************************************************)
FileInit ==
    /\ slots = [s \in SlotNames |-> [seq |-> 0, data |-> "zero"]]
    /\ vp_pm = kValidNone /\ vp = kValidNone
    /\ wpc = "idle" /\ wrec = Nothing
    /\ seq = 0
    /\ up = TRUE /\ failures = 0
    /\ returned = Nothing

(***************************************************************************)
(* write().                                                                *)
(***************************************************************************)
\* Mutant: the active slot is overwritten.
ActiveSlot(p) == IF p = "B" THEN "B" ELSE "A"

\* The inactive slot, and slot A for the first checkpoint.
TargetSlot(p) == IF p = "A" THEN "B" ELSE "A"

WriteBegin(v) ==
    /\ up /\ wpc = "idle"
    /\ seq < MaxWrites
    /\ seq' = seq + 1
    /\ wrec' = [seq |-> seq + 1, data |-> v]
    /\ wpc' = "copy"
    /\ UNCHANGED <<slots, vp_pm, vp, up, failures, returned>>

\* Part of the copied record is evicted to persistent memory.
EvictSlot ==
    /\ wpc = "copy"
    /\ slots' = [slots EXCEPT ![TargetSlot(vp)] = [seq |-> 0, data |-> "torn"]]
    /\ UNCHANGED <<vp_pm, vp, wpc, wrec, seq, up, failures, returned>>

PersistSlot ==
    /\ wpc = "copy"
    /\ slots' = [slots EXCEPT ![TargetSlot(vp)] = wrec]
    /\ wpc' = "copied"
    /\ UNCHANGED <<vp_pm, vp, wrec, seq, up, failures, returned>>

FlipPointer ==
    /\ wpc = "copied"
    /\ vp' = TargetSlot(vp)
    /\ wpc' = "flipped"
    /\ UNCHANGED <<slots, vp_pm, wrec, seq, up, failures, returned>>

EvictPointer ==
    /\ wpc = "flipped"
    /\ vp_pm' = vp
    /\ UNCHANGED <<slots, vp, wpc, wrec, seq, up, failures, returned>>

\* Mutant: write() returns with the flipped pointer still in the cache.
ReturnUnflushed ==
    /\ wpc = "flipped"
    /\ wpc' = "idle"
    /\ returned' = wrec
    /\ wrec' = Nothing
    /\ UNCHANGED <<slots, vp_pm, vp, seq, up, failures>>

PersistPointer ==
    /\ wpc = "flipped"
    /\ vp_pm' = vp
    /\ wpc' = "idle"
    /\ returned' = wrec
    /\ wrec' = Nothing
    /\ UNCHANGED <<slots, vp, seq, up, failures>>

(***************************************************************************)
(* A crash, and the constructor that primes seq_ from read_valid.          *)
(***************************************************************************)
PowerFails ==
    /\ up /\ failures < MaxFailures
    /\ up' = FALSE /\ failures' = failures + 1
    /\ wpc' = "idle" /\ wrec' = Nothing
    /\ UNCHANGED <<slots, vp_pm, vp, seq, returned>>

\* Mutant: seq_ starts from zero in every process.
PrimedFromZero == 0

PrimedSeq == ReadValid(vp_pm).seq

Reopen ==
    /\ ~up
    /\ up' = TRUE
    /\ vp' = vp_pm
    /\ seq' = PrimedSeq
    /\ UNCHANGED <<slots, vp_pm, wpc, wrec, failures, returned>>

FileNext ==
    \/ \E v \in Payload : WriteBegin(v)
    \/ EvictSlot \/ PersistSlot \/ FlipPointer \/ EvictPointer \/ PersistPointer
    \/ PowerFails \/ Reopen

FileSpec == FileInit /\ [][FileNext]_fileVars

(***************************************************************************)
(* Properties.                                                             *)
(***************************************************************************)

\* What a process started now would find (checkpoint.hpp:176).
Durable == ReadValid(vp_pm)

\* A checkpoint whose write() returned is never lost: whatever is torn or
\* not yet persisted, read_valid finds it or a later one.
CheckpointSurvives == Durable.seq >= returned.seq

\* read_valid never falls back: the slot that the persisted pointer names
\* always verifies, so a torn record is never the indicated one.
FallbackUnused == vp_pm \in SlotNames => slots[vp_pm] \in Record

\* The recovered sequence number never goes back, and a new record always
\* gets a sequence number above the one a restart would read
\* (hiom.hpp:330, "strictly orders after the last persisted one").
SeqStrictlyOrdered ==
    [][/\ Durable'.seq >= Durable.seq
       /\ wpc = "idle" /\ wpc' = "copy" => wrec'.seq > Durable.seq]_fileVars

(***************************************************************************)
(* The file implements the register: the write takes effect when the       *)
(* flipped pointer reaches persistent memory.                              *)
(***************************************************************************)
Undecided ==
    \/ wpc \in {"copy", "copied"}
    \/ wpc = "flipped" /\ vp_pm # vp

Register == INSTANCE DurableRegister WITH
                Value    <- Record,
                NoValue  <- Nothing,
                value    <- Durable,
                proposal <- IF Undecided THEN wrec ELSE Nothing

\* Every behaviour of the file is one of the register.
RegisterSpec == Register!Spec

(***************************************************************************)
(* The inductive invariant of the proofs: while a record is being written  *)
(* the pointer on persistent memory names the other slot.                  *)
(***************************************************************************)
WriteInInactiveSlot ==
    /\ wpc \in {"idle", "copy", "copied"} /\ up => vp_pm = vp
    /\ wpc = "copied" => slots[TargetSlot(vp)] = wrec
    /\ wpc = "flipped" =>
          /\ vp \in SlotNames /\ slots[vp] = wrec
          /\ vp_pm = vp \/ vp_pm = kValidNone \/ vp = TargetSlot(vp_pm)
    /\ wpc # "idle" => up

SeqBounds ==
    /\ returned.seq <= Durable.seq
    /\ up => Durable.seq <= seq
    /\ wpc # "idle" => wrec.seq = seq
    /\ Undecided => Durable.seq < wrec.seq

\* The record being written is never the one a restart would read
\* (checkpoint.hpp, write and read_valid), with the types and the order of the
\* sequence numbers that the induction needs.
CheckpointInv ==
    CheckpointTypeOK /\ FallbackUnused /\ WriteInInactiveSlot /\ SeqBounds
=============================================================================
