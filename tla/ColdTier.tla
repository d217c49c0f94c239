------------------------------ MODULE ColdTier ------------------------------
(***************************************************************************)
(* One region of the PM-resident offset index (hiom/cold_tier.hpp): main   *)
(* buckets, a bump-allocated pool of overflow buckets chained behind them, *)
(* and the header word of every bucket, whose occupancy bits are the sole  *)
(* authority on which entries are visible.  Regions share nothing, so one  *)
(* stands for all of them.                                                 *)
(*                                                                         *)
(* Every writer (upsert, bulk_upsert, remove) holds region_mus_[rid] from  *)
(* its first read to its return: pc and op are the writer that holds it.   *)
(* Each of its stores and each of its fences is a step of its own, because *)
(* lookup takes no lock and the power may fail between any two of them.    *)
(*                                                                         *)
(* Memory is kept twice.  `mem' is what loads return; `pm' is what the     *)
(* media hold.  A persist copies the words it covers; a cache line may     *)
(* also be evicted at any time (WriteBack, word by word: the persistence   *)
(* unit the code relies on is the aligned 8-byte store).  PowerFail leaves *)
(* exactly pm.  The death of the process alone is the case in which every  *)
(* word has been written back.                                             *)
(*                                                                         *)
(* Offsets are the numbers 1, 2, ... of the writes that store them, so two *)
(* writes never store the same one.                                        *)
(***************************************************************************)
EXTENDS Integers, Sequences, FiniteSets, SequencesExt

CONSTANTS
    Keys,          \* key_ids that route to this region
    Home,          \* Home[k]: the main bucket bucket_id_of routes key k to
    NumMain,       \* main_buckets_per_region
    NumOverflow,   \* overflow_slots_per_region
    NumSlots,      \* kEntriesPerBucket
    MaxWrites,     \* bound: entries written in a behaviour
    MaxGroup,      \* bound: entries of one bucket group of a bulk_upsert
    MaxRemoves,    \* bound: removes in a behaviour
    MaxLookups,    \* bound: lookups in a behaviour
    MaxFailures    \* bound: power failures in a behaviour

ASSUME ColdAssumption ==
    /\ NumMain \in Nat \ {0} /\ NumOverflow \in Nat /\ NumSlots \in Nat \ {0}
    /\ Home \in [Keys -> 1..NumMain]
    /\ {MaxWrites, MaxGroup, MaxRemoves, MaxLookups, MaxFailures} \subseteq Nat

Buckets == 1..(NumMain + NumOverflow)
Slots == 1..NumSlots
NoKey == "none"
Miss == 0                       \* the offset of a blank entry; a lookup's nullopt
Tombstone == MaxWrites + 1      \* kTombstoneOffset
NoOverflow == 0                 \* kNoOverflow

VARIABLES
    mem,       \* what loads return: key, off, hdr of each bucket, and alloc
    pm,        \* what a power failure leaves
    pc,        \* where the writer that holds the region lock is
    op,        \* its arguments and locals
    reader,    \* a lookup in progress
    may,       \* may[k]: what a lookup of k may return: the last completed
               \* write, and those begun since (running, or cut by a failure)
    writes,    \* entries written so far; the last offset handed out
    removes, lookups, failures,   \* counted against their bounds
    rewound    \* a power failure has lost an increment of next_overflow_alloc

vars == <<mem, pm, pc, op, reader, may, writes, removes, lookups, failures,
          rewound>>
counts == <<removes, lookups, failures, rewound>>

Memory == [key: [Buckets -> [Slots -> Keys \cup {NoKey}]],
           off: [Buckets -> [Slots -> 0..Tombstone]],
           hdr: [Buckets -> [occ: SUBSET Slots, next: 0..NumOverflow]],
           alloc: 0..NumOverflow]

\* create: the file is zeroed.
Zeroed == [key |-> [b \in Buckets |-> [s \in Slots |-> NoKey]],
           off |-> [b \in Buckets |-> [s \in Slots |-> Miss]],
           hdr |-> [b \in Buckets |-> [occ |-> {}, next |-> NoOverflow]],
           alloc |-> 0]

NoSpot == <<0, 0>>
NoOp == [entries |-> <<>>, n |-> 0, at |-> NoSpot, tail |-> 0,
         dirty |-> <<>>, flipped |-> 0, spots |-> {},
         bits |-> [b \in Buckets |-> {}]]
NoReader == [pc |-> "idle", key |-> NoKey, bucket |-> 0,
             hdr |-> [occ |-> {}, next |-> NoOverflow],
             allowed |-> {}, result |-> Miss]

Init ==
    /\ mem = Zeroed /\ pm = Zeroed
    /\ pc = "idle" /\ op = NoOp /\ reader = NoReader
    /\ may = [k \in Keys |-> {Miss}]
    /\ writes = 0 /\ removes = 0 /\ lookups = 0 /\ failures = 0
    /\ rewound = FALSE

-----------------------------------------------------------------------------
(* Walking a chain.                                                        *)

overflow_bucket_of(i) == NumMain + i

\* A chain, and the bucket that its last one leads to.
Longer(m, chain) ==
    LET next == m.hdr[Last(chain)].next
    IN  IF next = NoOverflow THEN chain ELSE Append(chain, overflow_bucket_of(next))

\* The buckets from bucket b to the end of its chain; a walk of a chain that
\* does not end is cut after every overflow bucket could have been seen.
Chain(m, b) ==
    LET walk[n \in 0..NumOverflow] == IF n = 0 THEN <<b>> ELSE Longer(m, walk[n-1])
    IN  walk[NumOverflow]

\* The p-th entry of a chain, in the order of the walk.
Spot(chain, p) == <<chain[((p - 1) \div NumSlots) + 1], ((p - 1) % NumSlots) + 1>>
Positions(chain) == 1..(Len(chain) * NumSlots)

slot_published(m, spot) == spot[2] \in m.hdr[spot[1]].occ
KeyAt(m, spot) == m.key[spot[1]][spot[2]]

\* Where k is published in its chain, in the order of the walk.
Matches(m, k) ==
    LET chain == Chain(m, Home[k])
    IN  {p \in Positions(chain) : /\ slot_published(m, Spot(chain, p))
                                  /\ KeyAt(m, Spot(chain, p)) = k}

First(ps) == CHOOSE p \in ps : \A q \in ps : p <= q

\* What a lookup of k returns when nothing else moves.
Lookup(m, k) ==
    IF Matches(m, k) = {} THEN Miss
    ELSE LET spot == Spot(Chain(m, Home[k]), First(Matches(m, k)))
             off  == m.off[spot[1]][spot[2]]
         IN  IF off = Tombstone THEN Miss ELSE off

-----------------------------------------------------------------------------
(* The writer's walk.  No other writer moves while it holds the lock, so   *)
(* what the walk finds is a function of the state.                         *)

Entry == op.entries[op.n + 1]
MyChain == Chain(mem, Home[Entry.key])

\* Published, or claimed earlier in the same group (batch_claimed_bits).
Live(spot) == slot_published(mem, spot) \/ spot[2] \in op.bits[spot[1]]
Match == {p \in Positions(MyChain) : /\ Live(Spot(MyChain, p))
                                     /\ KeyAt(mem, Spot(MyChain, p)) = Entry.key}
Reusable == {p \in Positions(MyChain) : ~Live(Spot(MyChain, p))}

MatchSpot == Spot(MyChain, First(Match))
ReusableSpot == Spot(MyChain, First(Reusable))

StoreKeyAt(m, spot, k) == [m EXCEPT !.key[spot[1]][spot[2]] = k]
StoreOffsetAt(m, spot, o) == [m EXCEPT !.off[spot[1]][spot[2]] = o]
StoreEntryAt(m, spot, e) == StoreOffsetAt(StoreKeyAt(m, spot, e.key), spot, e.off)

\* A persist of the entries in spots, and of the headers of buckets.
PersistEntries(spots) ==
    [pm EXCEPT !.key = [b \in Buckets |-> [s \in Slots |->
                          IF <<b, s>> \in spots THEN mem.key[b][s] ELSE @[b][s]]],
               !.off = [b \in Buckets |-> [s \in Slots |->
                          IF <<b, s>> \in spots THEN mem.off[b][s] ELSE @[b][s]]]]
PersistHeaders(bs) ==
    [pm EXCEPT !.hdr = [b \in Buckets |-> IF b \in bs THEN mem.hdr[b] ELSE @[b]]]

Visible(e) == IF e.off = Tombstone THEN Miss ELSE e.off

\* A writer takes the region lock with the entries it is to write.
Begin(entries, to) ==
    LET begun(k) == {Visible(e) : e \in {e \in Range(entries) : e.key = k}}
    IN  /\ pc = "idle"
        /\ pc' = to
        /\ op' = [NoOp EXCEPT !.entries = entries]
        /\ may' = [k \in Keys |-> may[k] \cup begun(k)]
        /\ reader' = IF reader.pc \in {"header", "scan"}
                     THEN [reader EXCEPT !.allowed = @ \cup begun(reader.key)]
                     ELSE reader
        /\ UNCHANGED <<mem, pm>>

\* The writer returns; the first n entries were written, the others were not.
Return(n) ==
    /\ pc' = "idle" /\ op' = NoOp
    /\ may' = [k \in Keys |->
          IF \E i \in 1..n : op.entries[i].key = k
          THEN {Visible(op.entries[i]) : i \in {i \in 1..n : op.entries[i].key = k}}
          ELSE may[k] \ {op.entries[i].off :
                           i \in {i \in (n+1)..Len(op.entries) : op.entries[i].key = k}}]

-----------------------------------------------------------------------------
(* upsert                                                                  *)

upsert(k) ==
    /\ writes < MaxWrites /\ writes' = writes + 1
    /\ Begin(<<[key |-> k, off |-> writes + 1]>>, "upsert")
    /\ UNCHANGED counts

\* A published match: its offset is rewritten in place.
UpdateInPlace ==
    /\ pc = "upsert" /\ Match # {}
    /\ mem' = StoreOffsetAt(mem, MatchSpot, Entry.off)
    /\ op' = [op EXCEPT !.at = MatchSpot] /\ pc' = "persistOffset"
    /\ UNCHANGED <<pm, reader, may, writes, counts>>

PersistOffset ==
    /\ pc = "persistOffset"
    /\ pm' = StoreOffsetAt(pm, op.at, mem.off[op.at[1]][op.at[2]])
    /\ Return(1)
    /\ UNCHANGED <<mem, reader, writes, counts>>

\* Mutant: the first reusable entry is claimed as soon as the walk meets it,
\* before the rest of the chain has been searched for the key.
ClaimEarly ==
    /\ pc = "upsert" /\ Reusable # {}
    /\ Match # {} => First(Reusable) < First(Match)
    /\ mem' = StoreKeyAt(mem, ReusableSpot, Entry.key)
    /\ op' = [op EXCEPT !.at = ReusableSpot] /\ pc' = "storeOffset"
    /\ UNCHANGED <<pm, reader, may, writes, counts>>

\* No match: the first entry whose bit is 0, blank or left by a crash.
Claim ==
    /\ pc = "upsert" /\ Match = {} /\ Reusable # {}
    /\ mem' = StoreKeyAt(mem, ReusableSpot, Entry.key)
    /\ op' = [op EXCEPT !.at = ReusableSpot] /\ pc' = "storeOffset"
    /\ UNCHANGED <<pm, reader, may, writes, counts>>

\* The overflow index the counter hands out next; 1-based.
NewIdx == mem.alloc + 1

PoolRoom == NewIdx <= NumOverflow

Bump(m) == [m EXCEPT !.alloc = NewIdx]

\* No match and no free entry: a new bucket from the pool ...
Extend ==
    /\ pc = "upsert" /\ Match = {} /\ Reusable = {} /\ PoolRoom
    /\ mem' = Bump(mem)
    /\ op' = [op EXCEPT !.at = <<overflow_bucket_of(NewIdx), 1>>,
                        !.tail = Last(MyChain)]
    /\ pc' = "storeKey"
    /\ UNCHANGED <<pm, reader, may, writes, counts>>

\* ... or, when the pool is used up, the upsert fails (fetch_add, fetch_sub).
Exhausted ==
    /\ pc = "upsert" /\ Match = {} /\ Reusable = {} /\ ~PoolRoom
    /\ Return(0)
    /\ UNCHANGED <<mem, pm, reader, writes, counts>>

StoreKey ==
    /\ pc = "storeKey" /\ pc' = "storeOffset"
    /\ mem' = StoreKeyAt(mem, op.at, Entry.key)
    /\ UNCHANGED <<pm, op, reader, may, writes, counts>>

StoreOffset ==
    /\ pc = "storeOffset" /\ pc' = "persistEntry"
    /\ mem' = StoreOffsetAt(mem, op.at, Entry.off)
    /\ UNCHANGED <<pm, op, reader, may, writes, counts>>

\* Mutant: the entry is flushed but the fence before the bit is missing.
PersistEntryUnfenced ==
    /\ pc = "persistEntry" /\ pc' = "publish"
    /\ UNCHANGED <<mem, pm, op, reader, may, writes, counts>>

PersistEntry ==
    /\ pc = "persistEntry" /\ pc' = "publish"
    /\ pm' = PersistEntries({op.at})
    /\ UNCHANGED <<mem, op, reader, may, writes, counts>>

Extending == op.tail # 0

\* The occupancy bit is set (fetch_or); a new bucket's header is stored whole.
Publish ==
    /\ pc = "publish" /\ pc' = "persistHeader"
    /\ mem' = IF Extending
              THEN [mem EXCEPT !.hdr[op.at[1]] = [occ |-> {1}, next |-> NoOverflow]]
              ELSE [mem EXCEPT !.hdr[op.at[1]].occ = @ \cup {op.at[2]}]
    /\ UNCHANGED <<pm, op, reader, may, writes, counts>>

PersistHeader ==
    /\ pc = "persistHeader"
    /\ pm' = PersistHeaders({op.at[1]})
    /\ IF Extending THEN pc' = "link" /\ UNCHANGED <<op, may>> ELSE Return(1)
    /\ UNCHANGED <<mem, reader, writes, counts>>

\* Mutant: the link is stored into the new bucket's header as well.
AttachedCopied(b, new) == [mem EXCEPT !.hdr[b].next = new - NumMain,
                                      !.hdr[new].next = new - NumMain]

\* The new bucket is attached to the tail, whose occupancy is preserved.
Attached(b, new) == [mem EXCEPT !.hdr[b].next = new - NumMain]

Link ==
    /\ pc = "link" /\ pc' = "persistLink"
    /\ mem' = Attached(op.tail, op.at[1])
    /\ UNCHANGED <<pm, op, reader, may, writes, counts>>

PersistLink ==
    /\ pc = "persistLink"
    /\ pm' = PersistHeaders({op.tail})
    /\ Return(1)
    /\ UNCHANGED <<mem, reader, writes, counts>>

-----------------------------------------------------------------------------
(* bulk_upsert: apply_bucket_group on one run of entries with the same     *)
(* main bucket.  A bulk_upsert is a series of such groups.                 *)

bulk_upsert(ks) ==
    /\ ks # <<>> /\ IsInjective(ks)   \* apply_batch coalesces by key
    /\ \A i \in DOMAIN ks : Home[ks[i]] = Home[ks[1]]
    /\ writes + Len(ks) <= MaxWrites /\ writes' = writes + Len(ks)
    /\ Begin([i \in DOMAIN ks |-> [key |-> ks[i], off |-> writes + i]], "stage")
    /\ UNCHANGED counts

\* find_or_create_dirty
Dirtied(dirty, b) == IF b \in Range(dirty) THEN dirty ELSE Append(dirty, b)

AfterStage(n) == IF n = Len(op.entries) THEN "drain" ELSE "stage"

StageUpdate ==
    /\ pc = "stage" /\ Match # {}
    /\ mem' = StoreOffsetAt(mem, MatchSpot, Entry.off)
    /\ op' = [op EXCEPT !.n = @ + 1, !.spots = @ \cup {MatchSpot},
                        !.dirty = Dirtied(@, MatchSpot[1])]
    /\ pc' = AfterStage(op.n + 1)
    /\ UNCHANGED <<pm, reader, may, writes, counts>>

StageClaim ==
    /\ pc = "stage" /\ Match = {} /\ Reusable # {}
    /\ mem' = StoreEntryAt(mem, ReusableSpot, Entry)
    /\ op' = [op EXCEPT !.n = @ + 1, !.spots = @ \cup {ReusableSpot},
                        !.dirty = Dirtied(@, ReusableSpot[1]),
                        !.bits[ReusableSpot[1]] = @ \cup {ReusableSpot[2]}]
    /\ pc' = AfterStage(op.n + 1)
    /\ UNCHANGED <<pm, reader, may, writes, counts>>

\* A new bucket, filled and then attached to the tail, before any fence.
StageExtend ==
    LET new == overflow_bucket_of(NewIdx)
    IN  /\ pc = "stage" /\ Match = {} /\ Reusable = {} /\ PoolRoom
        /\ mem' = Bump(StoreEntryAt(mem, <<new, 1>>, Entry))
        /\ op' = [op EXCEPT !.at = <<new, 1>>, !.tail = Last(MyChain),
                            !.spots = @ \cup {<<new, 1>>},
                            !.dirty = Dirtied(@, new),
                            !.bits[new] = @ \cup {1}]
        /\ pc' = "attach"
        /\ UNCHANGED <<pm, reader, may, writes, counts>>

StageAttach ==
    /\ pc = "attach"
    /\ mem' = Attached(op.tail, op.at[1])
    /\ op' = [op EXCEPT !.n = @ + 1, !.dirty = Dirtied(@, op.tail)]
    /\ pc' = AfterStage(op.n + 1)
    /\ UNCHANGED <<pm, reader, may, writes, counts>>

\* The pool is used up: the rest of the group is dropped.
StageExhausted ==
    /\ pc = "stage" /\ Match = {} /\ Reusable = {} /\ ~PoolRoom
    /\ IF op.dirty = <<>> THEN Return(0) ELSE pc' = "drain" /\ UNCHANGED <<op, may>>
    /\ UNCHANGED <<mem, pm, reader, writes, counts>>

\* Phase 1: one fence makes every staged entry durable.
DrainEntries ==
    /\ pc = "drain" /\ pc' = "flip"
    /\ pm' = PersistEntries(op.spots)
    /\ UNCHANGED <<mem, op, reader, may, writes, counts>>

\* Phase 2: the bits of one dirty bucket after the other, ...
FlipBits ==
    /\ pc = "flip" /\ op.flipped < Len(op.dirty)
    /\ LET b == op.dirty[op.flipped + 1]
       IN  mem' = [mem EXCEPT !.hdr[b].occ = @ \cup op.bits[b]]
    /\ op' = [op EXCEPT !.flipped = @ + 1]
    /\ UNCHANGED <<pm, pc, reader, may, writes, counts>>

\* ... and one fence for all their headers.
DrainHeaders ==
    /\ pc = "flip" /\ op.flipped = Len(op.dirty)
    /\ pm' = PersistHeaders(Range(op.dirty))
    /\ Return(op.n)
    /\ UNCHANGED <<mem, reader, writes, counts>>

-----------------------------------------------------------------------------
(* remove                                                                  *)

remove(k) ==
    /\ removes < MaxRemoves /\ removes' = removes + 1
    /\ Begin(<<[key |-> k, off |-> Tombstone]>>, "remove")
    /\ UNCHANGED <<writes, lookups, failures, rewound>>

Bury ==
    /\ pc = "remove" /\ Match # {}
    /\ mem' = StoreOffsetAt(mem, MatchSpot, Tombstone)
    /\ op' = [op EXCEPT !.at = MatchSpot] /\ pc' = "persistOffset"
    /\ UNCHANGED <<pm, reader, may, writes, counts>>

\* Nothing published under the key: remove returns false.
NothingToBury ==
    /\ pc = "remove" /\ Match = {}
    /\ Return(1)
    /\ UNCHANGED <<mem, pm, reader, writes, counts>>

-----------------------------------------------------------------------------
(* lookup, without the lock: the header of a bucket is loaded once, then   *)
(* the entries it publishes are read.                                      *)

lookup(k) ==
    /\ lookups < MaxLookups /\ lookups' = lookups + 1
    /\ reader.pc = "idle"
    /\ reader' = [NoReader EXCEPT !.pc = "header", !.key = k,
                                  !.bucket = Home[k], !.allowed = may[k]]
    /\ UNCHANGED <<mem, pm, pc, op, may, writes, removes, failures, rewound>>

LoadHeader ==
    /\ reader.pc = "header"
    /\ reader' = [reader EXCEPT !.pc = "scan", !.hdr = mem.hdr[reader.bucket]]
    /\ UNCHANGED <<mem, pm, pc, op, may, writes, counts>>

\* Mutant: the occupancy bits are not consulted.
FoundUnpublished == {s \in Slots : mem.key[reader.bucket][s] = reader.key}

Found == {s \in reader.hdr.occ : mem.key[reader.bucket][s] = reader.key}

ScanBucket ==
    /\ reader.pc = "scan"
    /\ reader' =
         IF Found # {}
         THEN LET off == mem.off[reader.bucket][First(Found)]
              IN  [reader EXCEPT !.pc = "done",
                                 !.result = IF off = Tombstone THEN Miss ELSE off]
         ELSE IF reader.hdr.next = NoOverflow
         THEN [reader EXCEPT !.pc = "done", !.result = Miss]
         ELSE [reader EXCEPT !.pc = "header",
                             !.bucket = overflow_bucket_of(reader.hdr.next)]
    /\ UNCHANGED <<mem, pm, pc, op, may, writes, counts>>

LookupReturn ==
    /\ reader.pc = "done" /\ reader' = NoReader
    /\ UNCHANGED <<mem, pm, pc, op, may, writes, counts>>

-----------------------------------------------------------------------------
(* The memory below.                                                       *)

\* A dirty word reaches the media on its own.  The counter is in no persist:
\* this is its only way there.
WriteBack ==
    /\ pm # mem
    /\ \/ \E b \in Buckets, s \in Slots :
             \/ pm' = [pm EXCEPT !.key[b][s] = mem.key[b][s]]
             \/ pm' = [pm EXCEPT !.off[b][s] = mem.off[b][s]]
       \/ \E b \in Buckets : pm' = [pm EXCEPT !.hdr[b] = mem.hdr[b]]
       \/ pm' = [pm EXCEPT !.alloc = mem.alloc]
    /\ pm' # pm
    /\ UNCHANGED <<mem, pc, op, reader, may, writes, counts>>

\* Power fails and open() maps the file again: it checks the global header
\* and recomputes nothing.
PowerFail ==
    /\ failures < MaxFailures /\ failures' = failures + 1
    /\ mem' = pm
    /\ pc' = "idle" /\ op' = NoOp /\ reader' = NoReader
    /\ rewound' = (rewound \/ pm.alloc # mem.alloc)
    /\ UNCHANGED <<pm, may, writes, removes, lookups>>

-----------------------------------------------------------------------------
Groups == UNION {[1..n -> Keys] : n \in 1..MaxGroup}

Writer ==
    \/ \E k \in Keys : upsert(k) \/ remove(k)
    \/ \E ks \in Groups : bulk_upsert(ks)
    \/ UpdateInPlace \/ PersistOffset \/ Claim \/ Extend \/ Exhausted
    \/ StoreKey \/ StoreOffset \/ PersistEntry \/ Publish \/ PersistHeader
    \/ Link \/ PersistLink
    \/ StageUpdate \/ StageClaim \/ StageExtend \/ StageAttach \/ StageExhausted
    \/ DrainEntries \/ FlipBits \/ DrainHeaders
    \/ Bury \/ NothingToBury

Reader == (\E k \in Keys : lookup(k)) \/ LoadHeader \/ ScanBucket \/ LookupReturn

Next == Writer \/ Reader \/ WriteBack \/ PowerFail

Spec == Init /\ [][Next]_vars

-----------------------------------------------------------------------------
(* Properties                                                              *)

\* Type invariant: every word, in memory and on the media, stays in its range;
\* in particular the overflow index never leaves the pool.
ColdTypeOK ==
    /\ mem \in Memory /\ pm \in Memory
    /\ pc \in {"idle", "upsert", "persistOffset", "storeKey", "storeOffset",
               "persistEntry", "publish", "persistHeader", "link", "persistLink",
               "stage", "attach", "drain", "flip", "remove"}
    /\ op.n \in 0..Len(op.entries)
    /\ may \in [Keys -> SUBSET (0..MaxWrites)]
    /\ reader.pc \in {"idle", "header", "scan", "done"}
    /\ reader.bucket \in Buckets \cup {0}

\* Whatever instant the power fails at, a lookup after reopening returns for
\* every key its last completed write or remove, or one begun since: the entry
\* is durable before its bit, its bucket before the link, in upsert and in the
\* two fences of bulk_upsert.  The same holds of what lookups see now.
AckedDurable ==
    ~rewound => \A k \in Keys : Lookup(pm, k) \in may[k] /\ Lookup(mem, k) \in may[k]

\* A key is published at most once in its chain, in memory and on the media,
\* even when a failure has left reusable entries in front of it (upsert claims
\* one only after the whole chain has been searched).
OneEntryPerKey ==
    ~rewound => \A k \in Keys : /\ Cardinality(Matches(pm, k)) <= 1
                                /\ Cardinality(Matches(mem, k)) <= 1

\* Every chain ends and no bucket is in two chains or twice in one, in memory
\* and on the media: a lookup of an absent key comes to an end and no group
\* writes into another bucket's entries.  With the types: the overflow index
\* never leaves the pool.
ChainsDisjoint ==
    /\ ColdTypeOK
    /\ ~rewound => \A m \in {mem, pm} : \A b \in 1..NumMain :
        /\ IsInjective(Chain(m, b))
        /\ m.hdr[Last(Chain(m, b))].next = NoOverflow
        /\ \A c \in 1..NumMain \ {b} :
             Range(Chain(m, b)) \cap Range(Chain(m, c)) = {}

\* A lookup that runs beside a writer returns a value that was current at some
\* instant of the lookup: never a torn entry, never a miss of a key that was
\* there throughout.
LookupFresh ==
    (~rewound /\ reader.pc = "done") => reader.result \in reader.allowed

\* cold_tier.hpp:391-394: "The new bucket starts zeroed (the file was memset on
\* create); ... The chain attach comes LAST so a crash before it leaves the new
\* bucket unreachable".  Not so: next_overflow_alloc is in no persist, so a
\* power failure can take it back below a bucket that is already in a chain,
\* and the entries published there are overwritten.
NewBucketUnreachable ==
    (pc = "storeKey") =>
        \A b \in 1..NumMain : op.at[1] \notin Range(Chain(pm, b))

=============================================================================
