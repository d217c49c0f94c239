# HiOM: TLA+ models, checks and proofs

HiOM is a hierarchical index over the Viper key-value store on persistent
memory (PM).  This directory models the protocols that make it correct: what is
durable when, what a restart replays, what a reader may see, and what the
threads may assume of each other.  Line numbers refer to
`src/include/viper/` and `src/include/viper/hiom/`.

## 1. The system

### Parts, state and operations

| Part (source) | State | Operations |
|---|---|---|
| **Viper pages and blocks** (`viper.hpp`) | PM blocks of pages, each page a version lock, a `free_slots` bitmap and records; `num_used_blocks` (PM high-water mark); `current_block_page_` (volatile claim cursor) | claim a block, put/update/remove a record, `read` |
| **HiOM client operations** (`hiom.hpp`, `Client`) | per-client slot `{active, last_block, inflight_block}`, the commit entries it pushed | `put`, `update`, `remove`, `get`, `get_batch`, client creation and destruction |
| **HotTier** (`hot_tier.hpp`) | DRAM buckets of fingerprint + offset words, a state per slot (`kUnpinned`, `kPinned`, `kInFlush`), SIEVE bits | `lookup`, `upsert`, `upsert_pinned`, `remove`, `sieve_evict`, unpinning |
| **CommitBuffer** (`commit_buffer.hpp`) | 8 lanes: a queue and `approx_size` each, and one `nonempty_mask_` | `push`, `try_drain_lane`, `size_hint` |
| **Flushers** (`hiom.hpp`) | the batch, `flushing_in_progress_` | `drain_to_empty_and_apply_locked`, `apply_batch`, `flush_and_wait`, `try_write_checkpoint` |
| **Frontier** (`hiom.hpp`) | the client slots, the tagged pending ring, `frontier` in the checkpoint | `note_inflight_block`, `note_client_block`, `pending_register`, `pending_retire`, the word-by-word snapshot |
| **ColdTier** (`cold_tier.hpp`) | regions on PM: main buckets, overflow chains from one pool, `next_overflow_alloc`; a lock per region | `upsert`, `bulk_upsert`, `remove`, lock-free `lookup`, `create`, `open` |
| **Checkpoint file** (`checkpoint.hpp`) | two record slots and `valid_pointer` on PM; `seq_` | `create`, `write`, `read_valid`, `open` |
| **Offset codec** (`offset_codec.hpp`) | none (bit packing of block/page/slot) | `encode`, `decode`, `can_encode` |
| **Recovery** (`hiom.hpp`) | none of its own | reopen ColdTier, read the checkpoint, replay `[frontier - 1, num_used_blocks)` |
| **VPage version lock, intent registry** (`viper.hpp`) | one lock byte per page (`USED_BIT`, version, lock bit), `kLockIntentSlots` published page addresses, `deadlock_offsets_` | `lock`, `unlock`, publish, clear, `hiom_try_repair_stale_lock`, `free_occupied_slot` |
| **Block pool** (`viper.hpp`) | `v_blocks_`, `num_v_blocks_`, `is_resizing_`, `is_v_blocks_resizing_`; `num_used_blocks` and `total_mapped_size` on PM | `get_new_block`, `trigger_resize`, `add_v_page_blocks`, `prefault_runway`, create and open |
| **CCEH** (`cceh.hpp`) | a directory of segments, a counting lock `sema` and slots per segment, a directory lock | `Insert` (a tombstone deletes), `Get`, `Split`, directory doubling |
| compaction, variable-length records, hashes, harness | | not modelled, section 8 |

### How the parts interact

A `put` writes the record to its page under the page lock and persists it; asks
the resolver (HotTier, then ColdTier) for the key's old offset and frees that
slot; pins the new offset in HotTier; and pushes a commit entry to the lane of
the key.  A flusher drains its lanes, applies the batch to ColdTier with
`bulk_upsert`, unpins the HotTier slots the entries refer to, and retires the
entries from the pending ring.  Periodically the flushing thread takes a
snapshot of the client slots, the claim cursor and the ring, and publishes
their minimum as the frontier.  After a crash HotTier, the commit buffer, the
ring and the client slots are gone: the records in the tail above the frontier
are read back from the pages and put into ColdTier again.

### What is hard, and what correctness means

* **The frontier** is a minimum of values read one at a time while producers
  and flushers change them.  Correct: every live record below it is in
  ColdTier already, so that the bounded replay is complete.
* **The ring** is a fixed array of tagged counters that several blocks share.
  Correct: it counts exactly the registered, unretired puts, never aborts, and
  a producer that has to wait for a slot gets it.
* **The commit buffer** maintains a counter, a bit and a queue per lane with
  separate atomic operations.  Correct: nothing is lost, duplicated or
  reordered per producer, and `flush_and_wait` returns only when everything
  pushed before it has been applied.
* **Persistence order**: cache lines reach PM when they are flushed or earlier,
  in any order.  Correct: a power failure between two stores loses no completed
  ColdTier write and no completed checkpoint.
* **Two tiers and a page store**, updated by three kinds of thread without a
  common lock.  Correct: reads are not stale, a key has one live record, and
  the tiers converge on it.

* **Page locks** are one byte with a six-bit version, taken by put, update and
  remove in different orders, and repaired by anyone who meets one that a killed
  process left.  Correct: a repair never breaks a live lock, an optimistic read
  never mixes two records, no client frees or updates another key's record, and
  clients that wait for each other get on.
* **HotTier's bucket** keeps word, state, visited bit and size in separate
  atomics.  Correct: the size is exact, a fingerprint has one slot, no slot
  stays pinned for good, and a pin that came in time holds.
* **The pool grows** while clients claim from it.  Correct: a block has one
  owner, no index leaves the vector, a claim is not left waiting, and a crash
  leaves a pool that maps all its used blocks.
* **CCEH** splits segments under readers and writers.  Correct: a split has its
  segment alone, the directory agrees with the patterns, no entry is lost.

The `hazards` of `PROJECT.json` list where each of these bites.

## 2. Modules

| Module | Models |
|---|---|
| `Frontier` | the durable frontier: client slots, ring, flushers, checkpoint scan, crash and replay |
| `FrontierInv` | its inductive invariant, in layers |
| `FrontierProofs` | the proofs about `Frontier`; that `Checkpoint` keeps its invariants and implements `DurableRegister` |
| `Checkpoint` | the A/B checkpoint file, store by store |
| `DurableRegister` | the abstract promise: a register whose writes take effect at one instant and survive |
| `CommitBuffer` | lanes, `push`, the drain loop, `flush_and_wait` |
| `CommitBufferProofs` | counters, order and `flush_and_wait`, for any number of lanes and threads |
| `ColdTier` | one region: chains, writers, lookups, eviction of cache lines, power failure |
| `ColdTierProofs` | chains, durability and lookups, for any number of keys, buckets and failures |
| `KeyIndex` | the life of one key in HotTier, ColdTier, the commit queue and the pages |
| `KeyIndexProofs` | fresh reads, one record, convergence of the tiers; that the codec of the offsets is an inverse, for every width of the fields |
| `OffsetCodec` | `encode` and `decode` of HotTier's four-byte offsets |
| `PageLock` | version lock, lock-intent registry, stale-lock repair, optimistic read, and the client operations that lock pages |
| `PageLockProofs` | queued offsets, values, exclusion, records and the optimistic read, for any number of clients, readers and pages |
| `HotTier` | one bucket: probes, claims, SIEVE eviction, pins and the flusher's unpins |
| `HotTierProofs` | counter, uniqueness, sweeps and pins, for a bucket of any size |
| `CCEH` | the extendible hash table: slots, segment locks, splits, directory |
| `CCEHProofs` | locks, directory and entries, for any number of threads, keys and slots and any depth |
| `BlockPool` | claims of blocks, background resize, prefault worker, crash and reopen |
| `BlockPoolProofs` | ownership, ranges and the metadata, for any number of clients and mappings |
| `MC*` | parameters for TLC: symmetry sets, addresses of offsets, requests, hash bits of keys |

Each component is checked on its own, and an abstraction of it stands in the
modules beside it: `KeyIndex` has a one-slot HotTier, a one-entry ColdTier and
`OffsetCodec` itself; `Frontier` has a set for ColdTier and a register for the
checkpoint file; `PageLock` has one offset per key for the index; `BlockPool`
has one record per page.

### Frontier

One step per shared-memory access.  A record is `<<block, n>>`, the n-th put
into a block.  `GetClient` claims the first block, raises the high-water mark
and reserves and resets a slot, in the code's order.  A put publishes the
block it starts from (`NoteInflightBlock`) and then (`PutStep`) claims further
blocks while its own is full, makes the record durable, may free the record it
replaces, stores `last_block`, registers in the ring (`PendingRegister`, which waits while the slot carries the tag of an older
block), and pushing the entry (`PushPut`); `RemoveStep` and frees clear `live`.
`FlusherStep` drains, applies and retires.  `CkRead` is one word of the
snapshot: the slots in index order, then the cursor, then the ring slots;
`CkWrite` publishes the minimum.  `Crash` keeps
`live`, `cold`, `num_used_blocks` and `frontier` only; `Recovery` replays the
tail block by block, in any order.

Ghost variables: `owner[b]` is the client that claimed block `b`; `blind` holds
the clients that had claimed a block and not yet published it when the
checkpoint read their slot (the `frontier_blind` finding), and those that were
handed a block below an older frontier after a crash that forgot its first
claim; `lost` the records
an earlier recovery left out for that reason; `old` says the checkpoint is from
before the last crash.  The passing properties exclude exactly those records.

### Checkpoint and DurableRegister

`WriteBegin` takes the sequence number and starts the copy into the inactive
slot, of which any part may reach PM early (`EvictSlot` leaves it torn);
`PersistSlot` makes it whole, `FlipPointer`
stores `valid_pointer`, `EvictPointer`/`PersistPointer` bring it to PM.
`PowerFails` may come between any two; `Reopen` is `open` with `read_valid` and its
fallback.  The refinement mapping sends the file to the value a process
started now would read: a write takes effect when the flipped pointer reaches
PM.

### CommitBuffer

`push` is three atomics: `fetch_add`, enqueue, and the bit on the 0->1
transition.  `try_drain_lane` is dequeue, `fetch_sub`, and the bit on reaching
zero.  The drain loop reads the mask, visits its lanes in order, and repeats
until a round finds nothing.  `flush_and_wait` reads sizes and
`flushing_in_progress_` one at a time.  The queue itself (moodycamel) is
external: one FIFO per lane, of which the code relies on per-producer order.

### ColdTier

`mem` is what loads return, `pm` what a power failure leaves; `WriteBack` is
the eviction of one word at any time, a persist with a fence copies what it
covers.  Entries and headers of buckets, chain links and the allocation counter
are separate words.  The writer is whoever holds the region lock; `Reader` is a
lookup beside it that reads header and entries one bucket at a time.
`PowerFail` copies `pm` to `mem` and abandons the operation.  `may[k]` is the
set of values a lookup of `k` may return: the last completed write and those
begun since.  `rewound` is set when a power failure takes
`next_overflow_alloc` back (section 6, A2); the passing
properties are about behaviours in which that has not happened.

### KeyIndex

One key, one writer, one flusher, one reader, a HotTier bucket of one slot.
A second key with the same bucket (`Rival`) evicts, overwrites and pins the
slot; clients with other keys (`Others`) hold page locks and overwrite entries.
Writer, flusher and reader take one step per shared access: the resolver's
HotTier read, its ColdTier read, the page read, the free, the pin, the push;
`apply_batch`'s canonical check and winner, and its three-state unpin; the
reader's tiers, verification and warm-up.  `leaked` remembers that a resolver
missed the live record; the passing properties are conditioned on it because
finding 2, disagreement A3, and the hazards at `hiom.hpp:2162` and
`hot_tier.hpp:537` are ways in which that comes about.  An offset has an
address (block, page, slot); HotTier holds its packed word, and whoever reads
the word decodes it.  `places` remembers where the key was ever stored.

### PageLock

`version_lock` is the lock byte without `USED_BIT`: it counts modulo 64, odd
when locked.  `lock_intents[c]` are the pages client `c` has published; the
registry is full when they add up to `kLockIntentSlots`.  Every client puts on
a page of its own; an old page belongs to an earlier process and may start with
its lock set.  `put` is publish, lock, write, resolve, `free_occupied_slot`,
unlock, withdraw; `free_occupied_slot` has its queue of offsets
(`deadlock_offsets`), the withdrawal of the intent around a repair, and the
re-publication.  `update` tries the offset HotTier gave and then the
resolver's.  The reader copies key and value in two steps between two loads of
the version.  The repair is load, scan, load, scan, CAS.  `remove` on the
client's own page sets its bit without the lock (`viper.hpp:2330`): beside a
holder that sets another bit of the bitmap either update may be lost
(`invalidate_records`).  Any number of clients and readers may be in the repair at
once.  Ghosts mark the histories in which the code loses a lock or a record.
`raced`: a repair unlocked a page while another thread had loaded the same word
and was about to unlock it too (A4).  `drained[c]`, the page's owner has
freed the offset `c` queued, and `refreed`, some client has freed such an offset
again (A10).

### HotTier

A slot is one word, `<<fingerprint, offset>>` or `Empty`.  A thread's probe
loads one slot per step; match, claim and eviction are a CAS each, and the size
counter and visited bit follow in a step of their own.  `force_pinned` is an or
and an and; `FlushOwn` and `FlushRelease` are the flusher's CASes after it has
applied an entry.  Ghosts: `overlapped` (fingerprints two threads inserted at
once: the code lets them take two slots), `alone` (sweeps nothing disturbed),
`exposed` (puts whose pin came after a sweep had passed the slot, or was taken
away by an older entry's release), `latest` (the put a slot should still hold).

### CCEH

`sema[g]` is the lock word of a segment: a count, `SPLIT_REQUEST_BIT`,
`EXCLUSIVE_LOCK`.  An insert looks at the lock (370), takes `pattern_shift` from the
local depth (374) and keeps it, compares the pattern (375) and only then counts
itself in (378); each of these is a step.  It scans its window slot by slot and
invalidates what it takes for keys a split has moved: it compares their hashes, cut
with the shift it has kept, with the pattern of now (395-402).  It claims a slot
with `SENTINEL`, fills it and counts itself out; if there is no room it splits:
exclusive lock, copy of the upper half, directory lock, and the directory updated
or doubled.  A split stores the local depth (493) before the pattern (541), and a
thread in between sees either depth.  A delete is an insert of the tombstone.
Ghosts mark the histories in which the code loses entries, so that the properties
are about the rest: `shared`, `stray`, `late`, `wrapped`, `doubled` (section 6, A6).

### BlockPool

`get_new_access_information` compares the cursor with the threshold and may
start the resize thread; `LoadBlock` waits for the block to be published,
`CasCursor` claims it, `IndexBlock` waits out a moving vector, initialises the
first page and raises `num_used_blocks`.  The resize thread counts the mapping,
persists it, reserves, appends block by block, and publishes.  `Prefault` is a
round of the worker.  `metadata` and `pmem` are the metadata line in the cache
and on PM; `Crash` reopens from `pmem`.

## 3. Runs

`tlc -config <cfg> <module>`; state counts and times are with two workers.

| Run | Checks | Shows | Size |
|---|---|---|---|
| `frontier_crash` | `RecoveryComplete`, `CeilingCoversRecords`, `PendingExact`, `RetireNeverFatal` | two clients that reuse one slot, two blocks for one ring slot, up to two crashes: the replay is complete, the ring exact | 0.8 M, 60 s |
| `frontier_race` | `FrontierDurable`, `BackpressureEnds` | the scan against two concurrent clients in two slots and a flusher; under fairness a blocked producer gets past the ring | 0.4 M, 60 s |
| `frontier_blind` | `AckedRecordsSurvive` | **violated**: finding 1 | 2 s |
| `checkpoint` | `CheckpointSurvives`, `SeqStrictlyOrdered`, `RegisterSpec` | four writes, three crashes anywhere | 1.8 k |
| `commit_buffer` | `SizeExact`, `LaneOrder`, `FlushWaits` | two producers, two lanes, two flushers, one waiter | 4.5 M, 100 s |
| `cold_tier` | `AckedDurable`, `OneEntryPerKey`, `ChainsDisjoint`, `LookupFresh` | one chain, extended until the pool is exhausted; upsert, bulk upsert, remove and a lookup beside them, a power failure between any two stores | 0.5 M, 50 s |
| `key_index` | `FreshReads`, `SingleLive`, `QuietConverged`, `HotNamesKey` | one key beside every interfering thread, with packed offsets in HotTier | 2.1 M, 95 s |
| `key_duplicate` | `OneLiveOffset` | **violated**: finding 2 | 1 s |
| `page_lock` | `LockExclusive`, `ReadConsistent`, `ValuesBelong`, `RecordsIntact`, `QueueOwned`, `OperationsEnd` | two clients on each other's pages and on an old page, a reader, and repairs by all three at any time; the version wraps | 0.4 M, 110 s |
| `hot_tier` | `SizeExact`, `OneSlotPerFp`, `SweepSuffices`, `QuietUnpinned`, `PinnedKept` | two threads and a flusher on a bucket that is too small for its fingerprints | 1.9 M, 70 s |
| `cceh` | `SemaExact`, `DirectoryExact`, `QuietFound`, `InsertsEnd` | two threads on two full segments: splits in both, the directory doubles | 0.39 M, 55 s |
| `block_pool` | `OneOwner`, `RecordsKept`, `IndexInRange`, `UsedIsMapped`, `ClaimsEnd` | two clients outgrow the first mapping; resize, prefault and one crash | 0.35 M, 110 s |

What the properties say is in the comment above each definition.  The type
invariant of a module is a conjunct of its structural property: `SizeExact`
(`CommitBuffer`, `HotTier`), `ChainsDisjoint`, `HotNamesKey`, `LockExclusive`,
`SemaExact`, `OneOwner`.  The inductive invariants of the proofs (`IndInv`,
`CheckpointInv`, `ColdInv`, `BufferInv`, `KeyInv`, `HotInv`, `PoolInv`, `LockInv`,
`ReadInv`, `TreeInv`, `EntryInv`) are theorems or part of one's proof,
and in no run; each held of all states of its run before it was proved.

**Bounds.**  Every bound is a constant of its module (`MaxBlock`, `MaxPuts`,
`MaxCrashes`, ...), tested in the guard of the action it limits, so a bounded
behaviour stops when the bounds are used up: all configurations therefore say
`CHECK_DEADLOCK FALSE`.  They are chosen so that the cases in question occur.
`frontier_crash` has two clients for one slot (reuse), two blocks for one ring
slot (back-pressure), and two crashes (recovery of a recovered store);
`frontier_race` has a slot for each client and no crash, so that the scan
meets two clients at once.
`commit_buffer` has two lanes in two partitions and calls that take one entry
at a time, so that a lane is drained in several calls while it is filled.
`cold_tier` has three keys for a main bucket and an overflow bucket of one entry
each, so that chains grow and the pool runs out, groups of two, and one failure
after which all writers can run again.  `key_index` has one offset the codec
cannot encode, whose truncated word would name another record, and enough
offsets for two writes to move the key.
`page_lock` starts the version at 62 of 64 so that it wraps, has three registry
slots for two clients that need up to two each, one old page, and three
operations: enough for two clients to wait for each other and one more to use a
freed slot; all three threads may be in the repair routine at once.  `hot_tier` has three fingerprints for two slots
and two attempts per insert.  `cceh` has two full segments, so that the first
insert of a new key already splits.  `block_pool` has two blocks per mapping and
a threshold below one of two blocks: a block remains for each client that passed
the check, which is what `ClaimsEnd` needs of the parameters (section 6, A7).  The
safety results of all modules but, in part, `PageLock` (section 5) hold for every
bound, by the proofs.

**Symmetry** is used for clients, producers, threads, fingerprints and the keys
of one chain, which are interchangeable model values, in safety runs only.

## 4. Fairness

`FairSpec` of `Frontier` assumes weak fairness of the steps of a client that is
inside `put` (`NoteClientBlock`, `PendingRegister`, `PushPut`: the thread keeps
running) and of each flusher's step (its loop re-arms a timed wait and has no
other exit while the store is open).  Nothing forces operations, checkpoints or
crashes to happen.  `BackpressureEnds` follows: a producer that spins in
`pending_register` because its ring slot carries an older block gets past it.
It is not circular, as a registered entry is pushed without any further wait.
The flusher is assumed to see its non-empty lanes; A1 in section 6 is an
interleaving in which the mask hides one until it next becomes empty, so the
two results must be read together.

The other fair specifications assume that a thread inside an operation keeps
running: weak fairness of its next step (`PageLock`, `CCEH`, `BlockPool`), of the
resize thread and of the prefault worker (`BlockPool`; both are threads of their
own).  Nothing forces an operation to begin, a page to be filled or a crash to
happen.  `OperationsEnd` excepts the states `StaleContended`, in which
two clients after one crash-stale page see each other's intents (A5); `InsertsEnd`
the histories a stray insert has left (A6).

## 5. Theorems

All of them hold for every value of the constants that satisfies the named
assumptions of the modules: the bounds are natural numbers (`*Bounds`); there is
at least one client slot, ring slot, bucket slot, retry and entry per call;
the fields of a compact offset are not empty; two offsets have two addresses
(`AddressAssumption`); the parameters of a pool satisfy `PoolAssumption`.
Keys, clients, threads, flushers, fingerprints and requests are arbitrary sets; the
clients and pages of `PageLock` (`FiniteAssumption`) and the threads of `CCEH` are
finite, and `USED_BIT` is even.  The table of `CCEH` begins with a depth within the
bound and with keys that are where their hashes belong (`FilledAssumption`).  Four
theorems of `PageLock` have a temporal hypothesis: `[]NoRepairLap`, and one of them
`[]NoLap` too.  They say of the six-bit version what the comment at `viper.hpp:751`
says, that it does not go all the way round inside a repair or a read, and nothing
about the repairs themselves.  TLC has found both in all states of the `page_lock`
run.

| Theorem | States |
|---|---|
| `FrontierProofs!TypeCorrect` | `Spec => []TypeOK` |
| `FrontierProofs!CeilingCorrect` | no record is at or above the persisted `num_used_blocks` |
| `FrontierProofs!Invariance` | `Spec => []IndInv` |
| `FrontierProofs!PendingCorrect` | the ring is an exact multiset of registered puts |
| `FrontierProofs!RetireCorrect` | `pending_retire` never aborts |
| `FrontierProofs!FrontierCorrect` | every published frontier is durable |
| `FrontierProofs!RecoveryCorrect` | the bounded replay is complete |
| `FrontierProofs!CheckpointInvariance` | `Spec => []CheckpointInv` |
| `FrontierProofs!CheckpointNeverLost` | a checkpoint whose `write` returned survives |
| `FrontierProofs!SeqCorrect` | sequence numbers strictly grow, across restarts too |
| `FrontierProofs!CheckpointImplementsRegister` | the file implements `DurableRegister` |
| `KeyIndexProofs!RoundTrip` | `decode` gives back what `encode` accepted |
| `KeyIndexProofs!Injective` | two offsets never share a word |
| `KeyIndexProofs!InWord` | a word stays below `kInvalidCompactOffset` |
| `ColdTierProofs!ColdInvariance` | `Spec => []ColdInv` |
| `ColdTierProofs!AckedIsDurable` | `AckedDurable`: a power failure leaves of a key what the last completed write left, or a write begun since |
| `ColdTierProofs!OneEntry` | `OneEntryPerKey` |
| `ColdTierProofs!ChainsApart` | `ChainsDisjoint`: chains end, and no bucket is in two |
| `ColdTierProofs!LookupIsFresh` | `LookupFresh`: a lookup beside a writer returns a value that was current while it ran |
| `CommitBufferProofs!BufferInvariance` | `Spec => []BufferInv` |
| `CommitBufferProofs!CounterExact` | `SizeExact`: the size of a lane is its queue, the pushes on their way and the dequeue not yet subtracted |
| `CommitBufferProofs!AppliedInOrder` | `LaneOrder`: a producer's entries are applied in order |
| `CommitBufferProofs!FlushComplete` | `FlushWaits`: what was pushed before `flush_and_wait` is applied when it returns |
| `KeyIndexProofs!KeyInvariance` | `Spec => []KeyInv` |
| `KeyIndexProofs!NoStaleRead` | `FreshReads`: no get returns an overwritten or removed value |
| `KeyIndexProofs!OneRecord` | `SingleLive`: one live record between two writes |
| `KeyIndexProofs!BatchesConverge` | `QuietConverged`: ColdTier ends with the live offset |
| `KeyIndexProofs!HotLeadsHome` | `HotNamesKey`: HotTier names places of the key only, no step follows a tombstone |
| `HotTierProofs!HotInvariance` | `Spec => []HotInv` |
| `HotTierProofs!CountExact` | `SizeExact`: `size_` up to the updates still owed |
| `HotTierProofs!NoDuplicate` | `OneSlotPerFp` |
| `HotTierProofs!SweepComplete` | `SweepSuffices`: an undisturbed sweep fails on a fully pinned bucket only |
| `HotTierProofs!PinsReleased` | `QuietUnpinned`: no pin is left behind |
| `HotTierProofs!PinProtects` | `PinnedKept`: a pin that came in time holds |
| `PageLockProofs!PageInvariance` | `Spec => []PageInv` |
| `PageLockProofs!QueueIsOwned` | `QueueOwned`: no offset is left behind in `deadlock_offsets_` |
| `PageLockProofs!UpdatesBelong` | `ValuesBelong`: an update reaches its own key's record only |
| `PageLockProofs!LockInvariance` | `Spec /\ []NoRepairLap => []LockInv` |
| `PageLockProofs!OneHolder` | `LockExclusive`: one live holder whose lock no repair clears, however many threads repair, until two of them race for one word (`raced`) |
| `PageLockProofs!RecordsSurvive` | `RecordsIntact`, likewise |
| `PageLockProofs!ReadsConsistent` | `ReadConsistent`, likewise, and if the version does not go round during a read |
| `CCEHProofs!TreeInvariance` | `Spec => []TreeInv` |
| `CCEHProofs!SemaCorrect` | `SemaExact`: the lock counts who is inside, a split has its segment alone |
| `CCEHProofs!DirectoryCorrect` | `DirectoryExact`: outside of splits the directory leads to the segment of the hash |
| `CCEHProofs!EntryInvariance` | `Spec => []EntryInv` |
| `CCEHProofs!FoundCorrect` | `QuietFound`: between operations a lookup finds the last value stored, but for the five histories of A6 |
| `BlockPoolProofs!PoolInvariance` | `Spec => []PoolInv` |
| `BlockPoolProofs!ClaimsExclusive` | `OneOwner` |
| `BlockPoolProofs!PutsKept` | `RecordsKept`: no page with records is initialised again |
| `BlockPoolProofs!BlocksMapped` | `IndexInRange` |
| `BlockPoolProofs!RecoveryMapped` | `UsedIsMapped`: what a crash leaves maps every used block |

**The argument for the frontier.**  `FrontierDurable` is not inductive: the
value published by the last step of the scan was computed from words read many
steps earlier.  `FrontierInv` strengthens it in layers, each inductive given
the earlier ones:

1. `TypeOK`, `Ownership` (a block has one owner, a slot one client) and
   `Ceiling` (the mark is persisted before the block is handed out);
2. `OnePlace` (`AllWritten`, `PutPlace`, `FlushPlace`): a live record that is
   not in ColdTier is in exactly one place: at its producer, in a lane or in a
   flusher's batch; and `PendingExact` with `SlotBounds`: that place keeps it
   visible in an `inflight_block` or in the ring;
3. `RemovedNotLive` and `Covered`: the cover is without gaps.  The in-flight
   block of a client is replaced only by its next put, after the ring counts
   its record, and the ring is decremented only after ColdTier has it;
4. `Scan` (`ScanMode`, `ScanSlots`, `ScanRing`): what the half-finished scan
   has covered.  Because the slots are read before the ring, a record can only
   move from a place the scan has yet to read into another such place, or into
   ColdTier; `FutureBound` says that a record written after the scan passed its
   client is not below the minimum so far;
5. `FrontierDurable` and `Replayed` follow when the minimum is published and
   when the tail has been replayed.

`Invariance` combines them, one lemma per layer and one step per action.

**The argument for the checkpoint.**  `CheckpointInv` says that the write in
progress is in the slot the persisted pointer does not name
(`WriteInInactiveSlot`), that the named slot verifies, and how the sequence
numbers are ordered (`SeqBounds`).  With it every step of the file maps to a
register write, a register crash or restart, or a stutter.

**The argument for the codec.**  `DivMod` finds a quotient and a remainder below
the divisor again in their sum, for symbolic divisors; `RoundTrip` applies it to
the row (page and slot together), to the slot and to the page.  The three checks
of `encode` are what makes each remainder small enough.

**The argument for ColdTier.**  `ColdInv` holds as long as no power failure has
rewound the allocation counter.  `Links`: a link leads to a younger bucket that
was handed out, and no two lead to the same; so chains end, and buckets of two
chains differ.  A chain is a recursive walk, about which nothing can be proved by
induction on an operator; instead `Chain` is shown to be an increasing sequence
that ends (`ChainShape`, `ChainUp`), and its buckets the least set that holds the
first one and is closed under links (`ReachBase`, `ReachClosed`, `ReachLeast`),
after which no proof looks at the walk again.  `Behind` and `Synced` relate memory
and media: the media have no bit and no link that memory lacks, and the two
differ only where the writer's place says that a store is not fenced yet
(`DirtyHeaders`, `DirtySpots`); that is what a power failure or the eviction of a
line may rely on.  `Values`: a key has one entry, published or claimed by the
bulk upsert in progress, and what it holds in memory and on the media may be
returned.  `Fresh`: the offsets still to be stored are new, so that storing one
makes no two keys share it.  `Singly` and `Grouped` say what the place of an
upsert, a remove or a bulk upsert implies for the bucket and the entries it
works on.  `Reading` is about the lookup beside them: the value it may return is
still ahead of it, in the header copy it scans or in a bucket that is reachable
from there, or it may miss; a new bucket is filled before it is linked, and an
entry moves to no other place.

**The argument for the commit buffer.**  `SizeExact` needs to know what a lane's
flusher has dequeued and not subtracted; only one flusher owns a lane (`Drains`),
so `Sizes` is an equation with one such term.  Order is about three places at
once: what is applied of a lane, what its flusher holds and what is queued are
increasing per producer and each ahead of the next (`Ordered`).  `FlushWaits`
rests on `Accounted` (the entries enqueued are exactly those in a queue, a batch
or an applied list) and on `Scanned`: the lanes `flush_and_wait` has read hold
none of the entries it owes, because these cannot come back to a queue, and
after the last lane the same is said of the batches of the flushers it has read.

**The argument for one key.**  The three properties speak of the moments between
two writes, so `KeyInv` says what holds inside one.  `Live` gives the records of
the key at every step (`Expected`): the old one until it is freed, the new one
from its store on.  What makes it inductive is that the resolver cannot take the
new record for the old one, as its page is locked (`FoundIsOld`), and that a
resolver that finds nothing while an old record exists sets `leaked`.  `Fresh`
adds that every record holds the last completed write or a later one; a get
reads one of these whatever stale offset led it there.  `Converging` follows the
last pushed offset from the lane to the batch, the winner and ColdTier: the last
of these that has anything to say of the key names the target.  At the winner's
choice all puts whose record is alive have the target's offset (by `Live`), so
the HotTier truth and the last entry agree (`LastWins`; that `Min` and `Max` of
positions exist comes from the well-foundedness of the naturals).  `Placed` and
the codec's `RoundTrip` give `HotNamesKey`.

**The argument for HotTier.**  `Searched` says what a probe that has come to slot
`i` knows of the slots before it, for a fingerprint no other thread inserts;
`Swept` says the same of a sweep: after the first round a slot it passed is
pinned or not visited, after the second it is pinned.  `Pins` names the thread,
entry or flusher that will release each pinned slot.  `Kept` says what a put
relies on from its pin to the application of its entry: the slot is pinned, no
sweep has chosen it, and if the put is the latest of its fingerprint the word is
its own.  `Sizes` is the counter equation, with the updates that claims, removes
and evictions still owe.

**The argument for page locks.**  `PageInv` holds of every behaviour.  It says what
the place of a client implies for its operation, its offsets and its intents
(`ClientOK`, `IntentOK`), and names for every queued offset a client that will
look at the queue again or take the offset out (`Waits`): a client that queued
its offset and did not see it any more leaves the loop, so the offset that is
still there was seen.  The version stays below `USED_BIT` because `USED_BIT` is
even and only odd words are unlocked or repaired.  `LockInv` adds exclusion and
the records, and holds until two repairs race for one word.  Exclusion is kept by
every step of a client (`ClientKeepsExclusive`); a repair keeps it if its CAS is of
a page without a holder.  That is `NoLiveRepair`, a part of the invariant: a thread
that has come to its CAS with the word the page still has repairs a page nobody
holds.  The second scan establishes it, since a holder's intent is published
(`RepairReachesCAS`).  No later step disturbs it: the steps of clients move a word
in one of three ways (`ClientMovesWords`), a release leaves it unlocked, an update in
place does not concern a page without a holder, and a lock makes it the word of a
pending repair only if the unlocked word was one below it, which `NoRepairLap`
excludes (`ClientSparesRepairs`).  The CAS of another repair does leave such a word,
and that is what `raced` records (`RepairSparesHolders`).  `Records` says
whose record each slot holds while a key is moved: the index names the old record
until the mover is done (`OldIntact`), the new one is another slot (`NewIntact`),
and every slot that a client frees, for itself or through the queue, holds the
key of a mover (`Frees`); a key has one mover, so the records of other keys are
spared.  Exclusion is needed in one place: between the free and the dequeue of
its offset a client holds the page, so the owner cannot reuse the slot.

`ReadInv` adds what a reader knows between its two loads of the version
(`Copying`).  It has seen the page free, so if the page is locked now a client holds
it: a lock is taken by a client (`ClientMovesWords`), and one left by a killed
process was repaired before the read got there.  Keys change on held pages only
(`ClientMovesKeys`), when the version is odd and not the reader's.  A value needs no
such argument: it belongs to its key at all times (`ValuesBelong`), so a reader
whose copied key is still the key of the slot when it copies the value has two that
belong together, even with an update in place between them; what the second load
must catch is a slot that was freed and used again.  It does unless a
release brings the old version back, which takes 32 lock cycles on one page between
the two loads; that is `NoLap`.

**The argument for CCEH.**  A hash is a leaf of a binary tree of depth `MaxDepth`; a
segment answers for the leaves below its pattern (`Has`), and the theorems about
`Top`, the leading bits, are about nothing else.  `TreeInv` holds of every
behaviour.  `Apart`: no leaf has two segments; a split gives each leaf of the old
segment to one half, so there is always a free segment number below `MaxDepth`
(`Room`, a pigeonhole argument).  Between its copy and its directory update a split
is `Pending`: `Halves` says that the two halves have the bit in question clear and
set, and that nothing but the splitting thread knows the new one.  `Led` then says
where the directory leads a leaf: to its segment, or to the other half of a pending
split.  That the update repairs exactly these entries (`DirChange`) is arithmetic
of powers of two: the upper half of the aligned chunk (`UpperHalf`), or entry
`2x + 1` of the doubled directory (`LevelBound`).  `Counted` and `Alone` are about
the lock words.  `EntryInv` speaks of the histories without `shared`, `stray`,
`late`, `wrapped` and `doubled`.  The shift a writer has kept agrees with the pattern
for every key its segment answers for, so what it takes for a moved key has moved.
An entry counts if its segment answers for its key
(`Live`); what a split leaves behind does not.  A key has at most one such entry
(`OneLive`), with the last value (`LiveValue`), and one if that value is not the
tombstone (`Kept`).  A writer is the only one of its segment (`Solo`) and its key
belongs there (`Home`), so what it has seen in its slot (`Placed`) still is there
when it writes, and every write is of a slot that has and gets no entry but one of
its own key (`SlotWrite`).  The copy of a split is followed slot by slot
(`CopyOf`): an entry that was not probed past the last slot finds room no later
than where it was, because at that point its own slot of the copy is still empty.

**The argument for the pool.**  `Counted` pays for blocks and mappings with the
requests that began, which bounds both.  `Vector` relates the mappings counted
in the metadata to what the resize thread has appended and published.  `Claimed`
orders cursor, used blocks, durable metadata and the owners' blocks.  `Walk`
says that a client going round its block has passed all pages with records since
it took the block, which is why `update_access_information` never initialises
one of them.

**Only model-checked**, and why:

* `BackpressureEnds`, `OperationsEnd`, `InsertsEnd`, `ClaimsEnd`: liveness under
  fairness is out of the prover's reach.
* `PageLock`: the hypotheses `NoRepairLap` and `NoLap`.  They are not true of
  unbounded runs: the version has six bits, so after 32 lock cycles it shows a value
  that a repairer or a reader loaded before.  The run has too few operations for that.

## 6. Findings

Two runs state what a comment of the code says and show it violated.

1. `frontier_blind` (`hiom.hpp:1783`): a client's first block is claimed before
   its slot is reserved and published.  A checkpoint whose slot reads come
   before the publication and whose cursor read comes after the claim publishes
   a frontier above that block; a record acknowledged there and not flushed at
   a crash is outside the tail.
2. `key_duplicate` (`viper.hpp:2657`): the old record is on the page that the
   put itself has locked, so the resolver cannot read it and two records stay
   live.

Other disagreements met while modelling have no run of their own.  The
properties or bounds named here reproduce them.

* **A1** (`commit_buffer.hpp:186`): `fetch_sub` to zero, then a push that sets
  the bit, then the drain's `fetch_and` clears it.  Later pushes see a positive
  size and set nothing.  `NonEmptyLaneHasBit`, added to `MCCommitBuffer.cfg`.
* **A2** (`cold_tier.hpp:391`): `next_overflow_alloc` is covered by no persist
  and `open` does not recompute it; after a power failure a linked bucket can be
  handed out again.  `NewBucketUnreachable`, with four keys on two main buckets
  and two overflow buckets.  In the code the counter shares a cache line with
  the header of main bucket 0 of its region, so persists of that header carry it
  along; the other main buckets have no such luck.
* **A3** (`hiom.hpp:671`): a slow get mirrors an old offset over a newer pinned
  one; until the newer put is flushed no tier leads to the key.
  `AckedReachable`, added to `MCKeyIndex.cfg`.
* **A4** (`viper.hpp:815`): the comments say that the repair is safe to call
  concurrently from any thread (792) and that it can only clear a live lock if the
  version goes through all its values inside the repairer's window (751).  Two
  repairers do it at once.  Both have scanned; one clears the stale lock, which
  drops the lowest bit and leaves the version; a client publishes its intent and
  locks, which gives the same odd word again; the other's CAS clears that lock.
  `LockExclusive`, `RecordsIntact` and `ReadConsistent` except what follows
  (`raced`), and nothing else of the repairs.  `LiveLockKept`, added to
  `MCPageLock.cfg`, is violated within 20 steps.
* **A5** (`viper.hpp:2407`): two clients that want the same crash-stale page
  withdraw and re-publish their intents around their own attempts only, so each
  can keep the other from repairing it.  `OperationsEnd` without
  `StaleContended`.
* **A6** (`cceh.hpp`): an insert checks the pattern before it counts itself in
  (375) and a thread that asked for a split does not look again (541): `stray`;
  it takes `pattern_shift` (374) before it counts itself in (378), so after another
  thread's split of a segment with a pattern other than 0 it compares hashes cut with
  the old shift with the new pattern (399) and removes live keys of its own half,
  the key it inserts among them: `late`;
  the lazy deletion takes a `SENTINEL` for a moved key (395): `shared`; entries
  probed past the last slot can find no room when their segment is split (446):
  `wrapped`; an insert that claims an `INVALID` slot in front of the key's own
  leaves two (406; `viper.hpp:1791` knows of it): `doubled`.  `QuietFound`
  without the respective condition.
* **A7** (`viper.hpp:1607`): a client that spins for a block never starts a
  resize.  If more clients pass the check together than blocks are left, or the
  trigger comes while `is_resizing_` is still set after the last publication,
  they wait for a client that comes later.  `ClaimsEnd` with a later threshold.
  The assertion at 1700 also compares the block after the claimed one, and
  fails for a claim of the last mapped block.
* **A8** (`viper.hpp:1473`): `prefault_runway_blocks = 1` makes the low-water
  mark zero and the worker never populates anything; `PoolAssumption` asks for
  two.
* **A9** (`hiom.hpp:1049`): a put that found its bucket full waits for
  `size_hint()` to become zero so that its entry "reaches ColdTier before this
  put returns" (1031).  The size is decremented when a flusher takes the entry,
  before it applies it: the put can return while neither tier leads to the
  record.  `AckedReachable`, added to `MCKeyIndex.cfg`, as A3.
* **A10** (`viper.hpp:2368`): a client that waits for a page has queued its offset;
  the page's owner frees it from the queue, ends its operation, puts into the
  same slot again and unlocks.  The client's next CAS succeeds, and it frees the
  slot ("Acquired lock, delete normally") without a look at the queue: the new
  record is gone.  `RecordsIntact` without `refreed`, with three clients and the
  operations remove of `c2`'s key by `c1`, put of `c3`'s key and of `c1`'s key by
  `c2`, and update of `c3`'s key by `c3`.

## 7. Abstractions

* `Frontier`: keys, values and the slots inside a page do not matter, a record
  is a block and a number.  ColdTier is a set, its internals are `ColdTier`'s
  subject, and the checkpoint write is one step, which is what
  `CheckpointImplementsRegister` allows.
* `Checkpoint`: payloads are opaque and a torn slot fails the hash.
* `CommitBuffer`: entries are `<<producer, number>>`; applying a batch is one
  step.
* `ColdTier`: one region (regions share nothing); lock holders follow each
  other; `num_entries` and `parallel_load` are left out.  A process kill leaves
  memory as it is, i.e. the failure after all words were written back; a kill
  followed by a power loss before the caches drain is not modelled.
* `KeyIndex`: freeing a slot on a page locked by another client is immediate
  (the code postpones it with `deadlock_offsets_`); the flusher picks a winner
  and removes the tombstoned entry in one step; `get_batch`, `assume_new` and
  several writers of one key are left out.
* `OffsetCodec`: one region; a field's width is the number of its values.
* `PageLock`: the index is one offset per key, whose verification by the
  resolver is one step (the optimistic read is split in the reader only); a key
  has one put or remove at a time; a page is never full; retry counters
  (`num_deadlock_retries`, `STALE_LOCK_SPIN_THRESHOLD`) are a free choice.
* `HotTier`: visited bits change with the step before them, as they are relaxed
  hints; one bucket; commit entries reach the flusher in any order.
* `CCEH`: keys of at most 8 bytes, as `using_fp_` is false for them; the table is
  volatile; the directory is loaded with its entry, so the use of a directory
  that a doubling has deleted (`cceh.hpp:589`) is outside; past `MaxDepth` an
  insert is given up.
* `BlockPool`: a page is empty, initialised or holds records, and its
  initialisation is one step (a crash inside it, `viper.hpp:314`, is a hazard
  without a property); a read of the vector while it moves finds the right block
  or is a crash; mappings are counted, not addressed.

## 8. Not modelled

Reclamation and compaction (`viper.hpp:2713-2882`; HiOM aborts when they are
enabled, `hiom.hpp:316`); the Viper branches that use CCEH, bypassed while HiOM
owns the index, and CCEH's fingerprinted keys, `Remove` and `Capacity`;
file-system and `mmap` calls of the pool; variable-length records (HiOM is built
for fixed-size keys); `get_batch` (a get per key with prefetching); hash
functions (only that equal keys hash alike is used); statistics, benchmarks and
tests.

## 9. Plan

1. `DurableMap`: the abstract map that `ColdTier` implements; a process kill
   distinct from a power failure (`cold_tier.hpp:326`).
2. `KeyIndex` with two writers, and a property of the synchronous drain
   (`hiom.hpp:1049`); a composition of `CommitBuffer` and `Frontier`.
