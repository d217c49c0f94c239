--------------------------- MODULE HotTierProofs ---------------------------
(***************************************************************************)
(* The safety properties of HotTier, proved for any number of threads,     *)
(* flushers, fingerprints, slots, retries and operations.                  *)
(***************************************************************************)
EXTENDS HotTier, FiniteSetTheorems, TLAPS

(***************************************************************************)
(* The inductive invariant.                                                *)
(***************************************************************************)
ThreadRec ==
    [at : {"idle", "probe", "match", "removed", "claim", "claimed", "sieve", "failed", "victim",
           "evict", "evicted", "pin_or", "pin_and", "push"},
     op : {"none", "upsert", "upsert_pinned", "lookup", "remove"},
     fp : Fingerprints \cup {None}, off : 0 .. MaxOps, i : 0 .. kSlotsPerBucket,
     first_empty : Slots \cup {kInvalidIdx}, v : Words, retry : 0 .. kMaxUpsertRetries - 1,
     k : 0 .. SweepSteps, hand : Slots]

Sweeping == {"sieve", "victim", "evict"}
Pinning  == {"pin_or", "pin_and", "push"}

\* What a thread in the middle of an operation remembers.
Remembers(r) ==
    /\ r.at = "idle" => r.op = "none"
    /\ r.at # "idle" => r.fp \in Fingerprints /\ r.off \in 1 .. ops
    /\ r.at \notin {"idle", "sieve", "failed"} => r.i \in Slots
    /\ r.at \in Sweeping \cup {"claim", "claimed", "failed", "evicted"} => Inserts(r.op)
    /\ r.at \in Pinning => r.op = "upsert_pinned"
    /\ r.at = "removed" => r.op = "remove"
    /\ r.at = "match" => HasFp(r.v, r.fp) /\ r.op # "lookup"
    /\ r.at = "evict" => r.v # Empty
    /\ r.at \in {"victim", "evict"} => r.k < SweepSteps

\* A commit entry that a put pushed.
Pushed(e) == e \in Entries /\ e.fp \in Fingerprints /\ e.off \in 1 .. ops /\ e.slot \in Slots

Types ==
    /\ HotTypeOK /\ ops \in 0 .. MaxOps
    /\ thread \in [Threads -> ThreadRec]
    /\ \A t \in Threads : Remembers(thread[t])
    /\ flusher \in [Flushers -> [at : {"idle", "own", "release"}, entry : Entries]]
    /\ \A f \in Flushers : flusher[f].at # "idle" => flusher[f].entry.slot \in Slots
    /\ \A e \in pending : Pushed(e)

\* size_ and the slots.
InState(l) == {t \in Threads : At(t, l)}
Sizes ==
    /\ IsFiniteSet(InState("claimed")) /\ IsFiniteSet(InState("removed"))
    /\ IsFiniteSet(InState("evicted"))
    /\ size + Count("claimed") - Count("removed") - Count("evicted") = Cardinality(Occupied)

Absent(fp) == \A j \in Slots : ~HasFp(packed[j], fp)

\* A thread that inserts a fingerprint no other thread inserts has not passed a
\* slot with it.
Searched(r) ==
    Inserts(r.op) /\ r.fp \notin overlapped =>
        /\ r.at = "probe" => \A j \in Slots : j < r.i => ~HasFp(packed[j], r.fp)
        /\ r.at \in Sweeping \cup {"claim", "evicted"} => Absent(r.fp)

Single ==
    /\ OneSlotPerFp
    /\ \A t \in Threads : Searched(thread[t])
    /\ \A t, u \in Threads :
           /\ t # u /\ Inserts(thread[t].op) /\ Inserts(thread[u].op) /\ thread[t].fp = thread[u].fp
           => thread[t].fp \in overlapped

\* A sweep that nothing disturbed left every slot of its first round pinned or not
\* visited, and every one of its second round pinned.
Turn(r, j) == (r.hand + j) % kSlotsPerBucket
Swept(r) ==
    /\ r.at \in {"sieve", "victim"} => \A j \in 0 .. r.k - 1 :
           /\ Skipped(Turn(r, j)) \/ Turn(r, j) \notin visited
           /\ j >= kSlotsPerBucket => Skipped(Turn(r, j))
    /\ r.at = "evict" => packed[r.i] = r.v
Sweeps == SweepSuffices /\ \A t \in alone : Swept(thread[t])

\* Somebody will release a slot that is pinned or in flush.
Pins ==
    \A i \in Slots :
        /\ state[i] = kPinned =>
             \/ \E e \in pending : e.slot = i
             \/ \E t \in Threads : thread[t].at \in {"pin_and", "push"} /\ thread[t].i = i
             \/ \E f \in Flushers : flusher[f].at = "own" /\ flusher[f].entry.slot = i
        /\ state[i] = kInFlush =>
             \E f \in Flushers : flusher[f].at = "release" /\ flusher[f].entry.slot = i

\* The operations have different offsets.
Numbered ==
    /\ \A t, u \in Threads : /\ t # u /\ thread[t].at # "idle" /\ thread[u].at # "idle"
                             => thread[t].off # thread[u].off
    /\ \A t \in Threads, e \in pending : thread[t].at # "idle" => thread[t].off # e.off

\* The put of fp and off still counts on the pin of slot i, and has it.
Kept(fp, off, i) ==
    off \notin exposed =>
        /\ state[i] # kUnpinned
        /\ \A u \in Threads : thread[u].at \in {"victim", "evict"} => thread[u].i # i
        /\ off = latest[fp] => packed[i] = Pack(fp, off)
Keeps ==
    /\ \A e \in pending : Kept(e.fp, e.off, e.slot)
    /\ \A t \in Threads : At(t, "push") => Kept(thread[t].fp, thread[t].off, thread[t].i)

HotInv == Types /\ Sizes /\ Single /\ Sweeps /\ Pins /\ Numbered /\ Keeps

-----------------------------------------------------------------------------
(* What the steps of a thread make of its record.                          *)

\* A word holds the fingerprint it was packed with.
LEMMA PackedWord ==
    ASSUME NEW fp \in Fingerprints, NEW off \in 0 .. MaxOps
    PROVE  /\ Pack(fp, off) \in Words /\ Pack(fp, off) # Empty /\ Empty \in Words
           /\ \A g : HasFp(Pack(fp, off), g) <=> fp = g
           /\ \A o : Pack(fp, off) = Pack(fp, o) => off = o
  BY DEF Pack, Words, Empty, HasFp

\* Nothing is in an empty slot.
LEMMA EmptyWord == Empty \in Words /\ \A g : ~HasFp(Empty, g)
  BY DEF Words, Empty, HasFp

\* The operation goes on, or is over.
Follows(x, r) ==
    \/ x = Idle
    \/ x.at # "idle" /\ x.op = r.op /\ x.fp = r.fp /\ x.off = r.off

Becomes(t, x) ==
    /\ x \in ThreadRec /\ Remembers(x)
    /\ Follows(x, thread[t])
    /\ thread' = [thread EXCEPT ![t] = x]

\* The constants of the bucket.
LEMMA BucketKnown ==
    /\ kSlotsPerBucket \in Nat \ {0} /\ kMaxUpsertRetries \in Nat \ {0} /\ MaxOps \in Nat
    /\ 0 \in Slots /\ SweepSteps \in Nat \ {0} /\ Slots \subseteq 0 .. kSlotsPerBucket
    /\ Slots \subseteq Nat /\ kInvalidIdx \notin Slots
    /\ \A a \in Nat : a % kSlotsPerBucket \in Slots
  BY BucketAssumption, RetryAssumption, HotBounds DEF Slots, SweepSteps, kInvalidIdx

\* A thread without an operation.
LEMMA IdleKnown ==
    /\ Idle \in ThreadRec /\ Remembers(Idle) /\ Idle.at = "idle" /\ Idle.op = "none"
<1>1. Idle.at = "idle" /\ Idle.op = "none"
  BY DEF Idle
<1>2. Idle \in ThreadRec
  BY BucketKnown, EmptyWord DEF Idle, ThreadRec
<1> QED
  BY <1>1, <1>2 DEF Remembers, Sweeping, Pinning

\* On with slot i.
LEMMA OnWithKnown ==
    ASSUME Types, NEW t \in Threads, NEW l, NEW i \in Slots, OnWith(t, l, i),
           ~At(t, "idle"),
           \/ l \in {"claim", "claimed", "evicted"} /\ Inserts(thread[t].op)
           \/ l = "pin_or" /\ thread[t].op = "upsert_pinned"
           \/ l = "removed" /\ thread[t].op = "remove"
    PROVE  \E x \in ThreadRec : Becomes(t, x) /\ x.at = l /\ x.i = i
<1> DEFINE r == thread[t]
           y == IF l \in {"claim", "evicted"} THEN r.retry ELSE 0
           x == [Idle EXCEPT !.at = l, !.op = r.op, !.fp = r.fp, !.off = r.off, !.i = i, !.retry = y]
<1>1. thread' = [thread EXCEPT ![t] = x]
  BY DEF OnWith, To
<1>2. r \in ThreadRec /\ Remembers(r)
  BY DEF Types
<1>3. y \in 0 .. kMaxUpsertRetries - 1
  BY <1>2, BucketKnown DEF ThreadRec
<1> HIDE DEF y
<1>4. x \in ThreadRec
  <2>1. /\ r.op \in {"none", "upsert", "upsert_pinned", "lookup", "remove"}
        /\ r.fp \in Fingerprints \cup {None} /\ r.off \in 0 .. MaxOps
    BY <1>2 DEF ThreadRec
  <2>2. i \in 0 .. kSlotsPerBucket /\ 0 \in 0 .. SweepSteps /\ 0 \in Slots
    BY BucketKnown
  <2> HIDE DEF r
  <2> QED
    BY <1>3, <2>1, <2>2, EmptyWord DEF ThreadRec, Idle
<1>a. /\ x.at = l /\ x.op = r.op /\ x.fp = r.fp /\ x.off = r.off /\ x.i = i
  BY DEF Idle
<1> HIDE DEF x
<1>5. Remembers(x)
  BY <1>2, <1>a DEF Remembers, At, Sweeping, Pinning
<1>6. Follows(x, r)
  BY <1>a DEF Follows, At
<1> QED
  BY <1>1, <1>a, <1>4, <1>5, <1>6 DEF Becomes

\* The probe begins again.
LEMMA RestartKnown ==
    ASSUME Types, NEW t \in Threads, Restart(t), ~At(t, "idle")
    PROVE  \E x \in ThreadRec :
              Becomes(t, x) /\ (x.at = "idle" \/ (x.at = "probe" /\ x.i = 0))
<1> DEFINE r == thread[t]
<1>1. r \in ThreadRec /\ Remembers(r)
  BY DEF Types
<1>2. CASE Inserts(r.op) /\ r.retry + 1 = kMaxUpsertRetries
  <2>1. thread' = [thread EXCEPT ![t] = Idle]
    BY <1>2 DEF Restart, Done, To
  <2> QED
    BY <2>1, IdleKnown DEF Becomes, Follows
<1>3. CASE ~(Inserts(r.op) /\ r.retry + 1 = kMaxUpsertRetries)
  <2> DEFINE y == IF Inserts(r.op) THEN r.retry + 1 ELSE 0
             x == [at |-> "probe", op |-> r.op, fp |-> r.fp, off |-> r.off, i |-> 0,
                   first_empty |-> kInvalidIdx, v |-> Empty, retry |-> y, k |-> 0, hand |-> 0]
  <2>1. thread' = [thread EXCEPT ![t] = x]
    BY <1>3 DEF Restart, To, Idle
  <2>2. y \in 0 .. kMaxUpsertRetries - 1
    BY <1>1, <1>3, BucketKnown DEF ThreadRec
  <2>3. x \in ThreadRec
    BY <1>1, <2>2, BucketKnown, EmptyWord DEF ThreadRec
  <2>4. Remembers(x)
    BY <1>1, BucketKnown DEF Remembers, At, Sweeping, Pinning
  <2>5. Follows(x, r)
    BY DEF Follows
  <2> QED
    BY <2>1, <2>3, <2>4, <2>5 DEF Becomes
<1> QED
  BY <1>2, <1>3

\* A probe of one slot: a match, the next slot, or the end of the probe.
LEMMA ProbeKnown ==
    ASSUME Types, NEW t \in Threads, ProbeSlot(t)
    PROVE  \E x \in ThreadRec :
              /\ Becomes(t, x)
              /\ x.at \in {"idle", "match", "probe", "claim", "sieve"}
              /\ x.at = "match" => x.i = thread[t].i
              /\ x.at \in {"probe", "claim", "sieve"} => ~HasFp(packed[thread[t].i], thread[t].fp)
              /\ x.at = "probe" => x.i = thread[t].i + 1
              /\ x.at \in {"claim", "sieve"} => thread[t].i + 1 = kSlotsPerBucket
              /\ x.at = "sieve" => x.k = 0
<1> DEFINE r == thread[t]
           v == packed[r.i]
           e == IF v = Empty /\ r.first_empty = kInvalidIdx THEN r.i ELSE r.first_empty
           n == [r EXCEPT !.i = r.i + 1, !.first_empty = e]
<1>1. r \in ThreadRec /\ Remembers(r) /\ At(t, "probe") /\ r.i \in Slots
  BY DEF Types, ProbeSlot, Remembers, At
<1>2. v \in Words
  BY <1>1 DEF Types, HotTypeOK
<1>3. CASE HasFp(v, r.fp) /\ r.op # "lookup"
  <2> DEFINE x == [r EXCEPT !.at = "match", !.v = v]
  <2>1. thread' = [thread EXCEPT ![t] = x]
    BY <1>3 DEF ProbeSlot, To
  <2>2. x \in ThreadRec
    BY <1>1, <1>2 DEF ThreadRec
  <2>3. /\ x.at = "match" /\ x.op = r.op /\ x.fp = r.fp /\ x.off = r.off /\ x.i = r.i /\ x.v = v
    BY <1>1 DEF ThreadRec
  <2>4. Remembers(x)
    BY <1>1, <1>3, <2>3 DEF Remembers, At, Sweeping, Pinning
  <2> QED
    BY <2>1, <2>2, <2>3, <2>4 DEF Becomes, Follows
<1>4. CASE HasFp(v, r.fp) /\ r.op = "lookup"
  <2>1. thread' = [thread EXCEPT ![t] = Idle]
    BY <1>4 DEF ProbeSlot, Done, To
  <2> QED
    BY <2>1, IdleKnown DEF Becomes, Follows
<1>5. CASE ~HasFp(v, r.fp)
  <2>1. e \in Slots \cup {kInvalidIdx}
    BY <1>1 DEF ThreadRec
  <2>2. r.i + 1 \in 1 .. kSlotsPerBucket
    BY <1>1, BucketKnown DEF Slots
  <2>a. r.i + 1 \in 0 .. kSlotsPerBucket
    BY <2>2, BucketKnown
  <2> HIDE DEF e
  <2>3. n \in ThreadRec
    <3> DEFINE a == r.i + 1
    <3>1. a \in 0 .. kSlotsPerBucket
      BY <2>a
    <3> HIDE DEF a
    <3>2. [r EXCEPT !.i = a, !.first_empty = e] \in ThreadRec
      BY <1>1, <2>1, <3>1 DEF ThreadRec
    <3> QED
      BY <3>2 DEF a
  <2>4. /\ n.at = "probe" /\ n.op = r.op /\ n.fp = r.fp /\ n.off = r.off /\ n.i = r.i + 1
        /\ n.first_empty = e
    BY <1>1 DEF ThreadRec, At
  <2>5. IF n.i = kSlotsPerBucket THEN ProbeEnd(t, n) ELSE To(t, n)
    BY <1>5 DEF ProbeSlot, e
  <2> HIDE DEF n
  <2>6. CASE n.i # kSlotsPerBucket
    <3>1. thread' = [thread EXCEPT ![t] = n]
      BY <2>5, <2>6 DEF To
    <3>2. n.i \in Slots
      BY <2>2, <2>4, <2>6, BucketKnown DEF Slots
    <3>3. Remembers(n)
      BY <1>1, <2>4, <3>2 DEF Remembers, At, Sweeping, Pinning
    <3> QED
      BY <1>5, <2>3, <2>4, <3>1, <3>3 DEF Becomes, Follows
  <2>7. CASE n.i = kSlotsPerBucket /\ ~Inserts(n.op)
    <3>1. thread' = [thread EXCEPT ![t] = Idle]
      BY <2>5, <2>7 DEF ProbeEnd, Done, To
    <3> QED
      BY <3>1, IdleKnown DEF Becomes, Follows
  <2>8. CASE n.i = kSlotsPerBucket /\ Inserts(n.op) /\ n.first_empty # kInvalidIdx
    <3>1. OnWith(t, "claim", e) /\ e \in Slots
      BY <2>1, <2>4, <2>5, <2>8 DEF ProbeEnd
    <3>2. PICK x \in ThreadRec : Becomes(t, x) /\ x.at = "claim" /\ x.i = e
      BY <1>1, <2>4, <2>8, <3>1, OnWithKnown DEF At
    <3> QED
      BY <1>5, <2>4, <2>8, <3>2
  <2>9. CASE n.i = kSlotsPerBucket /\ Inserts(n.op) /\ n.first_empty = kInvalidIdx
    <3> DEFINE x == [n EXCEPT !.at = "sieve", !.k = 0, !.hand = hand]
    <3>1. thread' = [thread EXCEPT ![t] = x]
      BY <2>5, <2>9 DEF ProbeEnd, To
    <3>2. hand \in Slots /\ 0 \in 0 .. SweepSteps
      BY BucketKnown DEF Types, HotTypeOK
    <3>3. x \in ThreadRec
      BY <2>3, <3>2 DEF ThreadRec
    <3>4. x.at = "sieve" /\ x.k = 0 /\ x.op = n.op /\ x.fp = n.fp /\ x.off = n.off
      BY <2>3 DEF ThreadRec
    <3>5. Remembers(x)
      BY <1>1, <2>4, <2>9, <3>4 DEF Remembers, At, Sweeping, Pinning
    <3> QED
      BY <1>5, <2>4, <2>9, <3>1, <3>3, <3>4, <3>5 DEF Becomes, Follows
  <2> QED
    BY <2>6, <2>7, <2>8, <2>9
<1> QED
  BY <1>3, <1>4, <1>5

\* The end of a write.
LEMMA AfterWriteKnown ==
    ASSUME Types, NEW t \in Threads, AfterWrite(t), ~At(t, "idle"), thread[t].i \in Slots
    PROVE  \E x \in ThreadRec :
              Becomes(t, x) /\ (x.at = "idle" \/ (x.at = "pin_or" /\ x.i = thread[t].i))
<1>1. CASE thread[t].op = "upsert_pinned"
  <2>1. OnWith(t, "pin_or", thread[t].i)
    BY <1>1 DEF AfterWrite
  <2> QED
    BY <1>1, <2>1, OnWithKnown
<1>2. CASE thread[t].op # "upsert_pinned"
  <2>1. thread' = [thread EXCEPT ![t] = Idle]
    BY <1>2 DEF AfterWrite, Done, To
  <2> QED
    BY <2>1, IdleKnown DEF Becomes, Follows
<1> QED
  BY <1>1, <1>2

\* The operation ends.
LEMMA DoneKnown ==
    ASSUME NEW t \in Threads, Done(t)
    PROVE  Becomes(t, Idle)
  BY IdleKnown DEF Done, To, Becomes, Follows

\* A step of the pin, or the end of a sweep.
LEMMA GotoKnown ==
    ASSUME Types, NEW t \in Threads, NEW l, Goto(t, l),
           \/ At(t, "pin_or") /\ l = "pin_and"
           \/ At(t, "pin_and") /\ l = "push"
           \/ At(t, "sieve") /\ l = "failed"
    PROVE  \E x \in ThreadRec : Becomes(t, x) /\ x.at = l /\ x.i = thread[t].i
<1> DEFINE r == thread[t]
           x == [r EXCEPT !.at = l]
<1>1. r \in ThreadRec /\ Remembers(r) /\ ~At(t, "idle")
  BY DEF Types, At
<1>2. thread' = [thread EXCEPT ![t] = x]
  BY DEF Goto, To
<1>3. x \in ThreadRec
  BY <1>1 DEF ThreadRec
<1>4. x.at = l /\ x.op = r.op /\ x.fp = r.fp /\ x.off = r.off /\ x.i = r.i
  BY <1>1 DEF ThreadRec
<1>5. Remembers(x)
  BY <1>1, <1>4 DEF Remembers, At, Sweeping, Pinning
<1> QED
  BY <1>1, <1>2, <1>3, <1>4, <1>5 DEF Becomes, Follows

\* A step of the sweep: on to the next slot, or a victim.
LEMMA SieveSlotKnown ==
    ASSUME Types, NEW t \in Threads, SieveSlot(t)
    PROVE  \E x \in ThreadRec :
              /\ Becomes(t, x) /\ SweepSlot(t) \in Slots /\ x.hand = thread[t].hand
              /\ \/ /\ x.at = "sieve" /\ x.k = thread[t].k + 1
                    /\ Skipped(SweepSlot(t)) \/ SweepSlot(t) \in visited
                 \/ /\ x.at = "victim" /\ x.i = SweepSlot(t) /\ x.k = thread[t].k
                    /\ ~Skipped(SweepSlot(t)) /\ SweepSlot(t) \notin visited
<1> DEFINE r == thread[t]
           i == SweepSlot(t)
<1>1. r \in ThreadRec /\ Remembers(r) /\ r.at = "sieve" /\ r.k < SweepSteps
  BY DEF Types, At, SieveSlot
<1>a. r.hand \in Slots /\ r.k \in 0 .. SweepSteps
  BY <1>1 DEF ThreadRec
<1>b. Slots \subseteq Nat /\ SweepSteps \in Nat
  BY BucketKnown
<1>2. r.hand \in Nat /\ r.k \in Nat
  <2> HIDE DEF r
  <2>1. r.hand \in Nat
    BY <1>a, <1>b
  <2>2. r.k \in Nat
    BY <1>a, <1>b
  <2> QED
    BY <2>1, <2>2
<1>3. i \in Slots
  BY <1>2, BucketKnown DEF SweepSlot
<1> HIDE DEF i
<1>4. CASE Skipped(i) \/ i \in visited
  <2> DEFINE x == [r EXCEPT !.k = r.k + 1]
  <2>1. thread' = [thread EXCEPT ![t] = x]
    BY <1>4 DEF SieveSlot, To, i
  <2>2. r.k + 1 \in 0 .. SweepSteps
    BY <1>1, <1>2, BucketKnown
  <2>3. x \in ThreadRec
    BY <1>1, <2>2 DEF ThreadRec
  <2>4. /\ x.at = "sieve" /\ x.op = r.op /\ x.fp = r.fp /\ x.off = r.off /\ x.k = r.k + 1
        /\ x.hand = r.hand
    BY <1>1 DEF ThreadRec
  <2>5. Remembers(x)
    BY <1>1, <2>4 DEF Remembers, Sweeping, Pinning
  <2> QED
    BY <1>3, <1>4, <2>1, <2>3, <2>4, <2>5 DEF Becomes, Follows, i
<1>5. CASE ~(Skipped(i) \/ i \in visited)
  <2> DEFINE x == [r EXCEPT !.at = "victim", !.i = i]
  <2>1. thread' = [thread EXCEPT ![t] = x]
    BY <1>5 DEF SieveSlot, To, i
  <2>2. x \in ThreadRec
    BY <1>1, <1>3, BucketKnown DEF ThreadRec
  <2>3. /\ x.at = "victim" /\ x.op = r.op /\ x.fp = r.fp /\ x.off = r.off /\ x.i = i
        /\ x.hand = r.hand /\ x.k = r.k
    BY <1>1 DEF ThreadRec
  <2>4. Remembers(x)
    BY <1>1, <1>3, <2>3 DEF Remembers, Sweeping, Pinning
  <2> QED
    BY <1>3, <1>5, <2>1, <2>2, <2>3, <2>4 DEF Becomes, Follows, i
<1> QED
  BY <1>4, <1>5

\* The victim is an empty slot to claim, or a word to evict.
LEMMA SieveLoadKnown ==
    ASSUME Types, NEW t \in Threads, SieveLoad(t)
    PROVE  \E x \in ThreadRec :
              /\ Becomes(t, x) /\ thread[t].i \in Slots /\ x.i = thread[t].i
              /\ \/ x.at = "claim"
                 \/ x.at = "evict" /\ x.v = packed[thread[t].i]
<1> DEFINE r == thread[t]
           x == [r EXCEPT !.at = "evict", !.v = packed[r.i]]
<1>1. r \in ThreadRec /\ Remembers(r) /\ At(t, "victim") /\ r.at = "victim" /\ r.i \in Slots
  BY DEF Types, At, SieveLoad, Remembers
<1>2. CASE packed[r.i] = Empty
  <2>1. OnWith(t, "claim", r.i) /\ Inserts(r.op) /\ ~At(t, "idle")
    BY <1>1, <1>2 DEF SieveLoad, Remembers, Sweeping, At
  <2> QED
    BY <1>1, <2>1, OnWithKnown
<1>3. CASE packed[r.i] # Empty
  <2>1. thread' = [thread EXCEPT ![t] = x]
    BY <1>3 DEF SieveLoad, To
  <2>2. packed[r.i] \in Words
    BY <1>1 DEF Types, HotTypeOK
  <2>3. x \in ThreadRec
    BY <1>1, <2>2 DEF ThreadRec
  <2>4. /\ x.at = "evict" /\ x.op = r.op /\ x.fp = r.fp /\ x.off = r.off /\ x.i = r.i
        /\ x.v = packed[r.i] /\ x.k = r.k
    BY <1>1 DEF ThreadRec
  <2>5. Remembers(x)
    BY <1>1, <1>3, <2>4 DEF Remembers, Sweeping, Pinning
  <2> QED
    BY <1>1, <2>1, <2>3, <2>4, <2>5 DEF Becomes, Follows
<1> QED
  BY <1>2, <1>3

\* The word is evicted, or the sweep goes on.
LEMMA SieveCASKnown ==
    ASSUME Types, NEW t \in Threads, SieveCAS(t)
    PROVE  \E x \in ThreadRec :
              /\ Becomes(t, x) /\ thread[t].i \in Slots
              /\ \/ /\ x.at = "evicted" /\ x.i = thread[t].i /\ packed[thread[t].i] = thread[t].v
                    /\ packed' = [packed EXCEPT ![thread[t].i] = Empty]
                 \/ /\ x.at = "sieve" /\ packed[thread[t].i] # thread[t].v
                    /\ packed' = packed
<1> DEFINE r == thread[t]
           x == [r EXCEPT !.at = "sieve", !.k = r.k + 1]
<1>1. r \in ThreadRec /\ Remembers(r) /\ At(t, "evict") /\ r.at = "evict" /\ r.i \in Slots
  BY DEF Types, At, SieveCAS, Remembers
<1>2. CASE packed[r.i] = r.v
  <2>1. OnWith(t, "evicted", r.i) /\ Inserts(r.op) /\ ~At(t, "idle")
        /\ packed' = [packed EXCEPT ![r.i] = Empty]
    BY <1>1, <1>2 DEF SieveCAS, Remembers, Sweeping, At
  <2> QED
    BY <1>1, <1>2, <2>1, OnWithKnown
<1>3. CASE packed[r.i] # r.v
  <2>1. thread' = [thread EXCEPT ![t] = x] /\ packed' = packed
    BY <1>3 DEF SieveCAS, To
  <2>2. r.k + 1 \in 0 .. SweepSteps
    BY <1>1, BucketKnown DEF ThreadRec, Remembers
  <2>3. x \in ThreadRec
    BY <1>1, <2>2 DEF ThreadRec
  <2>4. x.at = "sieve" /\ x.op = r.op /\ x.fp = r.fp /\ x.off = r.off
    BY <1>1 DEF ThreadRec
  <2>5. Remembers(x)
    BY <1>1, <2>4 DEF Remembers, Sweeping, Pinning
  <2> QED
    BY <1>1, <1>3, <2>1, <2>3, <2>4, <2>5 DEF Becomes, Follows
<1> QED
  BY <1>2, <1>3

-----------------------------------------------------------------------------
(* What a step of one thread leaves alone, part by part of the invariant.  *)

\* A thread other than the one that steps keeps its record.
Moves(t, x) == thread' = [thread EXCEPT ![t] = x]
LEMMA Others ==
    ASSUME Types, NEW t \in Threads, NEW x \in ThreadRec, Becomes(t, x) \/ Moves(t, x)
    PROVE  /\ thread'[t] = x
           /\ \A u \in Threads : u # t => thread'[u] = thread[u]
  BY DEF Types, Becomes, Moves

\* The types of what the threads share.
Shapes ==
    /\ packed \in [Slots -> Words] /\ visited \subseteq Slots /\ hand \in Slots
    /\ state \in [Slots -> {kUnpinned, kPinned, kInFlush}] /\ size \in Int
    /\ \A e \in pending : Pushed(e)
    /\ latest \in [Fingerprints -> 0 .. MaxOps] /\ overlapped \subseteq Fingerprints
    /\ alone \subseteq Threads /\ exposed \subseteq 0 .. MaxOps
LEMMA TypesMove ==
    ASSUME Types, NEW t \in Threads, NEW x \in ThreadRec, Becomes(t, x),
           ops' = ops, flusher' = flusher, Shapes'
    PROVE  Types'
<1>1. thread' \in [Threads -> ThreadRec]
  BY DEF Types, Becomes
<1>2. ASSUME NEW u \in Threads PROVE Remembers(thread[u])'
  <2>1. Remembers(thread'[u])
    BY Others DEF Types, Becomes
  <2> QED
    BY <2>1 DEF Remembers
<1>3. ASSUME NEW u \in Threads
      PROVE  /\ thread'[u].i \in 0 .. kSlotsPerBucket
             /\ thread'[u].first_empty \in Slots \cup {kInvalidIdx}
             /\ thread'[u].v \in Words /\ thread'[u].k \in 0 .. SweepSteps
             /\ thread'[u].retry < kMaxUpsertRetries
  <2>1. thread'[u] \in ThreadRec
    BY <1>1
  <2> QED
    BY <2>1, BucketKnown DEF ThreadRec
<1>4. pending' \subseteq Entries
  BY DEF Pushed, Shapes
<1>5. \A e \in pending' : Pushed(e)'
  BY DEF Shapes
<1>6. HotTypeOK'
  BY <1>3, <1>4 DEF HotTypeOK, Types, Shapes
<1> QED
  BY <1>1, <1>2, <1>5, <1>6 DEF Types

\* A thread enters and leaves a state.
Delta(l, a, b) == (IF b = l THEN 1 ELSE 0) - (IF a = l THEN 1 ELSE 0)
LEMMA CountMove ==
    ASSUME Types, NEW t \in Threads, NEW x \in ThreadRec, Becomes(t, x) \/ Moves(t, x),
           NEW l, IsFiniteSet(InState(l))
    PROVE  /\ IsFiniteSet(InState(l)')
           /\ Count(l) \in Nat /\ Count(l)' = Count(l) + Delta(l, thread[t].at, x.at)
<1>1. Count(l) = Cardinality(InState(l)) /\ Count(l)' = Cardinality(InState(l)')
  BY DEF Count, InState
<1>2. Count(l) \in Nat
  BY <1>1, FS_CardinalityType
<1>3. \A u \in Threads : u # t => (u \in InState(l)' <=> u \in InState(l))
  BY Others DEF InState, At
<1>4. (t \in InState(l)' <=> x.at = l) /\ (t \in InState(l) <=> thread[t].at = l)
  BY Others DEF InState, At
<1>5. InState(l) \subseteq Threads /\ InState(l)' \subseteq Threads
  BY DEF InState
<1>6. CASE (x.at = l) <=> (thread[t].at = l)
  <2>1. InState(l)' = InState(l)
    BY <1>3, <1>4, <1>5, <1>6
  <2> QED
    BY <1>1, <1>2, <1>6, <2>1 DEF Delta
<1>7. CASE x.at = l /\ thread[t].at # l
  <2>1. InState(l)' = InState(l) \cup {t} /\ t \notin InState(l)
    BY <1>3, <1>4, <1>5, <1>7
  <2>2. IsFiniteSet(InState(l)') /\ Cardinality(InState(l)') = Cardinality(InState(l)) + 1
    BY <2>1, FS_AddElement
  <2>3. Delta(l, thread[t].at, x.at) = 1
    BY <1>7 DEF Delta
  <2> QED
    BY <1>1, <1>2, <2>2, <2>3
<1>8. CASE x.at # l /\ thread[t].at = l
  <2>1. InState(l)' = InState(l) \ {t} /\ t \in InState(l)
    BY <1>3, <1>4, <1>5, <1>8
  <2>2. IsFiniteSet(InState(l)') /\ Cardinality(InState(l)') = Cardinality(InState(l)) - 1
    BY <2>1, FS_RemoveElement
  <2>3. Delta(l, thread[t].at, x.at) = -1
    BY <1>8 DEF Delta
  <2> QED
    BY <1>1, <1>2, <2>2, <2>3
<1> QED
  BY <1>6, <1>7, <1>8

\* The occupied slots can be counted.
LEMMA OccupiedFinite == IsFiniteSet(Occupied) /\ Cardinality(Occupied) \in Nat
<1>1. IsFiniteSet(Slots)
  BY BucketKnown, FS_Interval DEF Slots
<1>2. IsFiniteSet(Occupied)
  BY <1>1, FS_Subset DEF Occupied
<1> QED
  BY <1>2, FS_CardinalityType

\* A slot is filled, ...
LEMMA SlotFilled ==
    ASSUME Types, NEW i \in Slots, NEW w \in Words, packed' = [packed EXCEPT ![i] = w],
           w # Empty, packed[i] = Empty
    PROVE  Cardinality(Occupied') = Cardinality(Occupied) + 1
<1>1. packed \in [Slots -> Words]
  BY DEF Types, HotTypeOK
<1>2. Occupied' = Occupied \cup {i} /\ i \notin Occupied
  BY <1>1 DEF Occupied
<1> QED
  BY <1>2, OccupiedFinite, FS_AddElement

\* ... is emptied, ...
LEMMA SlotEmptied ==
    ASSUME Types, NEW i \in Slots, packed' = [packed EXCEPT ![i] = Empty], packed[i] # Empty
    PROVE  Cardinality(Occupied') = Cardinality(Occupied) - 1
<1>1. packed \in [Slots -> Words]
  BY DEF Types, HotTypeOK
<1>2. Occupied' = Occupied \ {i} /\ i \in Occupied
  BY <1>1 DEF Occupied
<1> QED
  BY <1>2, OccupiedFinite, FS_RemoveElement

\* ... or gets another word.
LEMMA SlotReplaced ==
    ASSUME Types, NEW i \in Slots, NEW w \in Words, packed' = [packed EXCEPT ![i] = w],
           w # Empty, packed[i] # Empty
    PROVE  Occupied' = Occupied
<1>1. packed \in [Slots -> Words]
  BY DEF Types, HotTypeOK
<1> QED
  BY <1>1 DEF Occupied

\* The sums of SizesMove.
LEMMA Balance ==
    ASSUME NEW n \in Int, NEW z \in Int, NEW c \in Int, NEW m \in Int, NEW e \in Int,
           NEW p \in Int, NEW q \in Int, NEW s \in Int, NEW o \in Int, NEW d \in Int,
           z + c - m - e = n + d, n + p - q - s = o
    PROVE  z + (p + c) - (q + m) - (s + e) = o + d
  OBVIOUS

\* size_ and the slots.
LEMMA SizesMove ==
    ASSUME Types, Sizes, NEW t \in Threads, NEW x \in ThreadRec,
           Becomes(t, x) \/ Moves(t, x), size' \in Int,
           NEW d \in Int, Cardinality(Occupied') = Cardinality(Occupied) + d,
           size' + Delta("claimed", thread[t].at, x.at) - Delta("removed", thread[t].at, x.at)
                 - Delta("evicted", thread[t].at, x.at) = size + d
    PROVE  Sizes'
<1>0. ASSUME NEW l, NEW a, NEW b PROVE Delta(l, a, b) \in Int
  BY DEF Delta
<1>4. PICK c \in Int, m \in Int, e \in Int :
         /\ c = Delta("claimed", thread[t].at, x.at) /\ m = Delta("removed", thread[t].at, x.at)
         /\ e = Delta("evicted", thread[t].at, x.at)
  BY <1>0
<1>1. /\ IsFiniteSet(InState("claimed")') /\ Count("claimed") \in Nat
      /\ Count("claimed")' = Count("claimed") + c
  BY <1>4, CountMove DEF Sizes
<1>2. /\ IsFiniteSet(InState("removed")') /\ Count("removed") \in Nat
      /\ Count("removed")' = Count("removed") + m
  BY <1>4, CountMove DEF Sizes
<1>3. /\ IsFiniteSet(InState("evicted")') /\ Count("evicted") \in Nat
      /\ Count("evicted")' = Count("evicted") + e
  BY <1>4, CountMove DEF Sizes
<1>5. size + Count("claimed") - Count("removed") - Count("evicted") = Cardinality(Occupied)
  BY DEF Sizes
<1>6. Cardinality(Occupied) \in Nat /\ size \in Int
  BY OccupiedFinite DEF Types, HotTypeOK
<1>7. size' + c - m - e = size + d
  BY <1>4
<1>8. size' + Count("claimed")' - Count("removed")' - Count("evicted")' = Cardinality(Occupied')
  <2>1. PICK p \in Nat : p = Count("claimed")
    BY <1>1
  <2>2. PICK q \in Nat : q = Count("removed")
    BY <1>2
  <2>3. PICK s \in Nat : s = Count("evicted")
    BY <1>3
  <2>4. PICK o \in Nat : o = Cardinality(Occupied)
    BY <1>6
  <2>5. size + p - q - s = o
    BY <1>5, <2>1, <2>2, <2>3, <2>4
  <2>6. size' + (p + c) - (q + m) - (s + e) = o + d
    <3>1. PICK n \in Int, z \in Int : n = size /\ z = size'
      BY <1>6
    <3>2. z + c - m - e = n + d /\ n + p - q - s = o
      BY <1>7, <2>5, <3>1
    <3>3. p \in Int /\ q \in Int /\ s \in Int /\ o \in Int
      OBVIOUS
    <3>4. z + (p + c) - (q + m) - (s + e) = o + d
      BY <3>2, <3>3, Balance
    <3> QED
      BY <3>1, <3>4
  <2> QED
    BY <1>1, <1>2, <1>3, <2>1, <2>2, <2>3, <2>4, <2>6
<1> QED
  BY <1>1, <1>2, <1>3, <1>8 DEF Sizes

\* size_ and the slots, in a step that changes neither.
LEMMA SizesSame ==
    ASSUME Types, Sizes, NEW t \in Threads, NEW x \in ThreadRec,
           Becomes(t, x) \/ Moves(t, x), size' = size,
           Occupied' = Occupied, thread[t].at \notin {"claimed", "removed", "evicted"},
           x.at \notin {"claimed", "removed", "evicted"}
    PROVE  Sizes'
<1>1. size \in Int /\ Cardinality(Occupied) \in Nat
  BY OccupiedFinite DEF Types, HotTypeOK
<1>2. Cardinality(Occupied') = Cardinality(Occupied) + 0
  BY <1>1
<1>3. /\ Delta("claimed", thread[t].at, x.at) = 0 /\ Delta("removed", thread[t].at, x.at) = 0
      /\ Delta("evicted", thread[t].at, x.at) = 0
  BY DEF Delta
<1> QED
  BY <1>1, <1>2, <1>3, SizesMove

\* The slot of a fingerprint, in a step that does not give it one.
LEMMA SingleMove ==
    ASSUME Types, Single, NEW t \in Threads, NEW x \in ThreadRec, Becomes(t, x),
           overlapped' = overlapped, Searched(x)',
           \A j \in Slots, fp \in Fingerprints : HasFp(packed'[j], fp) => HasFp(packed[j], fp)
    PROVE  Single'
<1>1. OneSlotPerFp'
  BY DEF Single, OneSlotPerFp
<1>2. ASSUME NEW u \in Threads PROVE Searched(thread[u])'
  <2>1. CASE u = t
    BY <2>1, Others
  <2>2. CASE u # t
    <3>1. thread'[u] = thread[u] /\ Searched(thread[u])
      BY <2>2, Others DEF Single
    <3>2. Inserts(thread[u].op) => thread[u].fp \in Fingerprints
      BY DEF Types, Remembers, Inserts
    <3> QED
      BY <3>1, <3>2 DEF Searched, Absent
  <2> QED
    BY <2>1, <2>2
<1>3. ASSUME NEW u \in Threads
      PROVE  Inserts(thread'[u].op) => Inserts(thread[u].op) /\ thread'[u].fp = thread[u].fp
  BY Others, IdleKnown DEF Becomes, Follows, Inserts
<1> QED
  BY <1>1, <1>2, <1>3 DEF Single

\* The sweeps nothing disturbed, in a step of the thread t.
LEMMA SweepsMove ==
    ASSUME Types, NEW t \in Threads, NEW x \in ThreadRec,
           Becomes(t, x) \/ Moves(t, x), alone' \subseteq {t},
           t \in alone' => /\ x.at = "failed" => \A i \in Slots : state'[i] # kUnpinned
                           /\ Swept(x)'
    PROVE  Sweeps'
<1>1. thread'[t] = x
  BY Others
<1>2. SweepSuffices'
  BY <1>1 DEF SweepSuffices, At
<1> QED
  BY <1>1, <1>2 DEF Sweeps

\* The sweeps nothing disturbed, in a step of a thread that does not sweep on.
LEMMA SweepsOver ==
    ASSUME Types, NEW t \in Threads, NEW x \in ThreadRec, Becomes(t, x) \/ Moves(t, x), Disturbs(t),
           x.at \notin Sweeping \cup {"failed"}
    PROVE  Sweeps'
<1>1. alone' \subseteq {t} /\ Swept(x)'
  BY DEF Disturbs, Swept, Sweeping
<1> QED
  BY <1>1, SweepsMove

\* The pins, in a step that touches none.
LEMMA PinsMove ==
    ASSUME Types, Pins, NEW t \in Threads, NEW x \in ThreadRec, Becomes(t, x) \/ Moves(t, x),
           state' = state, flusher' = flusher, pending' = pending,
           thread[t].at \notin {"pin_and", "push"}
    PROVE  Pins'
<1>1. \A u \in Threads : thread[u].at \in {"pin_and", "push"} => thread'[u] = thread[u]
  BY Others
<1> QED
  BY <1>1 DEF Pins

\* The offsets.
LEMMA NumberedMove ==
    ASSUME Types, Numbered, NEW t \in Threads, NEW x \in ThreadRec, Becomes(t, x),
           ~At(t, "idle"), pending' = pending
    PROVE  Numbered'
<1>1. \A u \in Threads : thread'[u].at # "idle"
                            => thread[u].at # "idle" /\ thread'[u].off = thread[u].off
  BY Others, IdleKnown DEF Becomes, Follows, At
<1> QED
  BY <1>1 DEF Numbered

\* The puts that count on their pin, in a step that pushes nothing.
LEMMA KeepsMove ==
    ASSUME Types, Numbered, Keeps, NEW t \in Threads, NEW x \in ThreadRec, Becomes(t, x),
           ~At(t, "idle"), pending' = pending, exposed \subseteq exposed',
           \A i \in Slots : state[i] # kUnpinned => state'[i] # kUnpinned,
           x.at = "push" => Kept(x.fp, x.off, x.i)',
           x.at \in {"victim", "evict"} =>
              state[x.i] = kUnpinned \/ (thread[t].at \in {"victim", "evict"} /\ thread[t].i = x.i),
           \A fp \in Fingerprints, off \in 1 .. MaxOps, i \in Slots :
              /\ off # thread[t].off /\ off = latest'[fp]
              /\ thread[t].at = "evict" => thread[t].i # i
              /\ off = latest[fp] => packed[i] = Pack(fp, off)
              => packed'[i] = Pack(fp, off)
    PROVE  Keeps'
<1>1. ASSUME NEW fp \in Fingerprints, NEW off \in 1 .. ops, NEW i \in Slots, Kept(fp, off, i),
             off # thread[t].off
      PROVE  Kept(fp, off, i)'
  <2> SUFFICES ASSUME off \notin exposed'
               PROVE  /\ state'[i] # kUnpinned
                      /\ \A u \in Threads : thread'[u].at \in {"victim", "evict"} => thread'[u].i # i
                      /\ off = latest'[fp] => packed'[i] = Pack(fp, off)
    BY DEF Kept
  <2>1. /\ state[i] # kUnpinned
        /\ \A u \in Threads : thread[u].at \in {"victim", "evict"} => thread[u].i # i
        /\ off = latest[fp] => packed[i] = Pack(fp, off)
    BY <1>1 DEF Kept
  <2>2. state'[i] # kUnpinned
    BY <2>1
  <2>3. ASSUME NEW u \in Threads, thread'[u].at \in {"victim", "evict"} PROVE thread'[u].i # i
    <3>1. CASE u = t
      BY <2>1, <2>3, <3>1, Others
    <3>2. CASE u # t
      BY <2>1, <2>3, <3>2, Others
    <3> QED
      BY <3>1, <3>2
  <2>4. off \in 1 .. MaxOps
    BY HotBounds DEF Types
  <2>5. off = latest'[fp] => packed'[i] = Pack(fp, off)
    BY <1>1, <2>1, <2>4
  <2> QED
    BY <2>2, <2>3, <2>5
<1>2. ASSUME NEW e \in pending' PROVE Kept(e.fp, e.off, e.slot)'
  <2>1. /\ e.fp \in Fingerprints /\ e.off \in 1 .. ops /\ e.slot \in Slots
        /\ Kept(e.fp, e.off, e.slot) /\ e.off # thread[t].off
    BY <1>2 DEF Types, Pushed, Keeps, Numbered, At
  <2> QED
    BY <1>1, <2>1
<1>3. ASSUME NEW u \in Threads, thread'[u].at = "push"
      PROVE  Kept(thread[u].fp, thread[u].off, thread[u].i)'
  <2>1. CASE u = t
    <3>1. thread'[u] = x
      BY <2>1, Others
    <3> QED
      BY <1>3, <3>1
  <2>2. CASE u # t
    <3>1. thread'[u] = thread[u]
      BY <2>2, Others
    <3>2. PICK r \in ThreadRec : r = thread[u]
      BY DEF Types
    <3>3. /\ r.fp \in Fingerprints /\ r.off \in 1 .. ops /\ r.i \in Slots
          /\ Kept(r.fp, r.off, r.i) /\ r.off # thread[t].off
      BY <1>3, <2>2, <3>1, <3>2 DEF Types, Remembers, Keeps, Numbered, At
    <3>4. Kept(r.fp, r.off, r.i)'
      BY <1>1, <3>3
    <3> QED
      BY <3>1, <3>2, <3>4
  <2> QED
    BY <2>1, <2>2
<1> QED
  BY <1>2, <1>3 DEF Keeps, At

-----------------------------------------------------------------------------
(* The steps of a thread preserve the invariant.                           *)

\* The offset of the last put, after a write.
LEMMA WroteKnown ==
    ASSUME Types, NEW t \in Threads, ~At(t, "idle"), Wrote(t, thread[t].fp)
    PROVE  /\ latest' \in [Fingerprints -> 0 .. MaxOps]
           /\ \A g \in Fingerprints : g # thread[t].fp => latest'[g] = latest[g]
           /\ latest'[thread[t].fp] \in {0, thread[t].off}
<1>1. thread[t].fp \in Fingerprints /\ thread[t].off \in 0 .. MaxOps /\ 0 \in 0 .. MaxOps
  BY BucketKnown DEF Types, Remembers, At, ThreadRec
<1>2. latest \in [Fingerprints -> 0 .. MaxOps]
  BY DEF Types, HotTypeOK
<1> QED
  BY <1>1, <1>2 DEF Wrote
\* A probe of one slot.
LEMMA ProbeStep ==
    ASSUME HotInv, NEW t \in Threads, ProbeSlot(t)
    PROVE  HotInv'
<1>0. Types /\ Sizes /\ Single /\ Sweeps /\ Pins /\ Numbered /\ Keeps
  BY DEF HotInv
<1>1. /\ thread[t] \in ThreadRec /\ Remembers(thread[t]) /\ thread[t].at = "probe" /\ ~At(t, "idle")
      /\ thread[t].fp \in Fingerprints /\ thread[t].off \in 1 .. ops /\ thread[t].off \in 0 .. MaxOps
  BY <1>0 DEF Types, ProbeSlot, At, Remembers, ThreadRec
<1>2. /\ packed' = packed /\ visited' \subseteq visited \cup {thread[t].i} /\ hand' = hand
      /\ state' = state /\ size' = size /\ pending' = pending /\ flusher' = flusher
      /\ ops' = ops /\ latest' = latest /\ overlapped' = overlapped /\ exposed' = exposed
      /\ alone' \subseteq {t}
  BY DEF ProbeSlot, metaVars
<1>3. PICK x \in ThreadRec :
         /\ Becomes(t, x)
         /\ x.at \in {"idle", "match", "probe", "claim", "sieve"}
         /\ x.at \in {"probe", "claim", "sieve"} =>
             ~HasFp(packed[thread[t].i], thread[t].fp)
         /\ x.at = "probe" => x.i = thread[t].i + 1
         /\ x.at \in {"claim", "sieve"} => thread[t].i + 1 = kSlotsPerBucket
         /\ x.at = "sieve" => x.k = 0
  BY <1>0, ProbeKnown
<1>4. Types'
  <2>1. /\ packed' \in [Slots -> Words] /\ hand' \in Slots
        /\ state' \in [Slots -> {kUnpinned, kPinned, kInFlush}] /\ size' \in Int
        /\ (\A p \in pending' : Pushed(p)') /\ latest' \in [Fingerprints -> 0 .. MaxOps]
        /\ overlapped' \subseteq Fingerprints /\ exposed' \subseteq 0 .. MaxOps
    BY <1>0, <1>2 DEF Types, HotTypeOK, Disturbs, Pushed
  <2>2. visited' \subseteq Slots
    BY <1>0, <1>1, <1>2 DEF Types, HotTypeOK, Remembers
  <2>3. alone' \subseteq Threads
    BY <1>2
  <2>4. Shapes'
    BY <2>1, <2>2, <2>3 DEF Shapes
  <2> QED
    BY <1>0, <1>2, <1>3, <2>4, TypesMove
<1>5. Sizes'
  <2>1. Occupied' = Occupied
    BY <1>2 DEF Occupied
  <2> QED
    BY <1>0, <1>1, <1>2, <1>3, <2>1, SizesSame
<1>6. Single'
  <2>1. thread[t].i \in Slots /\ Slots \subseteq Nat
    BY <1>1, BucketKnown DEF Remembers
  <2>5. Searched(x)'
    <3>2. CASE x.at = "idle"
      BY <3>2 DEF Searched, Sweeping
    <3>3. CASE x.at = "match"
      BY <3>3 DEF Searched, Sweeping
    <3>4. CASE x.at \in {"probe", "claim", "sieve"}
      <4>1. x.op = thread[t].op /\ x.fp = thread[t].fp
        BY <1>3, <3>4, IdleKnown DEF Becomes, Follows
      <4>2. Searched(thread[t])
        BY <1>0 DEF Single
      <4> SUFFICES ASSUME Inserts(x.op), x.fp \notin overlapped
                   PROVE  /\ x.at = "probe" => \A j \in Slots : j < x.i => ~HasFp(packed[j], x.fp)
                          /\ x.at \in {"claim", "sieve"} => \A j \in Slots : ~HasFp(packed[j], x.fp)
        BY <1>2, <3>4 DEF Searched, Absent, Sweeping
      <4>3. \A j \in Slots : j < thread[t].i => ~HasFp(packed[j], x.fp)
        BY <1>1, <4>1, <4>2 DEF Searched
      <4>4. ~HasFp(packed[thread[t].i], x.fp)
        BY <1>3, <3>4, <4>1
      <4>5. x.at = "probe" => \A j \in Slots : j < x.i => j < thread[t].i \/ j = thread[t].i
        <5>1. PICK i \in Nat : i = thread[t].i
          BY <2>1
        <5>2. \A j \in Nat : j < i + 1 => j < i \/ j = i
          OBVIOUS
        <5> QED
          BY <1>3, <2>1, <5>1, <5>2
      <4>6. x.at \in {"claim", "sieve"} => \A j \in Slots : j < thread[t].i \/ j = thread[t].i
        <5>1. PICK i \in Nat, n \in Nat : i = thread[t].i /\ n = kSlotsPerBucket
          BY <2>1, BucketKnown
        <5>2. \A j \in 0 .. n - 1 : i + 1 = n => j < i \/ j = i
          OBVIOUS
        <5> QED
          BY <1>3, <5>1, <5>2 DEF Slots
      <4> QED
        BY <4>3, <4>4, <4>5, <4>6
    <3> QED
      BY <1>3, <3>2, <3>3, <3>4
  <2> QED
    BY <1>0, <1>2, <1>3, <2>5, SingleMove
<1>7. Sweeps'
  <2>1. Swept(x)'
    <3>1. x.at # "evict" /\ (x.at \in {"sieve", "victim"} => 0 .. x.k - 1 = {})
      BY <1>3
    <3> QED
      BY <3>1 DEF Swept
  <2> QED
    BY <1>0, <1>2, <1>3, <2>1, SweepsMove
<1>8. Pins'
  BY <1>0, <1>1, <1>2, <1>3, PinsMove
<1>9. Numbered'
  BY <1>0, <1>1, <1>2, <1>3, NumberedMove
<1>10. Keeps'
  BY <1>0, <1>1, <1>2, <1>3, KeepsMove
<1> QED
  BY <1>4, <1>5, <1>6, <1>7, <1>8, <1>9, <1>10 DEF HotInv
\* The word of the match changed.
LEMMA MatchLost ==
    ASSUME HotInv, NEW t \in Threads, MatchCAS(t), packed[thread[t].i] # thread[t].v
    PROVE  HotInv'
<1>0. Types /\ Sizes /\ Single /\ Sweeps /\ Pins /\ Numbered /\ Keeps
  BY DEF HotInv
<1>1. /\ thread[t] \in ThreadRec /\ Remembers(thread[t]) /\ thread[t].at = "match" /\ ~At(t, "idle")
      /\ thread[t].fp \in Fingerprints /\ thread[t].off \in 1 .. ops /\ thread[t].off \in 0 .. MaxOps
  BY <1>0 DEF Types, MatchCAS, At, Remembers, ThreadRec
<1>2. /\ packed' = packed /\ visited' = visited /\ hand' = hand /\ state' = state
      /\ size' = size /\ pending' = pending /\ flusher' = flusher /\ ops' = ops
      /\ latest' = latest /\ overlapped' = overlapped /\ exposed' = exposed /\ Disturbs(t)
  BY DEF MatchCAS, metaVars
<1>a. Restart(t)
  BY DEF MatchCAS
<1>3. PICK x \in ThreadRec : Becomes(t, x) /\ (x.at = "idle" \/ (x.at = "probe" /\ x.i = 0))
  BY <1>0, <1>1, <1>a, RestartKnown
<1>4. Types'
  <2>1. /\ packed' \in [Slots -> Words] /\ visited' \subseteq Slots /\ hand' \in Slots
        /\ state' \in [Slots -> {kUnpinned, kPinned, kInFlush}] /\ size' \in Int
        /\ (\A p \in pending' : Pushed(p)') /\ latest' \in [Fingerprints -> 0 .. MaxOps]
        /\ overlapped' \subseteq Fingerprints /\ alone' \subseteq Threads
        /\ exposed' \subseteq 0 .. MaxOps
    BY <1>0, <1>2 DEF Types, HotTypeOK, Disturbs, Pushed
  <2>2. Shapes'
    BY <2>1 DEF Shapes
  <2> QED
    BY <1>0, <1>2, <1>3, <2>2, TypesMove
<1>5. Sizes'
  <2>1. Occupied' = Occupied
    BY <1>2 DEF Occupied
  <2> QED
    BY <1>0, <1>1, <1>2, <1>3, <2>1, SizesSame
<1>6. Single'
  <2>1. \A j \in Slots : ~(j < 0)
    BY BucketKnown
  <2>2. Searched(x)'
    BY <1>3, <2>1 DEF Searched, Sweeping
  <2> QED
    BY <1>0, <1>2, <1>3, <2>2, SingleMove
<1>7. Sweeps'
  BY <1>0, <1>2, <1>3, SweepsOver DEF Sweeping
<1>8. Pins'
  BY <1>0, <1>1, <1>2, <1>3, PinsMove
<1>9. Numbered'
  BY <1>0, <1>1, <1>2, <1>3, NumberedMove
<1>10. Keeps'
  BY <1>0, <1>1, <1>2, <1>3, KeepsMove
<1> QED
  BY <1>4, <1>5, <1>6, <1>7, <1>8, <1>9, <1>10 DEF HotInv
\* An insert replaces the offset.
LEMMA MatchInsert ==
    ASSUME HotInv, NEW t \in Threads, MatchCAS(t), packed[thread[t].i] = thread[t].v, Inserts(thread[t].op)
    PROVE  HotInv'
<1>0. Types /\ Sizes /\ Single /\ Sweeps /\ Pins /\ Numbered /\ Keeps
  BY DEF HotInv
<1>1. /\ thread[t] \in ThreadRec /\ Remembers(thread[t]) /\ thread[t].at = "match" /\ ~At(t, "idle")
      /\ thread[t].fp \in Fingerprints /\ thread[t].off \in 1 .. ops /\ thread[t].off \in 0 .. MaxOps
  BY <1>0 DEF Types, MatchCAS, At, Remembers, ThreadRec
<1>2. /\ packed' = [packed EXCEPT ![thread[t].i] = Pack(thread[t].fp, thread[t].off)]
      /\ visited' = visited \cup {thread[t].i} /\ hand' = hand /\ state' = state
      /\ size' = size /\ pending' = pending /\ flusher' = flusher /\ ops' = ops
      /\ overlapped' = overlapped /\ exposed' = exposed /\ Disturbs(t)
  BY DEF MatchCAS, metaVars, Inserts
<1>a. AfterWrite(t)
  BY DEF MatchCAS, Inserts
<1>b. /\ latest' \in [Fingerprints -> 0 .. MaxOps]
      /\ \A g \in Fingerprints : g # thread[t].fp => latest'[g] = latest[g]
      /\ latest'[thread[t].fp] \in {0, thread[t].off}
  <2>1. Wrote(t, thread[t].fp)
    BY Inserts(thread[t].op) DEF MatchCAS, Inserts
  <2> QED
    BY <1>0, <1>1, <2>1, WroteKnown
<1>c. /\ packed \in [Slots -> Words] /\ thread[t].i \in Slots
      /\ packed[thread[t].i] \in Words
  BY <1>0, <1>1 DEF Types, HotTypeOK, Remembers
<1>d. /\ Pack(thread[t].fp, thread[t].off) \in Words /\ Pack(thread[t].fp, thread[t].off) # Empty
      /\ Empty \in Words
  BY <1>1, PackedWord
<1>e. HasFp(packed[thread[t].i], thread[t].fp) /\ packed[thread[t].i] # Empty
  BY <1>1 DEF Remembers, HasFp
<1>3. PICK x \in ThreadRec : Becomes(t, x) /\ (x.at = "idle" \/ (x.at = "pin_or" /\ x.i = thread[t].i))
  BY <1>0, <1>1, <1>a, <1>c, AfterWriteKnown
<1>4. Types'
  <2>1. /\ hand' \in Slots /\ state' \in [Slots -> {kUnpinned, kPinned, kInFlush}]
        /\ size' \in Int /\ (\A p \in pending' : Pushed(p)')
        /\ overlapped' \subseteq Fingerprints /\ alone' \subseteq Threads
        /\ exposed' \subseteq 0 .. MaxOps
    BY <1>0, <1>2 DEF Types, HotTypeOK, Disturbs, Pushed
  <2>2. packed' \in [Slots -> Words]
    BY <1>2, <1>c, <1>d
  <2>3. visited' \subseteq Slots
    BY <1>0, <1>2, <1>c DEF Types, HotTypeOK
  <2>4. latest' \in [Fingerprints -> 0 .. MaxOps]
    BY <1>b
  <2>5. Shapes'
    BY <2>1, <2>2, <2>3, <2>4 DEF Shapes
  <2> QED
    BY <1>0, <1>2, <1>3, <2>5, TypesMove
<1>5. Sizes'
  <2>1. Occupied' = Occupied
    BY <1>0, <1>2, <1>c, <1>d, <1>e, SlotReplaced
  <2> QED
    BY <1>0, <1>1, <1>2, <1>3, <2>1, SizesSame
<1>6. Single'
  <2>1. Searched(x)'
    BY <1>3 DEF Searched, Sweeping
  <2>2. ASSUME NEW j \in Slots, NEW fp \in Fingerprints, HasFp(packed'[j], fp)
        PROVE  HasFp(packed[j], fp)
    <3>1. CASE j = thread[t].i
      <4>1. fp = thread[t].fp
        BY <1>1, <1>2, <1>c, <2>2, <3>1, PackedWord
      <4> QED
        BY <1>e, <3>1, <4>1
    <3>2. CASE j # thread[t].i
      BY <1>2, <1>c, <2>2, <3>2
    <3> QED
      BY <3>1, <3>2
  <2> QED
    BY <1>0, <1>2, <1>3, <2>1, <2>2, SingleMove
<1>7. Sweeps'
  BY <1>0, <1>2, <1>3, SweepsOver DEF Sweeping
<1>8. Pins'
  BY <1>0, <1>1, <1>2, <1>3, PinsMove
<1>9. Numbered'
  BY <1>0, <1>1, <1>2, <1>3, NumberedMove
<1>10. Keeps'
  <2>1. \A fp \in Fingerprints, off \in 1 .. MaxOps, i \in Slots :
              /\ off # thread[t].off /\ off = latest'[fp]
              /\ off = latest[fp] => packed[i] = Pack(fp, off)
              => packed'[i] = Pack(fp, off)
    <3> SUFFICES ASSUME NEW fp \in Fingerprints, NEW off \in 1 .. MaxOps, NEW i \in Slots,
                        off # thread[t].off, off = latest'[fp],
                        off = latest[fp] => packed[i] = Pack(fp, off)
                 PROVE  packed'[i] = Pack(fp, off)
      OBVIOUS
    <3>1. fp # thread[t].fp
      <4>1. off # 0
        BY HotBounds
      <4> QED
        BY <1>b, <4>1
    <3>2. packed[i] = Pack(fp, off)
      BY <1>b, <3>1
    <3>3. off \in 0 .. MaxOps
      BY HotBounds
    <3>4. i # thread[t].i
      BY <1>e, <3>1, <3>2, <3>3, PackedWord
    <3> QED
      BY <1>2, <1>c, <3>2, <3>4
  <2> QED
    BY <1>0, <1>1, <1>2, <1>3, <2>1, KeepsMove
<1> QED
  BY <1>4, <1>5, <1>6, <1>7, <1>8, <1>9, <1>10 DEF HotInv
\* A remove clears the slot.
LEMMA MatchRemove ==
    ASSUME HotInv, NEW t \in Threads, MatchCAS(t), packed[thread[t].i] = thread[t].v, thread[t].op = "remove"
    PROVE  HotInv'
<1>0. Types /\ Sizes /\ Single /\ Sweeps /\ Pins /\ Numbered /\ Keeps
  BY DEF HotInv
<1>1. /\ thread[t] \in ThreadRec /\ Remembers(thread[t]) /\ thread[t].at = "match" /\ ~At(t, "idle")
      /\ thread[t].fp \in Fingerprints /\ thread[t].off \in 1 .. ops /\ thread[t].off \in 0 .. MaxOps
  BY <1>0 DEF Types, MatchCAS, At, Remembers, ThreadRec
<1>2. /\ packed' = [packed EXCEPT ![thread[t].i] = Empty] /\ visited' = visited /\ hand' = hand
      /\ state' = state /\ size' = size /\ pending' = pending /\ flusher' = flusher
      /\ ops' = ops /\ overlapped' = overlapped /\ exposed' = exposed /\ Disturbs(t)
  BY DEF MatchCAS, metaVars, Inserts
<1>a. OnWith(t, "removed", thread[t].i)
  BY DEF MatchCAS, Inserts
<1>b. /\ latest' \in [Fingerprints -> 0 .. MaxOps]
      /\ \A g \in Fingerprints : g # thread[t].fp => latest'[g] = latest[g]
      /\ latest'[thread[t].fp] \in {0, thread[t].off}
  <2>1. Wrote(t, thread[t].fp)
    BY thread[t].op = "remove" DEF MatchCAS, Inserts
  <2> QED
    BY <1>0, <1>1, <2>1, WroteKnown
<1>c. /\ packed \in [Slots -> Words] /\ thread[t].i \in Slots
      /\ packed[thread[t].i] \in Words
  BY <1>0, <1>1 DEF Types, HotTypeOK, Remembers
<1>d. /\ Pack(thread[t].fp, thread[t].off) \in Words /\ Pack(thread[t].fp, thread[t].off) # Empty
      /\ Empty \in Words
  BY <1>1, PackedWord
<1>e. HasFp(packed[thread[t].i], thread[t].fp) /\ packed[thread[t].i] # Empty
  BY <1>1 DEF Remembers, HasFp
<1>3. PICK x \in ThreadRec : Becomes(t, x) /\ x.at = "removed"
  BY <1>0, <1>1, <1>a, <1>c, OnWithKnown
<1>4. Types'
  <2>1. /\ visited' \subseteq Slots /\ hand' \in Slots
        /\ state' \in [Slots -> {kUnpinned, kPinned, kInFlush}] /\ size' \in Int
        /\ (\A p \in pending' : Pushed(p)') /\ overlapped' \subseteq Fingerprints
        /\ alone' \subseteq Threads /\ exposed' \subseteq 0 .. MaxOps
    BY <1>0, <1>2 DEF Types, HotTypeOK, Disturbs, Pushed
  <2>2. packed' \in [Slots -> Words]
    BY <1>2, <1>c, <1>d
  <2>3. latest' \in [Fingerprints -> 0 .. MaxOps]
    BY <1>b
  <2>4. Shapes'
    BY <2>1, <2>2, <2>3 DEF Shapes
  <2> QED
    BY <1>0, <1>2, <1>3, <2>4, TypesMove
<1>5. Sizes'
  <2>1. Cardinality(Occupied') = Cardinality(Occupied) - 1
    BY <1>0, <1>2, <1>c, <1>e, SlotEmptied
  <2>2. /\ Delta("claimed", thread[t].at, x.at) = 0 /\ Delta("removed", thread[t].at, x.at) = 1
        /\ Delta("evicted", thread[t].at, x.at) = 0
    BY <1>1, <1>3 DEF Delta
  <2>3. size \in Int /\ size' \in Int /\ Cardinality(Occupied) \in Nat
    BY <1>0, <1>2, OccupiedFinite DEF Types, HotTypeOK
  <2>4. Cardinality(Occupied') = Cardinality(Occupied) + (-1)
    BY <2>1, <2>3
  <2>5. size' + Delta("claimed", thread[t].at, x.at) - Delta("removed", thread[t].at, x.at)
              - Delta("evicted", thread[t].at, x.at) = size + (-1)
    BY <1>2, <2>2, <2>3
  <2> QED
    BY <1>0, <1>3, <2>3, <2>4, <2>5, SizesMove
<1>6. Single'
  <2>1. Searched(x)'
    BY <1>3 DEF Searched, Sweeping
  <2>2. \A j \in Slots, fp \in Fingerprints : HasFp(packed'[j], fp) => HasFp(packed[j], fp)
    BY <1>2, <1>c, EmptyWord
  <2> QED
    BY <1>0, <1>2, <1>3, <2>1, <2>2, SingleMove
<1>7. Sweeps'
  BY <1>0, <1>2, <1>3, SweepsOver DEF Sweeping
<1>8. Pins'
  BY <1>0, <1>1, <1>2, <1>3, PinsMove
<1>9. Numbered'
  BY <1>0, <1>1, <1>2, <1>3, NumberedMove
<1>10. Keeps'
  <2>1. \A fp \in Fingerprints, off \in 1 .. MaxOps, i \in Slots :
              /\ off # thread[t].off /\ off = latest'[fp]
              /\ off = latest[fp] => packed[i] = Pack(fp, off)
              => packed'[i] = Pack(fp, off)
    <3> SUFFICES ASSUME NEW fp \in Fingerprints, NEW off \in 1 .. MaxOps, NEW i \in Slots,
                        off # thread[t].off, off = latest'[fp],
                        off = latest[fp] => packed[i] = Pack(fp, off)
                 PROVE  packed'[i] = Pack(fp, off)
      OBVIOUS
    <3>1. fp # thread[t].fp
      <4>1. off # 0
        BY HotBounds
      <4> QED
        BY <1>b, <4>1
    <3>2. packed[i] = Pack(fp, off)
      BY <1>b, <3>1
    <3>3. off \in 0 .. MaxOps
      BY HotBounds
    <3>4. i # thread[t].i
      BY <1>e, <3>1, <3>2, <3>3, PackedWord
    <3> QED
      BY <1>2, <1>c, <3>2, <3>4
  <2> QED
    BY <1>0, <1>1, <1>2, <1>3, <2>1, KeepsMove
<1> QED
  BY <1>4, <1>5, <1>6, <1>7, <1>8, <1>9, <1>10 DEF HotInv
\* A remove counts its slot.
LEMMA RemovedStep ==
    ASSUME HotInv, NEW t \in Threads, Removed(t)
    PROVE  HotInv'
<1>0. Types /\ Sizes /\ Single /\ Sweeps /\ Pins /\ Numbered /\ Keeps
  BY DEF HotInv
<1>1. /\ thread[t] \in ThreadRec /\ Remembers(thread[t]) /\ thread[t].at = "removed" /\ ~At(t, "idle")
      /\ thread[t].fp \in Fingerprints /\ thread[t].off \in 1 .. ops /\ thread[t].off \in 0 .. MaxOps
  BY <1>0 DEF Types, Removed, At, Remembers, ThreadRec
<1>2. /\ packed' = packed /\ visited' \subseteq visited /\ hand' = hand /\ state' = state
      /\ size' = size - 1 /\ pending' = pending /\ flusher' = flusher /\ ops' = ops
      /\ latest' = latest /\ overlapped' = overlapped /\ exposed' = exposed /\ Disturbs(t)
  BY DEF Removed, metaVars
<1>a. Done(t)
  BY DEF Removed
<1>3. PICK x \in ThreadRec : Becomes(t, x) /\ x = Idle
  BY <1>a, IdleKnown, DoneKnown
<1>4. Types'
  <2>1. /\ packed' \in [Slots -> Words] /\ hand' \in Slots
        /\ state' \in [Slots -> {kUnpinned, kPinned, kInFlush}]
        /\ (\A p \in pending' : Pushed(p)') /\ latest' \in [Fingerprints -> 0 .. MaxOps]
        /\ overlapped' \subseteq Fingerprints /\ alone' \subseteq Threads
        /\ exposed' \subseteq 0 .. MaxOps
    BY <1>0, <1>2 DEF Types, HotTypeOK, Disturbs, Pushed
  <2>2. visited' \subseteq Slots
    BY <1>0, <1>2 DEF Types, HotTypeOK
  <2>3. size' \in Int
    BY <1>0, <1>2 DEF Types, HotTypeOK
  <2>4. Shapes'
    BY <2>1, <2>2, <2>3 DEF Shapes
  <2> QED
    BY <1>0, <1>2, <1>3, <2>4, TypesMove
<1>5. Sizes'
  <2>1. Occupied' = Occupied
    BY <1>2 DEF Occupied
  <2>2. /\ Delta("claimed", thread[t].at, x.at) = 0 /\ Delta("removed", thread[t].at, x.at) = -1
        /\ Delta("evicted", thread[t].at, x.at) = 0
    BY <1>1, <1>3, IdleKnown DEF Delta
  <2>3. size \in Int /\ size' \in Int /\ Cardinality(Occupied) \in Nat
    BY <1>0, <1>2, OccupiedFinite DEF Types, HotTypeOK
  <2>4. Cardinality(Occupied') = Cardinality(Occupied) + (0)
    BY <2>1, <2>3
  <2>5. size' + Delta("claimed", thread[t].at, x.at) - Delta("removed", thread[t].at, x.at)
              - Delta("evicted", thread[t].at, x.at) = size + (0)
    BY <1>2, <2>2, <2>3
  <2> QED
    BY <1>0, <1>3, <2>3, <2>4, <2>5, SizesMove
<1>6. Single'
  <2>1. Searched(x)'
    BY <1>3, IdleKnown DEF Searched, Sweeping
  <2> QED
    BY <1>0, <1>2, <1>3, <2>1, SingleMove
<1>7. Sweeps'
  BY <1>0, <1>2, <1>3, IdleKnown, SweepsOver DEF Sweeping
<1>8. Pins'
  BY <1>0, <1>1, <1>2, <1>3, PinsMove
<1>9. Numbered'
  BY <1>0, <1>1, <1>2, <1>3, NumberedMove
<1>10. Keeps'
  BY <1>0, <1>1, <1>2, <1>3, IdleKnown, KeepsMove
<1> QED
  BY <1>4, <1>5, <1>6, <1>7, <1>8, <1>9, <1>10 DEF HotInv
\* The slot to claim was taken.
LEMMA ClaimLost ==
    ASSUME HotInv, NEW t \in Threads, ClaimCAS(t), packed[thread[t].i] # Empty
    PROVE  HotInv'
<1>0. Types /\ Sizes /\ Single /\ Sweeps /\ Pins /\ Numbered /\ Keeps
  BY DEF HotInv
<1>1. /\ thread[t] \in ThreadRec /\ Remembers(thread[t]) /\ thread[t].at = "claim" /\ ~At(t, "idle")
      /\ thread[t].fp \in Fingerprints /\ thread[t].off \in 1 .. ops /\ thread[t].off \in 0 .. MaxOps
  BY <1>0 DEF Types, ClaimCAS, At, Remembers, ThreadRec
<1>2. /\ packed' = packed /\ visited' = visited /\ hand' = hand /\ state' = state
      /\ size' = size /\ pending' = pending /\ flusher' = flusher /\ ops' = ops
      /\ latest' = latest /\ overlapped' = overlapped /\ exposed' = exposed /\ Disturbs(t)
  BY DEF ClaimCAS, metaVars
<1>a. Restart(t)
  BY DEF ClaimCAS
<1>3. PICK x \in ThreadRec : Becomes(t, x) /\ (x.at = "idle" \/ (x.at = "probe" /\ x.i = 0))
  BY <1>0, <1>1, <1>a, RestartKnown
<1>4. Types'
  <2>1. /\ packed' \in [Slots -> Words] /\ visited' \subseteq Slots /\ hand' \in Slots
        /\ state' \in [Slots -> {kUnpinned, kPinned, kInFlush}] /\ size' \in Int
        /\ (\A p \in pending' : Pushed(p)') /\ latest' \in [Fingerprints -> 0 .. MaxOps]
        /\ overlapped' \subseteq Fingerprints /\ alone' \subseteq Threads
        /\ exposed' \subseteq 0 .. MaxOps
    BY <1>0, <1>2 DEF Types, HotTypeOK, Disturbs, Pushed
  <2>2. Shapes'
    BY <2>1 DEF Shapes
  <2> QED
    BY <1>0, <1>2, <1>3, <2>2, TypesMove
<1>5. Sizes'
  <2>1. Occupied' = Occupied
    BY <1>2 DEF Occupied
  <2> QED
    BY <1>0, <1>1, <1>2, <1>3, <2>1, SizesSame
<1>6. Single'
  <2>1. \A j \in Slots : ~(j < 0)
    BY BucketKnown
  <2>2. Searched(x)'
    BY <1>3, <2>1 DEF Searched, Sweeping
  <2> QED
    BY <1>0, <1>2, <1>3, <2>2, SingleMove
<1>7. Sweeps'
  BY <1>0, <1>2, <1>3, SweepsOver DEF Sweeping
<1>8. Pins'
  BY <1>0, <1>1, <1>2, <1>3, PinsMove
<1>9. Numbered'
  BY <1>0, <1>1, <1>2, <1>3, NumberedMove
<1>10. Keeps'
  BY <1>0, <1>1, <1>2, <1>3, KeepsMove
<1> QED
  BY <1>4, <1>5, <1>6, <1>7, <1>8, <1>9, <1>10 DEF HotInv
\* An insert claims an empty slot.
LEMMA ClaimWon ==
    ASSUME HotInv, NEW t \in Threads, ClaimCAS(t), packed[thread[t].i] = Empty
    PROVE  HotInv'
<1>0. Types /\ Sizes /\ Single /\ Sweeps /\ Pins /\ Numbered /\ Keeps
  BY DEF HotInv
<1>1. /\ thread[t] \in ThreadRec /\ Remembers(thread[t]) /\ thread[t].at = "claim" /\ ~At(t, "idle")
      /\ thread[t].fp \in Fingerprints /\ thread[t].off \in 1 .. ops /\ thread[t].off \in 0 .. MaxOps
  BY <1>0 DEF Types, ClaimCAS, At, Remembers, ThreadRec
<1>2. /\ packed' = [packed EXCEPT ![thread[t].i] = Pack(thread[t].fp, thread[t].off)]
      /\ visited' = visited /\ hand' = hand /\ state' = state /\ size' = size
      /\ pending' = pending /\ flusher' = flusher /\ ops' = ops /\ overlapped' = overlapped
      /\ exposed' = exposed /\ Disturbs(t)
  BY DEF ClaimCAS, metaVars
<1>a. OnWith(t, "claimed", thread[t].i) /\ Inserts(thread[t].op)
  BY <1>1 DEF ClaimCAS, Remembers
<1>b. /\ latest' \in [Fingerprints -> 0 .. MaxOps]
      /\ \A g \in Fingerprints : g # thread[t].fp => latest'[g] = latest[g]
      /\ latest'[thread[t].fp] \in {0, thread[t].off}
  <2>1. Wrote(t, thread[t].fp)
    BY packed[thread[t].i] = Empty DEF ClaimCAS
  <2> QED
    BY <1>0, <1>1, <2>1, WroteKnown
<1>c. /\ packed \in [Slots -> Words] /\ thread[t].i \in Slots
      /\ packed[thread[t].i] \in Words
  BY <1>0, <1>1 DEF Types, HotTypeOK, Remembers
<1>d. /\ Pack(thread[t].fp, thread[t].off) \in Words /\ Pack(thread[t].fp, thread[t].off) # Empty
      /\ Empty \in Words
  BY <1>1, PackedWord
<1>3. PICK x \in ThreadRec : Becomes(t, x) /\ x.at = "claimed"
  BY <1>0, <1>1, <1>a, <1>c, OnWithKnown
<1>4. Types'
  <2>1. /\ visited' \subseteq Slots /\ hand' \in Slots
        /\ state' \in [Slots -> {kUnpinned, kPinned, kInFlush}] /\ size' \in Int
        /\ (\A p \in pending' : Pushed(p)') /\ overlapped' \subseteq Fingerprints
        /\ alone' \subseteq Threads /\ exposed' \subseteq 0 .. MaxOps
    BY <1>0, <1>2 DEF Types, HotTypeOK, Disturbs, Pushed
  <2>2. packed' \in [Slots -> Words]
    BY <1>2, <1>c, <1>d
  <2>3. latest' \in [Fingerprints -> 0 .. MaxOps]
    BY <1>b
  <2>4. Shapes'
    BY <2>1, <2>2, <2>3 DEF Shapes
  <2> QED
    BY <1>0, <1>2, <1>3, <2>4, TypesMove
<1>5. Sizes'
  <2>1. Cardinality(Occupied') = Cardinality(Occupied) + 1
    BY <1>0, <1>2, <1>c, <1>d, SlotFilled
  <2>2. /\ Delta("claimed", thread[t].at, x.at) = 1 /\ Delta("removed", thread[t].at, x.at) = 0
        /\ Delta("evicted", thread[t].at, x.at) = 0
    BY <1>1, <1>3, IdleKnown DEF Delta
  <2>3. size \in Int /\ size' \in Int /\ Cardinality(Occupied) \in Nat
    BY <1>0, <1>2, OccupiedFinite DEF Types, HotTypeOK
  <2>4. Cardinality(Occupied') = Cardinality(Occupied) + (1)
    BY <2>1, <2>3
  <2>5. size' + Delta("claimed", thread[t].at, x.at) - Delta("removed", thread[t].at, x.at)
              - Delta("evicted", thread[t].at, x.at) = size + (1)
    BY <1>2, <2>2, <2>3
  <2> QED
    BY <1>0, <1>3, <2>3, <2>4, <2>5, SizesMove
<1>6. Single'
  <2>1. \A j \in Slots, fp \in Fingerprints :
           HasFp(packed'[j], fp) => HasFp(packed[j], fp) \/ (j = thread[t].i /\ fp = thread[t].fp)
    <3> SUFFICES ASSUME NEW j \in Slots, NEW fp \in Fingerprints, HasFp(packed'[j], fp)
                 PROVE  HasFp(packed[j], fp) \/ (j = thread[t].i /\ fp = thread[t].fp)
      OBVIOUS
    <3>1. CASE j = thread[t].i
      BY <1>1, <1>2, <1>c, <3>1, PackedWord
    <3>2. CASE j # thread[t].i
      BY <1>2, <1>c, <3>2
    <3> QED
      BY <3>1, <3>2
  <2>2. thread[t].fp \notin overlapped => Absent(thread[t].fp)
    BY <1>0, <1>1, <1>a DEF Single, Searched
  <2>3. OneSlotPerFp'
    BY <1>0, <1>2, <2>1, <2>2 DEF OneSlotPerFp, Single, Absent
  <2>4. ASSUME NEW u \in Threads PROVE Searched(thread[u])'
    <3>1. CASE u = t
      <4>1. thread'[u].at = "claimed"
        BY <1>0, <1>3, <3>1, Others
      <4> QED
        BY <4>1 DEF Searched, Sweeping
    <3>2. CASE u # t
      <4>1. thread'[u] = thread[u] /\ Searched(thread[u])
        BY <1>0, <1>3, <3>2, Others DEF Single
      <4>2. Inserts(thread[u].op) => thread[u].fp \in Fingerprints
        BY <1>0 DEF Types, Remembers, Inserts
      <4>3. Inserts(thread[u].op) /\ thread[u].fp \notin overlapped => thread[u].fp # thread[t].fp
        BY <1>0, <1>a, <3>2 DEF Single
      <4> QED
        BY <1>2, <2>1, <4>1, <4>2, <4>3 DEF Searched, Absent
    <3> QED
      BY <3>1, <3>2
  <2>5. ASSUME NEW u \in Threads
        PROVE  Inserts(thread'[u].op) => Inserts(thread[u].op) /\ thread'[u].fp = thread[u].fp
    BY <1>0, <1>3, Others, IdleKnown DEF Becomes, Follows, Inserts
  <2> QED
    BY <1>0, <1>2, <2>3, <2>4, <2>5 DEF Single
<1>7. Sweeps'
  BY <1>0, <1>2, <1>3, SweepsOver DEF Sweeping
<1>8. Pins'
  BY <1>0, <1>1, <1>2, <1>3, PinsMove
<1>9. Numbered'
  BY <1>0, <1>1, <1>2, <1>3, NumberedMove
<1>10. Keeps'
  <2>1. \A fp \in Fingerprints, off \in 1 .. MaxOps, i \in Slots :
              /\ off # thread[t].off /\ off = latest'[fp]
              /\ off = latest[fp] => packed[i] = Pack(fp, off)
              => packed'[i] = Pack(fp, off)
    <3> SUFFICES ASSUME NEW fp \in Fingerprints, NEW off \in 1 .. MaxOps, NEW i \in Slots,
                        off # thread[t].off, off = latest'[fp],
                        off = latest[fp] => packed[i] = Pack(fp, off)
                 PROVE  packed'[i] = Pack(fp, off)
      OBVIOUS
    <3>1. fp # thread[t].fp
      <4>1. off # 0
        BY HotBounds
      <4> QED
        BY <1>b, <4>1
    <3>2. packed[i] = Pack(fp, off)
      BY <1>b, <3>1
    <3>3. off \in 0 .. MaxOps
      BY HotBounds
    <3>4. i # thread[t].i
      BY <3>2, <3>3, PackedWord
    <3> QED
      BY <1>2, <1>c, <3>2, <3>4
  <2> QED
    BY <1>0, <1>1, <1>2, <1>3, <2>1, KeepsMove
<1> QED
  BY <1>4, <1>5, <1>6, <1>7, <1>8, <1>9, <1>10 DEF HotInv
\* A claim counts its slot.
LEMMA ClaimedStep ==
    ASSUME HotInv, NEW t \in Threads, Claimed(t)
    PROVE  HotInv'
<1>0. Types /\ Sizes /\ Single /\ Sweeps /\ Pins /\ Numbered /\ Keeps
  BY DEF HotInv
<1>1. /\ thread[t] \in ThreadRec /\ Remembers(thread[t]) /\ thread[t].at = "claimed" /\ ~At(t, "idle")
      /\ thread[t].fp \in Fingerprints /\ thread[t].off \in 1 .. ops /\ thread[t].off \in 0 .. MaxOps
  BY <1>0 DEF Types, Claimed, At, Remembers, ThreadRec
<1>2. /\ packed' = packed /\ visited' \subseteq visited /\ hand' = hand /\ state' = state
      /\ size' = size + 1 /\ pending' = pending /\ flusher' = flusher /\ ops' = ops
      /\ latest' = latest /\ overlapped' = overlapped /\ exposed' = exposed /\ Disturbs(t)
  BY DEF Claimed, metaVars
<1>a. AfterWrite(t) /\ thread[t].i \in Slots
  BY <1>1 DEF Claimed, Remembers
<1>3. PICK x \in ThreadRec : Becomes(t, x) /\ (x.at = "idle" \/ (x.at = "pin_or" /\ x.i = thread[t].i))
  BY <1>0, <1>1, <1>a, AfterWriteKnown
<1>4. Types'
  <2>1. /\ packed' \in [Slots -> Words] /\ hand' \in Slots
        /\ state' \in [Slots -> {kUnpinned, kPinned, kInFlush}]
        /\ (\A p \in pending' : Pushed(p)') /\ latest' \in [Fingerprints -> 0 .. MaxOps]
        /\ overlapped' \subseteq Fingerprints /\ alone' \subseteq Threads
        /\ exposed' \subseteq 0 .. MaxOps
    BY <1>0, <1>2 DEF Types, HotTypeOK, Disturbs, Pushed
  <2>2. visited' \subseteq Slots
    BY <1>0, <1>2 DEF Types, HotTypeOK
  <2>3. size' \in Int
    BY <1>0, <1>2 DEF Types, HotTypeOK
  <2>4. Shapes'
    BY <2>1, <2>2, <2>3 DEF Shapes
  <2> QED
    BY <1>0, <1>2, <1>3, <2>4, TypesMove
<1>5. Sizes'
  <2>1. Occupied' = Occupied
    BY <1>2 DEF Occupied
  <2>2. /\ Delta("claimed", thread[t].at, x.at) = -1 /\ Delta("removed", thread[t].at, x.at) = 0
        /\ Delta("evicted", thread[t].at, x.at) = 0
    BY <1>1, <1>3, IdleKnown DEF Delta
  <2>3. size \in Int /\ size' \in Int /\ Cardinality(Occupied) \in Nat
    BY <1>0, <1>2, OccupiedFinite DEF Types, HotTypeOK
  <2>4. Cardinality(Occupied') = Cardinality(Occupied) + (0)
    BY <2>1, <2>3
  <2>5. size' + Delta("claimed", thread[t].at, x.at) - Delta("removed", thread[t].at, x.at)
              - Delta("evicted", thread[t].at, x.at) = size + (0)
    BY <1>2, <2>2, <2>3
  <2> QED
    BY <1>0, <1>3, <2>3, <2>4, <2>5, SizesMove
<1>6. Single'
  <2>1. Searched(x)'
    BY <1>3 DEF Searched, Sweeping, Inserts
  <2> QED
    BY <1>0, <1>2, <1>3, <2>1, SingleMove
<1>7. Sweeps'
  BY <1>0, <1>2, <1>3, SweepsOver DEF Sweeping
<1>8. Pins'
  BY <1>0, <1>1, <1>2, <1>3, PinsMove
<1>9. Numbered'
  BY <1>0, <1>1, <1>2, <1>3, NumberedMove
<1>10. Keeps'
  BY <1>0, <1>1, <1>2, <1>3, KeepsMove
<1> QED
  BY <1>4, <1>5, <1>6, <1>7, <1>8, <1>9, <1>10 DEF HotInv

-----------------------------------------------------------------------------
(* The steps of a sweep.                                                   *)

\* A turn round the bucket leads back to the same slot.
LEMMA RoundTrip ==
    ASSUME NEW n \in Nat \ {0}, NEW a \in 0 .. 2 * n - 1
    PROVE  (n + a) % n = a % n
<1>1. CASE a < n
  <2>1. a \in 0 .. n - 1
    BY <1>1
  <2>2. (n + a) % n = a /\ a % n = a
    BY <2>1
  <2> QED
    BY <2>2
<1>2. CASE a >= n
  <2>1. PICK b \in 0 .. n - 1 : a = n + b
    <3>1. a - n \in 0 .. n - 1 /\ a = n + (a - n)
      BY <1>2
    <3> QED
      BY <3>1
  <2>2. (n + b) % n = b
    OBVIOUS
  <2>3. (2 * n + b) % n = b
    OBVIOUS
  <2>4. n + a = 2 * n + b
    BY <2>1
  <2> QED
    BY <2>1, <2>2, <2>3, <2>4
<1> QED
  BY <1>1, <1>2

\* The second round of a sweep meets every slot, ...
LEMMA SecondRound ==
    ASSUME NEW r \in ThreadRec, NEW i \in Slots
    PROVE  \E j \in kSlotsPerBucket .. SweepSteps - 1 : Turn(r, j) = i
<1>1. PICK n \in Nat \ {0} : n = kSlotsPerBucket
  BY BucketKnown
<1>2. r.hand \in 0 .. n - 1 /\ i \in 0 .. n - 1
  BY <1>1 DEF ThreadRec, Slots
<1>3. PICK h \in 0 .. n - 1 : h = r.hand
  BY <1>2
<1>4. CASE i >= h
  <2> DEFINE j == n + (i - h)
  <2>1. j \in n .. 2 * n - 1 /\ h + j = n + i
    BY <1>2, <1>4
  <2>2. (n + i) % n = i
    BY <1>2
  <2> QED
    BY <1>1, <1>3, <2>1, <2>2 DEF Turn, SweepSteps
<1>5. CASE i < h
  <2> DEFINE j == 2 * n + (i - h)
  <2>1. j \in n .. 2 * n - 1 /\ h + j = 2 * n + i
    BY <1>2, <1>5
  <2>2. (2 * n + i) % n = i
    BY <1>2
  <2> QED
    BY <1>1, <1>3, <2>1, <2>2 DEF Turn, SweepSteps
<1> QED
  BY <1>2, <1>4, <1>5

\* ... and each where the first round met it.
LEMMA SameTurn ==
    ASSUME NEW r \in ThreadRec, NEW k \in kSlotsPerBucket .. SweepSteps - 1
    PROVE  k - kSlotsPerBucket \in 0 .. k - 1 /\ Turn(r, k) = Turn(r, k - kSlotsPerBucket)
<1>1. PICK n \in Nat \ {0} : n = kSlotsPerBucket
  BY BucketKnown
<1>2. PICK h \in 0 .. n - 1 : h = r.hand
  BY <1>1 DEF ThreadRec, Slots
<1>3. k \in n .. 2 * n - 1
  BY <1>1 DEF SweepSteps
<1>4. k - n \in 0 .. k - 1 /\ h + (k - n) \in 0 .. 2 * n - 1 /\ h + k = n + (h + (k - n))
  BY <1>3
<1>5. (n + (h + (k - n))) % n = (h + (k - n)) % n
  BY <1>4, RoundTrip
<1> QED
  BY <1>1, <1>2, <1>4, <1>5 DEF Turn

\* The hand stays in the bucket.
LEMMA HandKnown ==
    ASSUME NEW i \in Slots, AdvanceHand(i)
    PROVE  hand' \in Slots
<1>1. i + 1 \in Nat
  BY BucketKnown
<1> QED
  BY <1>1, BucketKnown DEF AdvanceHand, NextSlot
\* A sweep fails.
LEMMA SieveFailStep ==
    ASSUME HotInv, NEW t \in Threads, SieveFail(t)
    PROVE  HotInv'
<1>0. Types /\ Sizes /\ Single /\ Sweeps /\ Pins /\ Numbered /\ Keeps
  BY DEF HotInv
<1>1. /\ thread[t] \in ThreadRec /\ Remembers(thread[t]) /\ thread[t].at = "sieve" /\ ~At(t, "idle")
      /\ thread[t].fp \in Fingerprints /\ thread[t].off \in 1 .. ops /\ thread[t].off \in 0 .. MaxOps
  BY <1>0 DEF Types, SieveFail, At, Remembers, ThreadRec
<1>2. /\ packed' = packed /\ visited' = visited /\ hand' = hand /\ state' = state
      /\ size' = size /\ pending' = pending /\ flusher' = flusher /\ ops' = ops
      /\ latest' = latest /\ overlapped' = overlapped /\ exposed' = exposed /\ Disturbs(t)
  BY DEF SieveFail, metaVars
<1>a. Goto(t, "failed") /\ At(t, "sieve") /\ thread[t].k = SweepSteps
  BY DEF SieveFail
<1>3. PICK x \in ThreadRec : Becomes(t, x) /\ x.at = "failed"
  BY <1>0, <1>a, GotoKnown
<1>4. Types'
  <2>1. /\ packed' \in [Slots -> Words] /\ visited' \subseteq Slots /\ hand' \in Slots
        /\ state' \in [Slots -> {kUnpinned, kPinned, kInFlush}] /\ size' \in Int
        /\ (\A p \in pending' : Pushed(p)') /\ latest' \in [Fingerprints -> 0 .. MaxOps]
        /\ overlapped' \subseteq Fingerprints /\ alone' \subseteq Threads
        /\ exposed' \subseteq 0 .. MaxOps
    BY <1>0, <1>2 DEF Types, HotTypeOK, Disturbs, Pushed
  <2>2. Shapes'
    BY <2>1 DEF Shapes
  <2> QED
    BY <1>0, <1>2, <1>3, <2>2, TypesMove
<1>5. Sizes'
  <2>1. Occupied' = Occupied
    BY <1>2 DEF Occupied
  <2> QED
    BY <1>0, <1>1, <1>2, <1>3, <2>1, SizesSame
<1>6. Single'
  <2>1. Searched(x)'
    BY <1>3 DEF Searched, Sweeping, Inserts
  <2> QED
    BY <1>0, <1>2, <1>3, <2>1, SingleMove
<1>7. Sweeps'
  <2>1. ASSUME t \in alone', NEW i \in Slots PROVE state'[i] # kUnpinned
    <3>1. t \in alone
      BY <1>2, <2>1 DEF Disturbs
    <3>2. PICK j \in kSlotsPerBucket .. SweepSteps - 1 : Turn(thread[t], j) = i
      BY <1>1, SecondRound
    <3>3. j \in 0 .. thread[t].k - 1 /\ j >= kSlotsPerBucket
      BY <1>a, BucketKnown
    <3>4. Skipped(Turn(thread[t], j))
      BY <1>0, <1>1, <3>1, <3>3 DEF Sweeps, Swept
    <3> QED
      BY <1>2, <3>2, <3>4 DEF Skipped
  <2>2. Swept(x)'
    BY <1>3 DEF Swept
  <2>3. alone' \subseteq {t}
    BY <1>2 DEF Disturbs
  <2> QED
    BY <1>0, <1>3, <2>1, <2>2, <2>3, SweepsMove
<1>8. Pins'
  BY <1>0, <1>1, <1>2, <1>3, PinsMove
<1>9. Numbered'
  BY <1>0, <1>1, <1>2, <1>3, NumberedMove
<1>10. Keeps'
  BY <1>0, <1>1, <1>2, <1>3, KeepsMove
<1> QED
  BY <1>4, <1>5, <1>6, <1>7, <1>8, <1>9, <1>10 DEF HotInv
\* The insert of a failed sweep is not stored.
LEMMA SieveReturnStep ==
    ASSUME HotInv, NEW t \in Threads, SieveReturn(t)
    PROVE  HotInv'
<1>0. Types /\ Sizes /\ Single /\ Sweeps /\ Pins /\ Numbered /\ Keeps
  BY DEF HotInv
<1>1. /\ thread[t] \in ThreadRec /\ Remembers(thread[t]) /\ thread[t].at = "failed" /\ ~At(t, "idle")
      /\ thread[t].fp \in Fingerprints /\ thread[t].off \in 1 .. ops /\ thread[t].off \in 0 .. MaxOps
  BY <1>0 DEF Types, SieveReturn, At, Remembers, ThreadRec
<1>2. /\ packed' = packed /\ visited' = visited /\ hand' = hand /\ state' = state
      /\ size' = size /\ pending' = pending /\ flusher' = flusher /\ ops' = ops
      /\ latest' = latest /\ overlapped' = overlapped /\ exposed' = exposed /\ Disturbs(t)
  BY DEF SieveReturn, metaVars
<1>a. Done(t)
  BY DEF SieveReturn
<1>3. PICK x \in ThreadRec : Becomes(t, x) /\ x = Idle
  BY <1>a, IdleKnown, DoneKnown
<1>4. Types'
  <2>1. /\ packed' \in [Slots -> Words] /\ visited' \subseteq Slots /\ hand' \in Slots
        /\ state' \in [Slots -> {kUnpinned, kPinned, kInFlush}] /\ size' \in Int
        /\ (\A p \in pending' : Pushed(p)') /\ latest' \in [Fingerprints -> 0 .. MaxOps]
        /\ overlapped' \subseteq Fingerprints /\ alone' \subseteq Threads
        /\ exposed' \subseteq 0 .. MaxOps
    BY <1>0, <1>2 DEF Types, HotTypeOK, Disturbs, Pushed
  <2>2. Shapes'
    BY <2>1 DEF Shapes
  <2> QED
    BY <1>0, <1>2, <1>3, <2>2, TypesMove
<1>5. Sizes'
  <2>1. Occupied' = Occupied
    BY <1>2 DEF Occupied
  <2> QED
    BY <1>0, <1>1, <1>2, <1>3, <2>1, IdleKnown, SizesSame
<1>6. Single'
  <2>1. Searched(x)'
    BY <1>3, IdleKnown DEF Searched, Sweeping
  <2> QED
    BY <1>0, <1>2, <1>3, <2>1, SingleMove
<1>7. Sweeps'
  BY <1>0, <1>2, <1>3, IdleKnown, SweepsOver DEF Sweeping
<1>8. Pins'
  BY <1>0, <1>1, <1>2, <1>3, PinsMove
<1>9. Numbered'
  BY <1>0, <1>1, <1>2, <1>3, NumberedMove
<1>10. Keeps'
  BY <1>0, <1>1, <1>2, <1>3, IdleKnown, KeepsMove
<1> QED
  BY <1>4, <1>5, <1>6, <1>7, <1>8, <1>9, <1>10 DEF HotInv
\* The sweep looks at a slot.
LEMMA SieveSlotStep ==
    ASSUME HotInv, NEW t \in Threads, SieveSlot(t)
    PROVE  HotInv'
<1>0. Types /\ Sizes /\ Single /\ Sweeps /\ Pins /\ Numbered /\ Keeps
  BY DEF HotInv
<1>1. /\ thread[t] \in ThreadRec /\ Remembers(thread[t]) /\ thread[t].at = "sieve" /\ ~At(t, "idle")
      /\ thread[t].fp \in Fingerprints /\ thread[t].off \in 1 .. ops /\ thread[t].off \in 0 .. MaxOps
  BY <1>0 DEF Types, SieveSlot, At, Remembers, ThreadRec
<1>2. /\ packed' = packed
      /\ visited' = (IF Skipped(SweepSlot(t)) THEN visited ELSE visited \ {SweepSlot(t)})
      /\ hand' = hand /\ state' = state /\ size' = size /\ pending' = pending
      /\ flusher' = flusher /\ ops' = ops /\ latest' = latest /\ overlapped' = overlapped
      /\ exposed' = exposed /\ Disturbs(t)
  BY DEF SieveSlot, metaVars
<1>3. PICK x \in ThreadRec :
         /\ Becomes(t, x) /\ SweepSlot(t) \in Slots /\ x.hand = thread[t].hand
         /\ \/ /\ x.at = "sieve" /\ x.k = thread[t].k + 1
               /\ Skipped(SweepSlot(t)) \/ SweepSlot(t) \in visited
            \/ /\ x.at = "victim" /\ x.i = SweepSlot(t) /\ x.k = thread[t].k
               /\ ~Skipped(SweepSlot(t)) /\ SweepSlot(t) \notin visited
  BY <1>0, SieveSlotKnown
<1>4. Types'
  <2>1. /\ packed' \in [Slots -> Words] /\ hand' \in Slots
        /\ state' \in [Slots -> {kUnpinned, kPinned, kInFlush}] /\ size' \in Int
        /\ (\A p \in pending' : Pushed(p)') /\ latest' \in [Fingerprints -> 0 .. MaxOps]
        /\ overlapped' \subseteq Fingerprints /\ alone' \subseteq Threads
        /\ exposed' \subseteq 0 .. MaxOps
    BY <1>0, <1>2 DEF Types, HotTypeOK, Disturbs, Pushed
  <2>2. visited' \subseteq Slots
    BY <1>0, <1>2 DEF Types, HotTypeOK
  <2>3. Shapes'
    BY <2>1, <2>2 DEF Shapes
  <2> QED
    BY <1>0, <1>2, <1>3, <2>3, TypesMove
<1>5. Sizes'
  <2>1. Occupied' = Occupied
    BY <1>2 DEF Occupied
  <2> QED
    BY <1>0, <1>1, <1>2, <1>3, <2>1, SizesSame
<1>6. Single'
  <2>1. Searched(x)'
    <3>1. thread[t].fp \notin overlapped => Absent(thread[t].fp)
      BY <1>0, <1>1 DEF Single, Searched, Remembers, Sweeping
    <3>2. x.fp = thread[t].fp /\ x.at # "probe"
      BY <1>3, IdleKnown DEF Becomes, Follows
    <3> QED
      BY <1>2, <1>3, <3>1, <3>2 DEF Searched, Absent
  <2> QED
    BY <1>0, <1>2, <1>3, <2>1, SingleMove
<1>7. Sweeps'
  <2>1. ASSUME t \in alone' PROVE Swept(x)'
    <3>1. t \in alone
      BY <1>2, <2>1 DEF Disturbs
    <3>2. \A j \in 0 .. thread[t].k - 1 :
             /\ Skipped(Turn(thread[t], j)) \/ Turn(thread[t], j) \notin visited
             /\ j >= kSlotsPerBucket => Skipped(Turn(thread[t], j))
      BY <1>0, <1>1, <3>1 DEF Sweeps, Swept
    <3>3. visited' \subseteq visited /\ \A i : Skipped(i)' <=> Skipped(i)
      BY <1>2 DEF Skipped
    <3>4. \A j : Turn(x, j) = Turn(thread[t], j)
      BY <1>3 DEF Turn
    <3>5. thread[t].k \in Nat /\ thread[t].k < SweepSteps
      <4>1. thread[t].k \in 0 .. SweepSteps
        BY <1>1 DEF ThreadRec
      <4> QED
        BY <4>1, BucketKnown DEF SieveSlot
    <3>6. ASSUME x.at = "sieve", NEW j \in 0 .. x.k - 1
          PROVE  /\ Skipped(Turn(x, j))' \/ Turn(x, j) \notin visited'
                 /\ j >= kSlotsPerBucket => Skipped(Turn(x, j))'
      <4>1. CASE j < thread[t].k
        <5>1. j \in 0 .. thread[t].k - 1
          BY <3>5, <4>1
        <5> QED
          BY <3>2, <3>3, <3>4, <5>1
      <4>2. CASE j = thread[t].k
        <5>1. Turn(x, j) = SweepSlot(t)
          BY <3>4, <4>2 DEF Turn, SweepSlot
        <5>2. Skipped(SweepSlot(t)) \/ SweepSlot(t) \notin visited'
          BY <1>2
        <5>3. ASSUME j >= kSlotsPerBucket PROVE Skipped(SweepSlot(t))
          <6>1. thread[t].k \in kSlotsPerBucket .. SweepSteps - 1
            BY <3>5, <4>2, <5>3, BucketKnown
          <6>2. PICK m \in 0 .. thread[t].k - 1 : Turn(thread[t], m) = SweepSlot(t)
            BY <1>1, <3>4, <4>2, <5>1, <6>1, SameTurn
          <6>3. Skipped(SweepSlot(t)) \/ SweepSlot(t) \notin visited
            BY <3>2, <6>2
          <6> QED
            BY <1>3, <3>6, <6>3
        <5> QED
          BY <3>3, <5>1, <5>2, <5>3
      <4>3. j < thread[t].k \/ j = thread[t].k
        BY <1>3, <3>5, <3>6
      <4> QED
        BY <4>1, <4>2, <4>3
    <3>7. ASSUME x.at = "victim", NEW j \in 0 .. x.k - 1
          PROVE  /\ Skipped(Turn(x, j))' \/ Turn(x, j) \notin visited'
                 /\ j >= kSlotsPerBucket => Skipped(Turn(x, j))'
      BY <1>3, <3>2, <3>3, <3>4, <3>7
    <3>8. x.at # "evict"
      BY <1>3
    <3>9. ASSUME x.at \in {"sieve", "victim"}, NEW j \in 0 .. x.k - 1
          PROVE  /\ Skipped(Turn(x, j))' \/ Turn(x, j)' \notin visited'
                 /\ j >= kSlotsPerBucket => Skipped(Turn(x, j))'
      BY <3>6, <3>7, <3>9 DEF Turn
    <3> QED
      BY <3>8, <3>9 DEF Swept, Skipped, Turn
  <2>2. alone' \subseteq {t} /\ x.at # "failed"
    BY <1>2, <1>3 DEF Disturbs
  <2> QED
    BY <1>0, <1>3, <2>1, <2>2, SweepsMove
<1>8. Pins'
  BY <1>0, <1>1, <1>2, <1>3, PinsMove
<1>9. Numbered'
  BY <1>0, <1>1, <1>2, <1>3, NumberedMove
<1>10. Keeps'
  <2>1. x.at \in {"victim", "evict"} => state[x.i] = kUnpinned
    BY <1>3 DEF Skipped
  <2>2. x.at # "push"
    BY <1>3
  <2> QED
    BY <1>0, <1>1, <1>2, <1>3, <2>1, <2>2, KeepsMove
<1> QED
  BY <1>4, <1>5, <1>6, <1>7, <1>8, <1>9, <1>10 DEF HotInv
\* The sweep loads the word of its victim.
LEMMA SieveLoadStep ==
    ASSUME HotInv, NEW t \in Threads, SieveLoad(t)
    PROVE  HotInv'
<1>0. Types /\ Sizes /\ Single /\ Sweeps /\ Pins /\ Numbered /\ Keeps
  BY DEF HotInv
<1>1. /\ thread[t] \in ThreadRec /\ Remembers(thread[t]) /\ thread[t].at = "victim" /\ ~At(t, "idle")
      /\ thread[t].fp \in Fingerprints /\ thread[t].off \in 1 .. ops /\ thread[t].off \in 0 .. MaxOps
  BY <1>0 DEF Types, SieveLoad, At, Remembers, ThreadRec
<1>2. /\ packed' = packed /\ visited' = visited /\ (AdvanceHand(thread[t].i) \/ hand' = hand)
      /\ state' = state /\ size' = size /\ pending' = pending /\ flusher' = flusher
      /\ ops' = ops /\ latest' = latest /\ overlapped' = overlapped /\ exposed' = exposed
      /\ Disturbs(t)
  BY DEF SieveLoad, metaVars
<1>3. PICK x \in ThreadRec :
         /\ Becomes(t, x) /\ thread[t].i \in Slots /\ x.i = thread[t].i
         /\ x.at = "claim" \/ (x.at = "evict" /\ x.v = packed[thread[t].i])
  BY <1>0, SieveLoadKnown
<1>4. Types'
  <2>1. /\ packed' \in [Slots -> Words] /\ visited' \subseteq Slots
        /\ state' \in [Slots -> {kUnpinned, kPinned, kInFlush}] /\ size' \in Int
        /\ (\A p \in pending' : Pushed(p)') /\ latest' \in [Fingerprints -> 0 .. MaxOps]
        /\ overlapped' \subseteq Fingerprints /\ alone' \subseteq Threads
        /\ exposed' \subseteq 0 .. MaxOps
    BY <1>0, <1>2 DEF Types, HotTypeOK, Disturbs, Pushed
  <2>2. hand' \in Slots
    BY <1>0, <1>2, <1>3, HandKnown DEF Types, HotTypeOK
  <2>3. Shapes'
    BY <2>1, <2>2 DEF Shapes
  <2> QED
    BY <1>0, <1>2, <1>3, <2>3, TypesMove
<1>5. Sizes'
  <2>1. Occupied' = Occupied
    BY <1>2 DEF Occupied
  <2> QED
    BY <1>0, <1>1, <1>2, <1>3, <2>1, SizesSame
<1>6. Single'
  <2>1. Searched(x)'
    <3>1. thread[t].fp \notin overlapped => Absent(thread[t].fp)
      BY <1>0, <1>1 DEF Single, Searched, Remembers, Sweeping
    <3>2. x.fp = thread[t].fp /\ x.at # "probe"
      BY <1>3, IdleKnown DEF Becomes, Follows
    <3> QED
      BY <1>2, <1>3, <3>1, <3>2 DEF Searched, Absent
  <2> QED
    BY <1>0, <1>2, <1>3, <2>1, SingleMove
<1>7. Sweeps'
  <2>1. Swept(x)' /\ x.at # "failed"
    BY <1>2, <1>3 DEF Swept
  <2>2. alone' \subseteq {t}
    BY <1>2 DEF Disturbs
  <2> QED
    BY <1>0, <1>3, <2>1, <2>2, SweepsMove
<1>8. Pins'
  BY <1>0, <1>1, <1>2, <1>3, PinsMove
<1>9. Numbered'
  BY <1>0, <1>1, <1>2, <1>3, NumberedMove
<1>10. Keeps'
  BY <1>0, <1>1, <1>2, <1>3, KeepsMove
<1> QED
  BY <1>4, <1>5, <1>6, <1>7, <1>8, <1>9, <1>10 DEF HotInv
\* The word of the victim changed.
LEMMA SieveLost ==
    ASSUME HotInv, NEW t \in Threads, SieveCAS(t), packed[thread[t].i] # thread[t].v
    PROVE  HotInv'
<1>0. Types /\ Sizes /\ Single /\ Sweeps /\ Pins /\ Numbered /\ Keeps
  BY DEF HotInv
<1>1. /\ thread[t] \in ThreadRec /\ Remembers(thread[t]) /\ thread[t].at = "evict" /\ ~At(t, "idle")
      /\ thread[t].fp \in Fingerprints /\ thread[t].off \in 1 .. ops /\ thread[t].off \in 0 .. MaxOps
  BY <1>0 DEF Types, SieveCAS, At, Remembers, ThreadRec
<1>2. /\ packed' = packed /\ visited' = visited /\ hand' = hand /\ state' = state
      /\ size' = size /\ pending' = pending /\ flusher' = flusher /\ ops' = ops
      /\ latest' = latest /\ overlapped' = overlapped /\ exposed' = exposed /\ Disturbs(t)
  BY DEF SieveCAS, metaVars
<1>3. PICK x \in ThreadRec : Becomes(t, x) /\ x.at = "sieve"
  BY <1>0, SieveCASKnown
<1>4. Types'
  <2>1. /\ packed' \in [Slots -> Words] /\ visited' \subseteq Slots /\ hand' \in Slots
        /\ state' \in [Slots -> {kUnpinned, kPinned, kInFlush}] /\ size' \in Int
        /\ (\A p \in pending' : Pushed(p)') /\ latest' \in [Fingerprints -> 0 .. MaxOps]
        /\ overlapped' \subseteq Fingerprints /\ alone' \subseteq Threads
        /\ exposed' \subseteq 0 .. MaxOps
    BY <1>0, <1>2 DEF Types, HotTypeOK, Disturbs, Pushed
  <2>2. Shapes'
    BY <2>1 DEF Shapes
  <2> QED
    BY <1>0, <1>2, <1>3, <2>2, TypesMove
<1>5. Sizes'
  <2>1. Occupied' = Occupied
    BY <1>2 DEF Occupied
  <2> QED
    BY <1>0, <1>1, <1>2, <1>3, <2>1, SizesSame
<1>6. Single'
  <2>1. Searched(x)'
    <3>1. thread[t].fp \notin overlapped => Absent(thread[t].fp)
      BY <1>0, <1>1 DEF Single, Searched, Remembers, Sweeping
    <3>2. x.fp = thread[t].fp /\ x.at # "probe"
      BY <1>3, IdleKnown DEF Becomes, Follows
    <3> QED
      BY <1>2, <1>3, <3>1, <3>2 DEF Searched, Absent
  <2> QED
    BY <1>0, <1>2, <1>3, <2>1, SingleMove
<1>7. Sweeps'
  <2>1. t \notin alone'
    BY <1>0, <1>1, <1>2 DEF Disturbs, Sweeps, Swept
  <2>2. alone' \subseteq {t}
    BY <1>2 DEF Disturbs
  <2> QED
    BY <1>0, <1>3, <2>1, <2>2, SweepsMove
<1>8. Pins'
  BY <1>0, <1>1, <1>2, <1>3, PinsMove
<1>9. Numbered'
  BY <1>0, <1>1, <1>2, <1>3, NumberedMove
<1>10. Keeps'
  BY <1>0, <1>1, <1>2, <1>3, KeepsMove
<1> QED
  BY <1>4, <1>5, <1>6, <1>7, <1>8, <1>9, <1>10 DEF HotInv
\* The victim is evicted.
LEMMA SieveWon ==
    ASSUME HotInv, NEW t \in Threads, SieveCAS(t), packed[thread[t].i] = thread[t].v
    PROVE  HotInv'
<1>0. Types /\ Sizes /\ Single /\ Sweeps /\ Pins /\ Numbered /\ Keeps
  BY DEF HotInv
<1>1. /\ thread[t] \in ThreadRec /\ Remembers(thread[t]) /\ thread[t].at = "evict" /\ ~At(t, "idle")
      /\ thread[t].fp \in Fingerprints /\ thread[t].off \in 1 .. ops /\ thread[t].off \in 0 .. MaxOps
  BY <1>0 DEF Types, SieveCAS, At, Remembers, ThreadRec
<1>2. /\ packed' = [packed EXCEPT ![thread[t].i] = Empty] /\ visited' = visited /\ hand' = hand
      /\ state' = state /\ size' = size /\ pending' = pending /\ flusher' = flusher
      /\ ops' = ops /\ latest' = latest /\ overlapped' = overlapped /\ exposed' = exposed
      /\ Disturbs(t)
  BY DEF SieveCAS, metaVars
<1>c. /\ packed \in [Slots -> Words] /\ thread[t].i \in Slots /\ packed[thread[t].i] # Empty
  BY <1>0, <1>1 DEF Types, HotTypeOK, Remembers
<1>3. PICK x \in ThreadRec : Becomes(t, x) /\ x.at = "evicted" /\ x.i = thread[t].i
  BY <1>0, SieveCASKnown
<1>4. Types'
  <2>1. /\ visited' \subseteq Slots /\ hand' \in Slots
        /\ state' \in [Slots -> {kUnpinned, kPinned, kInFlush}] /\ size' \in Int
        /\ (\A p \in pending' : Pushed(p)') /\ latest' \in [Fingerprints -> 0 .. MaxOps]
        /\ overlapped' \subseteq Fingerprints /\ alone' \subseteq Threads
        /\ exposed' \subseteq 0 .. MaxOps
    BY <1>0, <1>2 DEF Types, HotTypeOK, Disturbs, Pushed
  <2>2. packed' \in [Slots -> Words]
    BY <1>2, <1>c, EmptyWord
  <2>3. Shapes'
    BY <2>1, <2>2 DEF Shapes
  <2> QED
    BY <1>0, <1>2, <1>3, <2>3, TypesMove
<1>5. Sizes'
  <2>1. Cardinality(Occupied') = Cardinality(Occupied) - 1
    BY <1>0, <1>2, <1>c, SlotEmptied
  <2>2. /\ Delta("claimed", thread[t].at, x.at) = 0 /\ Delta("removed", thread[t].at, x.at) = 0
        /\ Delta("evicted", thread[t].at, x.at) = 1
    BY <1>1, <1>3, IdleKnown DEF Delta
  <2>3. size \in Int /\ size' \in Int /\ Cardinality(Occupied) \in Nat
    BY <1>0, <1>2, OccupiedFinite DEF Types, HotTypeOK
  <2>4. Cardinality(Occupied') = Cardinality(Occupied) + (-1)
    BY <2>1, <2>3
  <2>5. size' + Delta("claimed", thread[t].at, x.at) - Delta("removed", thread[t].at, x.at)
              - Delta("evicted", thread[t].at, x.at) = size + (-1)
    BY <1>2, <2>2, <2>3
  <2> QED
    BY <1>0, <1>3, <2>3, <2>4, <2>5, SizesMove
<1>6. Single'
  <2>1. \A j \in Slots, fp \in Fingerprints : HasFp(packed'[j], fp) => HasFp(packed[j], fp)
    BY <1>2, <1>c, EmptyWord
  <2>2. Searched(x)'
    <3>1. thread[t].fp \notin overlapped => Absent(thread[t].fp)
      BY <1>0, <1>1 DEF Single, Searched, Remembers, Sweeping
    <3>2. x.fp = thread[t].fp /\ x.at # "probe"
      BY <1>3, IdleKnown DEF Becomes, Follows
    <3> QED
      BY <1>1, <1>2, <1>3, <2>1, <3>1, <3>2 DEF Searched, Absent
  <2> QED
    BY <1>0, <1>2, <1>3, <2>1, <2>2, SingleMove
<1>7. Sweeps'
  BY <1>0, <1>2, <1>3, SweepsOver DEF Sweeping
<1>8. Pins'
  BY <1>0, <1>1, <1>2, <1>3, PinsMove
<1>9. Numbered'
  BY <1>0, <1>1, <1>2, <1>3, NumberedMove
<1>10. Keeps'
  <2>1. \A fp \in Fingerprints, off \in 1 .. MaxOps, i \in Slots :
              /\ off # thread[t].off /\ off = latest'[fp]
              /\ thread[t].at = "evict" => thread[t].i # i
              /\ off = latest[fp] => packed[i] = Pack(fp, off)
              => packed'[i] = Pack(fp, off)
    BY <1>1, <1>2, <1>c
  <2> QED
    BY <1>0, <1>1, <1>2, <1>3, <2>1, KeepsMove
<1> QED
  BY <1>4, <1>5, <1>6, <1>7, <1>8, <1>9, <1>10 DEF HotInv
\* An eviction counts its slot and moves the hand.
LEMMA EvictedStep ==
    ASSUME HotInv, NEW t \in Threads, Evicted(t)
    PROVE  HotInv'
<1>0. Types /\ Sizes /\ Single /\ Sweeps /\ Pins /\ Numbered /\ Keeps
  BY DEF HotInv
<1>1. /\ thread[t] \in ThreadRec /\ Remembers(thread[t]) /\ thread[t].at = "evicted" /\ ~At(t, "idle")
      /\ thread[t].fp \in Fingerprints /\ thread[t].off \in 1 .. ops /\ thread[t].off \in 0 .. MaxOps
  BY <1>0 DEF Types, Evicted, At, Remembers, ThreadRec
<1>2. /\ packed' = packed /\ visited' = visited /\ AdvanceHand(thread[t].i) /\ state' = state
      /\ size' = size - 1 /\ pending' = pending /\ flusher' = flusher /\ ops' = ops
      /\ latest' = latest /\ overlapped' = overlapped /\ exposed' = exposed /\ Disturbs(t)
  BY DEF Evicted, metaVars
<1>a. OnWith(t, "claim", thread[t].i) /\ thread[t].i \in Slots /\ Inserts(thread[t].op)
  BY <1>1 DEF Evicted, Remembers
<1>3. PICK x \in ThreadRec : Becomes(t, x) /\ x.at = "claim"
  BY <1>0, <1>1, <1>a, OnWithKnown
<1>4. Types'
  <2>1. /\ packed' \in [Slots -> Words] /\ visited' \subseteq Slots
        /\ state' \in [Slots -> {kUnpinned, kPinned, kInFlush}]
        /\ (\A p \in pending' : Pushed(p)') /\ latest' \in [Fingerprints -> 0 .. MaxOps]
        /\ overlapped' \subseteq Fingerprints /\ alone' \subseteq Threads
        /\ exposed' \subseteq 0 .. MaxOps
    BY <1>0, <1>2 DEF Types, HotTypeOK, Disturbs, Pushed
  <2>2. hand' \in Slots
    BY <1>2, <1>a, HandKnown
  <2>3. size' \in Int
    BY <1>0, <1>2 DEF Types, HotTypeOK
  <2>4. Shapes'
    BY <2>1, <2>2, <2>3 DEF Shapes
  <2> QED
    BY <1>0, <1>2, <1>3, <2>4, TypesMove
<1>5. Sizes'
  <2>1. Occupied' = Occupied
    BY <1>2 DEF Occupied
  <2>2. /\ Delta("claimed", thread[t].at, x.at) = 0 /\ Delta("removed", thread[t].at, x.at) = 0
        /\ Delta("evicted", thread[t].at, x.at) = -1
    BY <1>1, <1>3, IdleKnown DEF Delta
  <2>3. size \in Int /\ size' \in Int /\ Cardinality(Occupied) \in Nat
    BY <1>0, <1>2, OccupiedFinite DEF Types, HotTypeOK
  <2>4. Cardinality(Occupied') = Cardinality(Occupied) + (0)
    BY <2>1, <2>3
  <2>5. size' + Delta("claimed", thread[t].at, x.at) - Delta("removed", thread[t].at, x.at)
              - Delta("evicted", thread[t].at, x.at) = size + (0)
    BY <1>2, <2>2, <2>3
  <2> QED
    BY <1>0, <1>3, <2>3, <2>4, <2>5, SizesMove
<1>6. Single'
  <2>1. Searched(x)'
    <3>1. thread[t].fp \notin overlapped => Absent(thread[t].fp)
      BY <1>0, <1>1 DEF Single, Searched, Remembers, Sweeping
    <3>2. x.fp = thread[t].fp /\ x.at # "probe"
      BY <1>3, IdleKnown DEF Becomes, Follows
    <3> QED
      BY <1>2, <1>3, <3>1, <3>2 DEF Searched, Absent
  <2> QED
    BY <1>0, <1>2, <1>3, <2>1, SingleMove
<1>7. Sweeps'
  BY <1>0, <1>2, <1>3, SweepsOver DEF Sweeping
<1>8. Pins'
  BY <1>0, <1>1, <1>2, <1>3, PinsMove
<1>9. Numbered'
  BY <1>0, <1>1, <1>2, <1>3, NumberedMove
<1>10. Keeps'
  BY <1>0, <1>1, <1>2, <1>3, KeepsMove
<1> QED
  BY <1>4, <1>5, <1>6, <1>7, <1>8, <1>9, <1>10 DEF HotInv
-----------------------------------------------------------------------------
(* The steps of a pin.                                                     *)
\* force_pinned sets the low bit.
LEMMA PinOrStep ==
    ASSUME HotInv, NEW t \in Threads, PinOr(t)
    PROVE  HotInv'
<1>0. Types /\ Sizes /\ Single /\ Sweeps /\ Pins /\ Numbered /\ Keeps
  BY DEF HotInv
<1>1. /\ thread[t] \in ThreadRec /\ Remembers(thread[t]) /\ thread[t].at = "pin_or" /\ ~At(t, "idle")
      /\ thread[t].fp \in Fingerprints /\ thread[t].off \in 1 .. ops /\ thread[t].off \in 0 .. MaxOps
  BY <1>0 DEF Types, PinOr, At, Remembers, ThreadRec
<1>2. /\ packed' = packed /\ visited' = visited /\ hand' = hand /\ size' = size
      /\ pending' = pending /\ flusher' = flusher /\ ops' = ops /\ latest' = latest
      /\ overlapped' = overlapped /\ exposed' = exposed /\ Disturbs(t)
  BY DEF PinOr, metaVars
<1>a. Goto(t, "pin_and") /\ At(t, "pin_or")
  BY DEF PinOr
<1>c. /\ state \in [Slots -> {kUnpinned, kPinned, kInFlush}] /\ thread[t].i \in Slots
      /\ state[thread[t].i] \in {kUnpinned, kPinned, kInFlush}
  BY <1>0, <1>1 DEF Types, HotTypeOK, Remembers
<1>d. PICK s \in {kPinned, kInFlush} :
         /\ state' = [state EXCEPT ![thread[t].i] = s]
         /\ s = kInFlush => state[thread[t].i] = kInFlush
  <2>1. CASE state[thread[t].i] = kUnpinned
    BY <2>1 DEF PinOr, SetState, kUnpinned, kPinned, kInFlush
  <2>2. CASE state[thread[t].i] = kPinned
    BY <2>2 DEF PinOr, SetState, kUnpinned, kPinned, kInFlush
  <2>3. CASE state[thread[t].i] = kInFlush
    BY <2>3 DEF PinOr, SetState, kUnpinned, kPinned, kInFlush
  <2> QED
    BY <1>c, <2>1, <2>2, <2>3
<1>3. PICK x \in ThreadRec : Becomes(t, x) /\ x.at = "pin_and" /\ x.i = thread[t].i
  BY <1>0, <1>a, GotoKnown
<1>4. Types'
  <2>1. /\ packed' \in [Slots -> Words] /\ visited' \subseteq Slots /\ hand' \in Slots
        /\ size' \in Int /\ (\A p \in pending' : Pushed(p)')
        /\ latest' \in [Fingerprints -> 0 .. MaxOps] /\ overlapped' \subseteq Fingerprints
        /\ alone' \subseteq Threads /\ exposed' \subseteq 0 .. MaxOps
    BY <1>0, <1>2 DEF Types, HotTypeOK, Disturbs, Pushed
  <2>2. state' \in [Slots -> {kUnpinned, kPinned, kInFlush}]
    BY <1>c, <1>d
  <2>3. Shapes'
    BY <2>1, <2>2 DEF Shapes
  <2> QED
    BY <1>0, <1>2, <1>3, <2>3, TypesMove
<1>5. Sizes'
  <2>1. Occupied' = Occupied
    BY <1>2 DEF Occupied
  <2> QED
    BY <1>0, <1>1, <1>2, <1>3, <2>1, SizesSame
<1>6. Single'
  <2>1. Searched(x)'
    BY <1>3 DEF Searched, Sweeping, Inserts
  <2> QED
    BY <1>0, <1>2, <1>3, <2>1, SingleMove
<1>7. Sweeps'
  BY <1>0, <1>2, <1>3, SweepsOver DEF Sweeping
<1>8. Pins'
  <2> SUFFICES ASSUME NEW i \in Slots
               PROVE  /\ state'[i] = kPinned =>
                           \/ \E e \in pending' : e.slot = i
                           \/ \E u \in Threads : thread'[u].at \in {"pin_and", "push"} /\ thread'[u].i = i
                           \/ \E f \in Flushers : flusher'[f].at = "own" /\ flusher'[f].entry.slot = i
                      /\ state'[i] = kInFlush =>
                           \E f \in Flushers : flusher'[f].at = "release" /\ flusher'[f].entry.slot = i
    BY DEF Pins
  <2>1. thread'[t].at = "pin_and" /\ thread'[t].i = thread[t].i
    BY <1>0, <1>3, Others
  <2>2. \A u \in Threads : thread[u].at \in {"pin_and", "push"} => thread'[u] = thread[u]
    BY <1>0, <1>1, <1>3, Others
  <2>3. CASE i # thread[t].i
    <3>1. state'[i] = state[i]
      BY <1>c, <1>d, <2>3
    <3> QED
      BY <1>0, <1>2, <2>2, <3>1 DEF Pins
  <2>4. CASE i = thread[t].i
    <3>1. state'[i] = s
      BY <1>c, <1>d, <2>4
    <3>2. s = kInFlush => state[i] = kInFlush
      BY <1>d, <2>4
    <3> QED
      BY <1>0, <1>2, <2>1, <2>4, <3>1, <3>2 DEF Pins
  <2> QED
    BY <2>3, <2>4
<1>9. Numbered'
  BY <1>0, <1>1, <1>2, <1>3, NumberedMove
<1>10. Keeps'
  <2>1. \A i \in Slots : state[i] # kUnpinned => state'[i] # kUnpinned
    BY <1>c, <1>d DEF kUnpinned, kPinned, kInFlush
  <2> QED
    BY <1>0, <1>1, <1>2, <1>3, <2>1, KeepsMove
<1> QED
  BY <1>4, <1>5, <1>6, <1>7, <1>8, <1>9, <1>10 DEF HotInv
\* force_pinned clears the high bit.
LEMMA PinAndStep ==
    ASSUME HotInv, NEW t \in Threads, PinAnd(t)
    PROVE  HotInv'
<1>0. Types /\ Sizes /\ Single /\ Sweeps /\ Pins /\ Numbered /\ Keeps
  BY DEF HotInv
<1>1. /\ thread[t] \in ThreadRec /\ Remembers(thread[t]) /\ thread[t].at = "pin_and" /\ ~At(t, "idle")
      /\ thread[t].fp \in Fingerprints /\ thread[t].off \in 1 .. ops /\ thread[t].off \in 0 .. MaxOps
  BY <1>0 DEF Types, PinAnd, At, Remembers, ThreadRec
<1>2. /\ packed' = packed /\ visited' = visited /\ hand' = hand /\ size' = size
      /\ pending' = pending /\ flusher' = flusher /\ ops' = ops /\ latest' = latest
      /\ overlapped' = overlapped /\ Disturbs(t)
  BY DEF PinAnd, metaVars
<1>a. Goto(t, "push") /\ At(t, "pin_and")
  BY DEF PinAnd
<1>c. /\ state \in [Slots -> {kUnpinned, kPinned, kInFlush}] /\ thread[t].i \in Slots
      /\ state[thread[t].i] \in {kUnpinned, kPinned, kInFlush}
  BY <1>0, <1>1 DEF Types, HotTypeOK, Remembers
<1>d. PICK s \in {kUnpinned, kPinned} :
         /\ state' = [state EXCEPT ![thread[t].i] = s]
         /\ s = state[thread[t].i] % 2
         /\ state[thread[t].i] # kUnpinned => s = kPinned
  <2>1. CASE state[thread[t].i] = kUnpinned
    BY <2>1 DEF PinAnd, SetState, kUnpinned, kPinned, kInFlush
  <2>2. CASE state[thread[t].i] = kPinned
    BY <2>2 DEF PinAnd, SetState, kUnpinned, kPinned, kInFlush
  <2>3. CASE state[thread[t].i] = kInFlush
    BY <2>3 DEF PinAnd, SetState, kUnpinned, kPinned, kInFlush
  <2> QED
    BY <1>c, <2>1, <2>2, <2>3
<1>e. /\ exposed' = exposed \/ exposed' = exposed \cup {thread[t].off}
      /\ Late(t) \/ state[thread[t].i] % 2 = 0 => thread[t].off \in exposed'
  BY DEF PinAnd
<1>3. PICK x \in ThreadRec : Becomes(t, x) /\ x.at = "push" /\ x.i = thread[t].i
  BY <1>0, <1>a, GotoKnown
<1>4. Types'
  <2>1. /\ packed' \in [Slots -> Words] /\ visited' \subseteq Slots /\ hand' \in Slots
        /\ size' \in Int /\ (\A p \in pending' : Pushed(p)')
        /\ latest' \in [Fingerprints -> 0 .. MaxOps] /\ overlapped' \subseteq Fingerprints
        /\ alone' \subseteq Threads
    BY <1>0, <1>2 DEF Types, HotTypeOK, Disturbs, Pushed
  <2>2. state' \in [Slots -> {kUnpinned, kPinned, kInFlush}]
    BY <1>c, <1>d DEF kUnpinned, kPinned, kInFlush
  <2>3. exposed' \subseteq 0 .. MaxOps
    BY <1>0, <1>1, <1>e DEF Types, HotTypeOK
  <2>4. Shapes'
    BY <2>1, <2>2, <2>3 DEF Shapes
  <2> QED
    BY <1>0, <1>2, <1>3, <2>4, TypesMove
<1>5. Sizes'
  <2>1. Occupied' = Occupied
    BY <1>2 DEF Occupied
  <2> QED
    BY <1>0, <1>1, <1>2, <1>3, <2>1, SizesSame
<1>6. Single'
  <2>1. Searched(x)'
    BY <1>3 DEF Searched, Sweeping, Inserts
  <2> QED
    BY <1>0, <1>2, <1>3, <2>1, SingleMove
<1>7. Sweeps'
  BY <1>0, <1>2, <1>3, SweepsOver DEF Sweeping
<1>8. Pins'
  <2> SUFFICES ASSUME NEW i \in Slots
               PROVE  /\ state'[i] = kPinned =>
                           \/ \E e \in pending' : e.slot = i
                           \/ \E u \in Threads : thread'[u].at \in {"pin_and", "push"} /\ thread'[u].i = i
                           \/ \E f \in Flushers : flusher'[f].at = "own" /\ flusher'[f].entry.slot = i
                      /\ state'[i] = kInFlush =>
                           \E f \in Flushers : flusher'[f].at = "release" /\ flusher'[f].entry.slot = i
    BY DEF Pins
  <2>1. thread'[t].at = "push" /\ thread'[t].i = thread[t].i
    BY <1>0, <1>3, Others
  <2>2. \A u \in Threads : u # t => thread'[u] = thread[u]
    BY <1>0, <1>3, Others
  <2>3. CASE i # thread[t].i
    <3>1. state'[i] = state[i]
      BY <1>c, <1>d, <2>3
    <3>2. \A u \in Threads : thread[u].i = i => thread'[u] = thread[u]
      BY <2>2, <2>3
    <3> QED
      BY <1>0, <1>2, <3>1, <3>2 DEF Pins
  <2>4. CASE i = thread[t].i
    <3>1. state'[i] # kInFlush
      BY <1>c, <1>d, <2>4 DEF kUnpinned, kPinned, kInFlush
    <3> QED
      BY <2>1, <2>4, <3>1
  <2> QED
    BY <2>3, <2>4
<1>9. Numbered'
  BY <1>0, <1>1, <1>2, <1>3, NumberedMove
<1>10. Keeps'
  <2>1. \A i \in Slots : state[i] # kUnpinned => state'[i] # kUnpinned
    BY <1>c, <1>d DEF kUnpinned, kPinned, kInFlush
  <2>2. x.fp = thread[t].fp /\ x.off = thread[t].off
    BY <1>3, IdleKnown DEF Becomes, Follows
  <2>3. Kept(x.fp, x.off, x.i)'
    <3> SUFFICES ASSUME thread[t].off \notin exposed'
                 PROVE  /\ state'[thread[t].i] # kUnpinned
                        /\ \A u \in Threads :
                               thread'[u].at \in {"victim", "evict"} => thread'[u].i # thread[t].i
                        /\ packed'[thread[t].i] = Pack(thread[t].fp, thread[t].off)
      BY <1>3, <2>2 DEF Kept
    <3>1. ~Late(t) /\ state[thread[t].i] % 2 # 0
      BY <1>e
    <3>2. state'[thread[t].i] # kUnpinned
      BY <1>c, <1>d, <3>1 DEF kUnpinned
    <3>3. /\ packed[thread[t].i] = Pack(thread[t].fp, thread[t].off)
          /\ \A u \in Threads : thread[u].at \in {"victim", "evict"} => thread[u].i # thread[t].i
      BY <3>1 DEF Late
    <3>4. \A u \in Threads : thread'[u].at \in {"victim", "evict"} => thread'[u] = thread[u]
      BY <1>0, <1>3, Others
    <3> QED
      BY <1>2, <3>2, <3>3, <3>4
  <2>4. exposed \subseteq exposed'
    BY <1>e
  <2> QED
    BY <1>0, <1>1, <1>2, <1>3, <2>1, <2>3, <2>4, KeepsMove
<1> QED
  BY <1>4, <1>5, <1>6, <1>7, <1>8, <1>9, <1>10 DEF HotInv
\* A put pushes its commit entry.
LEMMA PushStep ==
    ASSUME HotInv, NEW t \in Threads, Push(t)
    PROVE  HotInv'
<1>0. Types /\ Sizes /\ Single /\ Sweeps /\ Pins /\ Numbered /\ Keeps
  BY DEF HotInv
<1>1. /\ thread[t] \in ThreadRec /\ Remembers(thread[t]) /\ thread[t].at = "push" /\ ~At(t, "idle")
      /\ thread[t].fp \in Fingerprints /\ thread[t].off \in 1 .. ops /\ thread[t].off \in 0 .. MaxOps
  BY <1>0 DEF Types, Push, At, Remembers, ThreadRec
<1>2. /\ packed' = packed /\ visited' = visited /\ hand' = hand /\ state' = state
      /\ size' = size /\ flusher' = flusher /\ ops' = ops /\ latest' = latest
      /\ overlapped' = overlapped /\ exposed' = exposed /\ Disturbs(t)
  BY DEF Push, metaVars
<1>a. Done(t)
  BY DEF Push
<1>b. thread[t].i \in Slots
  BY <1>1 DEF Remembers
<1>c. PICK e : /\ e = [fp |-> thread[t].fp, off |-> thread[t].off, slot |-> thread[t].i]
               /\ pending' = pending \cup {e}
  BY DEF Push
<1>d. /\ e \in Entries /\ e.fp = thread[t].fp /\ e.off = thread[t].off /\ e.slot = thread[t].i
  BY <1>1, <1>b, <1>c DEF Entries
<1>f. Pushed(e)
  BY <1>1, <1>b, <1>d DEF Pushed
<1>3. PICK x \in ThreadRec : Becomes(t, x) /\ x = Idle
  BY <1>a, IdleKnown, DoneKnown
<1>4. Types'
  <2>1. /\ packed' \in [Slots -> Words] /\ visited' \subseteq Slots /\ hand' \in Slots
        /\ state' \in [Slots -> {kUnpinned, kPinned, kInFlush}] /\ size' \in Int
        /\ latest' \in [Fingerprints -> 0 .. MaxOps] /\ overlapped' \subseteq Fingerprints
        /\ alone' \subseteq Threads /\ exposed' \subseteq 0 .. MaxOps
    BY <1>0, <1>2 DEF Types, HotTypeOK, Disturbs, Pushed
  <2>2. (\A p \in pending' : Pushed(p)')
    BY <1>0, <1>2, <1>c, <1>f DEF Types, Pushed
  <2>3. Shapes'
    BY <2>1, <2>2 DEF Shapes
  <2> QED
    BY <1>0, <1>2, <1>3, <2>3, TypesMove
<1>5. Sizes'
  <2>1. Occupied' = Occupied
    BY <1>2 DEF Occupied
  <2> QED
    BY <1>0, <1>1, <1>2, <1>3, <2>1, IdleKnown, SizesSame
<1>6. Single'
  <2>1. Searched(x)'
    BY <1>3, IdleKnown DEF Searched, Sweeping
  <2> QED
    BY <1>0, <1>2, <1>3, <2>1, SingleMove
<1>7. Sweeps'
  BY <1>0, <1>2, <1>3, IdleKnown, SweepsOver DEF Sweeping
<1>8. Pins'
  <2>1. \A u \in Threads : u # t => thread'[u] = thread[u]
    BY <1>0, <1>3, Others
  <2>2. ASSUME NEW i \in Slots, NEW u \in Threads, thread[u].at \in {"pin_and", "push"},
               thread[u].i = i
        PROVE  \/ \E p \in pending' : p.slot = i
               \/ \E v \in Threads : thread'[v].at \in {"pin_and", "push"} /\ thread'[v].i = i
    <3>1. CASE u = t
      BY <1>c, <1>d, <2>2, <3>1
    <3>2. CASE u # t
      BY <2>1, <2>2, <3>2
    <3> QED
      BY <3>1, <3>2
  <2>3. \A p \in pending : p \in pending'
    BY <1>c
  <2> QED
    BY <1>0, <1>2, <2>2, <2>3 DEF Pins
<1>9. Numbered'
  <2>1. \A u \in Threads : thread'[u].at # "idle" => u # t /\ thread'[u] = thread[u]
    BY <1>0, <1>3, Others, IdleKnown
  <2>2. \A u \in Threads : u # t /\ thread[u].at # "idle" => thread[u].off # thread[t].off
    BY <1>0, <1>1 DEF Numbered
  <2>3. \A u \in Threads, p \in pending' : thread'[u].at # "idle" => thread'[u].off # p.off
    BY <1>0, <1>c, <1>d, <2>1, <2>2 DEF Numbered
  <2> QED
    BY <1>0, <2>1, <2>3 DEF Numbered
<1>10. Keeps'
  <2>1. \A u \in Threads : thread'[u].at # "idle" => thread'[u] = thread[u]
    BY <1>0, <1>3, Others, IdleKnown
  <2>2. ASSUME NEW fp, NEW off, NEW i, Kept(fp, off, i) PROVE Kept(fp, off, i)'
    BY <1>2, <2>1, <2>2 DEF Kept
  <2>3. Kept(e.fp, e.off, e.slot)
    BY <1>0, <1>1, <1>d DEF Keeps, At
  <2>4. ASSUME NEW p \in pending' PROVE Kept(p.fp, p.off, p.slot)'
    BY <1>0, <1>c, <2>2, <2>3 DEF Keeps
  <2>5. ASSUME NEW u \in Threads, thread'[u].at = "push"
        PROVE  Kept(thread[u].fp, thread[u].off, thread[u].i)'
    <3>1. PICK r : r = thread[u]
      OBVIOUS
    <3>2. Kept(r.fp, r.off, r.i) /\ thread'[u] = r
      BY <1>0, <2>1, <2>5, <3>1 DEF Keeps, At
    <3>3. Kept(r.fp, r.off, r.i)'
      BY <2>2, <3>2
    <3> QED
      BY <3>2, <3>3
  <2> QED
    BY <2>4, <2>5 DEF Keeps, At
<1> QED
  BY <1>4, <1>5, <1>6, <1>7, <1>8, <1>9, <1>10 DEF HotInv
-----------------------------------------------------------------------------
(* An operation begins.                                                    *)

\* Any of the four operations begins.
LEMMA BeginStep ==
    ASSUME HotInv, NEW t \in Threads, NEW fp \in Fingerprints,
           NEW op \in {"upsert", "upsert_pinned", "lookup", "remove"}, Begin(t, op, fp)
    PROVE  HotInv'
<1>0. Types /\ Sizes /\ Single /\ Sweeps /\ Pins /\ Numbered /\ Keeps
  BY DEF HotInv
<1>1. /\ packed' = packed /\ visited' = visited /\ hand' = hand /\ state' = state
      /\ size' = size /\ pending' = pending /\ flusher' = flusher /\ latest' = latest
      /\ exposed' = exposed /\ Disturbs(t) /\ ops < MaxOps /\ ops' = ops + 1
      /\ thread[t].at = "idle"
  BY DEF Begin, metaVars, At
<1>2. ops \in Nat /\ ops + 1 \in 1 .. ops' /\ ops + 1 \in 0 .. MaxOps /\ ops' \in 0 .. MaxOps
  BY <1>0, <1>1, BucketKnown DEF Types
<1>3. overlapped \subseteq overlapped' /\ overlapped' \subseteq overlapped \cup {fp}
  BY DEF Begin
<1>4. ASSUME NEW u \in Threads, Inserts(op), Inserts(thread[u].op), thread[u].fp = fp
      PROVE  fp \in overlapped'
  BY <1>4 DEF Begin
<1>5. PICK x \in ThreadRec : /\ Moves(t, x) /\ x.at = "probe" /\ x.op = op /\ x.fp = fp
                             /\ x.off = ops + 1 /\ x.i = 0
  <2> DEFINE n == ops + 1
             x == [Idle EXCEPT !.at = "probe", !.op = op, !.fp = fp, !.off = n]
  <2>1. Moves(t, x)
    BY DEF Begin, To, Moves
  <2>2. n \in 0 .. MaxOps
    BY <1>2
  <2> HIDE DEF n
  <2>3. x \in ThreadRec
    <3>1. 0 \in 0 .. kSlotsPerBucket /\ 0 \in 0 .. SweepSteps /\ 0 \in Slots
          /\ 0 \in 0 .. kMaxUpsertRetries - 1
      BY BucketKnown
    <3> QED
      BY <2>2, <3>1, EmptyWord DEF ThreadRec, Idle
  <2>4. x.at = "probe" /\ x.op = op /\ x.fp = fp /\ x.off = n /\ x.i = 0
    BY DEF Idle
  <2> HIDE DEF x
  <2> QED
    BY <2>1, <2>3, <2>4 DEF n
<1>6. thread'[t] = x /\ \A u \in Threads : u # t => thread'[u] = thread[u]
  BY <1>0, <1>5, Others
<1>7. \A a \in 1 .. ops : a \in 1 .. ops'
  BY <1>1, <1>2
<1>8. Types'
  <2>1. thread' \in [Threads -> ThreadRec]
    BY <1>0, <1>5 DEF Types, Moves
  <2>2. ASSUME NEW u \in Threads PROVE Remembers(thread[u])'
    <3>1. CASE u = t
      <4>1. thread'[u] = x /\ x.i \in Slots /\ x.off \in 1 .. ops'
        BY <1>2, <1>5, <1>6, <3>1, BucketKnown
      <4> QED
        BY <1>5, <4>1 DEF Remembers, Sweeping, Pinning
    <3>2. CASE u # t
      <4>1. Remembers(thread[u]) /\ thread'[u] = thread[u]
        BY <1>0, <1>6, <3>2 DEF Types
      <4> QED
        BY <1>7, <4>1 DEF Remembers
    <3> QED
      BY <3>1, <3>2
  <2>3. ASSUME NEW u \in Threads
        PROVE  /\ thread'[u].i \in 0 .. kSlotsPerBucket
               /\ thread'[u].first_empty \in Slots \cup {kInvalidIdx}
               /\ thread'[u].v \in Words /\ thread'[u].k \in 0 .. SweepSteps
               /\ thread'[u].retry < kMaxUpsertRetries
    <3>1. thread'[u] \in ThreadRec
      BY <2>1
    <3> QED
      BY <3>1, BucketKnown DEF ThreadRec
  <2>4. \A e \in pending' : Pushed(e)'
    BY <1>0, <1>1, <1>7 DEF Types, Pushed
  <2>5. HotTypeOK'
    BY <1>0, <1>1, <1>3, <2>3 DEF Types, HotTypeOK, Disturbs
  <2> QED
    BY <1>0, <1>1, <1>2, <2>1, <2>2, <2>4, <2>5 DEF Types
<1>9. Sizes'
  <2>1. Occupied' = Occupied
    BY <1>1 DEF Occupied
  <2> QED
    BY <1>0, <1>1, <1>5, <2>1, SizesSame
<1>10. Single'
  <2>1. OneSlotPerFp'
    BY <1>0, <1>1, <1>3 DEF Single, OneSlotPerFp
  <2>2. ASSUME NEW u \in Threads PROVE Searched(thread[u])'
    <3>1. CASE u = t
      <4>1. \A j \in Slots : ~(j < x.i)
        BY <1>5, BucketKnown
      <4> QED
        BY <1>5, <1>6, <3>1, <4>1 DEF Searched, Sweeping
    <3>2. CASE u # t
      BY <1>0, <1>1, <1>3, <1>6, <3>2 DEF Single, Searched, Absent
    <3> QED
      BY <3>1, <3>2
  <2>3. ASSUME NEW u \in Threads, NEW v \in Threads, u # v, Inserts(thread'[u].op),
               Inserts(thread'[v].op), thread'[u].fp = thread'[v].fp
        PROVE  thread'[u].fp \in overlapped'
    <3>1. CASE u = t
      BY <1>4, <1>5, <1>6, <2>3, <3>1
    <3>2. CASE v = t
      BY <1>4, <1>5, <1>6, <2>3, <3>2
    <3>3. CASE u # t /\ v # t
      BY <1>0, <1>3, <1>6, <2>3, <3>3 DEF Single
    <3> QED
      BY <3>1, <3>2, <3>3
  <2> QED
    BY <2>1, <2>2, <2>3 DEF Single
<1>11. Sweeps'
  BY <1>0, <1>1, <1>5, SweepsOver DEF Sweeping
<1>12. Pins'
  BY <1>0, <1>1, <1>5, PinsMove
<1>13. Numbered'
  <2>1. \A u \in Threads : thread[u].at # "idle" => thread[u].off # ops + 1
    <3>1. \A a \in 1 .. ops : a # ops + 1
      BY <1>2
    <3> QED
      BY <1>0, <3>1 DEF Types, Remembers
  <2>2. \A e \in pending : e.off # ops + 1
    <3>1. \A a \in 1 .. ops : a # ops + 1
      BY <1>2
    <3> QED
      BY <1>0, <3>1 DEF Types, Pushed
  <2> QED
    BY <1>0, <1>1, <1>5, <1>6, <2>1, <2>2 DEF Numbered
<1>14. Keeps'
  <2>1. \A u \in Threads : thread'[u].at # "probe" => thread'[u] = thread[u]
    BY <1>5, <1>6
  <2>2. ASSUME NEW g, NEW off, NEW i, Kept(g, off, i) PROVE Kept(g, off, i)'
    BY <1>1, <2>1, <2>2 DEF Kept
  <2>3. ASSUME NEW p \in pending' PROVE Kept(p.fp, p.off, p.slot)'
    BY <1>0, <1>1, <2>2 DEF Keeps
  <2>4. ASSUME NEW u \in Threads, thread'[u].at = "push"
        PROVE  Kept(thread[u].fp, thread[u].off, thread[u].i)'
    <3>1. PICK r : r = thread[u]
      OBVIOUS
    <3>2. Kept(r.fp, r.off, r.i) /\ thread'[u] = r
      BY <1>0, <2>1, <2>4, <3>1 DEF Keeps, At
    <3>3. Kept(r.fp, r.off, r.i)'
      BY <2>2, <3>2
    <3> QED
      BY <3>2, <3>3
  <2> QED
    BY <2>3, <2>4 DEF Keeps, At
<1> QED
  BY <1>8, <1>9, <1>10, <1>11, <1>12, <1>13, <1>14 DEF HotInv

-----------------------------------------------------------------------------
(* The steps of a flusher.                                                 *)

\* What a flusher leaves alone, and that it ends the sweeps' claims.
LEMMA FlushFrame ==
    ASSUME HotInv, NEW f \in Flushers, Disturbs(f), thread' = thread, packed' = packed,
           size' = size, overlapped' = overlapped, pending' \subseteq pending
    PROVE  Sizes' /\ Single' /\ Sweeps' /\ Numbered'
<1>0. Types /\ Sizes /\ Single /\ Sweeps /\ Numbered
  BY DEF HotInv
<1>1. alone' = {}
  BY <1>0, ActorAssumption DEF Types, HotTypeOK, Disturbs
<1>2. Sweeps'
  BY <1>1 DEF Sweeps, SweepSuffices
<1>3. Sizes'
  BY <1>0 DEF Sizes, InState, Count, Occupied, At
<1>4. Single'
  BY <1>0 DEF Single, OneSlotPerFp, Searched, Absent
<1>5. Numbered'
  BY <1>0 DEF Numbered
<1> QED
  BY <1>2, <1>3, <1>4, <1>5

\* The types in a step of a flusher.
LEMMA FlushTypes ==
    ASSUME HotInv, NEW f \in Flushers, NEW y \in [at : {"idle", "own", "release"}, entry : Entries],
           y.at # "idle" => y.entry.slot \in Slots, flusher' = [flusher EXCEPT ![f] = y],
           Disturbs(f), thread' = thread, packed' = packed, visited' = visited, hand' = hand,
           state' \in [Slots -> {kUnpinned, kPinned, kInFlush}],
           size' = size, overlapped' = overlapped, pending' \subseteq pending, ops' = ops,
           latest' = latest, exposed' \subseteq 0 .. MaxOps
    PROVE  Types'
<1>0. Types
  BY DEF HotInv
<1>1. /\ flusher' \in [Flushers -> [at : {"idle", "own", "release"}, entry : Entries]]
      /\ \A g \in Flushers : flusher'[g].at # "idle" => flusher'[g].entry.slot \in Slots
  BY <1>0 DEF Types
<1>2. \A t \in Threads : Remembers(thread[t])'
  BY <1>0 DEF Types, Remembers
<1>3. \A e \in pending' : Pushed(e)'
  BY <1>0 DEF Types, Pushed
<1>4. \A g \in Flushers : flusher'[g].entry \in Entries
  BY <1>1
<1>5. HotTypeOK'
  BY <1>0, <1>4 DEF Types, HotTypeOK, Disturbs
<1> QED
  BY <1>0, <1>1, <1>2, <1>3, <1>5 DEF Types

\* A flusher at rest.
LEMMA NoFlushKnown ==
    /\ NoFlush \in [at : {"idle", "own", "release"}, entry : Entries] /\ NoFlush.at = "idle"
<1>1. NoEntry \in Entries
  BY BucketKnown DEF NoEntry, Entries
<1> QED
  BY <1>1 DEF NoFlush

\* A flusher takes an entry.
LEMMA ApplyStep ==
    ASSUME HotInv, NEW f \in Flushers, Apply(f)
    PROVE  HotInv'
<1>0. Types /\ Pins /\ Keeps
  BY DEF HotInv
<1>1. /\ thread' = thread /\ packed' = packed /\ visited' = visited /\ hand' = hand
      /\ state' = state /\ size' = size /\ overlapped' = overlapped /\ ops' = ops
      /\ latest' = latest /\ exposed' = exposed /\ Disturbs(f) /\ flusher[f].at = "idle"
  BY DEF Apply, metaVars
<1>2. PICK e \in pending : /\ flusher' = [flusher EXCEPT ![f] = [at |-> "own", entry |-> e]]
                           /\ pending' = pending \ {e}
  BY DEF Apply
<1>3. PICK y : y = [at |-> "own", entry |-> e]
  OBVIOUS
<1>4. /\ y \in [at : {"idle", "own", "release"}, entry : Entries] /\ y.at = "own"
      /\ y.entry = e /\ e.slot \in Slots
  BY <1>0, <1>3 DEF Types, Pushed
<1>5. /\ flusher \in [Flushers -> [at : {"idle", "own", "release"}, entry : Entries]]
      /\ state \in [Slots -> {kUnpinned, kPinned, kInFlush}] /\ exposed \subseteq 0 .. MaxOps
  BY <1>0 DEF Types, HotTypeOK
<1>6. flusher' = [flusher EXCEPT ![f] = y] /\ pending' \subseteq pending
  BY <1>2, <1>3
<1>7. Types'
  BY <1>1, <1>4, <1>5, <1>6, FlushTypes
<1>8. Sizes' /\ Single' /\ Sweeps' /\ Numbered'
  BY <1>1, <1>6, FlushFrame
<1>9. Pins'
  <2>1. flusher'[f] = y /\ \A g \in Flushers : flusher[g].at # "idle" => flusher'[g] = flusher[g]
    BY <1>1, <1>5, <1>6
  <2>2. ASSUME NEW p \in pending
        PROVE  \/ \E q \in pending' : q.slot = p.slot
               \/ \E g \in Flushers : flusher'[g].at = "own" /\ flusher'[g].entry.slot = p.slot
    <3>1. CASE p = e
      BY <1>4, <2>1, <3>1
    <3>2. CASE p # e
      BY <1>2, <3>2
    <3> QED
      BY <3>1, <3>2
  <2> QED
    BY <1>0, <1>1, <2>1, <2>2 DEF Pins
<1>10. Keeps'
  BY <1>0, <1>1, <1>6 DEF Keeps, Kept, At
<1> QED
  BY <1>7, <1>8, <1>9, <1>10 DEF HotInv

\* A flusher takes the slot of its entry.
LEMMA FlushOwnStep ==
    ASSUME HotInv, NEW f \in Flushers, FlushOwn(f)
    PROVE  HotInv'
<1>0. Types /\ Pins /\ Keeps
  BY DEF HotInv
<1>1. /\ thread' = thread /\ packed' = packed /\ visited' = visited /\ hand' = hand
      /\ pending' = pending /\ size' = size /\ overlapped' = overlapped /\ ops' = ops
      /\ latest' = latest /\ exposed' = exposed /\ Disturbs(f) /\ flusher[f].at = "own"
  BY DEF FlushOwn
<1>2. /\ flusher \in [Flushers -> [at : {"idle", "own", "release"}, entry : Entries]]
      /\ state \in [Slots -> {kUnpinned, kPinned, kInFlush}] /\ exposed \subseteq 0 .. MaxOps
  BY <1>0 DEF Types, HotTypeOK
<1>3. PICK i \in Slots : i = flusher[f].entry.slot
  BY <1>0, <1>1 DEF Types
<1>4. PICK y \in [at : {"idle", "own", "release"}, entry : Entries] :
         /\ flusher' = [flusher EXCEPT ![f] = y]
         /\ y.at # "idle" => y.entry.slot \in Slots
         /\ \/ /\ state[i] = kPinned /\ state' = [state EXCEPT ![i] = kInFlush]
               /\ y.at = "release" /\ y.entry.slot = i
            \/ state[i] # kPinned /\ state' = state /\ y.at = "idle"
  <2>1. CASE state[i] = kPinned
    <3> DEFINE y == [flusher[f] EXCEPT !.at = "release"]
    <3>1. flusher' = [flusher EXCEPT ![f] = y] /\ state' = [state EXCEPT ![i] = kInFlush]
      BY <1>3, <2>1 DEF FlushOwn, cas_slot_state, SetState
    <3>2. /\ y \in [at : {"idle", "own", "release"}, entry : Entries] /\ y.at = "release"
          /\ y.entry.slot = i
      BY <1>2, <1>3
    <3> HIDE DEF y
    <3> QED
      BY <2>1, <3>1, <3>2
  <2>2. CASE state[i] # kPinned
    <3>1. flusher' = [flusher EXCEPT ![f] = NoFlush] /\ state' = state
      BY <1>3, <2>2 DEF FlushOwn, cas_slot_state
    <3> QED
      BY <2>2, <3>1, NoFlushKnown
  <2> QED
    BY <2>1, <2>2
<1>5. state' \in [Slots -> {kUnpinned, kPinned, kInFlush}]
  BY <1>2, <1>4
<1>6. Types'
  BY <1>1, <1>2, <1>4, <1>5, FlushTypes
<1>7. Sizes' /\ Single' /\ Sweeps' /\ Numbered'
  BY <1>1, FlushFrame
<1>8. flusher'[f] = y /\ \A g \in Flushers : g # f => flusher'[g] = flusher[g]
  BY <1>2, <1>4
<1>9. Pins'
  <2> SUFFICES ASSUME NEW j \in Slots
               PROVE  /\ state'[j] = kPinned =>
                           \/ \E e \in pending : e.slot = j
                           \/ \E u \in Threads : thread[u].at \in {"pin_and", "push"} /\ thread[u].i = j
                           \/ \E g \in Flushers : flusher'[g].at = "own" /\ flusher'[g].entry.slot = j
                      /\ state'[j] = kInFlush =>
                           \E g \in Flushers : flusher'[g].at = "release" /\ flusher'[g].entry.slot = j
    BY <1>1 DEF Pins
  <2>1. CASE j = i /\ state[i] = kPinned
    BY <1>2, <1>4, <1>8, <2>1 DEF kPinned, kInFlush
  <2>2. CASE j = i /\ state[i] # kPinned
    <3>1. state' = state
      BY <1>4, <2>2
    <3>2. \A g \in Flushers : flusher[g].at = "release" => flusher'[g] = flusher[g]
      BY <1>1, <1>8
    <3> QED
      BY <1>0, <2>2, <3>1, <3>2 DEF Pins
  <2>3. CASE j # i
    <3>1. state'[j] = state[j]
      BY <1>2, <1>4, <2>3
    <3>2. \A g \in Flushers : flusher[g].entry.slot = j => flusher'[g] = flusher[g]
      BY <1>3, <1>8, <2>3
    <3> QED
      BY <1>0, <3>1, <3>2 DEF Pins
  <2> QED
    BY <2>1, <2>2, <2>3
<1>10. Keeps'
  <2>1. \A j \in Slots : state[j] # kUnpinned => state'[j] # kUnpinned
    BY <1>2, <1>4 DEF kUnpinned, kInFlush
  <2>2. \A e \in pending : e.slot \in Slots
    BY <1>0 DEF Types, Pushed
  <2>3. \A u \in Threads : thread[u].at = "push" => thread[u].i \in Slots
    BY <1>0 DEF Types, Remembers
  <2> QED
    BY <1>0, <1>1, <2>1, <2>2, <2>3 DEF Keeps, Kept, At
<1> QED
  BY <1>6, <1>7, <1>9, <1>10 DEF HotInv

\* A flusher releases the slot of its entry.
LEMMA FlushReleaseStep ==
    ASSUME HotInv, NEW f \in Flushers, FlushRelease(f)
    PROVE  HotInv'
<1>0. Types /\ Pins /\ Keeps
  BY DEF HotInv
<1>1. /\ thread' = thread /\ packed' = packed /\ visited' = visited /\ hand' = hand
      /\ pending' = pending /\ size' = size /\ overlapped' = overlapped /\ ops' = ops
      /\ latest' = latest /\ Disturbs(f) /\ flusher[f].at = "release"
      /\ flusher' = [flusher EXCEPT ![f] = NoFlush]
  BY DEF FlushRelease
<1>2. /\ flusher \in [Flushers -> [at : {"idle", "own", "release"}, entry : Entries]]
      /\ state \in [Slots -> {kUnpinned, kPinned, kInFlush}] /\ exposed \subseteq 0 .. MaxOps
  BY <1>0 DEF Types, HotTypeOK
<1>3. PICK i \in Slots : i = flusher[f].entry.slot
  BY <1>0, <1>1 DEF Types
<1>4. \/ /\ state[i] = kInFlush /\ state' = [state EXCEPT ![i] = kUnpinned]
         /\ exposed' = exposed \cup Holders(i)
      \/ state[i] # kInFlush /\ state' = state /\ exposed' = exposed
  BY <1>3 DEF FlushRelease, cas_slot_state, SetState
<1>5. /\ \A e \in pending : e.slot = i => e.off \in Holders(i)
      /\ \A u \in Threads : thread[u].at = "push" /\ thread[u].i = i => thread[u].off \in Holders(i)
      /\ Holders(i) \subseteq 0 .. MaxOps
  <2>1. ASSUME NEW e \in pending, e.slot = i PROVE e.off \in Holders(i)
    BY <2>1 DEF Holders
  <2>2. ASSUME NEW u \in Threads, thread[u].at = "push", thread[u].i = i
        PROVE  thread[u].off \in Holders(i)
    BY <2>2 DEF Holders
  <2>3. \A e \in pending : e.off \in 0 .. MaxOps
    BY <1>0 DEF Types, HotTypeOK, Entries
  <2>4. \A u \in Threads : thread[u].off \in 0 .. MaxOps
    BY <1>0 DEF Types, ThreadRec
  <2>5. Holders(i) \subseteq 0 .. MaxOps
    BY <2>3, <2>4 DEF Holders
  <2> QED
    BY <2>1, <2>2, <2>5
<1>6. Types'
  <2>1. /\ state' \in [Slots -> {kUnpinned, kPinned, kInFlush}] /\ exposed' \subseteq 0 .. MaxOps
    BY <1>2, <1>4, <1>5
  <2> QED
    BY <1>1, <2>1, NoFlushKnown, FlushTypes
<1>7. Sizes' /\ Single' /\ Sweeps' /\ Numbered'
  BY <1>1, FlushFrame
<1>8. \A g \in Flushers : g # f => flusher'[g] = flusher[g]
  BY <1>1, <1>2
<1>9. Pins'
  <2> SUFFICES ASSUME NEW j \in Slots
               PROVE  /\ state'[j] = kPinned =>
                           \/ \E e \in pending : e.slot = j
                           \/ \E u \in Threads : thread[u].at \in {"pin_and", "push"} /\ thread[u].i = j
                           \/ \E g \in Flushers : flusher'[g].at = "own" /\ flusher'[g].entry.slot = j
                      /\ state'[j] = kInFlush =>
                           \E g \in Flushers : flusher'[g].at = "release" /\ flusher'[g].entry.slot = j
    BY <1>1 DEF Pins
  <2>1. CASE j = i /\ state[i] = kInFlush
    <3>1. state'[j] = kUnpinned
      BY <1>2, <1>4, <2>1
    <3> QED
      BY <3>1 DEF kPinned, kInFlush, kUnpinned
  <2>2. CASE j = i /\ state[i] # kInFlush
    <3>1. state' = state
      BY <1>4, <2>2
    <3>2. \A g \in Flushers : flusher[g].at = "own" => flusher'[g] = flusher[g]
      BY <1>1, <1>8
    <3> QED
      BY <1>0, <2>2, <3>1, <3>2 DEF Pins
  <2>3. CASE j # i
    <3>1. state'[j] = state[j]
      BY <1>2, <1>4, <2>3
    <3>2. \A g \in Flushers : flusher[g].entry.slot = j => flusher'[g] = flusher[g]
      BY <1>3, <1>8, <2>3
    <3> QED
      BY <1>0, <3>1, <3>2 DEF Pins
  <2> QED
    BY <2>1, <2>2, <2>3
<1>10. Keeps'
  <2>1. ASSUME NEW fp, NEW off, NEW j \in Slots, Kept(fp, off, j),
               j = i => off \in Holders(i)
        PROVE  Kept(fp, off, j)'
    <3> SUFFICES ASSUME off \notin exposed'
                 PROVE  /\ state'[j] # kUnpinned
                        /\ \A u \in Threads : thread[u].at \in {"victim", "evict"} => thread[u].i # j
                        /\ off = latest[fp] => packed[j] = Pack(fp, off)
      BY <1>1 DEF Kept
    <3>1. off \notin exposed
      BY <1>4
    <3>2. state'[j] = state[j]
      BY <1>2, <1>4, <2>1
    <3> QED
      BY <2>1, <3>1, <3>2 DEF Kept
  <2>2. ASSUME NEW e \in pending' PROVE Kept(e.fp, e.off, e.slot)'
    <3>1. e.slot \in Slots /\ Kept(e.fp, e.off, e.slot) /\ (e.slot = i => e.off \in Holders(i))
      BY <1>0, <1>1, <1>5 DEF Types, Pushed, Keeps
    <3> QED
      BY <2>1, <3>1
  <2>3. ASSUME NEW u \in Threads, thread'[u].at = "push"
        PROVE  Kept(thread[u].fp, thread[u].off, thread[u].i)'
    <3>1. PICK r : r = thread[u]
      OBVIOUS
    <3>2. /\ r.i \in Slots /\ Kept(r.fp, r.off, r.i) /\ (r.i = i => r.off \in Holders(i))
          /\ thread'[u] = r
      BY <1>0, <1>1, <1>5, <2>3, <3>1 DEF Types, Remembers, Keeps, At
    <3>3. Kept(r.fp, r.off, r.i)'
      BY <2>1, <3>2
    <3> QED
      BY <3>2, <3>3
  <2> QED
    BY <2>2, <2>3 DEF Keeps, At
<1> QED
  BY <1>6, <1>7, <1>9, <1>10 DEF HotInv

-----------------------------------------------------------------------------
(* The invariant.                                                          *)

\* A bucket in use satisfies the invariant.
LEMMA HotInit == Init => HotInv
<1> SUFFICES ASSUME Init PROVE HotInv
  OBVIOUS
<1>1. /\ thread = [t \in Threads |-> Idle] /\ flusher = [f \in Flushers |-> NoFlush]
      /\ ops = 0 /\ pending = {} /\ alone = {} /\ exposed = {} /\ overlapped = {}
      /\ state = [i \in Slots |-> kUnpinned] /\ latest = [fp \in Fingerprints |-> 0]
      /\ hand = 0 /\ size = Cardinality(Occupied) /\ visited \subseteq Occupied
  BY DEF Init
<1>2. \A t \in Threads : thread[t] = Idle /\ Idle.at = "idle"
  BY <1>1, IdleKnown
<1>3. \A f \in Flushers : flusher[f] = NoFlush /\ NoFlush.at = "idle" /\ NoFlush.entry \in Entries
  BY <1>1, NoFlushKnown
<1>4. Types
  <2>1. packed \in [Slots -> Words]
    <3>1. \A fp \in Fingerprints : Pack(fp, 0) \in Words
      BY BucketKnown, PackedWord
    <3>2. packed \in [Slots -> {Pack(fp, 0) : fp \in Fingerprints} \cup {Empty}]
      BY DEF Init
    <3> QED
      BY <3>1, <3>2, EmptyWord
  <2>2. Idle \in ThreadRec /\ Remembers(Idle)
    BY IdleKnown
  <2>3. /\ Idle.i \in 0 .. kSlotsPerBucket /\ Idle.first_empty \in Slots \cup {kInvalidIdx}
        /\ Idle.v \in Words /\ Idle.k \in 0 .. SweepSteps /\ Idle.retry < kMaxUpsertRetries
    BY <2>2, BucketKnown DEF ThreadRec
  <2>4. /\ size \in Int /\ visited \subseteq Slots /\ hand \in Slots /\ 0 \in 0 .. MaxOps
        /\ state \in [Slots -> {kUnpinned, kPinned, kInFlush}]
    BY <1>1, OccupiedFinite, BucketKnown DEF Occupied
  <2>5. HotTypeOK
    BY <1>1, <1>2, <1>3, <2>1, <2>3, <2>4 DEF HotTypeOK
  <2>6. flusher \in [Flushers -> [at : {"idle", "own", "release"}, entry : Entries]]
    BY <1>1, NoFlushKnown
  <2>7. thread \in [Threads -> ThreadRec] /\ \A t \in Threads : Remembers(thread[t])
    BY <1>1, <1>2, <2>2
  <2> QED
    BY <1>1, <1>3, <2>4, <2>5, <2>6, <2>7 DEF Types
<1>5. Sizes
  <2>1. InState("claimed") = {} /\ InState("removed") = {} /\ InState("evicted") = {}
    BY <1>2 DEF InState, At
  <2>2. Count("claimed") = 0 /\ Count("removed") = 0 /\ Count("evicted") = 0
    BY <2>1, FS_EmptySet DEF Count, InState
  <2>3. size \in Int /\ size = Cardinality(Occupied)
    BY <1>1, OccupiedFinite
  <2>4. size + Count("claimed") - Count("removed") - Count("evicted") = Cardinality(Occupied)
    BY <2>2, <2>3
  <2> QED
    BY <2>1, <2>4, FS_EmptySet DEF Sizes
<1>6. Single
  <2>1. OneSlotPerFp
    <3> SUFFICES ASSUME NEW fp \in Fingerprints, NEW i \in Slots, NEW j \in Slots,
                        HasFp(packed[i], fp), HasFp(packed[j], fp)
                 PROVE  i = j
      BY DEF OneSlotPerFp
    <3>1. ASSUME NEW k \in Slots, HasFp(packed[k], fp) PROVE packed[k] = Pack(fp, 0)
      <4>1. packed[k] \in {Pack(g, 0) : g \in Fingerprints} \cup {Empty}
        BY DEF Init
      <4>2. PICK g \in Fingerprints : packed[k] = Pack(g, 0)
        BY <3>1, <4>1, EmptyWord
      <4> QED
        BY <3>1, <4>2, BucketKnown, PackedWord
    <3>2. packed[i] = packed[j] /\ i \in Occupied /\ j \in Occupied
      BY <3>1 DEF Occupied, HasFp
    <3> QED
      BY <3>2 DEF Init
  <2> QED
    BY <1>2, <2>1, IdleKnown DEF Single, Searched, Inserts
<1>7. Sweeps
  BY <1>1 DEF Sweeps, SweepSuffices
<1>8. Pins
  BY <1>1 DEF Pins, kUnpinned, kPinned, kInFlush
<1>9. Numbered
  BY <1>1, <1>2 DEF Numbered
<1>10. Keeps
  BY <1>1, <1>2 DEF Keeps, At
<1> QED
  BY <1>4, <1>5, <1>6, <1>7, <1>8, <1>9, <1>10 DEF HotInv

\* A step that changes nothing preserves the invariant.
LEMMA HotStutter ==
    ASSUME HotInv, UNCHANGED vars
    PROVE  HotInv'
<1>0. Types /\ Sizes /\ Single /\ Sweeps /\ Pins /\ Numbered /\ Keeps
  BY DEF HotInv
<1>1. /\ packed' = packed /\ visited' = visited /\ hand' = hand /\ state' = state
      /\ size' = size /\ pending' = pending /\ flusher' = flusher /\ latest' = latest
      /\ exposed' = exposed /\ alone' = alone /\ ops' = ops /\ thread' = thread
      /\ overlapped' = overlapped
  BY DEF vars, metaVars
<1>2. Types'
  BY <1>0, <1>1 DEF Types, HotTypeOK, Remembers, Pushed
<1>3. Sizes'
  BY <1>0, <1>1 DEF Sizes, InState, Count, Occupied, At
<1>4. Single'
  BY <1>0, <1>1 DEF Single, OneSlotPerFp, Searched, Absent
<1>5. Sweeps'
  BY <1>0, <1>1 DEF Sweeps, SweepSuffices, Swept, Skipped, Turn, At
<1>6. Pins'
  BY <1>0, <1>1 DEF Pins
<1>7. Numbered'
  BY <1>0, <1>1 DEF Numbered
<1>8. Keeps'
  BY <1>0, <1>1 DEF Keeps, Kept, At
<1> QED
  BY <1>2, <1>3, <1>4, <1>5, <1>6, <1>7, <1>8 DEF HotInv

\* Every step preserves the invariant.
LEMMA HotStep == HotInv /\ [Next]_vars => HotInv'
<1> SUFFICES ASSUME HotInv, [Next]_vars PROVE HotInv'
  OBVIOUS
<1>1. CASE UNCHANGED vars
  BY <1>1, HotStutter
<1>2. ASSUME NEW t \in Threads, NEW fp \in Fingerprints,
             upsert(t, fp) \/ upsert_pinned(t, fp) \/ lookup(t, fp) \/ remove(t, fp)
      PROVE  HotInv'
  BY <1>2, BeginStep DEF upsert, upsert_pinned, lookup, remove
<1>3. ASSUME NEW t \in Threads, MatchCAS(t) PROVE HotInv'
  <2>1. \/ packed[thread[t].i] # thread[t].v
        \/ packed[thread[t].i] = thread[t].v /\ Inserts(thread[t].op)
        \/ packed[thread[t].i] = thread[t].v /\ thread[t].op = "remove"
    BY <1>3 DEF MatchCAS
  <2> QED
    BY <1>3, <2>1, MatchLost, MatchInsert, MatchRemove
<1>4. ASSUME NEW t \in Threads, ProbeSlot(t) \/ Removed(t) \/ Claimed(t) PROVE HotInv'
  BY <1>4, ProbeStep, RemovedStep, ClaimedStep
<1>5. ASSUME NEW t \in Threads, ClaimCAS(t) PROVE HotInv'
  BY <1>5, ClaimLost, ClaimWon
<1>6. ASSUME NEW t \in Threads, SieveCAS(t) PROVE HotInv'
  BY <1>6, SieveLost, SieveWon
<1>7. ASSUME NEW t \in Threads, sieve_evict(t) PROVE HotInv'
  BY <1>6, <1>7, SieveFailStep, SieveReturnStep, SieveSlotStep, SieveLoadStep, EvictedStep
     DEF sieve_evict
<1>8. ASSUME NEW t \in Threads, PinOr(t) \/ PinAnd(t) \/ Push(t) PROVE HotInv'
  BY <1>8, PinOrStep, PinAndStep, PushStep
<1>9. ASSUME NEW f \in Flushers, Apply(f) \/ FlushOwn(f) \/ FlushRelease(f) PROVE HotInv'
  BY <1>9, ApplyStep, FlushOwnStep, FlushReleaseStep
<1> QED
  BY <1>1, <1>2, <1>3, <1>4, <1>5, <1>7, <1>8, <1>9 DEF Next

-----------------------------------------------------------------------------
(* The properties.                                                         *)

\* The invariant holds whatever the threads of hot_tier.hpp and the flushers do.
THEOREM HotInvariance == Spec => []HotInv
<1>1. Init => HotInv
  BY HotInit
<1>2. HotInv /\ [Next]_vars => HotInv'
  BY HotStep
<1> QED
  BY <1>1, <1>2, PTL DEF Spec

\* size_ counts the occupied slots but for the claims, removes and evictions
\* between their CAS and their counter (upsert_impl, remove, sieve_evict), for
\* any number of threads that probe, claim and evict one bucket at once.
THEOREM CountExact == Spec => []SizeExact
<1>1. HotInv => SizeExact
  BY DEF HotInv, Types, Sizes, SizeExact
<1> QED
  BY <1>1, HotInvariance, PTL

\* A fingerprint that no two threads insert at once has one slot at most: the
\* probe of upsert_impl, with no early exit, and its retries never make a second.
THEOREM NoDuplicate == Spec => []OneSlotPerFp
<1>1. HotInv => OneSlotPerFp
  BY DEF HotInv, Single
<1> QED
  BY <1>1, HotInvariance, PTL

\* For a bucket of any size, the two rounds of sieve_evict fail undisturbed only
\* when every slot of the bucket is pinned.
THEOREM SweepComplete == Spec => []SweepSuffices
<1>1. HotInv => SweepSuffices
  BY DEF HotInv, Sweeps
<1> QED
  BY <1>1, HotInvariance, PTL

\* No interleaving of the two atomics of force_pinned with the two CASes of any
\* number of flushers leaves a slot pinned once every entry is applied.
THEOREM PinsReleased == Spec => []QuietUnpinned
<1>1. HotInv => QuietUnpinned
  <2> SUFFICES ASSUME HotInv, Quiet, NEW i \in Slots PROVE state[i] = kUnpinned
    BY DEF QuietUnpinned
  <2>1. state[i] \in {kUnpinned, kPinned, kInFlush}
    BY DEF HotInv, Types, HotTypeOK
  <2>2. state[i] # kPinned /\ state[i] # kInFlush
    BY DEF HotInv, Pins, Quiet, At
  <2> QED
    BY <2>1, <2>2
<1> QED
  BY <1>1, HotInvariance, PTL

\* A put whose pin came in time stays in its slot until it is applied or
\* replaced, however many sweeps, writers and flushers work on the bucket.
THEOREM PinProtects == Spec => []PinnedKept
<1>1. HotInv => PinnedKept
  BY DEF HotInv, Keeps, Kept, PinnedKept
<1> QED
  BY <1>1, HotInvariance, PTL
=============================================================================
