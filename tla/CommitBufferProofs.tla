--------------------------- MODULE CommitBufferProofs ---------------------------
(***************************************************************************)
(* The safety properties of CommitBuffer, proved for any number of         *)
(* producers, lanes, flushers and pushes and any bulk size.                *)
(***************************************************************************)
EXTENDS CommitBuffer, FiniteSetTheorems, TLAPS

(***************************************************************************)
(* The inductive invariant.                                                *)
(***************************************************************************)
Busy(f) == fpc[f] \in {"dequeue", "sub", "clear", "apply"}

\* A flusher works on lanes of its own run, and holds entries only between the
\* dequeue and the apply, under its flushing_in_progress_ flag.
Drains ==
    \A f \in Flushers :
        /\ bits[f] \subseteq LanesMaskForFlusher(f)
        /\ Busy(f) => flane[f] \in LanesMaskForFlusher(f)
        /\ ~Busy(f) => batch[f] = <<>>
        /\ fpc[f] # "sub" => got[f] = 0
        /\ flushing[f] <=> fpc[f] # "idle"

Adding(l) == {p \in Producers : ppc[p] = "added" /\ plane[p] = l}
Taking(l) == {f \in Flushers : fpc[f] = "sub" /\ flane[f] = l}
Taken(l)  == IF Taking(l) # {} THEN got[CHOOSE f \in Flushers : fpc[f] = "sub" /\ flane[f] = l]
             ELSE 0

\* The counter of a lane is its queue, the pushes on their way to it and the
\* dequeue not yet subtracted.
Sizes ==
    \A l \in Lanes : /\ IsFiniteSet(Adding(l))
                     /\ approx_size[l] = Len(q[l]) + Cardinality(Adding(l)) + Taken(l)

\* The numbers of one producer grow along a sequence, and from one set of
\* entries to another.
Increasing(s) ==
    \A i, j \in 1 .. Len(s) : i < j /\ s[i][1] = s[j][1] => s[i][2] < s[j][2]
Ahead(S, T) == \A x \in S, y \in T : x[1] = y[1] => x[2] < y[2]

\* What is applied of a lane, then what its flusher holds, then what is queued.
Ordered ==
    \A l \in Lanes :
        /\ Increasing(applied[l]) /\ Increasing(q[l])
        /\ Ahead(Range(applied[l]), Range(q[l]))
        /\ \A f \in Flushers : Busy(f) /\ flane[f] = l =>
             /\ Increasing(batch[f])
             /\ Ahead(Range(applied[l]), Range(batch[f]))
             /\ Ahead(Range(batch[f]), Range(q[l]))

Stored(e) ==
    \/ \E l \in Lanes : e \in Range(applied[l]) \/ e \in Range(q[l])
    \/ \E f \in Flushers : e \in Range(batch[f])

Enqueued(e) == e[2] < pushes[e[1]] \/ (e[2] = pushes[e[1]] /\ ppc[e[1]] # "added")

\* The entries in the queues, batches and applied lists are those enqueued so far.
Accounted ==
    /\ \A p \in Producers : ppc[p] # "idle" => pushes[p] # 0
    /\ \A e \in Entry : Stored(e) <=> Enqueued(e)

\* What flush_and_wait has found: the lanes it read hold none of the entries it
\* waits for, and after the last lane the flushers it read do not either.
Scanned ==
    /\ \A e \in owed : Enqueued(e)
    /\ wpc = "size" => /\ wi < kNumLanes
                       /\ \A l \in Lanes : l < wi => Range(q[l]) \cap owed = {}
    /\ wpc \in {"flag", "returned"} => \A l \in Lanes : Range(q[l]) \cap owed = {}
    /\ wpc = "flag" => /\ wi < num_flushers
                       /\ \A f \in Flushers : f < wi => Range(batch[f]) \cap owed = {}
    /\ wpc = "returned" => \A f \in Flushers : Range(batch[f]) \cap owed = {}

BufferInv == BufferTypeOK /\ Drains /\ Sizes /\ Ordered /\ Accounted /\ Scanned

-----------------------------------------------------------------------------
(* Sequences of entries.                                                   *)

\* The entries of a sequence that grew by one, and its order.
LEMMA Appended ==
    ASSUME NEW s \in Seq(Entry), NEW e \in Entry
    PROVE  /\ Append(s, e) \in Seq(Entry) /\ Len(Append(s, e)) = Len(s) + 1
           /\ Range(Append(s, e)) = Range(s) \cup {e}
           /\ Increasing(s) /\ Ahead(Range(s), {e}) => Increasing(Append(s, e))
<1> DEFINE t == Append(s, e)
<1>1. /\ t \in Seq(Entry) /\ Len(t) = Len(s) + 1 /\ Len(s) \in Nat
      /\ \A i \in 1 .. Len(s) : t[i] = s[i]
      /\ t[Len(s) + 1] = e
  OBVIOUS
<1> HIDE DEF t
<1>2. Range(t) = Range(s) \cup {e}
  <2>1. ASSUME NEW x \in Range(t) PROVE x \in Range(s) \cup {e}
    <3>1. PICK i \in 1 .. Len(s) + 1 : x = t[i]
      BY <1>1, <2>1 DEF Range
    <3>2. i \in 1 .. Len(s) \/ i = Len(s) + 1
      BY <1>1
    <3> QED
      BY <1>1, <3>1, <3>2 DEF Range
  <2>2. ASSUME NEW x \in Range(s) PROVE x \in Range(t)
    <3>1. PICK i \in 1 .. Len(s) : x = s[i]
      BY <2>2 DEF Range
    <3>2. i \in DOMAIN t
      BY <1>1
    <3> QED
      BY <1>1, <3>1, <3>2 DEF Range
  <2>3. e \in Range(t)
    <3>1. Len(s) + 1 \in DOMAIN t
      BY <1>1
    <3> QED
      BY <1>1, <3>1 DEF Range
  <2> QED
    BY <2>1, <2>2, <2>3
<1>3. ASSUME Increasing(s), Ahead(Range(s), {e}) PROVE Increasing(t)
  <2> SUFFICES ASSUME NEW i \in 1 .. Len(t), NEW j \in 1 .. Len(t), i < j, t[i][1] = t[j][1]
               PROVE  t[i][2] < t[j][2]
    BY DEF Increasing
  <2>1. i \in 1 .. Len(s) /\ t[i] = s[i]
    BY <1>1
  <2>2. CASE j \in 1 .. Len(s)
    BY <1>1, <1>3, <2>1, <2>2 DEF Increasing
  <2>3. CASE j = Len(s) + 1
    <3>1. s[i] \in Range(s)
      BY <2>1 DEF Range
    <3> QED
      BY <1>1, <1>3, <2>1, <2>3, <3>1 DEF Ahead
  <2> QED
    BY <1>1, <2>2, <2>3
<1> QED
  BY <1>1, <1>2, <1>3 DEF t

\* Two sequences one after the other.
LEMMA Concatenated ==
    ASSUME NEW s \in Seq(Entry), NEW t \in Seq(Entry)
    PROVE  /\ s \o t \in Seq(Entry) /\ Range(s \o t) = Range(s) \cup Range(t)
           /\ Increasing(s) /\ Increasing(t) /\ Ahead(Range(s), Range(t)) => Increasing(s \o t)
<1> DEFINE u == s \o t
<1>1. /\ u \in Seq(Entry) /\ Len(u) = Len(s) + Len(t) /\ Len(s) \in Nat /\ Len(t) \in Nat
      /\ \A i \in 1 .. Len(s) : u[i] = s[i]
      /\ \A i \in 1 .. Len(t) : u[Len(s) + i] = t[i]
  OBVIOUS
<1> HIDE DEF u
<1>2. ASSUME NEW i \in 1 .. Len(u)
      PROVE  \/ i \in 1 .. Len(s) /\ u[i] = s[i]
             \/ i - Len(s) \in 1 .. Len(t) /\ u[i] = t[i - Len(s)]
  <2>1. CASE i <= Len(s)
    BY <1>1, <2>1
  <2>2. CASE i > Len(s)
    <3>1. i - Len(s) \in 1 .. Len(t) /\ Len(s) + (i - Len(s)) = i
      BY <1>1, <2>2
    <3> QED
      BY <1>1, <3>1
  <2> QED
    BY <1>1, <2>1, <2>2
<1>3. Range(u) = Range(s) \cup Range(t)
  <2>1. ASSUME NEW x \in Range(u) PROVE x \in Range(s) \cup Range(t)
    <3>1. PICK i \in 1 .. Len(u) : x = u[i]
      BY <1>1, <2>1 DEF Range
    <3> QED
      BY <1>1, <1>2, <3>1 DEF Range
  <2>2. ASSUME NEW x \in Range(s) PROVE x \in Range(u)
    <3>1. PICK i \in 1 .. Len(s) : x = s[i]
      BY <2>2 DEF Range
    <3>2. i \in DOMAIN u
      BY <1>1
    <3> QED
      BY <1>1, <3>1, <3>2 DEF Range
  <2>3. ASSUME NEW x \in Range(t) PROVE x \in Range(u)
    <3>1. PICK i \in 1 .. Len(t) : x = t[i]
      BY <2>3 DEF Range
    <3>2. Len(s) + i \in DOMAIN u
      BY <1>1
    <3> QED
      BY <1>1, <3>1, <3>2 DEF Range
  <2> QED
    BY <2>1, <2>2, <2>3
<1>4. ASSUME Increasing(s), Increasing(t), Ahead(Range(s), Range(t)) PROVE Increasing(u)
  <2> SUFFICES ASSUME NEW i \in 1 .. Len(u), NEW j \in 1 .. Len(u), i < j, u[i][1] = u[j][1]
               PROVE  u[i][2] < u[j][2]
    BY DEF Increasing
  <2>1. CASE i \in 1 .. Len(s) /\ u[i] = s[i] /\ j \in 1 .. Len(s) /\ u[j] = s[j]
    BY <1>4, <2>1 DEF Increasing
  <2>2. CASE i \in 1 .. Len(s) /\ u[i] = s[i] /\ j - Len(s) \in 1 .. Len(t) /\ u[j] = t[j - Len(s)]
    BY <1>4, <2>2 DEF Ahead, Range
  <2>3. CASE /\ i - Len(s) \in 1 .. Len(t) /\ u[i] = t[i - Len(s)]
             /\ j - Len(s) \in 1 .. Len(t) /\ u[j] = t[j - Len(s)]
    <3>1. i - Len(s) < j - Len(s)
      BY <1>1
    <3> QED
      BY <1>4, <2>3, <3>1 DEF Increasing
  <2>4. CASE i - Len(s) \in 1 .. Len(t) /\ j \in 1 .. Len(s)
    BY <1>1, <2>4
  <2> QED
    BY <1>2, <2>1, <2>2, <2>3, <2>4
<1> QED
  BY <1>1, <1>3, <1>4 DEF u

\* A sequence cut in two.
LEMMA Split ==
    ASSUME NEW s \in Seq(Entry), NEW n \in 0 .. Len(s)
    PROVE  LET a == SubSeq(s, 1, n)
               b == SubSeq(s, n + 1, Len(s))
           IN  /\ a \in Seq(Entry) /\ b \in Seq(Entry) /\ Len(b) = Len(s) - n
               /\ Range(s) = Range(a) \cup Range(b)
               /\ Increasing(s) => /\ Increasing(a) /\ Increasing(b)
                                   /\ Ahead(Range(a), Range(b))
<1> DEFINE a == SubSeq(s, 1, n)
           b == SubSeq(s, n + 1, Len(s))
<1>1. /\ Len(s) \in Nat /\ a \in Seq(Entry) /\ b \in Seq(Entry)
      /\ Len(a) = n /\ Len(b) = Len(s) - n
      /\ \A i \in 1 .. n : a[i] = s[i]
      /\ \A i \in 1 .. Len(s) - n : b[i] = s[n + i]
  <2>1. Len(s) \in Nat /\ a \in Seq(Entry) /\ b \in Seq(Entry) /\ Len(a) = n /\ Len(b) = Len(s) - n
    OBVIOUS
  <2>2. \A i \in 1 .. n : a[i] = s[i]
    OBVIOUS
  <2>3. \A i \in 1 .. Len(s) - n : b[i] = s[n + i]
    OBVIOUS
  <2> QED
    BY <2>1, <2>2, <2>3
<1> HIDE DEF a, b
<1>2. Range(s) = Range(a) \cup Range(b)
  <2>1. ASSUME NEW x \in Range(s) PROVE x \in Range(a) \cup Range(b)
    <3>1. PICK i \in 1 .. Len(s) : x = s[i]
      BY <2>1 DEF Range
    <3>2. CASE i <= n
      <4>1. i \in 1 .. n /\ i \in DOMAIN a
        BY <1>1, <3>2
      <4> QED
        BY <1>1, <3>1, <4>1 DEF Range
    <3>3. CASE i > n
      <4>1. i - n \in 1 .. Len(s) - n /\ i - n \in DOMAIN b /\ n + (i - n) = i
        BY <1>1, <3>3
      <4> QED
        BY <1>1, <3>1, <4>1 DEF Range
    <3> QED
      BY <1>1, <3>2, <3>3
  <2>2. ASSUME NEW x \in Range(a) PROVE x \in Range(s)
    <3>1. PICK i \in 1 .. n : x = a[i]
      BY <1>1, <2>2 DEF Range
    <3>2. i \in DOMAIN s
      BY <1>1
    <3> QED
      BY <1>1, <3>1, <3>2 DEF Range
  <2>3. ASSUME NEW x \in Range(b) PROVE x \in Range(s)
    <3>1. PICK i \in 1 .. Len(s) - n : x = b[i]
      BY <1>1, <2>3 DEF Range
    <3>2. n + i \in DOMAIN s
      BY <1>1
    <3> QED
      BY <1>1, <3>1, <3>2 DEF Range
  <2> QED
    BY <2>1, <2>2, <2>3
<1>3. ASSUME Increasing(s) PROVE Increasing(a)
  <2>1. \A i \in 1 .. n : i \in 1 .. Len(s)
    BY <1>1
  <2> QED
    BY <1>1, <1>3, <2>1 DEF Increasing
<1>4. ASSUME Increasing(s) PROVE Increasing(b)
  <2>1. \A i \in 1 .. Len(s) - n : n + i \in 1 .. Len(s)
    BY <1>1
  <2>2. \A i, j \in 1 .. Len(s) - n : i < j => n + i < n + j
    BY <1>1
  <2> QED
    BY <1>1, <1>4, <2>1, <2>2 DEF Increasing
<1>5. ASSUME Increasing(s) PROVE Ahead(Range(a), Range(b))
  <2> SUFFICES ASSUME NEW x \in Range(a), NEW y \in Range(b), x[1] = y[1] PROVE x[2] < y[2]
    BY DEF Ahead
  <2>1. PICK i \in 1 .. n : x = a[i]
    BY <1>1 DEF Range
  <2>2. PICK j \in 1 .. Len(s) - n : y = b[j]
    BY <1>1 DEF Range
  <2>3. i \in 1 .. Len(s) /\ n + j \in 1 .. Len(s) /\ i < n + j /\ x = s[i] /\ y = s[n + j]
    BY <1>1, <2>1, <2>2
  <2> QED
    BY <1>5, <2>3 DEF Increasing
<1> QED
  BY <1>1, <1>2, <1>3, <1>4, <1>5 DEF a, b

-----------------------------------------------------------------------------
(* Lanes and their owners.                                                 *)

\* The runs of lanes of two flushers are disjoint.
LEMMA RunsDisjoint ==
    ASSUME NEW f \in Flushers, NEW g \in Flushers, NEW l,
           l \in LanesMaskForFlusher(f), l \in LanesMaskForFlusher(g)
    PROVE  f = g
<1> DEFINE per == kNumLanes \div num_flushers
<1>1. per \in Nat /\ f \in Nat /\ g \in Nat
  BY LanesAssumption DEF Flushers
<1>2. /\ l \in Int /\ f * per <= l /\ l < (f + 1) * per
      /\ g * per <= l /\ l < (g + 1) * per
  BY LanesAssumption DEF LanesMaskForFlusher, Lanes
<1> HIDE DEF per
<1>3. ASSUME NEW i \in Nat, NEW j \in Nat, i < j PROVE (i + 1) * per <= j * per
  <2>1. j = i + 1 + (j - i - 1) /\ j - i - 1 \in Nat
    BY <1>3
  <2>2. (j - i - 1) * per \in Nat
    BY <1>1, <2>1
  <2>3. j * per = (i + 1) * per + (j - i - 1) * per
    BY <1>1, <2>1
  <2> QED
    BY <1>1, <2>2, <2>3
<1>4. /\ f * per \in Int /\ g * per \in Int
      /\ (f + 1) * per \in Int /\ (g + 1) * per \in Int
  BY <1>1
<1>5. ~(f < g)
  BY <1>1, <1>2, <1>3, <1>4
<1>6. ~(g < f)
  BY <1>1, <1>2, <1>3, <1>4
<1> QED
  BY <1>1, <1>5, <1>6

\* One flusher at a time works on a lane.
LEMMA OneDrainer ==
    ASSUME Drains, NEW f \in Flushers, NEW g \in Flushers, Busy(f), Busy(g), flane[f] = flane[g]
    PROVE  f = g
  BY RunsDisjoint DEF Drains

\* What a lane's counter owes to the flusher that has dequeued from it.
LEMMA TakenValue ==
    ASSUME Drains, NEW l \in Lanes
    PROVE  /\ (\A f \in Flushers : ~(fpc[f] = "sub" /\ flane[f] = l)) => Taken(l) = 0
           /\ \A f \in Flushers : fpc[f] = "sub" /\ flane[f] = l => Taken(l) = got[f]
<1>1. ASSUME NEW f \in Flushers, fpc[f] = "sub" /\ flane[f] = l PROVE Taken(l) = got[f]
  <2> DEFINE g == CHOOSE h \in Flushers : fpc[h] = "sub" /\ flane[h] = l
  <2>1. g \in Flushers /\ fpc[g] = "sub" /\ flane[g] = l
    BY <1>1
  <2>2. g = f
    BY <1>1, <2>1, OneDrainer DEF Busy
  <2> QED
    BY <1>1, <2>2 DEF Taken, Taking
<1> QED
  BY <1>1 DEF Taken, Taking

LEMMA TakenSame ==
    ASSUME Drains, NEW k \in Lanes,
           \A g \in Flushers :
               /\ (fpc'[g] = "sub" /\ flane'[g] = k) <=> (fpc[g] = "sub" /\ flane[g] = k)
               /\ fpc[g] = "sub" /\ flane[g] = k => got'[g] = got[g]
    PROVE  Taken(k)' = Taken(k)
<1>1. ASSUME NEW g \in Flushers, fpc[g] = "sub", flane[g] = k PROVE Taken(k)' = Taken(k)
  <2>1. Taken(k) = got[g] /\ got'[g] = got[g]
    BY <1>1, TakenValue
  <2> DEFINE h == CHOOSE h \in Flushers : fpc'[h] = "sub" /\ flane'[h] = k
  <2>2. h \in Flushers /\ fpc'[h] = "sub" /\ flane'[h] = k
    BY <1>1
  <2>3. h = g
    BY <1>1, <2>2, OneDrainer DEF Busy
  <2> QED
    BY <1>1, <2>1, <2>2, <2>3 DEF Taken, Taking
<1>2. CASE \A g \in Flushers : ~(fpc[g] = "sub" /\ flane[g] = k)
  BY <1>2 DEF Taken, Taking
<1> QED
  BY <1>1, <1>2

\* A sequence of entries without an entry, and the entries of any.
LEMMA RangeEntry ==
    /\ Range(<<>>) = {} /\ Increasing(<<>>)
    /\ \A s \in Seq(Entry) : Range(s) \subseteq Entry /\ (Len(s) = 0 => Range(s) = {})
<1>1. Range(<<>>) = {} /\ Increasing(<<>>)
  BY DEF Range, Increasing
<1>2. ASSUME NEW s \in Seq(Entry) PROVE Range(s) \subseteq Entry /\ (Len(s) = 0 => Range(s) = {})
  BY DEF Range
<1> QED
  BY <1>1, <1>2

\* What the invariant says of the sequences and of the entries in them.
LEMMA StoredKnown ==
    ASSUME BufferInv
    PROVE  /\ \A l \in Lanes : /\ q[l] \in Seq(Entry) /\ applied[l] \in Seq(Entry)
                               /\ Range(q[l]) \subseteq Entry /\ Range(applied[l]) \subseteq Entry
           /\ \A f \in Flushers : batch[f] \in Seq(Entry) /\ Range(batch[f]) \subseteq Entry
           /\ \A e \in Entry : e[1] \in Producers /\ e[2] \in Nat \ {0} /\ e = <<e[1], e[2]>>
           /\ \A p \in Producers : pushes[p] \in Nat
<1>1. /\ \A l \in Lanes : q[l] \in Seq(Entry) /\ applied[l] \in Seq(Entry)
      /\ \A f \in Flushers : batch[f] \in Seq(Entry)
      /\ \A p \in Producers : pushes[p] \in Nat
  BY BufferBounds DEF BufferInv, BufferTypeOK
<1>2. \A e \in Entry : e[1] \in Producers /\ e[2] \in Nat \ {0} /\ e = <<e[1], e[2]>>
  BY BufferBounds DEF Entry
<1> QED
  BY <1>1, <1>2, RangeEntry

\* The entry that a push is about to enqueue is the newest of its producer.
LEMMA NewEntry ==
    ASSUME BufferInv, NEW p \in Producers, ppc[p] = "added"
    PROVE  /\ <<p, pushes[p]>> \in Entry /\ ~Enqueued(<<p, pushes[p]>>)
           /\ \A l \in Lanes : /\ Ahead(Range(q[l]), {<<p, pushes[p]>>})
                               /\ Ahead(Range(applied[l]), {<<p, pushes[p]>>})
           /\ \A f \in Flushers : Ahead(Range(batch[f]), {<<p, pushes[p]>>})
<1>1. <<p, pushes[p]>> \in Entry
  BY BufferBounds DEF BufferInv, BufferTypeOK, Accounted, Entry
<1>2. ~Enqueued(<<p, pushes[p]>>)
  BY StoredKnown DEF Enqueued
<1>3. ASSUME NEW x \in Entry, Stored(x), x[1] = p PROVE x[2] < pushes[p]
  BY <1>3 DEF BufferInv, Accounted, Enqueued
<1>4. ASSUME NEW l \in Lanes
      PROVE  Ahead(Range(q[l]), {<<p, pushes[p]>>}) /\ Ahead(Range(applied[l]), {<<p, pushes[p]>>})
  BY <1>3, StoredKnown DEF Ahead, Stored
<1>5. ASSUME NEW f \in Flushers PROVE Ahead(Range(batch[f]), {<<p, pushes[p]>>})
  BY <1>3, StoredKnown DEF Ahead, Stored
<1> QED
  BY <1>1, <1>2, <1>4, <1>5

-----------------------------------------------------------------------------
(* Every step keeps every part.                                            *)

\* A flusher in a drain is at a lane, and takes from it a part of its queue.
LEMMA DrainKnown ==
    ASSUME BufferInv, NEW f \in Flushers, Busy(f)
    PROVE  /\ flane[f] \in Lanes /\ flane[f] \in LanesMaskForFlusher(f)
           /\ q[flane[f]] \in Seq(Entry) /\ Len(q[flane[f]]) \in Nat
           /\ applied[flane[f]] \in Seq(Entry) /\ batch[f] \in Seq(Entry)
<1>1. flane[f] \in LanesMaskForFlusher(f) /\ flane[f] \in Lanes
  BY DEF BufferInv, Drains, LanesMaskForFlusher
<1>2. q[flane[f]] \in Seq(Entry) /\ applied[flane[f]] \in Seq(Entry) /\ batch[f] \in Seq(Entry)
  BY <1>1 DEF BufferInv, BufferTypeOK
<1> QED
  BY <1>1, <1>2

\* A dequeue moves the head of a lane's queue to the batch of its flusher.
LEMMA DequeueSteps ==
    ASSUME BufferInv, NEW f \in Flushers, Dequeue(f)
    PROVE  \E n \in 0 .. Len(q[flane[f]]) :
             LET l == flane[f]
                 a == SubSeq(q[l], 1, n)
                 b == SubSeq(q[l], n + 1, Len(q[l]))
             IN  /\ Busy(f) /\ n \in Nat
                 /\ batch' = [batch EXCEPT ![f] = batch[f] \o a]
                 /\ q' = [q EXCEPT ![l] = b]
                 /\ got' = [got EXCEPT ![f] = n]
                 /\ fpc' = [fpc EXCEPT ![f] =
                        IF n > 0 THEN "sub" ELSE IF batch[f] # <<>> THEN "apply" ELSE "lane"]
<1> DEFINE l == flane[f]
           n == IF Len(q[l]) < kPerCall THEN Len(q[l]) ELSE kPerCall
<1>1. Busy(f)
  BY DEF Dequeue, Busy
<1>2. Len(q[l]) \in Nat
  BY <1>1, DrainKnown
<1>3. n \in 0 .. Len(q[l]) /\ n \in Nat
  BY <1>2, BufferBounds
<1>4. /\ batch' = [batch EXCEPT ![f] = batch[f] \o SubSeq(q[l], 1, n)]
      /\ q' = [q EXCEPT ![l] = SubSeq(q[l], n + 1, Len(q[l]))]
      /\ got' = [got EXCEPT ![f] = n]
      /\ fpc' = [fpc EXCEPT ![f] =
             IF n > 0 THEN "sub" ELSE IF batch[f] # <<>> THEN "apply" ELSE "lane"]
  BY DEF Dequeue, FGoto
<1> QED
  BY <1>1, <1>3, <1>4

\* Every step keeps the types.
LEMMA TypeNext == BufferInv /\ [Next]_vars => BufferTypeOK'
<1> SUFFICES ASSUME BufferInv, [Next]_vars PROVE BufferTypeOK'
  OBVIOUS
<1>k. \A f \in Flushers : Busy(f) => flane[f] \in Lanes
  BY DrainKnown
<1> USE DEF vars, producerVars, flusherVars, waiterVars, BufferInv, BufferTypeOK
<1>1. ASSUME NEW p \in Producers, NEW l \in Lanes, PushAdd(p, l) PROVE BufferTypeOK'
  <2>1. approx_size' \in [Lanes -> Nat]
    BY <1>1 DEF PushAdd, PGoto
  <2>2. before' \in [Producers -> Nat]
    BY <1>1 DEF PushAdd, PGoto
  <2>3. pushes' \in [Producers -> 0 .. MaxPushes]
    <3>1. pushes[p] + 1 \in 0 .. MaxPushes
      BY <1>1, BufferBounds DEF PushAdd, PGoto
    <3> QED
      BY <1>1, <3>1 DEF PushAdd, PGoto
  <2> QED
    BY <1>1, <2>1, <2>2, <2>3 DEF PushAdd, PGoto
<1>2. ASSUME NEW p \in Producers, PushEnqueue(p) PROVE BufferTypeOK'
  <2>1. <<p, pushes[p]>> \in Entry
    BY <1>2 DEF Accounted, Entry, PushEnqueue, PGoto
  <2>2. q' \in [Lanes -> Seq(Entry)]
    BY <1>2, <2>1 DEF PushEnqueue, PGoto
  <2> QED
    BY <1>2, <2>2 DEF PushEnqueue, PGoto
<1>3. ASSUME NEW p \in Producers, PushSetBit(p) PROVE BufferTypeOK'
  BY <1>3 DEF BufferTypeOK, PushSetBit, PGoto
<1>4. ASSUME NEW f \in Flushers, DrainBegin(f) PROVE BufferTypeOK'
  BY <1>4 DEF BufferTypeOK, DrainBegin, FGoto
<1>5. ASSUME NEW f \in Flushers, LoadMask(f) PROVE BufferTypeOK'
  BY <1>5 DEF BufferTypeOK, LoadMask, FGoto
<1>6. ASSUME NEW f \in Flushers, NextLane(f) PROVE BufferTypeOK'
  <2>1. CASE bits[f] = {}
    BY <1>6, <2>1 DEF NextLane, FGoto
  <2>2. CASE bits[f] # {}
    <3>1. PICK l \in bits[f] : /\ flane' = [flane EXCEPT ![f] = l]
                               /\ bits' = [bits EXCEPT ![f] = bits[f] \ {l}]
                               /\ fpc' = [fpc EXCEPT ![f] = "dequeue"]
      BY <1>6, <2>2 DEF NextLane, FGoto
    <3>2. l \in Lanes /\ bits[f] \ {l} \in SUBSET Lanes
      OBVIOUS
    <3> QED
      BY <1>6, <3>1, <3>2 DEF NextLane
  <2> QED
    BY <2>1, <2>2
<1>7. ASSUME NEW f \in Flushers, Dequeue(f) PROVE BufferTypeOK'
  <2>0. PICK l \in Lanes : l = flane[f]
    <3>1. Busy(f)
      BY <1>7 DEF Dequeue, Busy
    <3> QED
      BY <3>1, DrainKnown
  <2>1. PICK n \in 0 .. Len(q[l]) :
          /\ Busy(f) /\ n \in Nat
          /\ batch' = [batch EXCEPT ![f] = batch[f] \o SubSeq(q[l], 1, n)]
          /\ q' = [q EXCEPT ![l] = SubSeq(q[l], n + 1, Len(q[l]))]
          /\ got' = [got EXCEPT ![f] = n]
          /\ fpc' = [fpc EXCEPT ![f] =
                 IF n > 0 THEN "sub" ELSE IF batch[f] # <<>> THEN "apply" ELSE "lane"]
    BY <1>7, <2>0, DequeueSteps
  <2> DEFINE a == SubSeq(q[l], 1, n)
             b == SubSeq(q[l], n + 1, Len(q[l]))
  <2>2. /\ l \in Lanes /\ q[l] \in Seq(Entry) /\ Len(q[l]) \in Nat
        /\ applied[l] \in Seq(Entry) /\ batch[f] \in Seq(Entry)
        /\ l \in LanesMaskForFlusher(f)
    BY <2>0, <2>1, DrainKnown
  <2>3. /\ a \in Seq(Entry) /\ b \in Seq(Entry) /\ Len(b) = Len(q[l]) - n
        /\ Range(q[l]) = Range(a) \cup Range(b)
        /\ Increasing(q[l]) => Increasing(a) /\ Increasing(b) /\ Ahead(Range(a), Range(b))
    BY <2>2, Split
  <2> HIDE DEF a, b
  <2>4. /\ batch[f] \o a \in Seq(Entry) /\ Range(batch[f] \o a) = Range(batch[f]) \cup Range(a)
        /\ Increasing(batch[f]) /\ Increasing(a) /\ Ahead(Range(batch[f]), Range(a))
             => Increasing(batch[f] \o a)
    BY <2>2, <2>3, Concatenated
  <2>5. batch' = [batch EXCEPT ![f] = batch[f] \o a] /\ q' = [q EXCEPT ![l] = b]
    BY <2>1 DEF a, b
  <2>6. UNCHANGED <<approx_size, nonempty_mask, producerVars, flane, bits, round, flushing,
                    applied, waiterVars>>
    BY <1>7 DEF Dequeue
  <2>7. q' \in [Lanes -> Seq(Entry)]
    BY <2>3, <2>5
  <2>8. batch' \in [Flushers -> Seq(Entry)]
    BY <2>4, <2>5
  <2>9. got' \in [Flushers -> Nat]
    BY <2>1
  <2>10. fpc' \in [Flushers -> {"idle", "mask", "lane", "dequeue", "sub", "clear", "apply", "end"}]
    BY <2>1
  <2> QED
    BY <2>6, <2>7, <2>8, <2>9, <2>10
<1>8. ASSUME NEW f \in Flushers, SubtractSize(f) PROVE BufferTypeOK'
  <2>1. flane[f] \in Lanes /\ fpc[f] = "sub"
    BY <1>8, <1>k DEF Busy, SubtractSize, FGoto
  <2>2. Taken(flane[f]) = got[f]
    BY <2>1, TakenValue
  <2>3. approx_size[flane[f]] - got[f] \in Nat
    <3>1. Cardinality(Adding(flane[f])) \in Nat
      BY <2>1, FS_CardinalityType DEF Sizes
    <3>2. Len(q[flane[f]]) \in Nat
      BY <2>1
    <3> QED
      BY <2>1, <2>2, <3>1, <3>2 DEF Sizes
  <2>4. approx_size' \in [Lanes -> Nat]
    BY <1>8, <2>3 DEF SubtractSize, FGoto
  <2> QED
    BY <1>8, <2>4 DEF SubtractSize, FGoto
<1>9. ASSUME NEW f \in Flushers, ClearBit(f) PROVE BufferTypeOK'
  BY <1>9 DEF BufferTypeOK, ClearBit, FGoto
<1>10. ASSUME NEW f \in Flushers, ApplyLane(f) PROVE BufferTypeOK'
  <2>1. flane[f] \in Lanes
    BY <1>10, <1>k DEF Busy, ApplyLane, FGoto
  <2>2. applied[flane[f]] \o batch[f] \in Seq(Entry)
    BY <2>1, Concatenated
  <2>3. applied' \in [Lanes -> Seq(Entry)]
    BY <1>10, <2>2 DEF ApplyLane, FGoto
  <2>4. batch' \in [Flushers -> Seq(Entry)]
    BY <1>10 DEF ApplyLane, FGoto
  <2> QED
    BY <1>10, <2>3, <2>4 DEF ApplyLane, FGoto
<1>11. ASSUME NEW f \in Flushers, DrainEnd(f) PROVE BufferTypeOK'
  BY <1>11 DEF BufferTypeOK, DrainEnd, FGoto
<1>12. ASSUME WaitBegin PROVE BufferTypeOK'
  <2>1. owed' \subseteq Entry /\ waits' \in 0 .. MaxWaits
    BY <1>12, BufferBounds DEF WaitBegin, Pushed
  <2> QED
    BY <1>12, <2>1 DEF WaitBegin, Pushed
<1>13. ASSUME WaitRead PROVE BufferTypeOK'
  BY <1>13 DEF BufferTypeOK, WaitRead
<1>14. ASSUME WaitReturn PROVE BufferTypeOK'
  BY <1>14 DEF BufferTypeOK, WaitReturn
<1>15. CASE UNCHANGED vars
  BY <1>15 DEF BufferTypeOK
<1> QED
  BY <1>1, <1>2, <1>3, <1>4, <1>5, <1>6, <1>7, <1>8,
     <1>9, <1>10, <1>11, <1>12, <1>13, <1>14, <1>15
     DEF Next, Push, Drain, Wait

\* A flusher stays on its own lanes and gives up its entries before it stops.
LEMMA DrainsNext == BufferInv /\ [Next]_vars => Drains'
<1> SUFFICES ASSUME BufferInv, [Next]_vars PROVE Drains'
  OBVIOUS
<1> USE DEF vars, producerVars, flusherVars, waiterVars, BufferInv, BufferTypeOK
<1>1. ASSUME NEW p \in Producers, NEW l \in Lanes, PushAdd(p, l) PROVE Drains'
  BY <1>1 DEF Drains, Busy, PushAdd, PGoto
<1>2. ASSUME NEW p \in Producers, PushEnqueue(p) PROVE Drains'
  BY <1>2 DEF Drains, Busy, PushEnqueue, PGoto
<1>3. ASSUME NEW p \in Producers, PushSetBit(p) PROVE Drains'
  BY <1>3 DEF Drains, Busy, PushSetBit, PGoto
<1>4. ASSUME NEW f \in Flushers, DrainBegin(f) PROVE Drains'
  BY <1>4 DEF Drains, Busy, DrainBegin, FGoto
<1>5. ASSUME NEW f \in Flushers, LoadMask(f) PROVE Drains'
  BY <1>5 DEF Drains, Busy, LoadMask, FGoto
<1>6. ASSUME NEW f \in Flushers, NextLane(f) PROVE Drains'
  <2>1. CASE bits[f] = {}
    BY <1>6, <2>1 DEF Drains, Busy, NextLane, FGoto
  <2>2. CASE bits[f] # {}
    <3>1. PICK l \in bits[f] : /\ flane' = [flane EXCEPT ![f] = l]
                               /\ bits' = [bits EXCEPT ![f] = bits[f] \ {l}]
                               /\ fpc' = [fpc EXCEPT ![f] = "dequeue"]
      BY <1>6, <2>2 DEF NextLane, FGoto
    <3>2. l \in LanesMaskForFlusher(f) /\ bits[f] \ {l} \subseteq LanesMaskForFlusher(f)
      BY DEF Drains
    <3> QED
      BY <1>6, <3>1, <3>2 DEF Drains, Busy, NextLane
  <2> QED
    BY <2>1, <2>2
<1>7. ASSUME NEW f \in Flushers, Dequeue(f) PROVE Drains'
  <2>0. PICK l \in Lanes : l = flane[f]
    <3>1. Busy(f)
      BY <1>7 DEF Dequeue, Busy
    <3> QED
      BY <3>1, DrainKnown
  <2>1. PICK n \in 0 .. Len(q[l]) :
          /\ Busy(f) /\ n \in Nat
          /\ batch' = [batch EXCEPT ![f] = batch[f] \o SubSeq(q[l], 1, n)]
          /\ q' = [q EXCEPT ![l] = SubSeq(q[l], n + 1, Len(q[l]))]
          /\ got' = [got EXCEPT ![f] = n]
          /\ fpc' = [fpc EXCEPT ![f] =
                 IF n > 0 THEN "sub" ELSE IF batch[f] # <<>> THEN "apply" ELSE "lane"]
    BY <1>7, <2>0, DequeueSteps
  <2> DEFINE a == SubSeq(q[l], 1, n)
             b == SubSeq(q[l], n + 1, Len(q[l]))
  <2>2. /\ l \in Lanes /\ q[l] \in Seq(Entry) /\ Len(q[l]) \in Nat
        /\ applied[l] \in Seq(Entry) /\ batch[f] \in Seq(Entry)
        /\ l \in LanesMaskForFlusher(f)
    BY <2>0, <2>1, DrainKnown
  <2>3. /\ a \in Seq(Entry) /\ b \in Seq(Entry) /\ Len(b) = Len(q[l]) - n
        /\ Range(q[l]) = Range(a) \cup Range(b)
        /\ Increasing(q[l]) => Increasing(a) /\ Increasing(b) /\ Ahead(Range(a), Range(b))
    BY <2>2, Split
  <2> HIDE DEF a, b
  <2>4. /\ batch[f] \o a \in Seq(Entry) /\ Range(batch[f] \o a) = Range(batch[f]) \cup Range(a)
        /\ Increasing(batch[f]) /\ Increasing(a) /\ Ahead(Range(batch[f]), Range(a))
             => Increasing(batch[f] \o a)
    BY <2>2, <2>3, Concatenated
  <2>5. batch' = [batch EXCEPT ![f] = batch[f] \o a] /\ q' = [q EXCEPT ![l] = b]
    BY <2>1 DEF a, b
  <2>6. UNCHANGED <<approx_size, nonempty_mask, producerVars, flane, bits, round, flushing,
                    applied, waiterVars>>
    BY <1>7 DEF Dequeue
  <2>7. fpc[f] = "dequeue"
    BY <1>7 DEF Dequeue
  <2>8. ASSUME n = 0, batch[f] = <<>> PROVE batch'[f] = <<>>
    <3>1. batch[f] \o a = <<>>
      BY <2>2, <2>3, <2>8 DEF a
    <3> QED
      BY <2>5, <3>1
  <2> QED
    BY <2>1, <2>2, <2>5, <2>6, <2>7, <2>8 DEF Drains, Busy
<1>8. ASSUME NEW f \in Flushers, SubtractSize(f) PROVE Drains'
  BY <1>8 DEF Drains, Busy, SubtractSize, FGoto
<1>9. ASSUME NEW f \in Flushers, ClearBit(f) PROVE Drains'
  BY <1>9 DEF Drains, Busy, ClearBit, FGoto
<1>10. ASSUME NEW f \in Flushers, ApplyLane(f) PROVE Drains'
  BY <1>10 DEF Drains, Busy, ApplyLane, FGoto
<1>11. ASSUME NEW f \in Flushers, DrainEnd(f) PROVE Drains'
  BY <1>11 DEF Drains, Busy, DrainEnd, FGoto
<1>12. ASSUME WaitBegin PROVE Drains'
  BY <1>12 DEF Drains, Busy, WaitBegin, Pushed
<1>13. ASSUME WaitRead PROVE Drains'
  BY <1>13 DEF Drains, Busy, WaitRead
<1>14. ASSUME WaitReturn PROVE Drains'
  BY <1>14 DEF Drains, Busy, WaitReturn
<1>15. CASE UNCHANGED vars
  BY <1>15 DEF Drains, Busy
<1> QED
  BY <1>1, <1>2, <1>3, <1>4, <1>5, <1>6, <1>7, <1>8,
     <1>9, <1>10, <1>11, <1>12, <1>13, <1>14, <1>15
     DEF Next, Push, Drain, Wait

\* A lane's counter follows its queue, the pushes and the dequeues.
LEMMA SizesNext == BufferInv /\ [Next]_vars => Sizes'
<1> SUFFICES ASSUME BufferInv, [Next]_vars PROVE Sizes'
  OBVIOUS
<1>d. Drains /\ Drains'
  BY DrainsNext DEF BufferInv
<1>s. \A l \in Lanes : /\ IsFiniteSet(Adding(l)) /\ Cardinality(Adding(l)) \in Nat
                       /\ Len(q[l]) \in Nat /\ q[l] \in Seq(Entry)
                       /\ approx_size[l] = Len(q[l]) + Cardinality(Adding(l)) + Taken(l)
  BY FS_CardinalityType DEF BufferInv, BufferTypeOK, Sizes
<1> USE DEF vars, producerVars, flusherVars, waiterVars, BufferInv, BufferTypeOK
<1>1. ASSUME NEW p \in Producers, NEW l \in Lanes, PushAdd(p, l) PROVE Sizes'
  <2>1. \A k \in Lanes : Taken(k)' = Taken(k) /\ Len(q'[k]) = Len(q[k])
    BY <1>1 DEF Taken, Taking, PushAdd, PGoto
  <2>2. ASSUME NEW k \in Lanes, k # l PROVE Adding(k)' = Adding(k)
    BY <1>1, <2>2 DEF Adding, PushAdd, PGoto
  <2>3. p \notin Adding(l) /\ Adding(l)' = Adding(l) \cup {p}
    BY <1>1 DEF Adding, PushAdd, PGoto
  <2>4. IsFiniteSet(Adding(l)') /\ Cardinality(Adding(l)') = Cardinality(Adding(l)) + 1
    <3>1. /\ IsFiniteSet(Adding(l) \cup {p})
          /\ Cardinality(Adding(l) \cup {p}) = Cardinality(Adding(l)) + 1
      BY <1>s, <2>3, FS_AddElement
    <3> QED
      BY <2>3, <3>1
  <2>5. approx_size'[l] = approx_size[l] + 1 /\ \A k \in Lanes : k # l => approx_size'[k] = approx_size[k]
    BY <1>1 DEF PushAdd, PGoto
  <2>6. Taken(l) \in Int
    BY DEF Taken, Taking
  <2>7. \A k \in Lanes : /\ IsFiniteSet(Adding(k)')
                         /\ approx_size'[k] = Len(q'[k]) + Cardinality(Adding(k)') + Taken(k)'
    <3> TAKE k \in Lanes
    <3>1. CASE k = l
      <4>1. approx_size[l] = Len(q[l]) + Cardinality(Adding(l)) + Taken(l)
        BY <1>s
      <4>2. Len(q'[l]) = Len(q[l]) /\ Taken(l)' = Taken(l)
        BY <2>1
      <4>3. Len(q[l]) \in Nat /\ Cardinality(Adding(l)) \in Nat
        BY <1>s
      <4> HIDE DEF BufferInv
      <4>4. approx_size'[l] = Len(q'[l]) + Cardinality(Adding(l)') + Taken(l)'
        BY <2>4, <2>5, <2>6, <4>1, <4>2, <4>3
      <4> QED
        BY <2>4, <3>1, <4>4
    <3>2. CASE k # l
      BY <1>s, <2>1, <2>2, <2>5, <3>2
    <3> QED
      BY <3>1, <3>2
  <2> QED
    BY <2>7 DEF Sizes
<1>2. ASSUME NEW p \in Producers, PushEnqueue(p) PROVE Sizes'
  <2>0. PICK l \in Lanes : l = plane[p]
    OBVIOUS
  <2>1. \A k \in Lanes : Taken(k)' = Taken(k) /\ approx_size'[k] = approx_size[k]
    BY <1>2 DEF Taken, Taking, PushEnqueue, PGoto
  <2>2. ASSUME NEW k \in Lanes, k # l PROVE Adding(k)' = Adding(k) /\ q'[k] = q[k]
    BY <1>2, <2>0, <2>2 DEF Adding, PushEnqueue, PGoto
  <2>3. p \in Adding(l) /\ Adding(l)' = Adding(l) \ {p}
    BY <1>2, <2>0 DEF Adding, PushEnqueue, PGoto
  <2>4. IsFiniteSet(Adding(l)') /\ Cardinality(Adding(l)') = Cardinality(Adding(l)) - 1
    <3>1. /\ IsFiniteSet(Adding(l) \ {p})
          /\ Cardinality(Adding(l) \ {p}) = Cardinality(Adding(l)) - 1
      BY <1>s, <2>3, FS_RemoveElement
    <3> QED
      BY <2>3, <3>1
  <2>5. Len(q'[l]) = Len(q[l]) + 1
    BY <1>2, <1>s, <2>0 DEF PushEnqueue, PGoto
  <2>6. \A k \in Lanes : Taken(k) \in Int
    BY DEF Taken, Taking
  <2>7. l \in Lanes
    OBVIOUS
  <2>8. \A k \in Lanes : /\ IsFiniteSet(Adding(k)')
                         /\ approx_size'[k] = Len(q'[k]) + Cardinality(Adding(k)') + Taken(k)'
    <3> TAKE k \in Lanes
    <3>1. CASE k = l
      <4>1. approx_size[l] = Len(q[l]) + Cardinality(Adding(l)) + Taken(l)
        BY <1>s
      <4>2. approx_size'[l] = approx_size[l] /\ Taken(l)' = Taken(l) /\ Taken(l) \in Int
        BY <2>1, <2>6
      <4>3. Len(q[l]) \in Nat /\ Cardinality(Adding(l)) \in Nat
        BY <1>s
      <4> HIDE DEF BufferInv
      <4>4. approx_size'[l] = Len(q'[l]) + Cardinality(Adding(l)') + Taken(l)'
        BY <2>4, <2>5, <4>1, <4>2, <4>3
      <4> QED
        BY <2>4, <3>1, <4>4
    <3>2. CASE k # l
      BY <1>s, <2>1, <2>2, <3>2
    <3> QED
      BY <3>1, <3>2
  <2> QED
    BY <2>8 DEF Sizes
<1>3. ASSUME NEW p \in Producers, PushSetBit(p) PROVE Sizes'
  <2>1. \A k \in Lanes : approx_size'[k] = approx_size[k] /\ q'[k] = q[k] /\ Adding(k)' = Adding(k)
    BY <1>3 DEF Adding, PushSetBit, PGoto
  <2>2. \A g \in Flushers : /\ fpc'[g] = "sub" <=> fpc[g] = "sub"
                            /\ fpc[g] = "sub" => flane'[g] = flane[g] /\ got'[g] = got[g]
    BY <1>3 DEF PushSetBit, PGoto
  <2>3. \A k \in Lanes : Taken(k)' = Taken(k)
    BY <1>d, <2>2, TakenSame
  <2> QED
    BY <1>s, <2>1, <2>3 DEF Sizes
<1>4. ASSUME NEW f \in Flushers, DrainBegin(f) PROVE Sizes'
  <2>1. \A k \in Lanes : approx_size'[k] = approx_size[k] /\ q'[k] = q[k] /\ Adding(k)' = Adding(k)
    BY <1>4 DEF Adding, DrainBegin, FGoto
  <2>2. \A g \in Flushers : /\ fpc'[g] = "sub" <=> fpc[g] = "sub"
                            /\ fpc[g] = "sub" => flane'[g] = flane[g] /\ got'[g] = got[g]
    BY <1>4 DEF DrainBegin, FGoto
  <2>3. \A k \in Lanes : Taken(k)' = Taken(k)
    BY <1>d, <2>2, TakenSame
  <2> QED
    BY <1>s, <2>1, <2>3 DEF Sizes
<1>5. ASSUME NEW f \in Flushers, LoadMask(f) PROVE Sizes'
  <2>1. \A k \in Lanes : approx_size'[k] = approx_size[k] /\ q'[k] = q[k] /\ Adding(k)' = Adding(k)
    BY <1>5 DEF Adding, LoadMask, FGoto
  <2>2. \A g \in Flushers : /\ fpc'[g] = "sub" <=> fpc[g] = "sub"
                            /\ fpc[g] = "sub" => flane'[g] = flane[g] /\ got'[g] = got[g]
    BY <1>5 DEF LoadMask, FGoto
  <2>3. \A k \in Lanes : Taken(k)' = Taken(k)
    BY <1>d, <2>2, TakenSame
  <2> QED
    BY <1>s, <2>1, <2>3 DEF Sizes
<1>6. ASSUME NEW f \in Flushers, NextLane(f) PROVE Sizes'
  <2>1. \A k \in Lanes : approx_size'[k] = approx_size[k] /\ q'[k] = q[k] /\ Adding(k)' = Adding(k)
    BY <1>6 DEF Adding, NextLane, FGoto
  <2>2. \A g \in Flushers : /\ fpc'[g] = "sub" <=> fpc[g] = "sub"
                            /\ fpc[g] = "sub" => flane'[g] = flane[g] /\ got'[g] = got[g]
    BY <1>6 DEF NextLane, FGoto
  <2>3. \A k \in Lanes : Taken(k)' = Taken(k)
    BY <1>d, <2>2, TakenSame
  <2> QED
    BY <1>s, <2>1, <2>3 DEF Sizes
<1>7. ASSUME NEW f \in Flushers, Dequeue(f) PROVE Sizes'
  <2>0. PICK l \in Lanes : l = flane[f]
    <3>1. Busy(f)
      BY <1>7 DEF Dequeue, Busy
    <3> QED
      BY <3>1, DrainKnown
  <2>1. PICK n \in 0 .. Len(q[l]) :
          /\ Busy(f) /\ n \in Nat
          /\ batch' = [batch EXCEPT ![f] = batch[f] \o SubSeq(q[l], 1, n)]
          /\ q' = [q EXCEPT ![l] = SubSeq(q[l], n + 1, Len(q[l]))]
          /\ got' = [got EXCEPT ![f] = n]
          /\ fpc' = [fpc EXCEPT ![f] =
                 IF n > 0 THEN "sub" ELSE IF batch[f] # <<>> THEN "apply" ELSE "lane"]
    BY <1>7, <2>0, DequeueSteps
  <2> DEFINE a == SubSeq(q[l], 1, n)
             b == SubSeq(q[l], n + 1, Len(q[l]))
  <2>2. /\ l \in Lanes /\ q[l] \in Seq(Entry) /\ Len(q[l]) \in Nat
        /\ applied[l] \in Seq(Entry) /\ batch[f] \in Seq(Entry)
        /\ l \in LanesMaskForFlusher(f)
    BY <2>0, <2>1, DrainKnown
  <2>3. /\ a \in Seq(Entry) /\ b \in Seq(Entry) /\ Len(b) = Len(q[l]) - n
        /\ Range(q[l]) = Range(a) \cup Range(b)
        /\ Increasing(q[l]) => Increasing(a) /\ Increasing(b) /\ Ahead(Range(a), Range(b))
    BY <2>2, Split
  <2> HIDE DEF a, b
  <2>4. /\ batch[f] \o a \in Seq(Entry) /\ Range(batch[f] \o a) = Range(batch[f]) \cup Range(a)
        /\ Increasing(batch[f]) /\ Increasing(a) /\ Ahead(Range(batch[f]), Range(a))
             => Increasing(batch[f] \o a)
    BY <2>2, <2>3, Concatenated
  <2>5. batch' = [batch EXCEPT ![f] = batch[f] \o a] /\ q' = [q EXCEPT ![l] = b]
    BY <2>1 DEF a, b
  <2>6. UNCHANGED <<approx_size, nonempty_mask, producerVars, flane, bits, round, flushing,
                    applied, waiterVars>>
    BY <1>7 DEF Dequeue
  <2>7. fpc[f] = "dequeue"
    BY <1>7 DEF Dequeue
  <2>8. ASSUME NEW k \in Lanes PROVE Adding(k)' = Adding(k) /\ approx_size'[k] = approx_size[k]
    BY <2>6 DEF Adding
  <2>9. Taken(l) = 0
    <3>1. ASSUME NEW g \in Flushers, fpc[g] = "sub", flane[g] = l PROVE FALSE
      BY <2>0, <1>d, <2>7, <3>1, OneDrainer DEF Busy
    <3> QED
      BY <1>d, <2>2, <3>1, TakenValue
  <2>10. Taken(l)' = n
    <3>1. CASE n > 0
      <4>1. fpc'[f] = "sub" /\ flane'[f] = l /\ got'[f] = n
        BY <2>0, <2>1, <2>6, <3>1
      <4> DEFINE g == CHOOSE h \in Flushers : fpc'[h] = "sub" /\ flane'[h] = l
      <4>2. g \in Flushers /\ fpc'[g] = "sub" /\ flane'[g] = l
        BY <4>1
      <4>3. g = f
        <5>1. ASSUME g # f PROVE fpc[g] = "sub" /\ flane[g] = l
          BY <2>1, <2>6, <4>2, <5>1
        <5> QED
          BY <2>0, <1>d, <2>1, <4>2, <5>1, OneDrainer DEF Busy
      <4> QED
        BY <2>0, <4>1, <4>2, <4>3 DEF Taken, Taking
    <3>2. CASE n = 0
      <4>1. \A g \in Flushers : fpc'[g] = "sub" => fpc[g] = "sub"
        BY <2>1, <3>2
      <4>2. ASSUME NEW g \in Flushers, fpc'[g] = "sub", flane'[g] = l PROVE FALSE
        BY <2>0, <1>d, <2>6, <2>7, <4>1, <4>2, OneDrainer DEF Busy
      <4> QED
        BY <2>0, <2>6, <3>2, <4>2 DEF Taken, Taking
    <3> QED
      BY <2>1, <3>1, <3>2
  <2>11. ASSUME NEW k \in Lanes, k # l PROVE Taken(k)' = Taken(k) /\ q'[k] = q[k]
    <3>1. \A g \in Flushers : (fpc'[g] = "sub" /\ flane'[g] = k) <=> (fpc[g] = "sub" /\ flane[g] = k)
      BY <2>0, <2>1, <2>6, <2>7, <2>11
    <3>2. \A g \in Flushers : fpc[g] = "sub" => got'[g] = got[g]
      BY <2>1, <2>7
    <3>4. q'[k] = q[k]
      BY <2>5, <2>11
    <3> QED
      BY <1>d, <3>1, <3>2, <3>4, TakenSame
  <2>12. Len(q'[l]) = Len(q[l]) - n
    BY <2>2, <2>3, <2>5
  <2>13. \A k \in Lanes : /\ IsFiniteSet(Adding(k)')
                          /\ approx_size'[k] = Len(q'[k]) + Cardinality(Adding(k)') + Taken(k)'
    <3> TAKE k \in Lanes
    <3>1. CASE k = l
      BY <1>s, <2>1, <2>2, <2>8, <2>9, <2>10, <2>12, <3>1
    <3>2. CASE k # l
      BY <1>s, <2>8, <2>11, <3>2
    <3> QED
      BY <3>1, <3>2
  <2> QED
    BY <2>13 DEF Sizes
<1>8. ASSUME NEW f \in Flushers, SubtractSize(f) PROVE Sizes'
  <2>0. fpc[f] = "sub"
    BY <1>8 DEF SubtractSize, FGoto
  <2>1. PICK l \in Lanes : l = flane[f]
    BY <2>0, DrainKnown DEF Busy
  <2>2. /\ approx_size' = [approx_size EXCEPT ![l] = approx_size[l] - got[f]]
        /\ got' = [got EXCEPT ![f] = 0]
        /\ fpc' = [fpc EXCEPT ![f] = IF approx_size[l] = got[f] THEN "clear" ELSE "dequeue"]
        /\ UNCHANGED <<q, ppc, plane, flane>>
    BY <1>8, <2>1 DEF SubtractSize, FGoto
  <2>3. Taken(l) = got[f]
    BY <1>d, <2>0, <2>1, TakenValue
  <2>4. Taken(l)' = 0
    <3>1. ASSUME NEW g \in Flushers, fpc'[g] = "sub", flane'[g] = l PROVE FALSE
      <4>1. g # f /\ fpc[g] = "sub" /\ flane[g] = l
        BY <2>0, <2>1, <2>2, <3>1
      <4> QED
        BY <1>d, <2>0, <2>1, <4>1, OneDrainer DEF Busy
    <3> QED
      BY <2>2, <3>1 DEF Taken, Taking
  <2>5. ASSUME NEW k \in Lanes, k # l PROVE Taken(k)' = Taken(k)
    <3>1. \A g \in Flushers : (fpc'[g] = "sub" /\ flane'[g] = k) <=> (fpc[g] = "sub" /\ flane[g] = k)
      BY <2>0, <2>1, <2>2, <2>5
    <3>2. \A g \in Flushers : fpc[g] = "sub" /\ flane[g] = k => got'[g] = got[g]
      BY <2>0, <2>1, <2>2, <2>5
    <3> QED
      BY <1>d, <3>1, <3>2, TakenSame
  <2>6. \A k \in Lanes : Adding(k)' = Adding(k) /\ q'[k] = q[k]
    BY <2>2 DEF Adding
  <2>7. got[f] \in Nat /\ approx_size'[l] = approx_size[l] - got[f]
        /\ \A k \in Lanes : k # l => approx_size'[k] = approx_size[k]
    BY <2>1, <2>2
  <2>8. \A k \in Lanes : /\ IsFiniteSet(Adding(k)')
                         /\ approx_size'[k] = Len(q'[k]) + Cardinality(Adding(k)') + Taken(k)'
    <3> TAKE k \in Lanes
    <3>1. CASE k = l
      BY <1>s, <2>1, <2>3, <2>4, <2>6, <2>7, <3>1
    <3>2. CASE k # l
      BY <1>s, <2>5, <2>6, <2>7, <3>2
    <3> QED
      BY <3>1, <3>2
  <2> QED
    BY <2>8 DEF Sizes
<1>9. ASSUME NEW f \in Flushers, ClearBit(f) PROVE Sizes'
  <2>1. \A k \in Lanes : approx_size'[k] = approx_size[k] /\ q'[k] = q[k] /\ Adding(k)' = Adding(k)
    BY <1>9 DEF Adding, ClearBit, FGoto
  <2>2. \A g \in Flushers : /\ fpc'[g] = "sub" <=> fpc[g] = "sub"
                            /\ fpc[g] = "sub" => flane'[g] = flane[g] /\ got'[g] = got[g]
    BY <1>9 DEF ClearBit, FGoto
  <2>3. \A k \in Lanes : Taken(k)' = Taken(k)
    BY <1>d, <2>2, TakenSame
  <2> QED
    BY <1>s, <2>1, <2>3 DEF Sizes
<1>10. ASSUME NEW f \in Flushers, ApplyLane(f) PROVE Sizes'
  <2>1. \A k \in Lanes : approx_size'[k] = approx_size[k] /\ q'[k] = q[k] /\ Adding(k)' = Adding(k)
    BY <1>10 DEF Adding, ApplyLane, FGoto
  <2>2. \A g \in Flushers : /\ fpc'[g] = "sub" <=> fpc[g] = "sub"
                            /\ fpc[g] = "sub" => flane'[g] = flane[g] /\ got'[g] = got[g]
    BY <1>10 DEF ApplyLane, FGoto
  <2>3. \A k \in Lanes : Taken(k)' = Taken(k)
    BY <1>d, <2>2, TakenSame
  <2> QED
    BY <1>s, <2>1, <2>3 DEF Sizes
<1>11. ASSUME NEW f \in Flushers, DrainEnd(f) PROVE Sizes'
  <2>1. \A k \in Lanes : approx_size'[k] = approx_size[k] /\ q'[k] = q[k] /\ Adding(k)' = Adding(k)
    BY <1>11 DEF Adding, DrainEnd, FGoto
  <2>2. \A g \in Flushers : /\ fpc'[g] = "sub" <=> fpc[g] = "sub"
                            /\ fpc[g] = "sub" => flane'[g] = flane[g] /\ got'[g] = got[g]
    BY <1>11 DEF DrainEnd, FGoto
  <2>3. \A k \in Lanes : Taken(k)' = Taken(k)
    BY <1>d, <2>2, TakenSame
  <2> QED
    BY <1>s, <2>1, <2>3 DEF Sizes
<1>12. ASSUME WaitBegin PROVE Sizes'
  <2>1. \A k \in Lanes : approx_size'[k] = approx_size[k] /\ q'[k] = q[k] /\ Adding(k)' = Adding(k)
    BY <1>12 DEF Adding, WaitBegin, Pushed
  <2>2. \A g \in Flushers : /\ fpc'[g] = "sub" <=> fpc[g] = "sub"
                            /\ fpc[g] = "sub" => flane'[g] = flane[g] /\ got'[g] = got[g]
    BY <1>12 DEF WaitBegin, Pushed
  <2>3. \A k \in Lanes : Taken(k)' = Taken(k)
    BY <1>d, <2>2, TakenSame
  <2> QED
    BY <1>s, <2>1, <2>3 DEF Sizes
<1>13. ASSUME WaitRead PROVE Sizes'
  <2>1. \A k \in Lanes : approx_size'[k] = approx_size[k] /\ q'[k] = q[k] /\ Adding(k)' = Adding(k)
    BY <1>13 DEF Adding, WaitRead
  <2>2. \A g \in Flushers : /\ fpc'[g] = "sub" <=> fpc[g] = "sub"
                            /\ fpc[g] = "sub" => flane'[g] = flane[g] /\ got'[g] = got[g]
    BY <1>13 DEF WaitRead
  <2>3. \A k \in Lanes : Taken(k)' = Taken(k)
    BY <1>d, <2>2, TakenSame
  <2> QED
    BY <1>s, <2>1, <2>3 DEF Sizes
<1>14. ASSUME WaitReturn PROVE Sizes'
  <2>1. \A k \in Lanes : approx_size'[k] = approx_size[k] /\ q'[k] = q[k] /\ Adding(k)' = Adding(k)
    BY <1>14 DEF Adding, WaitReturn
  <2>2. \A g \in Flushers : /\ fpc'[g] = "sub" <=> fpc[g] = "sub"
                            /\ fpc[g] = "sub" => flane'[g] = flane[g] /\ got'[g] = got[g]
    BY <1>14 DEF WaitReturn
  <2>3. \A k \in Lanes : Taken(k)' = Taken(k)
    BY <1>d, <2>2, TakenSame
  <2> QED
    BY <1>s, <2>1, <2>3 DEF Sizes
<1>15. CASE UNCHANGED vars
  <2>1. \A k \in Lanes : approx_size'[k] = approx_size[k] /\ q'[k] = q[k] /\ Adding(k)' = Adding(k)
    BY <1>15 DEF Adding
  <2>2. \A g \in Flushers : /\ fpc'[g] = "sub" <=> fpc[g] = "sub"
                            /\ fpc[g] = "sub" => flane'[g] = flane[g] /\ got'[g] = got[g]
    BY <1>15
  <2>3. \A k \in Lanes : Taken(k)' = Taken(k)
    BY <1>d, <2>2, TakenSame
  <2> QED
    BY <1>s, <2>1, <2>3 DEF Sizes
<1> QED
  BY <1>1, <1>2, <1>3, <1>4, <1>5, <1>6, <1>7, <1>8,
     <1>9, <1>10, <1>11, <1>12, <1>13, <1>14, <1>15
     DEF Next, Push, Drain, Wait

\* Entries move from a queue to a batch and from a batch to the applied list in
\* the order they were pushed.
LEMMA OrderedNext == BufferInv /\ [Next]_vars => Ordered'
<1> SUFFICES ASSUME BufferInv, [Next]_vars PROVE Ordered'
  OBVIOUS
<1>o. Ordered /\ Drains /\ BufferTypeOK
  BY DEF BufferInv
<1> USE DEF vars, producerVars, flusherVars, waiterVars
<1>1. ASSUME NEW p \in Producers, NEW l \in Lanes, PushAdd(p, l) PROVE Ordered'
  <2>1. UNCHANGED <<q, applied, batch>>
    BY <1>1 DEF PushAdd, PGoto
  <2>2. \A g \in Flushers : Busy(g)' => Busy(g) /\ flane'[g] = flane[g]
    BY <1>1 DEF Busy, BufferInv, BufferTypeOK, PushAdd, PGoto
  <2> QED
    BY <1>o, <2>1, <2>2 DEF Ordered
<1>2. ASSUME NEW p \in Producers, PushEnqueue(p) PROVE Ordered'
  <2>0. PICK l \in Lanes : l = plane[p]
    BY <1>o DEF BufferTypeOK
  <2> DEFINE e == <<p, pushes[p]>>
  <2>1. ppc[p] = "added" /\ q' = [q EXCEPT ![l] = Append(q[l], e)] /\ UNCHANGED <<applied, batch, fpc, flane>>
    BY <1>2, <2>0 DEF PushEnqueue, PGoto
  <2>2. /\ e \in Entry
        /\ \A k \in Lanes : Ahead(Range(q[k]), {e}) /\ Ahead(Range(applied[k]), {e})
        /\ \A g \in Flushers : Ahead(Range(batch[g]), {e})
    BY <2>1, NewEntry
  <2> HIDE DEF e
  <2>3. q[l] \in Seq(Entry) /\ Increasing(q[l])
    BY <1>o, StoredKnown DEF Ordered
  <2>4. Range(Append(q[l], e)) = Range(q[l]) \cup {e} /\ Increasing(Append(q[l], e))
    BY <2>2, <2>3, Appended
  <2>5. /\ q'[l] = Append(q[l], e)
        /\ \A k \in Lanes : k # l => q'[k] = q[k]
    BY <1>o, <2>1 DEF BufferTypeOK
  <2>6. \A k \in Lanes : Increasing(q'[k]) /\ Range(q'[k]) \subseteq Range(q[k]) \cup {e}
    BY <1>o, <2>4, <2>5 DEF Ordered
  <2>7. \A g \in Flushers : Busy(g)' <=> Busy(g)
    BY <2>1 DEF Busy
  <2>8. \A k \in Lanes : Ahead(Range(applied[k]), Range(q'[k]))
    BY <1>o, <2>2, <2>6 DEF Ordered, Ahead
  <2>9. \A k \in Lanes, g \in Flushers : Busy(g) /\ flane[g] = k => Ahead(Range(batch[g]), Range(q'[k]))
    BY <1>o, <2>2, <2>6 DEF Ordered, Ahead
  <2> QED
    BY <1>o, <2>1, <2>6, <2>7, <2>8, <2>9 DEF Ordered
<1>3. ASSUME NEW p \in Producers, PushSetBit(p) PROVE Ordered'
  <2>1. UNCHANGED <<q, applied, batch>>
    BY <1>3 DEF PushSetBit, PGoto
  <2>2. \A g \in Flushers : Busy(g)' => Busy(g) /\ flane'[g] = flane[g]
    BY <1>3 DEF Busy, BufferInv, BufferTypeOK, PushSetBit, PGoto
  <2> QED
    BY <1>o, <2>1, <2>2 DEF Ordered
<1>4. ASSUME NEW f \in Flushers, DrainBegin(f) PROVE Ordered'
  <2>1. UNCHANGED <<q, applied, batch>>
    BY <1>4 DEF DrainBegin, FGoto
  <2>2. \A g \in Flushers : Busy(g)' => Busy(g) /\ flane'[g] = flane[g]
    BY <1>4 DEF Busy, BufferInv, BufferTypeOK, DrainBegin, FGoto
  <2> QED
    BY <1>o, <2>1, <2>2 DEF Ordered
<1>5. ASSUME NEW f \in Flushers, LoadMask(f) PROVE Ordered'
  <2>1. UNCHANGED <<q, applied, batch>>
    BY <1>5 DEF LoadMask, FGoto
  <2>2. \A g \in Flushers : Busy(g)' => Busy(g) /\ flane'[g] = flane[g]
    BY <1>5 DEF Busy, BufferInv, BufferTypeOK, LoadMask, FGoto
  <2> QED
    BY <1>o, <2>1, <2>2 DEF Ordered
<1>6. ASSUME NEW f \in Flushers, NextLane(f) PROVE Ordered'
  <2>1. UNCHANGED <<q, applied, batch>> /\ batch[f] = <<>>
    BY <1>6, <1>o DEF Drains, Busy, NextLane, FGoto
  <2>2. \A g \in Flushers : g # f /\ Busy(g)' => Busy(g) /\ flane'[g] = flane[g]
    BY <1>6, <1>o DEF Busy, BufferTypeOK, NextLane, FGoto
  <2>3. Increasing(batch[f]) /\ Range(batch[f]) = {}
    BY <2>1, RangeEntry
  <2> QED
    BY <1>o, <2>1, <2>2, <2>3 DEF Ordered, Ahead
<1>7. ASSUME NEW f \in Flushers, Dequeue(f) PROVE Ordered'
  <2>0. PICK l \in Lanes : l = flane[f]
    <3>1. Busy(f)
      BY <1>7 DEF Dequeue, Busy
    <3> QED
      BY <3>1, DrainKnown
  <2>1. PICK n \in 0 .. Len(q[l]) :
          /\ Busy(f) /\ n \in Nat
          /\ batch' = [batch EXCEPT ![f] = batch[f] \o SubSeq(q[l], 1, n)]
          /\ q' = [q EXCEPT ![l] = SubSeq(q[l], n + 1, Len(q[l]))]
          /\ got' = [got EXCEPT ![f] = n]
          /\ fpc' = [fpc EXCEPT ![f] =
                 IF n > 0 THEN "sub" ELSE IF batch[f] # <<>> THEN "apply" ELSE "lane"]
    BY <1>7, <2>0, DequeueSteps
  <2> DEFINE a == SubSeq(q[l], 1, n)
             b == SubSeq(q[l], n + 1, Len(q[l]))
  <2>2. /\ l \in Lanes /\ q[l] \in Seq(Entry) /\ Len(q[l]) \in Nat
        /\ applied[l] \in Seq(Entry) /\ batch[f] \in Seq(Entry)
        /\ l \in LanesMaskForFlusher(f)
    BY <2>0, <2>1, DrainKnown
  <2>3. /\ a \in Seq(Entry) /\ b \in Seq(Entry) /\ Len(b) = Len(q[l]) - n
        /\ Range(q[l]) = Range(a) \cup Range(b)
        /\ Increasing(q[l]) => Increasing(a) /\ Increasing(b) /\ Ahead(Range(a), Range(b))
    BY <2>2, Split
  <2> HIDE DEF a, b
  <2>4. /\ batch[f] \o a \in Seq(Entry) /\ Range(batch[f] \o a) = Range(batch[f]) \cup Range(a)
        /\ Increasing(batch[f]) /\ Increasing(a) /\ Ahead(Range(batch[f]), Range(a))
             => Increasing(batch[f] \o a)
    BY <2>2, <2>3, Concatenated
  <2>5. batch' = [batch EXCEPT ![f] = batch[f] \o a] /\ q' = [q EXCEPT ![l] = b]
    BY <2>1 DEF a, b
  <2>6. UNCHANGED <<approx_size, nonempty_mask, producerVars, flane, bits, round, flushing,
                    applied, waiterVars>>
    BY <1>7 DEF Dequeue
  <2>7. /\ Increasing(q[l]) /\ Increasing(applied[l]) /\ Ahead(Range(applied[l]), Range(q[l]))
        /\ Increasing(batch[f]) /\ Ahead(Range(applied[l]), Range(batch[f]))
        /\ Ahead(Range(batch[f]), Range(q[l]))
    BY <1>o, <2>0, <2>1 DEF Ordered
  <2>8. /\ Ahead(Range(batch[f]), Range(a)) /\ Ahead(Range(applied[l]), Range(b))
        /\ Ahead(Range(applied[l]), Range(batch[f]) \cup Range(a))
        /\ Ahead(Range(batch[f]) \cup Range(a), Range(b))
    BY <2>3, <2>7 DEF Ahead
  <2>9. q'[l] = b /\ batch'[f] = batch[f] \o a
    BY <1>o, <2>5 DEF BufferTypeOK
  <2>10. /\ Increasing(q'[l]) /\ Ahead(Range(applied[l]), Range(q'[l]))
         /\ Increasing(batch'[f]) /\ Ahead(Range(applied[l]), Range(batch'[f]))
         /\ Ahead(Range(batch'[f]), Range(q'[l]))
    BY <2>3, <2>4, <2>7, <2>8, <2>9
  <2>11. \A g \in Flushers : g # f /\ Busy(g)' => Busy(g) /\ flane[g] # l
    <3>1. \A g \in Flushers : g # f /\ Busy(g)' => Busy(g)
      BY <1>o, <2>1 DEF Busy, BufferTypeOK
    <3> QED
      BY <1>o, <2>0, <2>1, <3>1, OneDrainer
  <2>12. /\ \A k \in Lanes : k # l => q'[k] = q[k]
         /\ \A g \in Flushers : g # f => batch'[g] = batch[g]
    BY <1>o, <2>5 DEF BufferTypeOK
  <2> QED
    BY <1>o, <2>0, <2>6, <2>7, <2>10, <2>11, <2>12 DEF Ordered
<1>8. ASSUME NEW f \in Flushers, SubtractSize(f) PROVE Ordered'
  <2>1. UNCHANGED <<q, applied, batch>>
    BY <1>8 DEF SubtractSize, FGoto
  <2>2. \A g \in Flushers : Busy(g)' => Busy(g) /\ flane'[g] = flane[g]
    BY <1>8 DEF Busy, BufferInv, BufferTypeOK, SubtractSize, FGoto
  <2> QED
    BY <1>o, <2>1, <2>2 DEF Ordered
<1>9. ASSUME NEW f \in Flushers, ClearBit(f) PROVE Ordered'
  <2>1. UNCHANGED <<q, applied, batch>>
    BY <1>9 DEF ClearBit, FGoto
  <2>2. \A g \in Flushers : Busy(g)' => Busy(g) /\ flane'[g] = flane[g]
    BY <1>9 DEF Busy, BufferInv, BufferTypeOK, ClearBit, FGoto
  <2> QED
    BY <1>o, <2>1, <2>2 DEF Ordered
<1>10. ASSUME NEW f \in Flushers, ApplyLane(f) PROVE Ordered'
  <2>0. fpc[f] = "apply" /\ Busy(f)
    BY <1>10 DEF ApplyLane, Busy
  <2>1. PICK l \in Lanes : l = flane[f]
    BY <2>0, DrainKnown
  <2>2. /\ applied'[l] = applied[l] \o batch[f]
        /\ \A k \in Lanes : k # l => applied'[k] = applied[k]
        /\ \A g \in Flushers : g # f => batch'[g] = batch[g]
        /\ UNCHANGED <<q, flane>>
    BY <1>10, <1>o, <2>1 DEF BufferTypeOK, ApplyLane
  <2>3. /\ Increasing(q[l]) /\ Increasing(applied[l]) /\ Ahead(Range(applied[l]), Range(q[l]))
        /\ Increasing(batch[f]) /\ Ahead(Range(applied[l]), Range(batch[f]))
        /\ Ahead(Range(batch[f]), Range(q[l]))
    BY <1>o, <2>0, <2>1 DEF Ordered
  <2>4. /\ Increasing(applied[l] \o batch[f])
        /\ Range(applied[l] \o batch[f]) = Range(applied[l]) \cup Range(batch[f])
    BY <2>3, StoredKnown, Concatenated
  <2>5. Increasing(applied'[l]) /\ Ahead(Range(applied'[l]), Range(q[l]))
    BY <2>2, <2>3, <2>4 DEF Ahead
  <2>6. \A g \in Flushers : Busy(g)' => g # f /\ Busy(g) /\ flane[g] # l
    <3>1. \A g \in Flushers : Busy(g)' => g # f /\ Busy(g)
      BY <1>10, <1>o DEF Busy, BufferTypeOK, ApplyLane, FGoto
    <3> QED
      BY <1>o, <2>0, <2>1, <3>1, OneDrainer
  <2> QED
    BY <1>o, <2>2, <2>5, <2>6 DEF Ordered
<1>11. ASSUME NEW f \in Flushers, DrainEnd(f) PROVE Ordered'
  <2>1. UNCHANGED <<q, applied, batch>>
    BY <1>11 DEF DrainEnd, FGoto
  <2>2. \A g \in Flushers : Busy(g)' => Busy(g) /\ flane'[g] = flane[g]
    BY <1>11 DEF Busy, BufferInv, BufferTypeOK, DrainEnd, FGoto
  <2> QED
    BY <1>o, <2>1, <2>2 DEF Ordered
<1>12. ASSUME WaitBegin PROVE Ordered'
  <2>1. UNCHANGED <<q, applied, batch>>
    BY <1>12 DEF WaitBegin, Pushed
  <2>2. \A g \in Flushers : Busy(g)' => Busy(g) /\ flane'[g] = flane[g]
    BY <1>12 DEF Busy, BufferInv, BufferTypeOK, WaitBegin, Pushed
  <2> QED
    BY <1>o, <2>1, <2>2 DEF Ordered
<1>13. ASSUME WaitRead PROVE Ordered'
  <2>1. UNCHANGED <<q, applied, batch>>
    BY <1>13 DEF WaitRead
  <2>2. \A g \in Flushers : Busy(g)' => Busy(g) /\ flane'[g] = flane[g]
    BY <1>13 DEF Busy, BufferInv, BufferTypeOK, WaitRead
  <2> QED
    BY <1>o, <2>1, <2>2 DEF Ordered
<1>14. ASSUME WaitReturn PROVE Ordered'
  <2>1. UNCHANGED <<q, applied, batch>>
    BY <1>14 DEF WaitReturn
  <2>2. \A g \in Flushers : Busy(g)' => Busy(g) /\ flane'[g] = flane[g]
    BY <1>14 DEF Busy, BufferInv, BufferTypeOK, WaitReturn
  <2> QED
    BY <1>o, <2>1, <2>2 DEF Ordered
<1>15. CASE UNCHANGED vars
  <2>1. UNCHANGED <<q, applied, batch>>
    BY <1>15
  <2>2. \A g \in Flushers : Busy(g)' => Busy(g) /\ flane'[g] = flane[g]
    BY <1>15 DEF Busy, BufferInv, BufferTypeOK
  <2> QED
    BY <1>o, <2>1, <2>2 DEF Ordered
<1> QED
  BY <1>1, <1>2, <1>3, <1>4, <1>5, <1>6, <1>7, <1>8,
     <1>9, <1>10, <1>11, <1>12, <1>13, <1>14, <1>15
     DEF Next, Push, Drain, Wait

\* An entry that was enqueued stays so.
LEMMA EnqueuedGrows == BufferInv /\ [Next]_vars => \A e \in Entry : Enqueued(e) => Enqueued(e)'
<1> SUFFICES ASSUME BufferInv, [Next]_vars PROVE \A e \in Entry : Enqueued(e) => Enqueued(e)'
  OBVIOUS
<1> USE DEF vars, producerVars, flusherVars, waiterVars
<1>0. BufferTypeOK
  BY DEF BufferInv
<1> DEFINE Grows == \A r \in Producers :
                      \/ pushes'[r] = pushes[r] /\ (ppc'[r] = "added" => ppc[r] = "added")
                      \/ pushes'[r] = pushes[r] + 1
<1>1. Grows
  <2>1. ASSUME NEW p \in Producers, NEW l \in Lanes, PushAdd(p, l) PROVE Grows
    BY <1>0, <2>1 DEF BufferTypeOK, PushAdd, PGoto
  <2>2. ASSUME NEW p \in Producers, PushEnqueue(p) PROVE Grows
    BY <1>0, <2>2 DEF BufferTypeOK, PushEnqueue, PGoto
  <2>3. ASSUME NEW p \in Producers, PushSetBit(p) PROVE Grows
    BY <1>0, <2>3 DEF BufferTypeOK, PushSetBit, PGoto
  <2>4. CASE (\E f \in Flushers : Drain(f)) \/ Wait \/ UNCHANGED vars
    <3>1. UNCHANGED <<pushes, ppc>>
      BY <2>4 DEF Drain, DrainBegin, LoadMask, NextLane, Dequeue, SubtractSize, ClearBit,
                  ApplyLane, DrainEnd, Wait, WaitBegin, WaitRead, WaitReturn
    <3> QED
      BY <3>1
  <2> QED
    BY <2>1, <2>2, <2>3, <2>4 DEF Next, Push
<1> QED
  BY <1>1, StoredKnown DEF Enqueued

\* No entry is lost or made up on its way.
LEMMA AccountedNext == BufferInv /\ [Next]_vars => Accounted'
<1> SUFFICES ASSUME BufferInv, [Next]_vars PROVE Accounted'
  OBVIOUS
<1>o. Accounted /\ Drains /\ BufferTypeOK
  BY DEF BufferInv
<1>k. /\ \A e \in Entry : e[1] \in Producers /\ e[2] \in Nat \ {0} /\ e = <<e[1], e[2]>>
      /\ \A r \in Producers : pushes[r] \in Nat
  BY StoredKnown
<1> USE DEF vars, producerVars, flusherVars, waiterVars
<1>1. ASSUME NEW p \in Producers, NEW l \in Lanes, PushAdd(p, l) PROVE Accounted'
  <2>1. \A e \in Entry : Stored(e)' <=> Stored(e)
    BY <1>1 DEF Stored, PushAdd, PGoto
  <2>2. \A e \in Entry : Enqueued(e)' <=> Enqueued(e)
    <3> TAKE e \in Entry
    <3>1. /\ ppc[p] = "idle" /\ ppc'[p] = "added" /\ pushes'[p] = pushes[p] + 1
          /\ \A r \in Producers : r # p => ppc'[r] = ppc[r] /\ pushes'[r] = pushes[r]
      BY <1>1, <1>o DEF BufferTypeOK, PushAdd, PGoto
    <3>2. e[1] \in Producers /\ e[2] \in Nat /\ pushes[p] \in Nat
      BY <1>k
    <3>3. CASE e[1] = p
      <4>1. e[2] < pushes[p] + 1 <=> e[2] < pushes[p] \/ e[2] = pushes[p]
        BY <3>2
      <4> QED
        BY <3>1, <3>3, <4>1 DEF Enqueued
    <3>4. CASE e[1] # p
      BY <3>1, <3>2, <3>4 DEF Enqueued
    <3> QED
      BY <3>3, <3>4
  <2>3. \A r \in Producers : ppc'[r] # "idle" => pushes'[r] # 0
    BY <1>1, <1>o, <1>k DEF Accounted, BufferTypeOK, PushAdd, PGoto
  <2> QED
    BY <1>o, <2>1, <2>2, <2>3 DEF Accounted
<1>2. ASSUME NEW p \in Producers, PushEnqueue(p) PROVE Accounted'
  <2>0. PICK l \in Lanes : l = plane[p]
    BY <1>o DEF BufferTypeOK
  <2> DEFINE new == <<p, pushes[p]>>
  <2>1. /\ ppc[p] = "added" /\ q' = [q EXCEPT ![l] = Append(q[l], new)]
        /\ UNCHANGED <<applied, batch, pushes>> /\ ppc'[p] # "added"
        /\ \A r \in Producers : r # p => ppc'[r] = ppc[r]
    BY <1>2, <1>o, <2>0 DEF BufferTypeOK, PushEnqueue, PGoto
  <2>2. new \in Entry
    BY <2>1, NewEntry
  <2>3. \A e \in Entry : e = new <=> e[1] = p /\ e[2] = pushes[p]
    BY <1>k
  <2> HIDE DEF new
  <2>4. Range(Append(q[l], new)) = Range(q[l]) \cup {new}
    BY <2>2, StoredKnown, Appended
  <2>5. q'[l] = Append(q[l], new) /\ \A k \in Lanes : k # l => q'[k] = q[k]
    BY <1>o, <2>1 DEF BufferTypeOK
  <2>6. \A k \in Lanes : Range(q'[k]) = IF k = l THEN Range(q[k]) \cup {new} ELSE Range(q[k])
    BY <2>4, <2>5
  <2>7. \A e \in Entry : Stored(e)' <=> Stored(e) \/ e = new
    <3> TAKE e \in Entry
    <3>1. UNCHANGED <<applied, batch>>
      BY <2>1
    <3>2. Stored(e)' => Stored(e) \/ e = new
      BY <2>6, <3>1 DEF Stored
    <3>3. Stored(e) => Stored(e)'
      BY <2>6, <3>1 DEF Stored
    <3>4. e = new => Stored(e)'
      BY <2>6 DEF Stored
    <3> QED
      BY <3>2, <3>3, <3>4
  <2>8. \A e \in Entry : Enqueued(e)' <=> Enqueued(e) \/ e = new
    BY <1>k, <2>1, <2>3 DEF Enqueued
  <2>9. \A r \in Producers : ppc'[r] # "idle" => pushes'[r] # 0
    BY <1>o, <2>1 DEF Accounted
  <2> QED
    BY <1>o, <2>7, <2>8, <2>9 DEF Accounted
<1>3. ASSUME NEW p \in Producers, PushSetBit(p) PROVE Accounted'
  <2>1. \A e \in Entry : Stored(e)' <=> Stored(e)
    BY <1>3 DEF Stored, PushSetBit, PGoto
  <2>2. \A e \in Entry : Enqueued(e)' <=> Enqueued(e)
    BY <1>3, <1>o, <1>k DEF Enqueued, BufferTypeOK, PushSetBit, PGoto
  <2>3. \A r \in Producers : ppc'[r] # "idle" => pushes'[r] # 0
    BY <1>3, <1>o, <1>k DEF Accounted, BufferTypeOK, PushSetBit, PGoto
  <2> QED
    BY <1>o, <2>1, <2>2, <2>3 DEF Accounted
<1>4. ASSUME NEW f \in Flushers, DrainBegin(f) PROVE Accounted'
  <2>1. \A e \in Entry : Stored(e)' <=> Stored(e)
    BY <1>4 DEF Stored, DrainBegin, FGoto
  <2>2. \A e \in Entry : Enqueued(e)' <=> Enqueued(e)
    BY <1>4, <1>o, <1>k DEF Enqueued, BufferTypeOK, DrainBegin, FGoto
  <2>3. \A r \in Producers : ppc'[r] # "idle" => pushes'[r] # 0
    BY <1>4, <1>o, <1>k DEF Accounted, BufferTypeOK, DrainBegin, FGoto
  <2> QED
    BY <1>o, <2>1, <2>2, <2>3 DEF Accounted
<1>5. ASSUME NEW f \in Flushers, LoadMask(f) PROVE Accounted'
  <2>1. \A e \in Entry : Stored(e)' <=> Stored(e)
    BY <1>5 DEF Stored, LoadMask, FGoto
  <2>2. \A e \in Entry : Enqueued(e)' <=> Enqueued(e)
    BY <1>5, <1>o, <1>k DEF Enqueued, BufferTypeOK, LoadMask, FGoto
  <2>3. \A r \in Producers : ppc'[r] # "idle" => pushes'[r] # 0
    BY <1>5, <1>o, <1>k DEF Accounted, BufferTypeOK, LoadMask, FGoto
  <2> QED
    BY <1>o, <2>1, <2>2, <2>3 DEF Accounted
<1>6. ASSUME NEW f \in Flushers, NextLane(f) PROVE Accounted'
  <2>1. \A e \in Entry : Stored(e)' <=> Stored(e)
    BY <1>6 DEF Stored, NextLane, FGoto
  <2>2. \A e \in Entry : Enqueued(e)' <=> Enqueued(e)
    BY <1>6, <1>o, <1>k DEF Enqueued, BufferTypeOK, NextLane, FGoto
  <2>3. \A r \in Producers : ppc'[r] # "idle" => pushes'[r] # 0
    BY <1>6, <1>o, <1>k DEF Accounted, BufferTypeOK, NextLane, FGoto
  <2> QED
    BY <1>o, <2>1, <2>2, <2>3 DEF Accounted
<1>7. ASSUME NEW f \in Flushers, Dequeue(f) PROVE Accounted'
  <2>0. PICK l \in Lanes : l = flane[f]
    <3>1. Busy(f)
      BY <1>7 DEF Dequeue, Busy
    <3> QED
      BY <3>1, DrainKnown
  <2>1. PICK n \in 0 .. Len(q[l]) :
          /\ Busy(f) /\ n \in Nat
          /\ batch' = [batch EXCEPT ![f] = batch[f] \o SubSeq(q[l], 1, n)]
          /\ q' = [q EXCEPT ![l] = SubSeq(q[l], n + 1, Len(q[l]))]
          /\ got' = [got EXCEPT ![f] = n]
          /\ fpc' = [fpc EXCEPT ![f] =
                 IF n > 0 THEN "sub" ELSE IF batch[f] # <<>> THEN "apply" ELSE "lane"]
    BY <1>7, <2>0, DequeueSteps
  <2> DEFINE a == SubSeq(q[l], 1, n)
             b == SubSeq(q[l], n + 1, Len(q[l]))
  <2>2. /\ l \in Lanes /\ q[l] \in Seq(Entry) /\ Len(q[l]) \in Nat
        /\ applied[l] \in Seq(Entry) /\ batch[f] \in Seq(Entry)
        /\ l \in LanesMaskForFlusher(f)
    BY <2>0, <2>1, DrainKnown
  <2>3. /\ a \in Seq(Entry) /\ b \in Seq(Entry) /\ Len(b) = Len(q[l]) - n
        /\ Range(q[l]) = Range(a) \cup Range(b)
        /\ Increasing(q[l]) => Increasing(a) /\ Increasing(b) /\ Ahead(Range(a), Range(b))
    BY <2>2, Split
  <2> HIDE DEF a, b
  <2>4. /\ batch[f] \o a \in Seq(Entry) /\ Range(batch[f] \o a) = Range(batch[f]) \cup Range(a)
        /\ Increasing(batch[f]) /\ Increasing(a) /\ Ahead(Range(batch[f]), Range(a))
             => Increasing(batch[f] \o a)
    BY <2>2, <2>3, Concatenated
  <2>5. batch' = [batch EXCEPT ![f] = batch[f] \o a] /\ q' = [q EXCEPT ![l] = b]
    BY <2>1 DEF a, b
  <2>6. UNCHANGED <<approx_size, nonempty_mask, producerVars, flane, bits, round, flushing,
                    applied, waiterVars>>
    BY <1>7 DEF Dequeue
  <2>7. q'[l] = b /\ batch'[f] = batch[f] \o a
    BY <1>o, <2>5 DEF BufferTypeOK
  <2>8. /\ \A k \in Lanes : k # l => q'[k] = q[k]
        /\ \A g \in Flushers : g # f => batch'[g] = batch[g]
    BY <1>o, <2>5 DEF BufferTypeOK
  <2>9. ASSUME NEW e \in Entry PROVE Stored(e)' => Stored(e)
    BY <2>3, <2>4, <2>6, <2>7, <2>8 DEF Stored
  <2>10. ASSUME NEW e \in Entry PROVE Stored(e) => Stored(e)'
    BY <2>3, <2>4, <2>6, <2>7, <2>8 DEF Stored
  <2>11. \A e \in Entry : Enqueued(e)' <=> Enqueued(e)
    BY <2>6 DEF Enqueued
  <2>12. \A r \in Producers : ppc'[r] # "idle" => pushes'[r] # 0
    BY <1>o, <2>6 DEF Accounted
  <2> QED
    BY <1>o, <2>9, <2>10, <2>11, <2>12 DEF Accounted
<1>8. ASSUME NEW f \in Flushers, SubtractSize(f) PROVE Accounted'
  <2>1. \A e \in Entry : Stored(e)' <=> Stored(e)
    BY <1>8 DEF Stored, SubtractSize, FGoto
  <2>2. \A e \in Entry : Enqueued(e)' <=> Enqueued(e)
    BY <1>8, <1>o, <1>k DEF Enqueued, BufferTypeOK, SubtractSize, FGoto
  <2>3. \A r \in Producers : ppc'[r] # "idle" => pushes'[r] # 0
    BY <1>8, <1>o, <1>k DEF Accounted, BufferTypeOK, SubtractSize, FGoto
  <2> QED
    BY <1>o, <2>1, <2>2, <2>3 DEF Accounted
<1>9. ASSUME NEW f \in Flushers, ClearBit(f) PROVE Accounted'
  <2>1. \A e \in Entry : Stored(e)' <=> Stored(e)
    BY <1>9 DEF Stored, ClearBit, FGoto
  <2>2. \A e \in Entry : Enqueued(e)' <=> Enqueued(e)
    BY <1>9, <1>o, <1>k DEF Enqueued, BufferTypeOK, ClearBit, FGoto
  <2>3. \A r \in Producers : ppc'[r] # "idle" => pushes'[r] # 0
    BY <1>9, <1>o, <1>k DEF Accounted, BufferTypeOK, ClearBit, FGoto
  <2> QED
    BY <1>o, <2>1, <2>2, <2>3 DEF Accounted
<1>10. ASSUME NEW f \in Flushers, ApplyLane(f) PROVE Accounted'
  <2>0. fpc[f] = "apply" /\ Busy(f)
    BY <1>10 DEF ApplyLane, Busy
  <2>1. PICK l \in Lanes : l = flane[f]
    BY <2>0, DrainKnown
  <2>2. /\ applied'[l] = applied[l] \o batch[f]
        /\ \A k \in Lanes : k # l => applied'[k] = applied[k]
        /\ batch'[f] = <<>> /\ \A g \in Flushers : g # f => batch'[g] = batch[g]
        /\ UNCHANGED <<q, pushes, ppc>>
    BY <1>10, <1>o, <2>1 DEF BufferTypeOK, ApplyLane
  <2>3. Range(applied[l] \o batch[f]) = Range(applied[l]) \cup Range(batch[f]) /\ Range(<<>>) = {}
    BY StoredKnown, Concatenated, RangeEntry
  <2>4. ASSUME NEW e \in Entry PROVE Stored(e)' => Stored(e)
    BY <2>2, <2>3 DEF Stored
  <2>5. ASSUME NEW e \in Entry PROVE Stored(e) => Stored(e)'
    BY <2>2, <2>3 DEF Stored
  <2>6. \A e \in Entry : Enqueued(e)' <=> Enqueued(e)
    BY <2>2 DEF Enqueued
  <2>7. \A r \in Producers : ppc'[r] # "idle" => pushes'[r] # 0
    BY <1>o, <2>2 DEF Accounted
  <2> QED
    BY <1>o, <2>4, <2>5, <2>6, <2>7 DEF Accounted
<1>11. ASSUME NEW f \in Flushers, DrainEnd(f) PROVE Accounted'
  <2>1. \A e \in Entry : Stored(e)' <=> Stored(e)
    BY <1>11 DEF Stored, DrainEnd, FGoto
  <2>2. \A e \in Entry : Enqueued(e)' <=> Enqueued(e)
    BY <1>11, <1>o, <1>k DEF Enqueued, BufferTypeOK, DrainEnd, FGoto
  <2>3. \A r \in Producers : ppc'[r] # "idle" => pushes'[r] # 0
    BY <1>11, <1>o, <1>k DEF Accounted, BufferTypeOK, DrainEnd, FGoto
  <2> QED
    BY <1>o, <2>1, <2>2, <2>3 DEF Accounted
<1>12. ASSUME WaitBegin PROVE Accounted'
  <2>1. \A e \in Entry : Stored(e)' <=> Stored(e)
    BY <1>12 DEF Stored, WaitBegin, Pushed
  <2>2. \A e \in Entry : Enqueued(e)' <=> Enqueued(e)
    BY <1>12, <1>o, <1>k DEF Enqueued, BufferTypeOK, WaitBegin, Pushed
  <2>3. \A r \in Producers : ppc'[r] # "idle" => pushes'[r] # 0
    BY <1>12, <1>o, <1>k DEF Accounted, BufferTypeOK, WaitBegin, Pushed
  <2> QED
    BY <1>o, <2>1, <2>2, <2>3 DEF Accounted
<1>13. ASSUME WaitRead PROVE Accounted'
  <2>1. \A e \in Entry : Stored(e)' <=> Stored(e)
    BY <1>13 DEF Stored, WaitRead
  <2>2. \A e \in Entry : Enqueued(e)' <=> Enqueued(e)
    BY <1>13, <1>o, <1>k DEF Enqueued, BufferTypeOK, WaitRead
  <2>3. \A r \in Producers : ppc'[r] # "idle" => pushes'[r] # 0
    BY <1>13, <1>o, <1>k DEF Accounted, BufferTypeOK, WaitRead
  <2> QED
    BY <1>o, <2>1, <2>2, <2>3 DEF Accounted
<1>14. ASSUME WaitReturn PROVE Accounted'
  <2>1. \A e \in Entry : Stored(e)' <=> Stored(e)
    BY <1>14 DEF Stored, WaitReturn
  <2>2. \A e \in Entry : Enqueued(e)' <=> Enqueued(e)
    BY <1>14, <1>o, <1>k DEF Enqueued, BufferTypeOK, WaitReturn
  <2>3. \A r \in Producers : ppc'[r] # "idle" => pushes'[r] # 0
    BY <1>14, <1>o, <1>k DEF Accounted, BufferTypeOK, WaitReturn
  <2> QED
    BY <1>o, <2>1, <2>2, <2>3 DEF Accounted
<1>15. CASE UNCHANGED vars
  <2>1. \A e \in Entry : Stored(e)' <=> Stored(e)
    BY <1>15 DEF Stored
  <2>2. \A e \in Entry : Enqueued(e)' <=> Enqueued(e)
    BY <1>15, <1>o, <1>k DEF Enqueued, BufferTypeOK
  <2>3. \A r \in Producers : ppc'[r] # "idle" => pushes'[r] # 0
    BY <1>15, <1>o, <1>k DEF Accounted, BufferTypeOK
  <2> QED
    BY <1>o, <2>1, <2>2, <2>3 DEF Accounted
<1> QED
  BY <1>1, <1>2, <1>3, <1>4, <1>5, <1>6, <1>7, <1>8,
     <1>9, <1>10, <1>11, <1>12, <1>13, <1>14, <1>15
     DEF Next, Push, Drain, Wait

\* An entry that flush_and_wait waits for moves only towards the applied lists.
LEMMA ScannedNext == BufferInv /\ [Next]_vars => Scanned'
<1> SUFFICES ASSUME BufferInv, [Next]_vars PROVE Scanned'
  OBVIOUS
<1>o. Scanned /\ Sizes /\ Drains /\ BufferTypeOK
  BY DEF BufferInv
<1>e. \A e \in owed : e \in Entry /\ Enqueued(e) /\ Enqueued(e)'
  BY <1>o, EnqueuedGrows DEF Scanned, BufferTypeOK
<1>r. Range(<<>>) = {} /\ \A s \in Seq(Entry) : Len(s) = 0 => Range(s) = {}
  BY RangeEntry
<1>c. kNumLanes \in Nat \ {0} /\ num_flushers \in Nat \ {0} /\ wi \in Nat
  BY <1>o, LanesAssumption DEF BufferTypeOK
<1> USE DEF vars, producerVars, flusherVars, waiterVars
<1>1. ASSUME NEW p \in Producers, NEW l \in Lanes, PushAdd(p, l) PROVE Scanned'
  <2>1. UNCHANGED <<q, batch, wpc, wi, owed>>
    BY <1>1 DEF PushAdd, PGoto
  <2> QED
    BY <1>o, <1>e, <2>1 DEF Scanned
<1>2. ASSUME NEW p \in Producers, PushEnqueue(p) PROVE Scanned'
  <2>0. PICK l \in Lanes : l = plane[p]
    BY <1>o DEF BufferTypeOK
  <2> DEFINE new == <<p, pushes[p]>>
  <2>1. /\ ppc[p] = "added" /\ q' = [q EXCEPT ![l] = Append(q[l], new)]
        /\ UNCHANGED <<batch, wpc, wi, owed>>
    BY <1>2, <2>0 DEF PushEnqueue, PGoto
  <2>2. new \in Entry /\ new \notin owed
    BY <1>e, <2>1, NewEntry
  <2> HIDE DEF new
  <2>3. Range(Append(q[l], new)) = Range(q[l]) \cup {new}
    BY <2>2, StoredKnown, Appended
  <2>4. q'[l] = Append(q[l], new) /\ \A k \in Lanes : k # l => q'[k] = q[k]
    BY <1>o, <2>1 DEF BufferTypeOK
  <2>5. \A k \in Lanes : Range(q[k]) \cap owed = {} => Range(q'[k]) \cap owed = {}
    BY <2>2, <2>3, <2>4
  <2> QED
    BY <1>o, <1>e, <2>1, <2>5 DEF Scanned
<1>3. ASSUME NEW p \in Producers, PushSetBit(p) PROVE Scanned'
  <2>1. UNCHANGED <<q, batch, wpc, wi, owed>>
    BY <1>3 DEF PushSetBit, PGoto
  <2> QED
    BY <1>o, <1>e, <2>1 DEF Scanned
<1>4. ASSUME NEW f \in Flushers, DrainBegin(f) PROVE Scanned'
  <2>1. UNCHANGED <<q, batch, wpc, wi, owed>>
    BY <1>4 DEF DrainBegin, FGoto
  <2> QED
    BY <1>o, <1>e, <2>1 DEF Scanned
<1>5. ASSUME NEW f \in Flushers, LoadMask(f) PROVE Scanned'
  <2>1. UNCHANGED <<q, batch, wpc, wi, owed>>
    BY <1>5 DEF LoadMask, FGoto
  <2> QED
    BY <1>o, <1>e, <2>1 DEF Scanned
<1>6. ASSUME NEW f \in Flushers, NextLane(f) PROVE Scanned'
  <2>1. UNCHANGED <<q, batch, wpc, wi, owed>>
    BY <1>6 DEF NextLane, FGoto
  <2> QED
    BY <1>o, <1>e, <2>1 DEF Scanned
<1>7. ASSUME NEW f \in Flushers, Dequeue(f) PROVE Scanned'
  <2>0. PICK l \in Lanes : l = flane[f]
    <3>1. Busy(f)
      BY <1>7 DEF Dequeue, Busy
    <3> QED
      BY <3>1, DrainKnown
  <2>1. PICK n \in 0 .. Len(q[l]) :
          /\ Busy(f) /\ n \in Nat
          /\ batch' = [batch EXCEPT ![f] = batch[f] \o SubSeq(q[l], 1, n)]
          /\ q' = [q EXCEPT ![l] = SubSeq(q[l], n + 1, Len(q[l]))]
          /\ got' = [got EXCEPT ![f] = n]
          /\ fpc' = [fpc EXCEPT ![f] =
                 IF n > 0 THEN "sub" ELSE IF batch[f] # <<>> THEN "apply" ELSE "lane"]
    BY <1>7, <2>0, DequeueSteps
  <2> DEFINE a == SubSeq(q[l], 1, n)
             b == SubSeq(q[l], n + 1, Len(q[l]))
  <2>2. /\ l \in Lanes /\ q[l] \in Seq(Entry) /\ Len(q[l]) \in Nat
        /\ applied[l] \in Seq(Entry) /\ batch[f] \in Seq(Entry)
        /\ l \in LanesMaskForFlusher(f)
    BY <2>0, <2>1, DrainKnown
  <2>3. /\ a \in Seq(Entry) /\ b \in Seq(Entry) /\ Len(b) = Len(q[l]) - n
        /\ Range(q[l]) = Range(a) \cup Range(b)
        /\ Increasing(q[l]) => Increasing(a) /\ Increasing(b) /\ Ahead(Range(a), Range(b))
    BY <2>2, Split
  <2> HIDE DEF a, b
  <2>4. /\ batch[f] \o a \in Seq(Entry) /\ Range(batch[f] \o a) = Range(batch[f]) \cup Range(a)
        /\ Increasing(batch[f]) /\ Increasing(a) /\ Ahead(Range(batch[f]), Range(a))
             => Increasing(batch[f] \o a)
    BY <2>2, <2>3, Concatenated
  <2>5. batch' = [batch EXCEPT ![f] = batch[f] \o a] /\ q' = [q EXCEPT ![l] = b]
    BY <2>1 DEF a, b
  <2>6. UNCHANGED <<approx_size, nonempty_mask, producerVars, flane, bits, round, flushing,
                    applied, waiterVars>>
    BY <1>7 DEF Dequeue
  <2>7. q'[l] = b /\ batch'[f] = batch[f] \o a
    BY <1>o, <2>5 DEF BufferTypeOK
  <2>8. /\ \A k \in Lanes : k # l => q'[k] = q[k]
        /\ \A g \in Flushers : g # f => batch'[g] = batch[g]
    BY <1>o, <2>5 DEF BufferTypeOK
  <2>9. \A k \in Lanes : Range(q[k]) \cap owed = {} => Range(q'[k]) \cap owed = {}
    BY <2>3, <2>7, <2>8
  <2>10. ASSUME Range(q[l]) \cap owed = {}
         PROVE  \A g \in Flushers : Range(batch[g]) \cap owed = {} => Range(batch'[g]) \cap owed = {}
    BY <2>3, <2>4, <2>7, <2>8, <2>10
  <2>11. UNCHANGED <<wpc, wi, owed>>
    BY <2>6
  <2> QED
    BY <1>o, <1>e, <2>9, <2>10, <2>11 DEF Scanned
<1>8. ASSUME NEW f \in Flushers, SubtractSize(f) PROVE Scanned'
  <2>1. UNCHANGED <<q, batch, wpc, wi, owed>>
    BY <1>8 DEF SubtractSize, FGoto
  <2> QED
    BY <1>o, <1>e, <2>1 DEF Scanned
<1>9. ASSUME NEW f \in Flushers, ClearBit(f) PROVE Scanned'
  <2>1. UNCHANGED <<q, batch, wpc, wi, owed>>
    BY <1>9 DEF ClearBit, FGoto
  <2> QED
    BY <1>o, <1>e, <2>1 DEF Scanned
<1>10. ASSUME NEW f \in Flushers, ApplyLane(f) PROVE Scanned'
  <2>1. UNCHANGED <<q, wpc, wi, owed>> /\ batch'[f] = <<>>
        /\ \A g \in Flushers : g # f => batch'[g] = batch[g]
    BY <1>10, <1>o DEF BufferTypeOK, ApplyLane
  <2>2. \A g \in Flushers : Range(batch[g]) \cap owed = {} => Range(batch'[g]) \cap owed = {}
    BY <1>r, <2>1
  <2> QED
    BY <1>o, <1>e, <2>1, <2>2 DEF Scanned
<1>11. ASSUME NEW f \in Flushers, DrainEnd(f) PROVE Scanned'
  <2>1. UNCHANGED <<q, batch, wpc, wi, owed>>
    BY <1>11 DEF DrainEnd, FGoto
  <2> QED
    BY <1>o, <1>e, <2>1 DEF Scanned
<1>12. ASSUME WaitBegin PROVE Scanned'
  <2>1. wpc' = "size" /\ wi' = 0 /\ owed' = Pushed /\ UNCHANGED <<pushes, ppc>>
    BY <1>12 DEF WaitBegin
  <2>2. \A e \in owed' : Enqueued(e)'
    BY <2>1 DEF Pushed, Enqueued
  <2>3. \A l \in Lanes : ~(l < 0)
    BY DEF Lanes
  <2> QED
    BY <1>c, <2>1, <2>2, <2>3 DEF Scanned
<1>13. ASSUME WaitRead PROVE Scanned'
  <2>1. UNCHANGED <<q, batch, approx_size, flushing, owed>>
    BY <1>13 DEF WaitRead
  <2>2. CASE wpc = "size"
    <3>1. wi \in Lanes /\ \A l \in Lanes : l < wi => Range(q[l]) \cap owed = {}
      BY <1>o, <1>c, <2>2 DEF Scanned, Lanes
    <3>2. ASSUME approx_size[wi] = 0 PROVE Range(q[wi]) = {}
      <4>1. Len(q[wi]) \in Nat /\ Cardinality(Adding(wi)) \in Nat /\ q[wi] \in Seq(Entry)
        BY <1>o, <3>1, FS_CardinalityType DEF Sizes, BufferTypeOK
      <4>2. Taken(wi) \in Nat
        BY <1>o DEF Taken, Taking, BufferTypeOK
      <4>3. Len(q[wi]) = 0
        BY <1>o, <3>1, <3>2, <4>1, <4>2 DEF Sizes
      <4> QED
        BY <1>r, <4>1, <4>3
    <3>3. CASE approx_size[wi] # 0
      <4>1. wpc' = "size" /\ wi' = 0
        BY <1>13, <2>2, <3>3 DEF WaitRead
      <4>2. \A l \in Lanes : ~(l < 0)
        BY DEF Lanes
      <4> QED
        BY <1>c, <1>e, <2>1, <4>1, <4>2 DEF Scanned
    <3>4. CASE approx_size[wi] = 0 /\ wi + 1 = kNumLanes
      <4>1. wpc' = "flag" /\ wi' = 0
        BY <1>13, <2>2, <3>4 DEF WaitRead
      <4>2. \A l \in Lanes : l < wi \/ l = wi
        BY <1>c, <3>4 DEF Lanes
      <4>3. \A l \in Lanes : Range(q[l]) \cap owed = {}
        BY <3>1, <3>2, <3>4, <4>2
      <4>4. \A f \in Flushers : ~(f < 0)
        BY DEF Flushers
      <4> QED
        BY <1>c, <1>e, <2>1, <4>1, <4>3, <4>4 DEF Scanned
    <3>5. CASE approx_size[wi] = 0 /\ wi + 1 # kNumLanes
      <4>1. wpc' = "size" /\ wi' = wi + 1
        BY <1>13, <2>2, <3>5 DEF WaitRead
      <4>2. wi + 1 < kNumLanes /\ \A l \in Lanes : l < wi + 1 => l < wi \/ l = wi
        BY <1>c, <3>1, <3>5 DEF Lanes
      <4> QED
        BY <1>e, <2>1, <3>1, <3>2, <3>5, <4>1, <4>2 DEF Scanned
    <3> QED
      BY <3>3, <3>4, <3>5
  <2>3. CASE wpc = "flag"
    <3>1. /\ wi \in Flushers /\ \A f \in Flushers : f < wi => Range(batch[f]) \cap owed = {}
          /\ \A l \in Lanes : Range(q[l]) \cap owed = {}
      BY <1>o, <1>c, <2>3 DEF Scanned, Flushers
    <3>2. ASSUME ~flushing[wi] PROVE Range(batch[wi]) = {}
      BY <1>o, <1>r, <3>1, <3>2 DEF Drains, Busy
    <3>3. CASE flushing[wi]
      <4>1. wpc' = "size" /\ wi' = 0
        BY <1>13, <2>3, <3>3 DEF WaitRead
      <4>2. \A l \in Lanes : ~(l < 0)
        BY DEF Lanes
      <4> QED
        BY <1>c, <1>e, <2>1, <4>1, <4>2 DEF Scanned
    <3>4. CASE ~flushing[wi] /\ wi + 1 = num_flushers
      <4>1. wpc' = "returned" /\ wi' = 0
        BY <1>13, <2>3, <3>4 DEF WaitRead
      <4>2. \A f \in Flushers : f < wi \/ f = wi
        BY <1>c, <3>4 DEF Flushers
      <4>3. \A f \in Flushers : Range(batch[f]) \cap owed = {}
        BY <3>1, <3>2, <3>4, <4>2
      <4> QED
        BY <1>e, <2>1, <3>1, <4>1, <4>3 DEF Scanned
    <3>5. CASE ~flushing[wi] /\ wi + 1 # num_flushers
      <4>1. wpc' = "flag" /\ wi' = wi + 1
        BY <1>13, <2>3, <3>5 DEF WaitRead
      <4>2. wi + 1 < num_flushers /\ \A f \in Flushers : f < wi + 1 => f < wi \/ f = wi
        BY <1>c, <3>1, <3>5 DEF Flushers
      <4> QED
        BY <1>e, <2>1, <3>1, <3>2, <3>5, <4>1, <4>2 DEF Scanned
    <3> QED
      BY <3>3, <3>4, <3>5
  <2> QED
    BY <1>13, <2>2, <2>3 DEF WaitRead
<1>14. ASSUME WaitReturn PROVE Scanned'
  BY <1>14 DEF Scanned, WaitReturn
<1>15. CASE UNCHANGED vars
  <2>1. UNCHANGED <<q, batch, wpc, wi, owed>>
    BY <1>15
  <2> QED
    BY <1>o, <1>e, <2>1 DEF Scanned
<1> QED
  BY <1>1, <1>2, <1>3, <1>4, <1>5, <1>6, <1>7, <1>8,
     <1>9, <1>10, <1>11, <1>12, <1>13, <1>14, <1>15
     DEF Next, Push, Drain, Wait

-----------------------------------------------------------------------------
(* The theorems.                                                           *)

\* A new commit buffer satisfies the invariant.
LEMMA BufferInit == Init => BufferInv
<1> SUFFICES ASSUME Init PROVE BufferInv
  OBVIOUS
<1> USE LanesAssumption, BufferBounds DEF Init
<1>0. 0 \in Lanes
  BY DEF Lanes
<1>1. BufferTypeOK
  <2>1. q \in [Lanes -> Seq(Entry)] /\ applied \in [Lanes -> Seq(Entry)]
        /\ batch \in [Flushers -> Seq(Entry)]
    OBVIOUS
  <2> QED
    BY <1>0, <2>1 DEF BufferTypeOK
<1>2. Drains
  BY DEF Drains, Busy
<1>3. Sizes
  <2> SUFFICES ASSUME NEW l \in Lanes
               PROVE  /\ IsFiniteSet(Adding(l))
                      /\ approx_size[l] = Len(q[l]) + Cardinality(Adding(l)) + Taken(l)
    BY DEF Sizes
  <2>1. Adding(l) = {} /\ Taken(l) = 0
    BY DEF Adding, Taken, Taking
  <2>2. IsFiniteSet(Adding(l)) /\ Cardinality(Adding(l)) = 0
    BY <2>1, FS_EmptySet
  <2>3. Len(q[l]) = 0
    OBVIOUS
  <2> QED
    BY <2>1, <2>2, <2>3
<1>4. Ordered
  BY RangeEntry DEF Ordered, Ahead
<1>5. Accounted
  <2>1. \A e \in Entry : ~Stored(e)
    BY RangeEntry DEF Stored
  <2>2. \A e \in Entry : e[1] \in Producers /\ e[2] \in Nat \ {0}
    BY DEF Entry
  <2>3. \A e \in Entry : ~Enqueued(e)
    BY <2>2 DEF Enqueued
  <2> QED
    BY <2>1, <2>3 DEF Accounted
<1>6. Scanned
  BY DEF Scanned
<1> QED
  BY <1>1, <1>2, <1>3, <1>4, <1>5, <1>6 DEF BufferInv

\* The invariant holds in every state: pushes, drains by any number of flushers
\* and flush_and_wait keep every part of it.
THEOREM BufferInvariance == Spec => []BufferInv
<1>1. Init => BufferInv
  BY BufferInit
<1>2. BufferInv /\ [Next]_vars => BufferInv'
  BY TypeNext, DrainsNext, SizesNext, OrderedNext, AccountedNext, ScannedNext DEF BufferInv
<1> QED
  BY <1>1, <1>2, PTL DEF Spec

\* The counter of a lane exceeds its queue by exactly the pushes that counted and
\* did not enqueue yet and the entries dequeued and not subtracted yet: the
\* unsigned fetch_sub of try_drain_lane never wraps, and a zero size means an
\* empty queue (commit_buffer.hpp, push and try_drain_lane).
THEOREM CounterExact == Spec => []SizeExact
<1>1. BufferInv => SizeExact
  <2> SUFFICES ASSUME BufferInv PROVE SizeExact
    OBVIOUS
  <2>1. BufferTypeOK
    BY DEF BufferInv
  <2>2. ASSUME NEW l \in Lanes
        PROVE  approx_size[l] = Len(q[l])
                 + Cardinality({p \in Producers : ppc[p] = "added" /\ plane[p] = l})
                 + (IF \E f \in Flushers : fpc[f] = "sub" /\ flane[f] = l
                    THEN got[CHOOSE f \in Flushers : fpc[f] = "sub" /\ flane[f] = l] ELSE 0)
    <3>1. approx_size[l] = Len(q[l]) + Cardinality(Adding(l)) + Taken(l)
      BY DEF BufferInv, Sizes
    <3>2. Taking(l) # {} <=> \E f \in Flushers : fpc[f] = "sub" /\ flane[f] = l
      BY DEF Taking
    <3> QED
      BY <3>1, <3>2 DEF Adding, Taken
  <2> QED
    BY <2>1, <2>2 DEF SizeExact
<1> QED
  BY <1>1, BufferInvariance, PTL

\* The entries of one producer in a lane are applied once each and in the order
\* they were pushed, whichever thread drains and however the drains interleave
\* with the pushes (drain_to_empty_and_apply_locked).
THEOREM AppliedInOrder == Spec => []LaneOrder
<1>1. BufferInv => LaneOrder
  BY DEF BufferInv, Ordered, Increasing, LaneOrder
<1> QED
  BY <1>1, BufferInvariance, PTL

\* When flush_and_wait returns, every entry whose push had returned when it was
\* called has been applied, although it reads the sizes and then the flags one at
\* a time while pushes and drains go on.
THEOREM FlushComplete == Spec => []FlushWaits
<1>1. BufferInv => FlushWaits
  <2> SUFFICES ASSUME BufferInv, wpc = "returned", NEW e \in owed
               PROVE  e \in UNION {Range(applied[l]) : l \in Lanes}
    BY DEF FlushWaits
  <2>1. e \in Entry /\ Enqueued(e)
    BY DEF BufferInv, BufferTypeOK, Scanned
  <2>2. Stored(e)
    BY <2>1 DEF BufferInv, Accounted
  <2>3. /\ \A l \in Lanes : e \notin Range(q[l])
        /\ \A f \in Flushers : e \notin Range(batch[f])
    BY DEF BufferInv, Scanned
  <2>4. PICK l \in Lanes : e \in Range(applied[l])
    BY <2>2, <2>3 DEF Stored
  <2> QED
    BY <2>4
<1> QED
  BY <1>1, BufferInvariance, PTL
=============================================================================
