----------------------------- MODULE CCEHProofs -----------------------------
(***************************************************************************)
(* The extendible hash table keeps its segment locks, its directory and its *)
(* entries consistent, for every number of threads, keys and slots and      *)
(* every depth.                                                             *)
(***************************************************************************)
EXTENDS CCEH, FiniteSetTheorems, NaturalsInduction, WellFoundedInduction, TLAPS

\* The top d bits of a hash of MaxDepth bits, a leaf of the directory.
Top(z, d) == z \div Pow2[MaxDepth - d]

Working   == {"scan", "invalidate", "wipe", "claim", "fill", "update", "erase", "leave"}
Splitters == {"copy", "lockdir", "dir", "unlock"}
Places    == {"idle", "target", "check", "depth", "pattern", "enter", "split"} \cup Working \cup Splitters

SlotRec == [key: Keys \cup {INVALID, SENTINEL}, val: 0 .. MaxOps + 1]
SegRec  == [local_depth: 0 .. MaxDepth, pattern: Nat, slots: [Slots -> SlotRec]]
LockRec == [n: Nat, split: BOOLEAN, excl: BOOLEAN]
ThreadRec == [at: Places, op: {"none", "Insert", "Get"}, key: Keys \cup {INVALID},
              val: 0 .. MaxOps + 1, seg: SegIds, i: 0 .. ProbeLength - 1,
              shift: 0 .. MaxDepth, seen: Keys \cup {INVALID, SENTINEL}, ret: {0, 1}, new: SegIds]

Typed ==
    /\ depth \in InitDepth .. MaxDepth
    /\ used \in 1 .. Pow2[MaxDepth]
    /\ dir \in [0 .. Pow2[depth] - 1 -> 0 .. used - 1]
    /\ dir_lock \in BOOLEAN
    /\ segs \in [SegIds -> SegRec]
    /\ sema \in [SegIds -> LockRec]
    /\ thread \in [Threads -> ThreadRec]
    /\ ops \in 0 .. MaxOps
    /\ last \in [Keys -> 0 .. MaxOps + 1]
    /\ {shared, stray, late, wrapped, doubled} \subseteq BOOLEAN
    /\ \A g \in 0 .. used - 1 : /\ segs[g].local_depth \in InitDepth .. MaxDepth
                                /\ segs[g].pattern \in 0 .. Pow2[segs[g].local_depth] - 1
    /\ \A t \in Threads :
          /\ thread[t].seg < used
          /\ thread[t].at # "idle" => thread[t].key \in Keys
          /\ thread[t].at \in {"invalidate", "wipe", "claim", "fill", "update", "erase"} => Writes(t)

\* The lock of a segment counts who is inside; one thread at a time has it.
Counted == \A g \in SegIds : sema[g].n = Cardinality(Inside(g))
Alone ==
    /\ \A t \in Threads : thread[t].at \in Splitters => sema[thread[t].seg].excl
    /\ \A g \in SegIds : sema[g].excl =>
          /\ Inside(g) = {}
          /\ \E t \in Threads : thread[t].at \in Splitters /\ thread[t].seg = g
    /\ \A t, u \in Threads :
          thread[t].at \in Splitters /\ thread[u].at \in Splitters /\ thread[t].seg = thread[u].seg
              => t = u

\* A segment answers for the hashes below its pattern, and no two for the same.
Has(g, z) == Top(z, segs[g].local_depth) = segs[g].pattern
Apart == \A g, h \in 0 .. used - 1 : \A z \in SegIds : Has(g, z) /\ Has(h, z) => g = h

\* Between the copy and the directory a split is known to its thread only.
Pending(t) == thread[t].at \in {"lockdir", "dir"}
Half(t) ==
    LET g  == thread[t].seg
        n  == thread[t].new
        ld == segs[g].local_depth
        p  == Top(Bits[thread[t].key], ld - 1)
    IN  /\ ld >= 1 /\ n \in 1 .. used - 1
        /\ segs[n].local_depth = ld
        /\ segs[g].pattern = 2 * p /\ segs[n].pattern = 2 * p + 1
        /\ \A x \in DOMAIN dir : dir[x] # n
        /\ \A u \in Threads : thread[u].seg # n /\ (Pending(u) /\ thread[u].new = n => u = t)
Halves == \A t \in Threads : Pending(t) => Half(t)

\* Where the directory leads a hash: to its segment, or to the other half of a pending split.
Astray(g, z) == \E t \in Threads : Pending(t) /\ thread[t].seg = g /\ Has(thread[t].new, z)
Led == \A z \in SegIds : Has(dir[Top(z, depth)], z) \/ Astray(dir[Top(z, depth)], z)

\* A split begins with a key of its segment.
Chosen == \A t \in Threads : At(t, "copy") =>
              Seg(t).local_depth < MaxDepth /\ (stray \/ Has(thread[t].seg, Bits[thread[t].key]))

TreeInv == Typed /\ Counted /\ Alone /\ Apart /\ Halves /\ Led /\ Chosen

-----------------------------------------------------------------------------
(* Numbers.                                                                *)

\* A set of natural numbers has a least element.
LEMMA LeastExists ==
    ASSUME NEW S \in SUBSET Nat, S # {}
    PROVE  \E x \in S : \A y \in S : x <= y
<1> DEFINE R == {ss \in Nat \X Nat : ss[1] < ss[2]}
<1>1. IsWellFoundedOn(R, Nat)
  BY NatLessThanWellFounded DEF OpToRel
<1> HIDE DEF R
<1>2. PICK x \in S : \A y \in S : ~(<<y, x>> \in R)
  BY <1>1, WFMin
<1>3. \A y \in S : ~(y < x)
  BY <1>2 DEF R
<1> QED
  BY <1>3

\* Induction along an interval, for a set instead of a predicate.
LEMMA Climb ==
    ASSUME NEW a \in Nat, NEW n \in Nat, NEW S,
           a \in S, \A i \in a .. n - 1 : i \in S => i + 1 \in S
    PROVE  \A i \in a .. n : i \in S
<1> SUFFICES ASSUME \E i \in a .. n : i \notin S PROVE FALSE
  OBVIOUS
<1> DEFINE T == {i \in a .. n : i \notin S}
<1>1. T \in SUBSET Nat /\ T # {}
  OBVIOUS
<1>2. PICK x \in T : \A y \in T : x <= y
  BY <1>1, LeastExists
<1>3. x # a /\ x - 1 \in a .. n - 1 /\ x - 1 \notin T
  BY <1>2
<1>4. x - 1 \in S
  BY <1>3
<1>5. (x - 1) + 1 \in S
  BY <1>3, <1>4
<1> QED
  BY <1>2, <1>5

\* A quotient is found again by its remainder.
LEMMA Quotient ==
    ASSUME NEW a \in Nat, NEW b \in Nat \ {0}, NEW q \in Nat, NEW r \in 0 .. b - 1, a = b * q + r
    PROVE  a \div b = q
OBVIOUS

LEMMA Divides ==
    ASSUME NEW a \in Nat, NEW b \in Nat \ {0}
    PROVE  /\ a \div b \in Nat /\ a % b \in 0 .. b - 1
           /\ a = b * (a \div b) + (a % b)
OBVIOUS

\* Halving a quotient doubles the divisor.
LEMMA Halved ==
    ASSUME NEW a \in Nat, NEW b \in Nat \ {0}
    PROVE  a \div (2 * b) = (a \div b) \div 2
<1>1. PICK q, r : q = a \div b /\ r = a % b
  OBVIOUS
<1>2. q \in Nat /\ r \in 0 .. b - 1 /\ a = b * q + r
  BY <1>1, Divides
<1>3. PICK h \in Nat, e \in {0, 1} : q = 2 * h + e
  <2>1. q = 2 * (q \div 2) + (q % 2) /\ q \div 2 \in Nat /\ q % 2 \in {0, 1}
    BY <1>2
  <2> QED
    BY <2>1
<1>4. PICK c : c = 2 * b
  OBVIOUS
<1>5. b * q = c * h + b * e
  BY <1>2, <1>3, <1>4
<1>6. PICK s : s = b * e + r
  OBVIOUS
<1>7. c \in Nat \ {0} /\ s \in 0 .. c - 1 /\ a = c * h + s
  <2>1. s \in 0 .. c - 1
    BY <1>2, <1>3, <1>4, <1>6
  <2>2. b * e \in Nat /\ c * h \in Nat
    BY <1>3, <1>4
  <2> QED
    BY <1>2, <1>4, <1>5, <1>6, <2>1, <2>2
<1>8. a \div c = h
  BY <1>3, <1>7, Quotient
<1>9. q \div 2 = h
  BY <1>3
<1> QED
  BY <1>1, <1>4, <1>8, <1>9

-----------------------------------------------------------------------------
(* Powers of two.                                                          *)

IsPow(w, n) == w = [i \in 0 .. n |-> IF i = 0 THEN 1 ELSE 2 * w[i - 1]]

LEMMA PowExists ==
    ASSUME NEW n \in Nat
    PROVE  \E w : IsPow(w, n)
<1> DEFINE S == {i \in Nat : \E w : IsPow(w, i)}
<1>1. 0 \in S
  <2> DEFINE w == [j \in 0 .. 0 |-> 1]
  <2>1. IsPow(w, 0)
    BY DEF IsPow
  <2> QED
    BY <2>1
<1>2. ASSUME NEW i \in 0 .. n - 1, i \in S PROVE i + 1 \in S
  <2>1. PICK w : IsPow(w, i)
    BY <1>2
  <2> DEFINE v == [j \in 0 .. i + 1 |-> IF j = i + 1 THEN 2 * w[i] ELSE w[j]]
  <2>2. \A j \in 0 .. i : w[j] = IF j = 0 THEN 1 ELSE 2 * w[j - 1]
    BY <2>1 DEF IsPow
  <2>3. \A j \in 0 .. i + 1 : v[j] = IF j = 0 THEN 1 ELSE 2 * v[j - 1]
    <3> SUFFICES ASSUME NEW j \in 0 .. i + 1
                 PROVE  v[j] = IF j = 0 THEN 1 ELSE 2 * v[j - 1]
      OBVIOUS
    <3>1. CASE j = i + 1
      <4>1. j # 0 /\ j - 1 = i /\ v[i] = w[i] /\ v[j] = 2 * w[i]
        BY <3>1
      <4> QED
        BY <4>1
    <3>2. CASE j \in 1 .. i
      <4>1. j # 0 /\ j # i + 1 /\ j - 1 # i + 1 /\ j - 1 \in 0 .. i + 1 /\ v[j] = w[j] /\ v[j-1] = w[j-1]
        BY <3>2
      <4> QED
        BY <4>1, <3>2, <2>2
    <3>3. CASE j = 0
      <4>1. v[0] = w[0]
        OBVIOUS
      <4> QED
        BY <4>1, <3>3, <2>2
    <3> QED
      BY <3>1, <3>2, <3>3
  <2>4. v = [j \in 0 .. i + 1 |-> v[j]]
    OBVIOUS
  <2> HIDE DEF v
  <2>5. IsPow(v, i + 1)
    BY <2>3, <2>4 DEF IsPow
  <2> QED
    BY <2>5
<1> HIDE DEF S
<1>3. n \in S
  BY <1>1, <1>2, Climb
<1> QED
  BY <1>3 DEF S

\* Pow2 is what its recursion says.
LEMMA PowStep ==
    /\ Pow2[0] = 1
    /\ \A n \in 0 .. MaxDepth - 1 : Pow2[n + 1] = 2 * Pow2[n]
<1> DEFINE w == CHOOSE f : f = [i \in 0 .. MaxDepth |-> IF i = 0 THEN 1 ELSE 2 * f[i - 1]]
<1>0. MaxDepth \in Nat
  BY DepthAssumption
<1>1. Pow2 = w
  BY DEF Pow2
<1>2. w = [i \in 0 .. MaxDepth |-> IF i = 0 THEN 1 ELSE 2 * w[i - 1]]
  BY <1>0, PowExists DEF IsPow
<1> HIDE DEF w
<1>3. \A i \in 0 .. MaxDepth : w[i] = IF i = 0 THEN 1 ELSE 2 * w[i - 1]
  BY <1>2
<1>4. w[0] = 1
  BY <1>0, <1>3
<1>5. ASSUME NEW n \in 0 .. MaxDepth - 1 PROVE w[n + 1] = 2 * w[n]
  <2>1. n + 1 \in 0 .. MaxDepth /\ n + 1 # 0 /\ (n + 1) - 1 = n
    BY <1>0
  <2> QED
    BY <1>3, <2>1
<1> QED
  BY <1>1, <1>4, <1>5

LEMMA PowNat == \A n \in 0 .. MaxDepth : Pow2[n] \in Nat \ {0}
<1> DEFINE S == {n \in Nat : Pow2[n] \in Nat \ {0}}
<1>0. MaxDepth \in Nat
  BY DepthAssumption
<1>1. 0 \in S
  BY PowStep
<1>2. ASSUME NEW n \in 0 .. MaxDepth - 1, n \in S PROVE n + 1 \in S
  <2>1. Pow2[n + 1] = 2 * Pow2[n] /\ Pow2[n] \in Nat \ {0}
    BY <1>2, PowStep
  <2> QED
    BY <2>1
<1> HIDE DEF S
<1>3. \A n \in 0 .. MaxDepth : n \in S
  BY <1>0, <1>1, <1>2, Climb
<1> QED
  BY <1>3 DEF S

-----------------------------------------------------------------------------
(* Bits of a hash.                                                         *)

LEMMA DepthNat == MaxDepth \in Nat /\ InitDepth \in Nat /\ InitDepth <= MaxDepth
BY DepthAssumption

LEMMA BitsLeaf == \A k \in Keys : Bits[k] \in SegIds
BY TableAssumption

LEMMA PrefixTop == \A k \in Keys, d \in 0 .. MaxDepth : Prefix(k, d) = Top(Bits[k], d)
BY DEF Prefix, Top

LEMMA TopNat ==
    ASSUME NEW z \in Nat, NEW d \in 0 .. MaxDepth
    PROVE  Top(z, d) \in Nat
<1>1. Pow2[MaxDepth - d] \in Nat \ {0}
  BY DepthNat, PowNat
<1> QED
  BY <1>1, Divides DEF Top

LEMMA LeafNat == SegIds \subseteq Nat
BY DepthNat, PowNat DEF SegIds

LEMMA PowAt ==
    ASSUME NEW n \in 0 .. MaxDepth - 1
    PROVE  Pow2[n] \in Nat \ {0} /\ Pow2[n + 1] = 2 * Pow2[n]
<1>1. n \in 0 .. MaxDepth
  BY DepthNat
<1> QED
  BY <1>1, PowNat, PowStep

\* One bit less.
LEMMA TopStep ==
    ASSUME NEW z \in Nat, NEW d \in 0 .. MaxDepth - 1
    PROVE  Top(z, d) = Top(z, d + 1) \div 2
<1>1. PICK n : n = MaxDepth - (d + 1)
  OBVIOUS
<1>2. n \in 0 .. MaxDepth - 1 /\ MaxDepth - d = n + 1
  BY <1>1, DepthNat
<1>3. Pow2[n] \in Nat \ {0} /\ Pow2[n + 1] = 2 * Pow2[n]
  BY <1>2, PowAt
<1>4. z \div (2 * Pow2[n]) = (z \div Pow2[n]) \div 2
  BY <1>3, Halved
<1> QED
  BY <1>1, <1>2, <1>3, <1>4 DEF Top

LEMMA TopChild ==
    ASSUME NEW z \in Nat, NEW d \in 0 .. MaxDepth - 1
    PROVE  /\ Top(z, d + 1) \in {2 * Top(z, d), 2 * Top(z, d) + 1}
           /\ Top(z, d + 1) % 2 = 1 <=> Top(z, d + 1) = 2 * Top(z, d) + 1
<1>1. Top(z, d) = Top(z, d + 1) \div 2
  BY TopStep
<1>2. PICK b : b = Top(z, d + 1)
  OBVIOUS
<1>3. b \in Nat
  <2>1. d + 1 \in 0 .. MaxDepth
    BY DepthNat
  <2> QED
    BY <1>2, <2>1, TopNat
<1>4. b = 2 * (b \div 2) + (b % 2) /\ b \div 2 \in Nat /\ b % 2 \in {0, 1}
  BY <1>3
<1> QED
  BY <1>1, <1>2, <1>3, <1>4

LEMMA TopWhole ==
    ASSUME NEW z \in Nat
    PROVE  Top(z, MaxDepth) = z
<1>1. MaxDepth - MaxDepth = 0 /\ Pow2[0] = 1
  BY DepthNat, PowStep
<1>2. z \div 1 = z
  BY Quotient
<1> QED
  BY <1>1, <1>2 DEF Top

\* A hash lies over one entry of each level.
LEMMA TopRange ==
    ASSUME NEW z \in SegIds
    PROVE  \A d \in 0 .. MaxDepth : Top(z, d) \in 0 .. Pow2[d] - 1
<1> DEFINE S == {i \in Nat : Top(z, MaxDepth - i) \in 0 .. Pow2[MaxDepth - i] - 1}
<1>0. z \in Nat /\ MaxDepth \in Nat
  BY LeafNat, DepthNat
<1>1. 0 \in S
  BY <1>0, TopWhole DEF SegIds
<1>2. ASSUME NEW i \in 0 .. MaxDepth - 1, i \in S PROVE i + 1 \in S
  <2>1. PICK d : d = MaxDepth - (i + 1)
    OBVIOUS
  <2>2. d \in 0 .. MaxDepth - 1 /\ MaxDepth - i = d + 1 /\ i + 1 \in Nat
    BY <1>0, <2>1
  <2>3. Pow2[d] \in Nat \ {0} /\ Pow2[d + 1] = 2 * Pow2[d]
    BY <2>2, PowAt
  <2>4. Top(z, d + 1) \in 0 .. Pow2[d + 1] - 1 /\ Top(z, d + 1) \in Nat
    BY <1>0, <1>2, <2>2, TopNat
  <2>5. Top(z, d) = Top(z, d + 1) \div 2
    BY <1>0, <2>2, TopStep
  <2>6. Top(z, d) \in 0 .. Pow2[d] - 1
    BY <2>3, <2>4, <2>5
  <2> QED
    BY <2>1, <2>2, <2>6
<1> HIDE DEF S
<1>3. \A i \in 0 .. MaxDepth : i \in S
  BY <1>0, <1>1, <1>2, Climb
<1> SUFFICES ASSUME NEW d \in 0 .. MaxDepth PROVE Top(z, d) \in 0 .. Pow2[d] - 1
  OBVIOUS
<1>4. PICK i : i = MaxDepth - d
  OBVIOUS
<1>5. i \in 0 .. MaxDepth /\ d = MaxDepth - i
  BY <1>0, <1>4
<1> QED
  BY <1>3, <1>5 DEF S

\* Over every entry there is a hash.
LEMMA TopLeaf ==
    \A d \in 0 .. MaxDepth : \A p \in 0 .. Pow2[d] - 1 : \E z \in SegIds : Top(z, d) = p
<1> DEFINE S == {i \in Nat : \A p \in 0 .. Pow2[MaxDepth - i] - 1 :
                                \E z \in SegIds : Top(z, MaxDepth - i) = p}
<1>0. MaxDepth \in Nat /\ SegIds \subseteq Nat
  BY LeafNat, DepthNat
<1>1. 0 \in S
  BY <1>0, TopWhole DEF SegIds
<1>2. ASSUME NEW i \in 0 .. MaxDepth - 1, i \in S PROVE i + 1 \in S
  <2>1. PICK d : d = MaxDepth - (i + 1)
    OBVIOUS
  <2>2. d \in 0 .. MaxDepth - 1 /\ MaxDepth - i = d + 1 /\ i + 1 \in Nat
    BY <1>0, <2>1
  <2>3. Pow2[d] \in Nat \ {0} /\ Pow2[d + 1] = 2 * Pow2[d]
    BY <2>2, PowAt
  <2>4. ASSUME NEW p \in 0 .. Pow2[d] - 1 PROVE \E z \in SegIds : Top(z, d) = p
    <3>1. 2 * p \in 0 .. Pow2[d + 1] - 1
      BY <2>3
    <3>2. PICK z \in SegIds : Top(z, d + 1) = 2 * p
      BY <1>2, <2>2, <3>1
    <3>3. Top(z, d) = (2 * p) \div 2
      BY <1>0, <2>2, <3>2, TopStep
    <3>4. (2 * p) \div 2 = p
      BY <2>3
    <3> QED
      BY <3>3, <3>4
  <2> QED
    BY <2>1, <2>2, <2>4
<1> HIDE DEF S
<1>3. \A i \in 0 .. MaxDepth : i \in S
  BY <1>0, <1>1, <1>2, Climb
<1> SUFFICES ASSUME NEW d \in 0 .. MaxDepth, NEW p \in 0 .. Pow2[d] - 1
             PROVE  \E z \in SegIds : Top(z, d) = p
  OBVIOUS
<1>4. PICK i : i = MaxDepth - d
  OBVIOUS
<1>5. i \in 0 .. MaxDepth /\ d = MaxDepth - i
  BY <1>0, <1>4
<1> QED
  BY <1>3, <1>5 DEF S

\* Hashes that agree in many bits agree in fewer.
LEMMA TopAgree ==
    ASSUME NEW z \in Nat, NEW y \in Nat, NEW e \in 0 .. MaxDepth, NEW d \in 0 .. e,
           Top(z, e) = Top(y, e)
    PROVE  Top(z, d) = Top(y, d)
<1> DEFINE S == {i \in Nat : Top(z, e - i) = Top(y, e - i)}
<1>0. MaxDepth \in Nat /\ e \in Nat
  BY DepthNat
<1>1. 0 \in S
  BY <1>0
<1>2. ASSUME NEW i \in 0 .. e - 1, i \in S PROVE i + 1 \in S
  <2>1. PICK c : c = e - (i + 1)
    OBVIOUS
  <2>2. c \in 0 .. MaxDepth - 1 /\ e - i = c + 1 /\ i + 1 \in Nat
    BY <1>0, <2>1
  <2>3. Top(z, c) = Top(z, c + 1) \div 2 /\ Top(y, c) = Top(y, c + 1) \div 2
    BY <2>2, TopStep
  <2> QED
    BY <1>2, <2>1, <2>2, <2>3
<1> HIDE DEF S
<1>3. \A i \in 0 .. e : i \in S
  BY <1>0, <1>1, <1>2, Climb
<1>4. PICK i : i = e - d
  OBVIOUS
<1>5. i \in 0 .. e /\ d = e - i
  BY <1>0, <1>4
<1> QED
  BY <1>3, <1>5 DEF S

\* Several bits less.
LEMMA TopDiv ==
    ASSUME NEW z \in Nat, NEW e \in 0 .. MaxDepth, NEW d \in 0 .. e
    PROVE  Top(z, d) = Top(z, e) \div Pow2[e - d]
<1> DEFINE S == {i \in Nat : Top(z, e - i) = Top(z, e) \div Pow2[i]}
<1>0. MaxDepth \in Nat /\ e \in Nat /\ Top(z, e) \in Nat
  BY DepthNat, TopNat
<1>1. 0 \in S
  <2>1. Top(z, e) \div 1 = Top(z, e)
    BY <1>0, Quotient
  <2> QED
    BY <1>0, <2>1, PowStep
<1>2. ASSUME NEW i \in 0 .. e - 1, i \in S PROVE i + 1 \in S
  <2>1. PICK c : c = e - (i + 1)
    OBVIOUS
  <2>2. c \in 0 .. MaxDepth - 1 /\ e - i = c + 1 /\ i + 1 \in Nat /\ i \in 0 .. MaxDepth - 1
    BY <1>0, <2>1
  <2>3. Top(z, c) = Top(z, c + 1) \div 2
    BY <2>2, TopStep
  <2>4. Top(z, c + 1) = Top(z, e) \div Pow2[i]
    BY <1>2, <2>2
  <2>5. Pow2[i] \in Nat \ {0} /\ Pow2[i + 1] = 2 * Pow2[i]
    BY <2>2, PowAt
  <2>6. Top(z, e) \div (2 * Pow2[i]) = (Top(z, e) \div Pow2[i]) \div 2
    BY <1>0, <2>5, Halved
  <2> QED
    BY <2>1, <2>2, <2>3, <2>4, <2>5, <2>6
<1> HIDE DEF S
<1>3. \A i \in 0 .. e : i \in S
  BY <1>0, <1>1, <1>2, Climb
<1>4. PICK i : i = e - d
  OBVIOUS
<1>5. i \in 0 .. e /\ d = e - i
  BY <1>0, <1>4
<1> QED
  BY <1>3, <1>4, <1>5 DEF S

\* Hashes that have only x in common cannot have more in common.
LEMMA LevelBound ==
    ASSUME NEW d \in 0 .. MaxDepth, NEW x \in 0 .. Pow2[d] - 1, NEW j \in 0 .. MaxDepth, NEW p,
           \A z \in SegIds : Top(z, d) = x => Top(z, j) = p
    PROVE  j <= d
<1> SUFFICES ASSUME j > d PROVE FALSE
  BY DepthNat
<1>0. d \in 0 .. MaxDepth - 1 /\ d + 1 \in 0 .. j /\ SegIds \subseteq Nat /\ MaxDepth \in Nat
  BY DepthNat, LeafNat
<1>1. Pow2[d] \in Nat \ {0} /\ Pow2[d + 1] = 2 * Pow2[d]
  BY <1>0, PowAt
<1>2. 2 * x \in 0 .. Pow2[d + 1] - 1 /\ 2 * x + 1 \in 0 .. Pow2[d + 1] - 1
  BY <1>1
<1>3. d + 1 \in 0 .. MaxDepth
  BY <1>0
<1>4. PICK z \in SegIds : Top(z, d + 1) = 2 * x
  BY <1>2, <1>3, TopLeaf
<1>5. PICK y \in SegIds : Top(y, d + 1) = 2 * x + 1
  BY <1>2, <1>3, TopLeaf
<1>6. Top(z, d) = x
  <2>1. Top(z, d) = (2 * x) \div 2
    BY <1>0, <1>4, TopStep
  <2> QED
    BY <1>1, <2>1
<1>7. Top(y, d) = x
  <2>1. Top(y, d) = (2 * x + 1) \div 2
    BY <1>0, <1>5, TopStep
  <2> QED
    BY <1>1, <2>1
<1>8. Top(z, j) = Top(y, j)
  BY <1>6, <1>7
<1>9. Top(z, d + 1) = Top(y, d + 1)
  BY <1>0, <1>8, TopAgree
<1> QED
  BY <1>1, <1>4, <1>5, <1>9

\* The upper half of the entries that share ld - 1 bits are those whose bit ld is set.
LEMMA UpperHalf ==
    ASSUME NEW z \in Nat, NEW y \in Nat, depth \in 0 .. MaxDepth, NEW ld \in 1 .. depth
    PROVE  Top(y, depth) \in SecondHalf(Top(z, depth), ld) <=> Top(y, ld) = 2 * Top(z, ld - 1) + 1
<1>0. MaxDepth \in Nat /\ depth \in Nat
  BY DepthNat
<1>1. PICK h : h = Pow2[depth - ld]
  OBVIOUS
<1>2. depth - ld \in 0 .. MaxDepth - 1 /\ depth - (ld - 1) = (depth - ld) + 1 /\ ld - 1 \in 0 .. depth
  BY <1>0
<1>3. h \in Nat \ {0} /\ Pow2[depth - (ld - 1)] = 2 * h
  <2>1. Pow2[depth - ld] \in Nat \ {0} /\ Pow2[(depth - ld) + 1] = 2 * Pow2[depth - ld]
    BY <1>2, PowAt
  <2> QED
    BY <1>1, <1>2, <2>1
<1>4. PICK x, w, c, q : x = Top(z, depth) /\ w = Top(y, depth) /\ c = 2 * h /\ q = Top(z, ld - 1)
  OBVIOUS
<1>5. x \in Nat /\ w \in Nat /\ c \in Nat \ {0} /\ q \in Nat
  BY <1>0, <1>2, <1>3, <1>4, TopNat
<1>6. x \div c = q
  BY <1>0, <1>2, <1>3, <1>4, TopDiv
<1>7. w \div h = Top(y, ld)
  BY <1>0, <1>1, <1>4, TopDiv
<1>8. x - (x % c) = c * q
  <2>1. x = c * (x \div c) + (x % c) /\ x % c \in 0 .. c - 1
    BY <1>5, Divides
  <2>2. c * q \in Nat
    BY <1>5
  <2> QED
    BY <1>5, <1>6, <2>1, <2>2
<1>9. c \div 2 = h
  BY <1>3, <1>4
<1>10. SecondHalf(x, ld) = (c * q + h) .. (c * q + c - 1)
  BY <1>3, <1>4, <1>8, <1>9 DEF SecondHalf
<1>11. PICK u : u = h * (2 * q + 1)
  OBVIOUS
<1>12. c * q + h = u /\ c * q + c - 1 = u + h - 1 /\ u \in Nat
  BY <1>3, <1>4, <1>5, <1>11
<1>13. w \in u .. u + h - 1 => w \div h = 2 * q + 1
  <2> SUFFICES ASSUME w \in u .. u + h - 1 PROVE w \div h = 2 * q + 1
    OBVIOUS
  <2>1. w - u \in 0 .. h - 1 /\ w = h * (2 * q + 1) + (w - u)
    BY <1>3, <1>5, <1>11, <1>12
  <2>2. 2 * q + 1 \in Nat
    BY <1>5
  <2> QED
    BY <1>3, <1>5, <2>1, <2>2, Quotient
<1>14. w \div h = 2 * q + 1 => w \in u .. u + h - 1
  <2>1. w = h * (w \div h) + (w % h) /\ w % h \in 0 .. h - 1
    BY <1>3, <1>5, Divides
  <2> QED
    BY <1>3, <1>5, <1>11, <1>12, <2>1
<1> QED
  BY <1>4, <1>7, <1>10, <1>12, <1>13, <1>14

-----------------------------------------------------------------------------
(* What a step does to the records.                                        *)

LEMMA SegsUsed ==
    ASSUME Typed
    PROVE  /\ 0 .. used - 1 \subseteq SegIds /\ used \in Nat /\ used >= 1 /\ used <= Pow2[MaxDepth]
           /\ DOMAIN dir = 0 .. Pow2[depth] - 1 /\ depth \in 0 .. MaxDepth
<1>1. MaxDepth \in Nat /\ InitDepth \in Nat /\ Pow2[MaxDepth] \in Nat
  BY DepthNat, PowNat
<1>2. used \in 1 .. Pow2[MaxDepth] /\ depth \in InitDepth .. MaxDepth
      /\ dir \in [0 .. Pow2[depth] - 1 -> 0 .. used - 1]
  BY DEF Typed
<1> QED
  BY <1>1, <1>2 DEF SegIds

LEMMA Others ==
    ASSUME Typed, NEW t \in Threads, NEW r, To(t, r)
    PROVE  /\ thread'[t] = r /\ \A u \in Threads : u # t => thread'[u] = thread[u]
           /\ r \in ThreadRec => thread' \in [Threads -> ThreadRec]
BY DEF To, Typed

\* A record of a thread with some fields changed.
LEMMA ThreadKnown ==
    ASSUME Typed, NEW t \in Threads
    PROVE  /\ thread[t] \in ThreadRec
           /\ thread[t].at \in Places /\ thread[t].op \in {"none", "Insert", "Get"}
           /\ thread[t].key \in Keys \cup {INVALID} /\ thread[t].val \in 0 .. MaxOps + 1
           /\ thread[t].seg \in SegIds /\ thread[t].seg \in 0 .. used - 1
           /\ thread[t].i \in 0 .. ProbeLength - 1 /\ thread[t].seen \in Keys \cup {INVALID, SENTINEL}
           /\ thread[t].ret \in {0, 1} /\ thread[t].new \in SegIds /\ thread[t].shift \in 0 .. MaxDepth
           /\ thread[t].at # "idle" => thread[t].key \in Keys
<1>1. thread[t] \in ThreadRec /\ thread[t].seg < used /\ (thread[t].at # "idle" => thread[t].key \in Keys)
  BY DEF Typed
<1>2. /\ thread[t].at \in Places /\ thread[t].op \in {"none", "Insert", "Get"}
      /\ thread[t].key \in Keys \cup {INVALID} /\ thread[t].val \in 0 .. MaxOps + 1
      /\ thread[t].seg \in SegIds
      /\ thread[t].i \in 0 .. ProbeLength - 1 /\ thread[t].seen \in Keys \cup {INVALID, SENTINEL}
      /\ thread[t].ret \in {0, 1} /\ thread[t].new \in SegIds /\ thread[t].shift \in 0 .. MaxDepth
  BY <1>1 DEF ThreadRec
<1>3. thread[t].seg \in 0 .. used - 1
  <2>1. thread[t].seg \in Nat /\ used \in Nat
    BY <1>2, LeafNat, SegsUsed
  <2> QED
    BY <1>1, <2>1
<1> QED
  BY <1>1, <1>2, <1>3

LEMMA SlotNoKnown ==
    ASSUME Typed, NEW t \in Threads, thread[t].key \in Keys
    PROVE  SlotNo(t) \in Slots
<1>1. Loc[thread[t].key] \in Nat /\ thread[t].i \in Nat /\ kNumSlot \in Nat \ {0}
  BY TableAssumption, ThreadKnown DEF Slots
<1> QED
  BY <1>1 DEF SlotNo, Slots

LEMMA SlotKnown ==
    ASSUME Typed, NEW t \in Threads, thread[t].key \in Keys
    PROVE  /\ SlotAt(t) \in SlotRec
           /\ SlotAt(t).key \in Keys \cup {INVALID, SENTINEL} /\ SlotAt(t).val \in 0 .. MaxOps + 1
<1>1. SlotNo(t) \in Slots /\ thread[t].seg \in SegIds
  BY SlotNoKnown, ThreadKnown
<1>2. segs[thread[t].seg] \in SegRec
  BY <1>1 DEF Typed
<1>3. SlotAt(t) \in SlotRec
  BY <1>1, <1>2 DEF SlotAt, Seg, SegRec
<1> QED
  BY <1>3 DEF SlotRec

\* One slot is written, the rest of the table stays.
LEMMA SlotSet ==
    ASSUME Typed, NEW t \in Threads, thread[t].key \in Keys, NEW rec \in SlotRec, SetSlot(t, rec)
    PROVE  /\ segs' \in [SegIds -> SegRec]
           /\ \A g \in SegIds : /\ segs'[g].local_depth = segs[g].local_depth
                                /\ segs'[g].pattern = segs[g].pattern
           /\ segs'[thread[t].seg].slots[SlotNo(t)] = rec
           /\ \A g \in SegIds, s \in Slots : g # thread[t].seg \/ s # SlotNo(t) =>
                  segs'[g].slots[s] = segs[g].slots[s]
<1>1. SlotNo(t) \in Slots /\ thread[t].seg \in SegIds
  BY SlotNoKnown, ThreadKnown
<1>2. PICK g, s : g = thread[t].seg /\ s = SlotNo(t)
  OBVIOUS
<1>3. segs \in [SegIds -> SegRec] /\ segs[g] \in SegRec
  BY <1>1, <1>2 DEF Typed
<1>4. PICK sl : sl = [segs[g].slots EXCEPT ![s] = rec]
  OBVIOUS
<1>5. /\ sl \in [Slots -> SlotRec] /\ sl[s] = rec
      /\ \A q \in Slots : q # s => sl[q] = segs[g].slots[q]
  BY <1>1, <1>2, <1>3, <1>4 DEF SegRec
<1>6. PICK h : h = [segs[g] EXCEPT !.slots = sl]
  OBVIOUS
<1>7. /\ h \in SegRec /\ h.local_depth = segs[g].local_depth /\ h.pattern = segs[g].pattern
      /\ h.slots = sl
  BY <1>3, <1>5, <1>6 DEF SegRec
<1>8. segs' = [segs EXCEPT ![g] = h]
  BY <1>2, <1>4, <1>6 DEF SetSlot
<1> QED
  BY <1>1, <1>2, <1>3, <1>5, <1>7, <1>8

-----------------------------------------------------------------------------
(* What a step does to its thread.                                         *)

\* The operation goes on at another place.
Turned(t, l) ==
    /\ thread' \in [Threads -> ThreadRec] /\ thread'[t].at = l
    /\ thread'[t].op = thread[t].op /\ thread'[t].key = thread[t].key
    /\ thread'[t].seg = thread[t].seg /\ thread'[t].new = thread[t].new
    /\ thread'[t].shift = thread[t].shift
    /\ \A u \in Threads : u # t => thread'[u] = thread[u]

LEMMA GotoKnown ==
    ASSUME Typed, NEW t \in Threads, NEW l \in Places, Goto(t, l)
    PROVE  /\ Turned(t, l) /\ thread'[t].i = thread[t].i /\ thread'[t].seen = thread[t].seen
           /\ thread'[t].val = thread[t].val /\ thread'[t].ret = thread[t].ret
<1>1. PICK r : r = [thread[t] EXCEPT !.at = l]
  OBVIOUS
<1>2. thread[t] \in ThreadRec
  BY ThreadKnown
<1>3. r \in ThreadRec /\ r.at = l /\ \A f \in {"op", "key", "val", "seg", "i", "shift", "seen", "ret", "new"} : r[f] = thread[t][f]
  BY <1>1, <1>2 DEF ThreadRec
<1>4. /\ r.op = thread[t].op /\ r.key = thread[t].key /\ r.val = thread[t].val /\ r.seg = thread[t].seg
      /\ r.i = thread[t].i /\ r.seen = thread[t].seen /\ r.ret = thread[t].ret /\ r.new = thread[t].new
      /\ r.shift = thread[t].shift
  BY <1>1, <1>2 DEF ThreadRec
<1>5. /\ thread'[t] = r /\ \A u \in Threads : u # t => thread'[u] = thread[u]
      /\ r \in ThreadRec => thread' \in [Threads -> ThreadRec]
  BY <1>1, Others DEF Goto
<1> QED
  BY <1>3, <1>4, <1>5 DEF Turned

LEMMA NextProbeKnown ==
    ASSUME Typed, NEW t \in Threads, NextProbe(t)
    PROVE  /\ thread'[t].val = thread[t].val /\ thread'[t].ret = thread[t].ret
           /\ \E l \in {"scan", "leave"} : Turned(t, l)
<1>1. CASE thread[t].i + 1 < ProbeLength
  <2>1. PICK r : r = [thread[t] EXCEPT !.at = "scan", !.i = thread[t].i + 1]
    OBVIOUS
  <2>2. thread[t] \in ThreadRec /\ thread[t].i \in 0 .. ProbeLength - 1 /\ ProbeLength \in Nat
    BY ThreadKnown, TableAssumption
  <2>3. thread[t].i + 1 \in 0 .. ProbeLength - 1
    BY <1>1, <2>2
  <2>4. To(t, r)
    BY <1>1, <2>1 DEF NextProbe
  <2>5. r \in ThreadRec /\ r.at = "scan"
    BY <2>1, <2>2, <2>3 DEF ThreadRec, Places, Working
  <2>6. /\ r.op = thread[t].op /\ r.key = thread[t].key /\ r.val = thread[t].val
        /\ r.seg = thread[t].seg /\ r.ret = thread[t].ret /\ r.new = thread[t].new
        /\ r.shift = thread[t].shift
    BY <2>1, <2>2 DEF ThreadRec
  <2>7. /\ thread'[t] = r /\ \A u \in Threads : u # t => thread'[u] = thread[u]
        /\ r \in ThreadRec => thread' \in [Threads -> ThreadRec]
    BY <2>4, Others
  <2> QED
    BY <2>5, <2>6, <2>7 DEF Turned
<1>2. CASE ~(thread[t].i + 1 < ProbeLength)
  <2>1. Goto(t, "leave") /\ "leave" \in Places
    BY <1>2 DEF NextProbe, Places, Working
  <2> QED
    BY <2>1, GotoKnown
<1> QED
  BY <1>1, <1>2

LEMMA SuccessKnown ==
    ASSUME Typed, NEW t \in Threads, Success(t)
    PROVE  Turned(t, "leave")
<1>1. PICK r : r = [thread[t] EXCEPT !.at = "leave", !.ret = 0]
  OBVIOUS
<1>2. thread[t] \in ThreadRec
  BY ThreadKnown
<1>3. r \in ThreadRec /\ r.at = "leave"
  BY <1>1, <1>2 DEF ThreadRec, Places, Working
<1>4. /\ r.op = thread[t].op /\ r.key = thread[t].key /\ r.seg = thread[t].seg /\ r.new = thread[t].new
      /\ r.shift = thread[t].shift
  BY <1>1, <1>2 DEF ThreadRec
<1>5. /\ thread'[t] = r /\ \A u \in Threads : u # t => thread'[u] = thread[u]
      /\ r \in ThreadRec => thread' \in [Threads -> ThreadRec]
  BY <1>1, Others DEF Success
<1> QED
  BY <1>3, <1>4, <1>5 DEF Turned

\* An operation that ends.
LEMMA IdleKnown ==
    ASSUME Typed, NEW t \in Threads, To(t, Idle)
    PROVE  /\ thread' \in [Threads -> ThreadRec] /\ thread'[t].at = "idle" /\ thread'[t].seg = 0
           /\ \A u \in Threads : u # t => thread'[u] = thread[u]
<1>1. /\ thread'[t] = Idle /\ \A u \in Threads : u # t => thread'[u] = thread[u]
      /\ Idle \in ThreadRec => thread' \in [Threads -> ThreadRec]
  BY Others
<1>2. Idle \in ThreadRec
  <2>1. 0 \in SegIds
    BY SegsUsed
  <2>2. 0 \in 0 .. ProbeLength - 1 /\ 0 \in 0 .. MaxOps + 1 /\ 0 \in 0 .. MaxDepth
    BY TableAssumption, TableBounds, DepthNat
  <2> QED
    BY <2>1, <2>2 DEF Idle, ThreadRec, Places, Tombstone
<1> QED
  BY <1>1, <1>2 DEF Idle

-----------------------------------------------------------------------------
(* Steps that leave the directory and the patterns as they are.            *)

\* The next record of the thread fits its place.
Fits(t) ==
    /\ thread' \in [Threads -> ThreadRec]
    /\ \A u \in Threads : u # t => thread'[u] = thread[u]
    /\ thread'[t].seg = thread[t].seg \/ thread'[t].seg = 0 \/ \E x \in DOMAIN dir : thread'[t].seg = dir[x]
    /\ thread'[t].at # "idle" => thread'[t].key \in Keys
    /\ thread'[t].at \in {"invalidate", "wipe", "claim", "fill", "update", "erase"} => thread'[t].op = "Insert"

Quiet ==
    /\ depth' = depth /\ dir' = dir /\ used' = used
    /\ segs' \in [SegIds -> SegRec]
    /\ \A g \in SegIds : /\ segs'[g].local_depth = segs[g].local_depth
                         /\ segs'[g].pattern = segs[g].pattern

\* The remaining variables.
Rest ==
    /\ dir_lock' \in BOOLEAN /\ sema' \in [SegIds -> LockRec]
    /\ ops' \in 0 .. MaxOps /\ last' \in [Keys -> 0 .. MaxOps + 1]
    /\ {shared', stray', late', wrapped', doubled'} \subseteq BOOLEAN
    /\ (stray => stray') /\ (late => late') /\ (shared => shared') /\ (wrapped => wrapped') /\ (doubled => doubled')

\* No split comes to its copy or leaves it, and none to the directory.
SplitsStay(t) ==
    /\ thread'[t].at = "copy" => /\ thread'[t].seg = thread[t].seg /\ thread'[t].key = thread[t].key
                                 /\ Seg(t).local_depth < MaxDepth
                                 /\ stray' \/ Has(thread[t].seg, Bits[thread[t].key])
    /\ Pending(t)' <=> Pending(t)
    /\ Pending(t) => /\ thread'[t].seg = thread[t].seg /\ thread'[t].new = thread[t].new
                     /\ thread'[t].key = thread[t].key

\* The thread stays inside or outside of its segment, and so does the lock.
LocksStay(t) ==
    /\ thread'[t].at \in Working <=> thread[t].at \in Working
    /\ thread'[t].at \in Splitters <=> thread[t].at \in Splitters
    /\ thread[t].at \in Working \cup Splitters => thread'[t].seg = thread[t].seg
    /\ \A g \in SegIds : sema'[g].n = sema[g].n /\ sema'[g].excl = sema[g].excl

LEMMA QuietTyped ==
    ASSUME Typed, NEW t \in Threads, Fits(t), Quiet, Rest
    PROVE  Typed'
<1>1. used \in 1 .. Pow2[MaxDepth] /\ used' = used /\ 0 .. used - 1 \subseteq SegIds /\ used \in Nat
      /\ used >= 1
  BY SegsUsed DEF Typed, Quiet
<1>2. /\ depth' \in InitDepth .. MaxDepth /\ dir' \in [0 .. Pow2[depth'] - 1 -> 0 .. used' - 1]
  BY DEF Typed, Quiet
<1>3. \A g \in 0 .. used' - 1 : /\ segs'[g].local_depth \in InitDepth .. MaxDepth
                                /\ segs'[g].pattern \in 0 .. Pow2[segs'[g].local_depth] - 1
  BY <1>1 DEF Typed, Quiet
<1>4. ASSUME NEW u \in Threads
      PROVE  /\ thread'[u].seg < used'
             /\ thread'[u].at # "idle" => thread'[u].key \in Keys
             /\ thread'[u].at \in {"invalidate", "wipe", "claim", "fill", "update", "erase"}
                   => thread'[u].op = "Insert"
  <2>1. CASE u # t
    BY <1>1, <2>1 DEF Typed, Fits, Writes
  <2>2. CASE u = t
    <3>1. \A x \in DOMAIN dir : dir[x] \in 0 .. used - 1
      BY DEF Typed
    <3>2. thread[t].seg < used
      BY DEF Typed
    <3>3. thread'[t].seg < used
      BY <1>1, <3>1, <3>2 DEF Fits
    <3> QED
      BY <1>1, <2>2, <3>3 DEF Fits
  <2> QED
    BY <2>1, <2>2
<1>5. thread' \in [Threads -> ThreadRec]
  BY DEF Fits
<1> QED
  BY <1>1, <1>2, <1>3, <1>4, <1>5 DEF Typed, Rest, Quiet, Writes

LEMMA QuietTree ==
    ASSUME Typed, Apart, Halves, Led, Chosen, NEW t \in Threads, Fits(t), Quiet, Rest, SplitsStay(t)
    PROVE  Apart' /\ Halves' /\ Led' /\ Chosen'
<1>1. /\ used' = used /\ depth' = depth /\ dir' = dir /\ 0 .. used - 1 \subseteq SegIds /\ used \in Nat
      /\ DOMAIN dir = 0 .. Pow2[depth] - 1 /\ dir \in [DOMAIN dir -> 0 .. used - 1]
  BY SegsUsed DEF Quiet, Typed
<1>2. \A g \in SegIds : segs'[g].local_depth = segs[g].local_depth /\ segs'[g].pattern = segs[g].pattern
  BY DEF Quiet
<1>3. \A g \in 0 .. used - 1 : \A z : Has(g, z)' <=> Has(g, z)
  BY <1>1, <1>2 DEF Has
<1>4. Apart'
  BY <1>1, <1>3 DEF Apart
<1>5. \A u \in Threads : /\ Pending(u)' <=> Pending(u)
                         /\ Pending(u) => /\ thread'[u].seg = thread[u].seg /\ thread'[u].new = thread[u].new
                                          /\ thread'[u].key = thread[u].key
  BY DEF SplitsStay, Fits, Pending
<1>6. \A u \in Threads : thread[u].seg \in 0 .. used - 1
  BY ThreadKnown
<1>7. Halves'
  <2> SUFFICES ASSUME NEW u \in Threads, Pending(u)' PROVE Half(u)'
    BY DEF Halves
  <2>1. PICK g, n, ld : g = thread[u].seg /\ n = thread[u].new /\ ld = segs[g].local_depth
    OBVIOUS
  <2>2. Pending(u) /\ Half(u)
    BY <1>5 DEF Halves
  <2>3. n \in 1 .. used - 1 /\ n \in SegIds /\ g \in SegIds
    BY <1>1, <1>6, <2>1, <2>2 DEF Half
  <2>4. thread'[u].seg = g /\ thread'[u].new = n /\ thread'[u].key = thread[u].key
    BY <1>5, <2>1, <2>2
  <2>5. segs'[g].local_depth = ld /\ segs'[g].pattern = segs[g].pattern
        /\ segs'[n].local_depth = segs[n].local_depth /\ segs'[n].pattern = segs[n].pattern
    BY <1>2, <2>1, <2>3
  <2>6. ASSUME NEW w \in Threads
        PROVE  thread'[w].seg # n /\ (Pending(w)' /\ thread'[w].new = n => w = u)
    <3>1. thread[w].seg # n /\ (Pending(w) /\ thread[w].new = n => w = u)
      BY <2>1, <2>2 DEF Half
    <3>2. thread'[w].seg # n
      <4>1. \A x \in DOMAIN dir : dir[x] # n
        BY <2>1, <2>2 DEF Half
      <4> QED
        BY <2>3, <3>1, <4>1 DEF Fits
    <3> QED
      BY <1>5, <3>1, <3>2
  <2> QED
    BY <1>1, <2>1, <2>2, <2>3, <2>4, <2>5, <2>6 DEF Half
<1>8. Led'
  <2> SUFFICES ASSUME NEW z \in SegIds
               PROVE  Has(dir[Top(z, depth)], z)' \/ Astray(dir[Top(z, depth)], z)'
    BY DEF Led
  <2>1. PICK g : g = dir[Top(z, depth)]
    OBVIOUS
  <2>2. g \in 0 .. used - 1
    <3>1. Top(z, depth) \in DOMAIN dir
      BY <1>1, SegsUsed, TopRange
    <3> QED
      BY <1>1, <2>1, <3>1
  <2>3. dir'[Top(z, depth')] = g
    BY <1>1, <2>1
  <2>4. CASE Has(g, z)
    <3>1. Has(g, z)'
      BY <1>3, <2>2, <2>4
    <3> QED
      BY <2>3, <3>1 DEF Has
  <2>5. CASE Astray(g, z)
    <3>1. PICK u \in Threads : Pending(u) /\ thread[u].seg = g /\ Has(thread[u].new, z)
      BY <2>5 DEF Astray
    <3>2. thread[u].new \in 0 .. used - 1
      BY <1>1, <3>1 DEF Halves, Half
    <3>3. PICK n : n = thread[u].new
      OBVIOUS
    <3>4. Pending(u)' /\ thread'[u].seg = g /\ thread'[u].new = n /\ Has(n, z)'
      BY <1>3, <1>5, <3>1, <3>2, <3>3
    <3> QED
      BY <2>3, <3>4 DEF Astray, Has
  <2> QED
    BY <2>1, <2>4, <2>5 DEF Led
<1>9. Chosen'
  <2> SUFFICES ASSUME NEW u \in Threads, thread'[u].at = "copy"
               PROVE  /\ Seg(u)'.local_depth < MaxDepth
                      /\ stray' \/ Has(thread[u].seg, Bits[thread[u].key])'
    BY DEF Chosen, At
  <2>1. /\ thread'[u].seg = thread[u].seg /\ thread'[u].key = thread[u].key
        /\ Seg(u).local_depth < MaxDepth
        /\ stray' \/ Has(thread[u].seg, Bits[thread[u].key])
    BY DEF SplitsStay, Fits, Chosen, At, Rest
  <2>2. PICK g, k : g = thread[u].seg /\ k = thread[u].key
    OBVIOUS
  <2>3. g \in SegIds
    BY <1>1, <1>6, <2>2
  <2>4. thread'[u].seg = g /\ thread'[u].key = k /\ segs'[g].local_depth = segs[g].local_depth
        /\ segs'[g].pattern = segs[g].pattern
    BY <1>2, <2>1, <2>2, <2>3
  <2> QED
    BY <2>1, <2>2, <2>4 DEF Seg, Has
<1> QED
  BY <1>4, <1>7, <1>8, <1>9

LEMMA QuietLocks ==
    ASSUME Typed, Counted, Alone, NEW t \in Threads, Fits(t), LocksStay(t)
    PROVE  Counted' /\ Alone'
<1>1. \A u \in Threads : /\ thread'[u].at \in Working <=> thread[u].at \in Working
                         /\ thread'[u].at \in Splitters <=> thread[u].at \in Splitters
                         /\ thread[u].at \in Working \cup Splitters => thread'[u].seg = thread[u].seg
  BY DEF LocksStay, Fits
<1>2. \A g : Inside(g)' = Inside(g)
  BY <1>1 DEF Inside, Working
<1>3. \A g \in SegIds : sema'[g].n = sema[g].n /\ sema'[g].excl = sema[g].excl
  BY DEF LocksStay
<1>4. Counted'
  BY <1>2, <1>3 DEF Counted
<1>5. \A u \in Threads : thread'[u].at \in Splitters => sema'[thread'[u].seg].excl
  BY <1>1, <1>3, ThreadKnown DEF Alone
<1>6. \A g \in SegIds : sema'[g].excl =>
        /\ Inside(g)' = {}
        /\ \E u \in Threads : thread'[u].at \in Splitters /\ thread'[u].seg = g
  BY <1>1, <1>2, <1>3 DEF Alone
<1>7. \A u, w \in Threads :
        thread'[u].at \in Splitters /\ thread'[w].at \in Splitters /\ thread'[u].seg = thread'[w].seg => u = w
  BY <1>1 DEF Alone
<1> QED
  BY <1>4, <1>5, <1>6, <1>7 DEF Alone

-----------------------------------------------------------------------------
(* The actions of a scan.                                                  *)

LEMMA TableStays ==
    ASSUME Typed, UNCHANGED tableVars
    PROVE  Quiet
BY DEF Typed, Quiet, tableVars

LEMMA RestStays ==
    ASSUME Typed, UNCHANGED <<dir_lock, ops, history>>, sema' \in [SegIds -> LockRec]
    PROVE  Rest
BY DEF Typed, Rest, history

LEMMA TurnFits ==
    ASSUME Typed, NEW t \in Threads, NEW l \in Places, Turned(t, l), thread[t].key \in Keys,
           l \in {"invalidate", "wipe", "claim", "fill", "update", "erase"} => Writes(t)
    PROVE  Fits(t)
BY DEF Turned, Fits, Writes

\* From one place of the scan to another.
LEMMA ScanTurns ==
    ASSUME Typed, NEW t \in Threads, NEW l \in Working, Turned(t, l),
           thread[t].at \in Working, sema' = sema,
           l \in {"invalidate", "wipe", "claim", "fill", "update", "erase"} => Writes(t)
    PROVE  Fits(t) /\ SplitsStay(t) /\ LocksStay(t)
<1>1. l \in Places /\ thread[t].key \in Keys /\ thread[t].at \notin Splitters /\ l \notin Splitters
  BY ThreadKnown DEF Places, Working, Splitters
<1>2. Fits(t)
  BY <1>1, TurnFits
<1>3. SplitsStay(t)
  BY <1>1 DEF SplitsStay, Turned, Pending, Working, Splitters
<1>4. LocksStay(t)
  BY <1>1 DEF LocksStay, Turned
<1> QED
  BY <1>2, <1>3, <1>4

LEMMA ScanGetQuiet ==
    ASSUME Typed, NEW t \in Threads, ScanGet(t)
    PROVE  Fits(t) /\ Quiet /\ Rest /\ SplitsStay(t) /\ LocksStay(t)
<1>1. Quiet /\ Rest /\ sema' = sema
  BY TableStays, RestStays DEF ScanGet, Typed
<1>2. thread[t].at = "scan" /\ thread[t].key \in Keys
  BY ThreadKnown DEF ScanGet, At
<1>3. \E l \in {"scan", "leave"} : Turned(t, l)
  <2>1. CASE SlotAt(t).key = thread[t].key
    <3>1. PICK r : r = [thread[t] EXCEPT !.at = "leave", !.val = SlotAt(t).val, !.ret = 0]
      OBVIOUS
    <3>2. thread[t] \in ThreadRec /\ SlotAt(t).val \in 0 .. MaxOps + 1
      BY <1>2, ThreadKnown, SlotKnown
    <3>3. To(t, r)
      BY <2>1, <3>1 DEF ScanGet
    <3>4. r \in ThreadRec /\ r.at = "leave"
      BY <3>1, <3>2 DEF ThreadRec, Places, Working
    <3>5. /\ r.op = thread[t].op /\ r.key = thread[t].key /\ r.seg = thread[t].seg /\ r.new = thread[t].new
          /\ r.shift = thread[t].shift
      BY <3>1, <3>2 DEF ThreadRec
    <3> QED
      BY <3>3, <3>4, <3>5, Others DEF Turned
  <2>2. CASE SlotAt(t).key # thread[t].key
    BY <2>2, NextProbeKnown DEF ScanGet
  <2> QED
    BY <2>1, <2>2
<1> QED
  BY <1>1, <1>2, <1>3, ScanTurns DEF Working

LEMMA ScanInsertKnown ==
    ASSUME Typed, NEW t \in Threads, ScanInsert(t)
    PROVE  /\ thread[t].at = "scan" /\ thread[t].key \in Keys /\ Writes(t)
           /\ thread'[t].val = thread[t].val /\ thread'[t].i = thread[t].i
           /\ thread'[t].seen = SlotAt(t).key
           /\ \/ Turned(t, "invalidate") /\ Stale(t, SlotAt(t).key)
              \/ Turned(t, "claim")
<1>1. thread[t].at = "scan" /\ thread[t].key \in Keys /\ Writes(t)
  BY ThreadKnown DEF ScanInsert, At
<1>2. PICK l : l = IF Stale(t, SlotAt(t).key) THEN "invalidate" ELSE "claim"
  OBVIOUS
<1>3. PICK r : r = [thread[t] EXCEPT !.at = l, !.seen = SlotAt(t).key]
  OBVIOUS
<1>4. thread[t] \in ThreadRec /\ SlotAt(t).key \in Keys \cup {INVALID, SENTINEL} /\ l \in Places
  BY <1>1, <1>2, ThreadKnown, SlotKnown DEF Places, Working
<1>5. To(t, r)
  BY <1>2, <1>3 DEF ScanInsert
<1>6. r \in ThreadRec /\ r.at = l /\ r.seen = SlotAt(t).key
  BY <1>3, <1>4 DEF ThreadRec
<1>7. /\ r.op = thread[t].op /\ r.key = thread[t].key /\ r.seg = thread[t].seg /\ r.new = thread[t].new
      /\ r.shift = thread[t].shift
      /\ r.val = thread[t].val /\ r.i = thread[t].i
  BY <1>3, <1>4 DEF ThreadRec
<1>8. Turned(t, l) /\ thread'[t] = r
  BY <1>5, <1>6, <1>7, Others DEF Turned
<1> QED
  BY <1>1, <1>2, <1>6, <1>7, <1>8

LEMMA ScanInsertQuiet ==
    ASSUME Typed, NEW t \in Threads, ScanInsert(t)
    PROVE  Fits(t) /\ Quiet /\ Rest /\ SplitsStay(t) /\ LocksStay(t)
<1>1. Quiet /\ Rest /\ sema' = sema
  BY TableStays, RestStays DEF ScanInsert, Typed
<1> QED
  BY <1>1, ScanInsertKnown, ScanTurns DEF Working

\* A step that may write the slot.
Slotted(t, rec) == (rec \in SlotRec /\ SetSlot(t, rec)) \/ segs' = segs

LEMMA SlotQuiet ==
    ASSUME Typed, NEW t \in Threads, thread[t].key \in Keys, NEW rec, Slotted(t, rec),
           UNCHANGED <<depth, dir, used>>
    PROVE  Quiet
BY SlotSet DEF Typed, Quiet, Slotted

\* The slot with another key or another value.
LEMMA SlotWith ==
    ASSUME Typed, NEW t \in Threads, thread[t].key \in Keys
    PROVE  /\ \A k \in Keys \cup {INVALID, SENTINEL} :
                 /\ [SlotAt(t) EXCEPT !.key = k] \in SlotRec
                 /\ [SlotAt(t) EXCEPT !.key = k].key = k
                 /\ [SlotAt(t) EXCEPT !.key = k].val = SlotAt(t).val
           /\ \A v \in 0 .. MaxOps + 1 :
                 /\ [SlotAt(t) EXCEPT !.val = v] \in SlotRec
                 /\ [SlotAt(t) EXCEPT !.val = v].val = v
                 /\ [SlotAt(t) EXCEPT !.val = v].key = SlotAt(t).key
BY SlotKnown DEF SlotRec

LEMMA ValuesKnown ==
    /\ Tombstone \in 0 .. MaxOps + 1 /\ INVALID \notin Keys /\ SENTINEL \notin Keys /\ INVALID # SENTINEL
    /\ kNumSlot \in Nat \ {0} /\ ProbeLength \in 1 .. kNumSlot /\ MaxOps \in Nat
BY TableAssumption, TableBounds DEF Tombstone, INVALID, SENTINEL

LEMMA InvalidateKnown ==
    ASSUME Typed, NEW t \in Threads, Invalidate(t)
    PROVE  /\ thread[t].at = "invalidate" /\ thread[t].key \in Keys /\ Writes(t)
           /\ thread'[t].val = thread[t].val /\ thread'[t].i = thread[t].i
           /\ \/ /\ Turned(t, "wipe") /\ SlotAt(t).key = thread[t].seen
                 /\ \E rec \in SlotRec : SetSlot(t, rec) /\ rec.key = INVALID
              \/ Turned(t, "claim") /\ segs' = segs
<1>1. thread[t].at = "invalidate" /\ thread[t].key \in Keys /\ Writes(t)
  BY ThreadKnown DEF Invalidate, At, Typed
<1>2. CASE SlotAt(t).key = thread[t].seen
  BY <1>1, <1>2, SlotWith, GotoKnown DEF Invalidate, Places, Working
<1>3. CASE SlotAt(t).key # thread[t].seen
  BY <1>1, <1>3, GotoKnown DEF Invalidate, Places, Working
<1> QED
  BY <1>1, <1>2, <1>3

LEMMA WipeKnown ==
    ASSUME Typed, NEW t \in Threads, Wipe(t)
    PROVE  /\ thread[t].at = "wipe" /\ thread[t].key \in Keys /\ Writes(t)
           /\ thread'[t].val = thread[t].val /\ thread'[t].i = thread[t].i /\ Turned(t, "claim")
           /\ \E rec \in SlotRec : SetSlot(t, rec) /\ rec.key = SlotAt(t).key
<1>1. thread[t].at = "wipe" /\ thread[t].key \in Keys /\ Writes(t)
  BY ThreadKnown DEF Wipe, At, Typed
<1> QED
  BY <1>1, SlotWith, GotoKnown, ValuesKnown DEF Wipe, Places, Working

LEMMA ClaimKnown ==
    ASSUME Typed, NEW t \in Threads, Claim(t)
    PROVE  /\ thread[t].at = "claim" /\ thread[t].key \in Keys /\ Writes(t)
           /\ thread'[t].val = thread[t].val
           /\ \/ /\ Turned(t, "fill") /\ SlotAt(t).key = INVALID /\ thread'[t].i = thread[t].i
                 /\ \E rec \in SlotRec : SetSlot(t, rec) /\ rec.key = SENTINEL
              \/ /\ Turned(t, "update") /\ SlotAt(t).key = thread[t].key /\ thread'[t].i = thread[t].i
                 /\ segs' = segs
              \/ segs' = segs /\ \E l \in {"scan", "leave"} : Turned(t, l)
<1>1. thread[t].at = "claim" /\ thread[t].key \in Keys /\ Writes(t)
  BY ThreadKnown DEF Claim, At, Typed
<1>2. CASE SlotAt(t).key = INVALID
  BY <1>1, <1>2, SlotWith, GotoKnown DEF Claim, Places, Working
<1>3. CASE SlotAt(t).key = thread[t].key
  <2>1. SlotAt(t).key # INVALID
    BY <1>1, <1>3, ValuesKnown
  <2> QED
    BY <1>1, <1>3, <2>1, GotoKnown DEF Claim, Places, Working
<1>4. CASE SlotAt(t).key # INVALID /\ SlotAt(t).key # thread[t].key
  <2>1. NextProbe(t) /\ segs' = segs
    BY <1>4 DEF Claim
  <2> QED
    BY <1>1, <2>1, NextProbeKnown
<1> QED
  BY <1>2, <1>3, <1>4

LEMMA FillKnown ==
    ASSUME Typed, NEW t \in Threads, Fill(t)
    PROVE  /\ thread[t].at = "fill" /\ thread[t].key \in Keys /\ Writes(t) /\ Turned(t, "leave")
           /\ last' = [last EXCEPT ![thread[t].key] = thread[t].val]
           /\ \E rec \in SlotRec : /\ SetSlot(t, rec) /\ rec.val = thread[t].val
                                   /\ rec.key = IF thread[t].val = Tombstone THEN INVALID ELSE thread[t].key
<1>1. thread[t].at = "fill" /\ thread[t].key \in Keys /\ Writes(t)
  BY ThreadKnown DEF Fill, At, Typed
<1>2. thread[t].val \in 0 .. MaxOps + 1
  BY ThreadKnown
<1>3. Turned(t, "leave")
  BY SuccessKnown DEF Fill
<1> QED
  BY <1>1, <1>2, <1>3 DEF Fill, Stored, SlotRec

LEMMA UpdateKnown ==
    ASSUME Typed, NEW t \in Threads, Update(t)
    PROVE  /\ thread[t].at = "update" /\ thread[t].key \in Keys /\ Writes(t)
           /\ last' = [last EXCEPT ![thread[t].key] = thread[t].val]
           /\ \E rec \in SlotRec : SetSlot(t, rec) /\ rec.val = thread[t].val /\ rec.key = SlotAt(t).key
           /\ \/ Turned(t, "erase") /\ thread[t].val = Tombstone /\ thread'[t].i = thread[t].i
              \/ Turned(t, "leave")
<1>1. thread[t].at = "update" /\ thread[t].key \in Keys /\ Writes(t)
  BY ThreadKnown DEF Update, At, Typed
<1>2. thread[t].val \in 0 .. MaxOps + 1
  BY ThreadKnown
<1>3. \E rec \in SlotRec : SetSlot(t, rec) /\ rec.val = thread[t].val /\ rec.key = SlotAt(t).key
  BY <1>1, <1>2, SlotWith DEF Update
<1>4. last' = [last EXCEPT ![thread[t].key] = thread[t].val]
  BY DEF Update, Stored
<1>5. CASE thread[t].val = Tombstone
  <2>1. Goto(t, "erase")
    BY <1>5 DEF Update
  <2> QED
    BY <1>1, <1>3, <1>4, <1>5, <2>1, GotoKnown DEF Places, Working
<1>6. CASE thread[t].val # Tombstone
  BY <1>1, <1>3, <1>4, <1>6, SuccessKnown DEF Update
<1> QED
  BY <1>5, <1>6

LEMMA EraseKnown ==
    ASSUME Typed, NEW t \in Threads, Erase(t)
    PROVE  /\ thread[t].at = "erase" /\ thread[t].key \in Keys /\ Writes(t) /\ Turned(t, "leave")
           /\ \/ /\ SlotAt(t).key = thread[t].key
                 /\ \E rec \in SlotRec : SetSlot(t, rec) /\ rec.key = INVALID
              \/ segs' = segs
<1>1. thread[t].at = "erase" /\ thread[t].key \in Keys /\ Writes(t)
  BY ThreadKnown DEF Erase, At, Typed
<1>2. Turned(t, "leave")
  BY SuccessKnown DEF Erase
<1>3. CASE SlotAt(t).key = thread[t].key
  <2>1. PICK rec : rec = [SlotAt(t) EXCEPT !.key = INVALID]
    OBVIOUS
  <2>2. rec \in SlotRec /\ rec.key = INVALID
    BY <1>1, <2>1, SlotWith
  <2>3. SetSlot(t, rec)
    BY <1>3, <2>1 DEF Erase
  <2> QED
    BY <1>1, <1>2, <1>3, <2>2, <2>3
<1>4. CASE SlotAt(t).key # thread[t].key
  BY <1>1, <1>2, <1>4 DEF Erase
<1> QED
  BY <1>3, <1>4

\* The places between which a scan with a slot moves.
LEMMA SlotStepsQuiet ==
    ASSUME Typed, NEW t \in Threads,
           Invalidate(t) \/ Wipe(t) \/ Claim(t) \/ Fill(t) \/ Update(t) \/ Erase(t)
    PROVE  Fits(t) /\ Quiet /\ Rest /\ SplitsStay(t) /\ LocksStay(t)
<1>1. /\ thread[t].at \in {"invalidate", "wipe", "claim", "fill", "update", "erase"}
      /\ thread[t].key \in Keys /\ Writes(t)
      /\ \E l \in Working : Turned(t, l)
      /\ (\E rec \in SlotRec : SetSlot(t, rec)) \/ segs' = segs
  BY InvalidateKnown, WipeKnown, ClaimKnown, FillKnown, UpdateKnown, EraseKnown DEF Working
<1>2. UNCHANGED <<depth, dir, used>> /\ sema' = sema
  BY DEF Invalidate, Wipe, Claim, Fill, Update, Erase
<1>3. Quiet
  BY <1>1, <1>2, SlotQuiet DEF Slotted
<1>4. Rest
  <2>1. CASE Invalidate(t) \/ Wipe(t) \/ Claim(t) \/ Erase(t)
    BY <2>1, RestStays DEF Typed, Invalidate, Wipe, Claim, Erase
  <2>2. CASE Fill(t)
    <3>1. last' = [last EXCEPT ![thread[t].key] = thread[t].val] /\ thread[t].val \in 0 .. MaxOps + 1
      BY <2>2, FillKnown, ThreadKnown
    <3>2. last' \in [Keys -> 0 .. MaxOps + 1]
      BY <3>1 DEF Typed
    <3> QED
      BY <2>2, <3>2 DEF Typed, Fill, Rest, Note
  <2>3. CASE Update(t)
    <3>1. last' = [last EXCEPT ![thread[t].key] = thread[t].val] /\ thread[t].val \in 0 .. MaxOps + 1
      BY <2>3, UpdateKnown, ThreadKnown
    <3>2. last' \in [Keys -> 0 .. MaxOps + 1]
      BY <3>1 DEF Typed
    <3> QED
      BY <2>3, <3>2 DEF Typed, Update, Rest
  <2> QED
    BY <2>1, <2>2, <2>3
<1>5. Fits(t) /\ SplitsStay(t) /\ LocksStay(t)
  BY <1>1, <1>2, ScanTurns DEF Working
<1> QED
  BY <1>3, <1>4, <1>5

-----------------------------------------------------------------------------
(* The actions outside of the scan.                                        *)

Beginning(t) == \E k \in Keys : Insert(t, k) \/ Delete(t, k) \/ Get(t, k)

LEMMA BeginKnown ==
    ASSUME Typed, NEW t \in Threads, Beginning(t)
    PROVE  /\ thread[t].at = "idle" /\ thread'[t].at = "target"
           /\ UNCHANGED <<dir_lock, sema, history>>
           /\ Fits(t) /\ Quiet /\ Rest /\ SplitsStay(t) /\ LocksStay(t)
<1>1. PICK k \in Keys, op \in {"Insert", "Get"}, v \in 0 .. MaxOps + 1 : Begin(t, op, k, v)
  <2>1. PICK k \in Keys : Insert(t, k) \/ Delete(t, k) \/ Get(t, k)
    BY DEF Beginning
  <2>2. CASE Insert(t, k)
    <3>1. Begin(t, "Insert", k, ops + 2) /\ ops < MaxOps /\ ops \in 0 .. MaxOps
      BY <2>2 DEF Insert, Begin, Typed
    <3>2. ops + 2 \in 0 .. MaxOps + 1
      BY <3>1, ValuesKnown
    <3> QED
      BY <3>1, <3>2
  <2>3. CASE Delete(t, k)
    BY <2>3, ValuesKnown DEF Delete
  <2>4. CASE Get(t, k)
    BY <2>4, ValuesKnown DEF Get
  <2> QED
    BY <2>1, <2>2, <2>3, <2>4
<1>2. PICK r : r = [Idle EXCEPT !.at = "target", !.op = op, !.key = k, !.val = v]
  OBVIOUS
<1>3. Idle \in ThreadRec /\ Idle.seg = 0
  <2>1. 0 \in SegIds
    BY SegsUsed
  <2>2. 0 \in 0 .. ProbeLength - 1 /\ 0 \in 0 .. MaxOps + 1 /\ 0 \in 0 .. MaxDepth
    BY ValuesKnown, DepthNat
  <2> QED
    BY <2>1, <2>2 DEF Idle, ThreadRec, Places, Tombstone
<1>4. r \in ThreadRec /\ r.at = "target" /\ r.key = k /\ r.seg = 0
  BY <1>2, <1>3 DEF ThreadRec, Places
<1>5. thread[t].at = "idle" /\ To(t, r) /\ UNCHANGED <<tableVars, dir_lock, sema, history>>
  BY <1>1, <1>2 DEF Begin, At
<1>6. ops' \in 0 .. MaxOps
  BY <1>1, ValuesKnown DEF Begin, Typed
<1>7. Quiet
  BY <1>5, TableStays
<1>8. Rest
  BY <1>5, <1>6 DEF Typed, Rest, history
<1>9. /\ thread' \in [Threads -> ThreadRec] /\ thread'[t] = r
      /\ \A u \in Threads : u # t => thread'[u] = thread[u]
  BY <1>4, <1>5, Others
<1>10. Fits(t)
  BY <1>4, <1>9 DEF Fits
<1>11. SplitsStay(t) /\ LocksStay(t)
  BY <1>4, <1>5, <1>9 DEF SplitsStay, LocksStay, Pending, Working, Splitters
<1> QED
  BY <1>4, <1>5, <1>7, <1>8, <1>9, <1>10, <1>11

LEMMA TargetQuiet ==
    ASSUME Typed, NEW t \in Threads, Target(t)
    PROVE  Fits(t) /\ Quiet /\ Rest /\ SplitsStay(t) /\ LocksStay(t)
<1>1. Quiet /\ Rest /\ sema' = sema
  BY TableStays, RestStays DEF Target, Typed
<1>2. thread[t] \in ThreadRec /\ thread[t].at = "target" /\ thread[t].key \in Keys
  BY ThreadKnown DEF Target, At
<1>3. PICK x : x = Prefix(thread[t].key, depth)
  OBVIOUS
<1>4. x \in DOMAIN dir /\ dir[x] \in SegIds
  <2>1. Bits[thread[t].key] \in SegIds /\ x = Top(Bits[thread[t].key], depth)
    BY <1>2, <1>3, BitsLeaf DEF Prefix, Top
  <2>2. x \in DOMAIN dir
    BY <2>1, SegsUsed, TopRange
  <2> QED
    BY <2>2, SegsUsed DEF Typed
<1>5. PICK l \in {"check", "enter"} : l = IF Writes(t) THEN "check" ELSE "enter"
  OBVIOUS
<1>6. PICK r : r = [thread[t] EXCEPT !.seg = dir[x], !.ret = 1, !.i = 0, !.at = l]
  OBVIOUS
<1>7. To(t, r)
  BY <1>3, <1>5, <1>6 DEF Target
<1>8. r \in ThreadRec /\ r.at = l /\ r.key = thread[t].key /\ r.seg = dir[x]
  <2>1. 0 \in 0 .. ProbeLength - 1
    BY ValuesKnown
  <2> QED
    BY <1>2, <1>4, <1>6, <2>1 DEF ThreadRec, Places
<1>9. /\ thread' \in [Threads -> ThreadRec] /\ thread'[t] = r
      /\ \A u \in Threads : u # t => thread'[u] = thread[u]
  BY <1>7, <1>8, Others
<1>10. Fits(t)
  BY <1>2, <1>4, <1>8, <1>9 DEF Fits
<1>11. SplitsStay(t) /\ LocksStay(t)
  BY <1>1, <1>2, <1>8, <1>9 DEF SplitsStay, LocksStay, Pending, Working, Splitters
<1> QED
  BY <1>1, <1>10, <1>11

\* Places outside of the segment and its split.
Waiting == {"target", "check", "depth", "pattern", "enter", "split"}

LEMMA OutsideTurns ==
    ASSUME Typed, NEW t \in Threads, NEW l \in Waiting, Turned(t, l),
           thread[t].at \in Waiting,
           \A g \in SegIds : sema'[g].n = sema[g].n /\ sema'[g].excl = sema[g].excl
    PROVE  Fits(t) /\ SplitsStay(t) /\ LocksStay(t)
<1>1. l \in Places /\ thread[t].key \in Keys
  BY ThreadKnown DEF Places, Waiting
<1>2. Fits(t)
  BY <1>1, TurnFits DEF Waiting
<1>3. SplitsStay(t)
  BY <1>1 DEF SplitsStay, Turned, Pending, Waiting
<1>4. LocksStay(t)
  BY <1>1 DEF LocksStay, Turned, Working, Splitters, Waiting
<1> QED
  BY <1>2, <1>3, <1>4

LEMMA CheckQuiet ==
    ASSUME Typed, NEW t \in Threads, Check(t)
    PROVE  Fits(t) /\ Quiet /\ Rest /\ SplitsStay(t) /\ LocksStay(t)
<1>1. Quiet /\ Rest /\ sema' = sema
  BY TableStays, RestStays DEF Check, Typed
<1>2. thread[t].at = "check"
  BY DEF Check, At
<1>3. PICK l \in {"target", "split", "depth"} : Goto(t, l)
  <2>1. Sema(t) \in LockRec
    BY ThreadKnown DEF Typed, Sema
  <2>2. Sema(t).excl \in BOOLEAN /\ Sema(t).split \in BOOLEAN
    BY <2>1 DEF LockRec
  <2>3. CASE Sema(t).excl
    BY <2>3 DEF Check
  <2>4. CASE ~Sema(t).excl /\ Sema(t).split
    BY <2>4 DEF Check
  <2>5. CASE ~Sema(t).excl /\ ~Sema(t).split
    BY <2>5 DEF Check
  <2> QED
    BY <2>2, <2>3, <2>4, <2>5
<1>4. Turned(t, l)
  BY <1>3, GotoKnown DEF Places
<1> QED
  BY <1>1, <1>2, <1>4, OutsideTurns DEF Waiting

\* The depth that is read, also while a split stores the next one.
LEMMA DepthsKnown ==
    ASSUME Typed, Chosen, NEW t \in Threads, NEW d \in DepthsSeen(thread[t].seg)
    PROVE  d \in 0 .. MaxDepth
<1>1. PICK g, ld : g = thread[t].seg /\ ld = segs[g].local_depth
  OBVIOUS
<1>2. g \in SegIds /\ segs[g] \in SegRec /\ MaxDepth \in Nat
  BY <1>1, ThreadKnown, DepthNat DEF Typed
<1>3. ld \in 0 .. MaxDepth
  BY <1>1, <1>2 DEF SegRec
<1>4. CASE d = ld
  BY <1>3, <1>4
<1>5. CASE d = ld + 1 /\ \E u \in Threads : At(u, "copy") /\ thread[u].seg = g
  <2>1. ld < MaxDepth
    BY <1>1, <1>5 DEF Chosen, Seg
  <2> QED
    BY <1>2, <1>3, <1>5, <2>1
<1> QED
  BY <1>1, <1>4, <1>5 DEF DepthsSeen

LEMMA ReadDepthQuiet ==
    ASSUME Typed, Chosen, NEW t \in Threads, ReadDepth(t)
    PROVE  /\ Fits(t) /\ Quiet /\ Rest /\ SplitsStay(t) /\ LocksStay(t)
           /\ thread'[t].at = "pattern" /\ UNCHANGED <<segs, last>>
<1>1. Quiet /\ Rest /\ sema' = sema /\ UNCHANGED <<segs, last>>
  BY TableStays, RestStays DEF ReadDepth, Typed, tableVars, history
<1>2. thread[t] \in ThreadRec /\ thread[t].at = "depth" /\ thread[t].key \in Keys
  BY ThreadKnown DEF ReadDepth, At
<1>3. PICK d \in DepthsSeen(thread[t].seg) : To(t, [thread[t] EXCEPT !.at = "pattern", !.shift = d])
  BY DEF ReadDepth
<1>4. PICK r : r = [thread[t] EXCEPT !.at = "pattern", !.shift = d]
  OBVIOUS
<1>5. r \in ThreadRec /\ r.at = "pattern" /\ r.key = thread[t].key /\ r.seg = thread[t].seg
  BY <1>2, <1>4, DepthsKnown DEF ThreadRec, Places
<1>6. /\ thread' \in [Threads -> ThreadRec] /\ thread'[t] = r
      /\ \A u \in Threads : u # t => thread'[u] = thread[u]
  BY <1>3, <1>4, <1>5, Others
<1>7. Fits(t)
  BY <1>2, <1>5, <1>6 DEF Fits
<1>8. SplitsStay(t) /\ LocksStay(t)
  BY <1>1, <1>2, <1>5, <1>6 DEF SplitsStay, LocksStay, Pending, Working, Splitters
<1> QED
  BY <1>1, <1>5, <1>6, <1>7, <1>8

LEMMA ReadPatternQuiet ==
    ASSUME Typed, NEW t \in Threads, ReadPattern(t)
    PROVE  /\ Fits(t) /\ Quiet /\ Rest /\ SplitsStay(t) /\ LocksStay(t)
           /\ \E l \in {"enter", "target"} : Turned(t, l)
<1>1. Quiet /\ Rest /\ sema' = sema
  BY TableStays, RestStays DEF ReadPattern, Typed
<1>2. thread[t].at = "pattern"
  BY DEF ReadPattern, At
<1>3. PICK l \in {"enter", "target"} : Goto(t, l)
  BY DEF ReadPattern
<1>4. Turned(t, l)
  BY <1>3, GotoKnown DEF Places
<1> QED
  BY <1>1, <1>2, <1>4, OutsideTurns DEF Waiting

\* The lock of one segment changes.
LEMMA LockSet ==
    ASSUME Typed, NEW g \in SegIds, NEW m \in LockRec, sema' = [sema EXCEPT ![g] = m]
    PROVE  /\ sema' \in [SegIds -> LockRec] /\ sema'[g] = m
           /\ \A h \in SegIds : h # g => sema'[h] = sema[h]
BY DEF Typed

\* An enter that succeeds counts the thread in.
Entered(t) ==
    /\ thread[t].at = "enter" /\ thread[t].key \in Keys /\ Turned(t, "scan")
    /\ ~Sema(t).excl /\ ~Sema(t).split
    /\ sema'[thread[t].seg].n = Sema(t).n + 1 /\ sema'[thread[t].seg].excl = Sema(t).excl
    /\ \A h \in SegIds : h # thread[t].seg => sema'[h] = sema[h]
    /\ stray' = (stray \/ ~Covers(thread[t].seg, thread[t].key))
    /\ late' = (late \/ (Writes(t) /\ Misjudges(t)))
    /\ shared' = (shared \/ (Writes(t) /\ Sema(t).n > 0))

LEMMA EnterQuiet ==
    ASSUME Typed, NEW t \in Threads, Enter(t)
    PROVE  /\ Fits(t) /\ Quiet /\ Rest /\ SplitsStay(t)
           /\ thread[t].at = "enter"
           /\ \/ Entered(t)
              \/ LocksStay(t) /\ \E l \in {"split", "target"} : Turned(t, l)
<1>1. Quiet /\ thread[t].at = "enter" /\ thread[t].key \in Keys
  BY TableStays, ThreadKnown DEF Enter, At
<1>2. PICK g : g = thread[t].seg
  OBVIOUS
<1>3. g \in SegIds /\ sema[g] \in LockRec /\ Sema(t) = sema[g]
  BY <1>2, ThreadKnown DEF Typed, Sema
<1>4. sema[g].n \in Nat /\ sema[g].excl \in BOOLEAN /\ sema[g].split \in BOOLEAN
  BY <1>3 DEF LockRec
<1>5. UNCHANGED <<dir_lock, ops, last, wrapped, doubled>>
      /\ stray' = (stray \/ (sema'[g].n # sema[g].n /\ ~Covers(g, thread[t].key)))
      /\ late' = (late \/ (sema'[g].n # sema[g].n /\ Writes(t) /\ Misjudges(t)))
      /\ shared' = (shared \/ (sema'[g].n # sema[g].n /\ Writes(t) /\ sema[g].n > 0))
  BY <1>2 DEF Enter, Note, tableVars
<1>6. CASE MayEnter(Sema(t))
  <2>1. Goto(t, "scan") /\ sema' = [sema EXCEPT ![g].n = @ + 1]
    BY <1>2, <1>6 DEF Enter
  <2>2. PICK m : m = [sema[g] EXCEPT !.n = sema[g].n + 1]
    OBVIOUS
  <2>3. m \in LockRec /\ m.n = sema[g].n + 1 /\ m.excl = sema[g].excl
    BY <1>3, <1>4, <2>2 DEF LockRec
  <2>4. sema' = [sema EXCEPT ![g] = m]
    BY <2>1, <2>2
  <2>5. sema' \in [SegIds -> LockRec] /\ sema'[g] = m /\ \A h \in SegIds : h # g => sema'[h] = sema[h]
    BY <1>3, <2>3, <2>4, LockSet
  <2>6. Turned(t, "scan")
    BY <2>1, GotoKnown DEF Places, Working
  <2>7. sema'[g].n # sema[g].n
    BY <1>4, <2>3, <2>5
  <2>8. Entered(t)
    BY <1>1, <1>2, <1>3, <1>5, <1>6, <2>3, <2>5, <2>6, <2>7 DEF Entered, MayEnter
  <2>9. Rest
    BY <1>5, <2>5 DEF Typed, Rest
  <2>10. Fits(t)
    BY <1>1, <2>6, TurnFits DEF Places, Working
  <2>11. SplitsStay(t)
    BY <1>1, <2>6 DEF SplitsStay, Turned, Pending
  <2> QED
    BY <1>1, <2>8, <2>9, <2>10, <2>11
<1>7. CASE ~MayEnter(Sema(t))
  <2>1. sema' = sema /\ \E l \in {"split", "target"} : Goto(t, l)
    BY <1>7 DEF Enter
  <2>2. PICK l \in {"split", "target"} : Turned(t, l)
    BY <2>1, GotoKnown DEF Places
  <2>3. Rest
    BY <1>5, <2>1 DEF Typed, Rest
  <2>4. Fits(t) /\ SplitsStay(t) /\ LocksStay(t)
    BY <1>1, <2>1, <2>2, OutsideTurns DEF Waiting
  <2> QED
    BY <1>1, <2>2, <2>3, <2>4
<1> QED
  BY <1>6, <1>7

LEMMA LeaveQuiet ==
    ASSUME Typed, Counted, NEW t \in Threads, Leave(t)
    PROVE  /\ Fits(t) /\ Quiet /\ Rest /\ SplitsStay(t) /\ UNCHANGED <<segs, last, history>>
           /\ thread[t].at = "leave" /\ thread'[t].at \in {"idle", "split"}
           /\ sema'[thread[t].seg].n = Sema(t).n - 1 /\ sema'[thread[t].seg].excl = Sema(t).excl
           /\ \A h \in SegIds : h # thread[t].seg => sema'[h] = sema[h]
<1>1. /\ Quiet /\ thread[t].at = "leave" /\ thread[t].key \in Keys
      /\ UNCHANGED <<segs, last, history, dir_lock, ops>>
  BY TableStays, ThreadKnown DEF Leave, At, tableVars, history
<1>2. PICK g : g = thread[t].seg
  OBVIOUS
<1>3. g \in SegIds /\ sema[g] \in LockRec /\ Sema(t) = sema[g]
  BY <1>2, ThreadKnown DEF Typed, Sema
<1>4. sema[g].n \in Nat /\ sema[g].n # 0
  <2>1. sema[g].n = Cardinality(Inside(g)) /\ t \in Inside(g)
    BY <1>1, <1>2, <1>3 DEF Counted, Inside
  <2>2. IsFiniteSet(Inside(g))
    BY TableBounds, FS_Subset DEF Inside
  <2> QED
    BY <1>3, <2>1, <2>2, FS_EmptySet DEF LockRec
<1>5. PICK m : m = [sema[g] EXCEPT !.n = sema[g].n - 1]
  OBVIOUS
<1>6. m \in LockRec /\ m.n = sema[g].n - 1 /\ m.excl = sema[g].excl
  <2>1. sema[g].n - 1 \in Nat
    BY <1>4
  <2> QED
    BY <1>3, <1>5, <2>1 DEF LockRec
<1>7. sema' = [sema EXCEPT ![g] = m]
  BY <1>2, <1>5 DEF Leave
<1>8. sema' \in [SegIds -> LockRec] /\ sema'[g] = m /\ \A h \in SegIds : h # g => sema'[h] = sema[h]
  BY <1>3, <1>6, <1>7, LockSet
<1>9. Rest
  BY <1>1, <1>8, RestStays
<1>10. Fits(t) /\ SplitsStay(t) /\ thread'[t].at \in {"idle", "split"}
  <2>1. CASE To(t, Idle)
    <3>1. /\ thread' \in [Threads -> ThreadRec] /\ thread'[t].at = "idle" /\ thread'[t].seg = 0
          /\ \A u \in Threads : u # t => thread'[u] = thread[u]
      BY <2>1, IdleKnown
    <3> QED
      BY <1>1, <3>1 DEF Fits, SplitsStay, Pending
  <2>2. CASE Goto(t, "split")
    <3>1. Turned(t, "split") /\ "split" \in Places
      BY <2>2, GotoKnown DEF Places
    <3>2. Fits(t)
      BY <1>1, <3>1, TurnFits
    <3> QED
      BY <1>1, <3>1, <3>2 DEF Turned, SplitsStay, Pending
  <2> QED
    BY <2>1, <2>2 DEF Leave
<1> QED
  BY <1>1, <1>2, <1>3, <1>6, <1>8, <1>9, <1>10

LEMMA CoversHas ==
    ASSUME NEW g, NEW k
    PROVE  Covers(g, k) <=> Has(g, Bits[k])
BY DEF Covers, Has, Prefix, Top

\* The flag of a requested split changes.
LEMMA FlagSet ==
    ASSUME Typed, NEW g \in SegIds, NEW b \in BOOLEAN, sema' = [sema EXCEPT ![g].split = b]
    PROVE  /\ sema' \in [SegIds -> LockRec]
           /\ \A h \in SegIds : sema'[h].n = sema[h].n /\ sema'[h].excl = sema[h].excl
<1>1. PICK m : m = [sema[g] EXCEPT !.split = b]
  OBVIOUS
<1>2. sema[g] \in LockRec
  BY DEF Typed
<1>3. m \in LockRec /\ m.n = sema[g].n /\ m.excl = sema[g].excl
  BY <1>1, <1>2 DEF LockRec
<1>4. sema' = [sema EXCEPT ![g] = m]
  BY <1>1
<1> QED
  BY <1>3, <1>4, LockSet

\* A split that gets the lock finds the segment empty.
Locked(t) ==
    /\ Turned(t, "copy") /\ ~Sema(t).excl /\ Sema(t).n = 0
    /\ sema'[thread[t].seg].n = 0 /\ sema'[thread[t].seg].excl
    /\ \A h \in SegIds : h # thread[t].seg => sema'[h] = sema[h]

LEMMA SplitLockQuiet ==
    ASSUME Typed, NEW t \in Threads, SplitLock(t)
    PROVE  /\ Fits(t) /\ Quiet /\ Rest /\ SplitsStay(t) /\ thread[t].at = "split"
           /\ UNCHANGED <<segs, last, shared, late, wrapped, doubled>>
           /\ thread'[t].at \in {"copy", "target"}
           /\ Locked(t) \/ LocksStay(t)
<1>1. /\ Quiet /\ thread[t].at = "split" /\ thread[t].key \in Keys
      /\ UNCHANGED <<segs, last, shared, late, wrapped, doubled, dir_lock, ops>>
      /\ Seg(t).local_depth < MaxDepth
  BY TableStays, ThreadKnown DEF SplitLock, At, tableVars
<1>2. PICK g : g = thread[t].seg
  OBVIOUS
<1>3. g \in SegIds /\ sema[g] \in LockRec /\ Sema(t) = sema[g]
  BY <1>2, ThreadKnown DEF Typed, Sema
<1>4. sema[g].n \in Nat /\ sema[g].excl \in BOOLEAN /\ sema[g].split \in BOOLEAN
  BY <1>3 DEF LockRec
<1>5. stray' = (stray \/ (Drained(Sema(t)) /\ ~Covers(g, thread[t].key)))
  BY <1>2 DEF SplitLock, Note
<1>6. CASE Drained(Sema(t))
  <2>1. PICK m : m = [n |-> 0, split |-> FALSE, excl |-> TRUE]
    OBVIOUS
  <2>2. m \in LockRec /\ m.n = 0 /\ m.excl
    BY <2>1 DEF LockRec
  <2>3. sema' = [sema EXCEPT ![g] = m] /\ Goto(t, "copy")
    BY <1>2, <1>6, <2>1 DEF SplitLock
  <2>4. sema' \in [SegIds -> LockRec] /\ sema'[g] = m /\ \A h \in SegIds : h # g => sema'[h] = sema[h]
    BY <1>3, <2>2, <2>3, LockSet
  <2>5. Turned(t, "copy") /\ "copy" \in Places
    BY <2>3, GotoKnown DEF Places, Splitters
  <2>6. Locked(t)
    BY <1>2, <1>3, <1>6, <2>2, <2>4, <2>5 DEF Locked, Drained
  <2>7. Rest
    BY <1>1, <1>5, <2>4 DEF Typed, Rest
  <2>8. Fits(t)
    BY <1>1, <2>5, TurnFits
  <2>9. stray' \/ Has(g, Bits[thread[t].key])
    BY <1>5, <1>6, CoversHas
  <2>10. SplitsStay(t)
    BY <1>1, <1>2, <2>5, <2>9 DEF SplitsStay, Turned, Pending
  <2>11. thread'[t].at = "copy"
    BY <2>5 DEF Turned
  <2> QED
    BY <1>1, <2>6, <2>7, <2>8, <2>10, <2>11
<1>7. CASE ~Drained(Sema(t))
  <2>1. PICK b \in BOOLEAN : b = (sema[g].split \/ ~sema[g].excl)
    BY <1>4
  <2>2. sema' = [sema EXCEPT ![g].split = b] /\ Goto(t, "target")
    BY <1>2, <1>3, <1>7, <2>1 DEF SplitLock
  <2>3. /\ sema' \in [SegIds -> LockRec]
        /\ \A h \in SegIds : sema'[h].n = sema[h].n /\ sema'[h].excl = sema[h].excl
    BY <1>3, <2>2, FlagSet
  <2>4. Turned(t, "target")
    BY <2>2, GotoKnown DEF Places
  <2>5. Rest
    BY <1>1, <1>5, <1>7, <2>3 DEF Typed, Rest
  <2>6. Fits(t) /\ SplitsStay(t) /\ LocksStay(t)
    BY <1>1, <2>3, <2>4, OutsideTurns DEF Waiting
  <2>7. thread'[t].at = "target"
    BY <2>4 DEF Turned
  <2> QED
    BY <1>1, <2>5, <2>6, <2>7
<1> QED
  BY <1>6, <1>7

LEMMA SplitBoundQuiet ==
    ASSUME Typed, NEW t \in Threads, SplitBound(t)
    PROVE  Fits(t) /\ Quiet /\ Rest /\ SplitsStay(t) /\ LocksStay(t)
<1>1. /\ Quiet /\ thread[t].at = "split" /\ UNCHANGED <<dir_lock, ops, history>>
      /\ To(t, Idle)
  BY TableStays DEF SplitBound, At
<1>2. /\ sema' \in [SegIds -> LockRec]
      /\ \A h \in SegIds : sema'[h].n = sema[h].n /\ sema'[h].excl = sema[h].excl
  <2>1. sema' = [sema EXCEPT ![thread[t].seg].split = FALSE] /\ thread[t].seg \in SegIds
    BY ThreadKnown DEF SplitBound
  <2> QED
    BY <2>1, FlagSet
<1>3. Rest
  BY <1>1, <1>2, RestStays
<1>4. /\ thread' \in [Threads -> ThreadRec] /\ thread'[t].at = "idle" /\ thread'[t].seg = 0
      /\ \A u \in Threads : u # t => thread'[u] = thread[u]
  BY <1>1, IdleKnown
<1>5. Fits(t) /\ SplitsStay(t) /\ LocksStay(t)
  BY <1>1, <1>2, <1>4 DEF Fits, SplitsStay, LocksStay, Pending, Working, Splitters
<1> QED
  BY <1>1, <1>3, <1>5

LEMMA LockDirQuiet ==
    ASSUME Typed, NEW t \in Threads, LockDir(t)
    PROVE  Fits(t) /\ Quiet /\ Rest /\ SplitsStay(t) /\ LocksStay(t)
<1>1. /\ Quiet /\ thread[t].at = "lockdir" /\ thread[t].key \in Keys
      /\ UNCHANGED <<sema, ops, history>> /\ dir_lock' = TRUE
  BY TableStays, ThreadKnown DEF LockDir, At
<1>2. Rest
  BY <1>1 DEF Typed, Rest, history
<1>3. Turned(t, "dir") /\ "dir" \in Places
  BY GotoKnown DEF LockDir, Places, Splitters
<1>4. Fits(t)
  BY <1>1, <1>3, TurnFits
<1>5. SplitsStay(t) /\ LocksStay(t)
  BY <1>1, <1>3 DEF Turned, SplitsStay, LocksStay, Pending, Working, Splitters
<1> QED
  BY <1>1, <1>2, <1>4, <1>5

LEMMA SplitUnlockQuiet ==
    ASSUME Typed, NEW t \in Threads, SplitUnlock(t)
    PROVE  /\ Fits(t) /\ Quiet /\ Rest /\ SplitsStay(t) /\ UNCHANGED <<segs, last, history>>
           /\ thread[t].at = "unlock" /\ Turned(t, "target")
           /\ sema'[thread[t].seg].n = 0 /\ ~sema'[thread[t].seg].excl
           /\ \A h \in SegIds : h # thread[t].seg => sema'[h] = sema[h]
<1>1. /\ Quiet /\ thread[t].at = "unlock" /\ thread[t].key \in Keys
      /\ UNCHANGED <<segs, last, history, dir_lock, ops>>
  BY TableStays, ThreadKnown DEF SplitUnlock, At, tableVars, history
<1>2. PICK g : g = thread[t].seg
  OBVIOUS
<1>3. g \in SegIds
  BY <1>2, ThreadKnown
<1>4. PICK m : m = [n |-> 0, split |-> FALSE, excl |-> FALSE]
  OBVIOUS
<1>5. m \in LockRec /\ m.n = 0 /\ ~m.excl
  BY <1>4 DEF LockRec
<1>6. sema' = [sema EXCEPT ![g] = m]
  BY <1>2, <1>4 DEF SplitUnlock
<1>7. sema' \in [SegIds -> LockRec] /\ sema'[g] = m /\ \A h \in SegIds : h # g => sema'[h] = sema[h]
  BY <1>3, <1>5, <1>6, LockSet
<1>8. Rest
  BY <1>1, <1>7, RestStays
<1>9. Turned(t, "target") /\ "target" \in Places
  BY GotoKnown DEF SplitUnlock, Places
<1>10. Fits(t)
  BY <1>1, <1>9, TurnFits
<1>11. SplitsStay(t)
  BY <1>1, <1>9 DEF SplitsStay, Turned, Pending
<1> QED
  BY <1>1, <1>2, <1>5, <1>7, <1>8, <1>9, <1>10, <1>11

-----------------------------------------------------------------------------
(* The locks.                                                              *)

LEMMA InsideFinite == \A g : IsFiniteSet(Inside(g))
BY TableBounds, FS_Subset DEF Inside

LEMMA EnterLocks ==
    ASSUME Typed, Counted, Alone, NEW t \in Threads, Fits(t), Entered(t)
    PROVE  Counted' /\ Alone'
<1>1. PICK g : g = thread[t].seg
  OBVIOUS
<1>2. /\ g \in SegIds /\ thread[t].at = "enter" /\ thread'[t].at = "scan" /\ thread'[t].seg = g
      /\ ~sema[g].excl /\ sema'[g].n = sema[g].n + 1 /\ sema'[g].excl = sema[g].excl
      /\ \A h \in SegIds : h # g => sema'[h] = sema[h]
      /\ \A u \in Threads : u # t => thread'[u] = thread[u]
  BY <1>1, ThreadKnown DEF Entered, Turned, Sema
<1>3. Inside(g)' = Inside(g) \cup {t} /\ t \notin Inside(g) /\ \A h : h # g => Inside(h)' = Inside(h)
  BY <1>1, <1>2 DEF Inside
<1>4. Cardinality(Inside(g)') = Cardinality(Inside(g)) + 1
  BY <1>3, InsideFinite, FS_AddElement
<1>5. Counted'
  BY <1>2, <1>3, <1>4 DEF Counted
<1>6. \A u \in Threads : thread'[u].at \in Splitters =>
          thread[u].at \in Splitters /\ thread'[u].seg = thread[u].seg
  BY <1>2 DEF Splitters
<1>7. \A h \in SegIds : sema'[h].excl = sema[h].excl
  BY <1>2
<1>8. \A u \in Threads : thread'[u].at \in Splitters => sema'[thread'[u].seg].excl
  BY <1>6, <1>7, ThreadKnown DEF Alone
<1>9. ASSUME NEW h \in SegIds, sema'[h].excl
      PROVE  Inside(h)' = {} /\ \E u \in Threads : thread'[u].at \in Splitters /\ thread'[u].seg = h
  <2>1. h # g /\ sema[h].excl
    BY <1>2, <1>7, <1>9
  <2>2. Inside(h) = {} /\ \E u \in Threads : thread[u].at \in Splitters /\ thread[u].seg = h
    BY <2>1 DEF Alone
  <2>3. thread[t].at \notin Splitters
    BY <1>2 DEF Splitters
  <2> QED
    BY <1>2, <1>3, <2>1, <2>2, <2>3
<1>10. \A u, w \in Threads :
         thread'[u].at \in Splitters /\ thread'[w].at \in Splitters /\ thread'[u].seg = thread'[w].seg => u = w
  BY <1>6 DEF Alone
<1> QED
  BY <1>5, <1>8, <1>9, <1>10 DEF Alone

LEMMA LeaveLocks ==
    ASSUME Typed, Counted, Alone, NEW t \in Threads, Leave(t)
    PROVE  Counted' /\ Alone'
<1>1. PICK g : g = thread[t].seg
  OBVIOUS
<1>2. /\ g \in SegIds /\ thread[t].at = "leave" /\ thread'[t].at \in {"idle", "split"}
      /\ sema'[g].n = sema[g].n - 1 /\ sema'[g].excl = sema[g].excl
      /\ \A h \in SegIds : h # g => sema'[h] = sema[h]
      /\ \A u \in Threads : u # t => thread'[u] = thread[u]
  BY <1>1, ThreadKnown, LeaveQuiet DEF Fits, Sema
<1>3. Inside(g)' = Inside(g) \ {t} /\ t \in Inside(g) /\ \A h : h # g => Inside(h)' = Inside(h)
  BY <1>1, <1>2 DEF Inside
<1>4. Cardinality(Inside(g)') = Cardinality(Inside(g)) - 1
  BY <1>3, InsideFinite, FS_RemoveElement
<1>5. Counted'
  BY <1>2, <1>3, <1>4 DEF Counted
<1>6. \A u \in Threads : /\ thread'[u].at \in Splitters <=> thread[u].at \in Splitters
                         /\ thread'[u].at \in Splitters => thread'[u].seg = thread[u].seg
  BY <1>2 DEF Splitters
<1>7. \A h \in SegIds : sema'[h].excl = sema[h].excl
  BY <1>2
<1>8. \A u \in Threads : thread'[u].at \in Splitters => sema'[thread'[u].seg].excl
  BY <1>6, <1>7, ThreadKnown DEF Alone
<1>9. \A h \in SegIds : sema'[h].excl =>
        Inside(h)' = {} /\ \E u \in Threads : thread'[u].at \in Splitters /\ thread'[u].seg = h
  BY <1>3, <1>6, <1>7 DEF Alone
<1>10. \A u, w \in Threads :
         thread'[u].at \in Splitters /\ thread'[w].at \in Splitters /\ thread'[u].seg = thread'[w].seg => u = w
  BY <1>6 DEF Alone
<1> QED
  BY <1>5, <1>8, <1>9, <1>10 DEF Alone

LEMMA LockLocks ==
    ASSUME Typed, Counted, Alone, NEW t \in Threads, thread[t].at = "split", Locked(t)
    PROVE  Counted' /\ Alone'
<1>1. PICK g : g = thread[t].seg
  OBVIOUS
<1>2. /\ g \in SegIds /\ thread'[t].at = "copy" /\ thread'[t].seg = g
      /\ ~sema[g].excl /\ sema[g].n = 0 /\ sema'[g].n = 0 /\ sema'[g].excl
      /\ \A h \in SegIds : h # g => sema'[h] = sema[h]
      /\ \A u \in Threads : u # t => thread'[u] = thread[u]
  BY <1>1, ThreadKnown DEF Locked, Turned, Sema
<1>3. \A h : Inside(h)' = Inside(h)
  BY <1>2 DEF Inside
<1>4. Inside(g) = {}
  BY <1>2, InsideFinite, FS_EmptySet DEF Counted
<1>5. Counted'
  BY <1>2, <1>3 DEF Counted
<1>6. \A u \in Threads : u # t => /\ thread'[u].at \in Splitters <=> thread[u].at \in Splitters
                                  /\ thread'[u].seg = thread[u].seg
  BY <1>2
<1>7. \A u \in Threads : thread[u].at \in Splitters => thread[u].seg # g
  BY <1>2 DEF Alone
<1>8. \A u \in Threads : thread'[u].at \in Splitters => sema'[thread'[u].seg].excl
  BY <1>2, <1>6, <1>7, ThreadKnown DEF Alone
<1>9. ASSUME NEW h \in SegIds, sema'[h].excl
      PROVE  Inside(h)' = {} /\ \E u \in Threads : thread'[u].at \in Splitters /\ thread'[u].seg = h
  <2>1. CASE h = g
    BY <1>2, <1>3, <1>4, <2>1 DEF Splitters
  <2>2. CASE h # g
    <3>1. Inside(h) = {} /\ \E u \in Threads : thread[u].at \in Splitters /\ thread[u].seg = h
      BY <1>2, <1>9, <2>2 DEF Alone
    <3>2. thread[t].at \notin Splitters
      BY DEF Splitters
    <3> QED
      BY <1>3, <1>6, <3>1, <3>2
  <2> QED
    BY <2>1, <2>2
<1>10. \A u, w \in Threads :
         thread'[u].at \in Splitters /\ thread'[w].at \in Splitters /\ thread'[u].seg = thread'[w].seg => u = w
  BY <1>2, <1>6, <1>7 DEF Alone
<1> QED
  BY <1>5, <1>8, <1>9, <1>10 DEF Alone

LEMMA UnlockLocks ==
    ASSUME Typed, Counted, Alone, NEW t \in Threads, SplitUnlock(t)
    PROVE  Counted' /\ Alone'
<1>1. PICK g : g = thread[t].seg
  OBVIOUS
<1>2. /\ g \in SegIds /\ thread[t].at = "unlock" /\ thread'[t].at = "target"
      /\ sema'[g].n = 0 /\ ~sema'[g].excl
      /\ \A h \in SegIds : h # g => sema'[h] = sema[h]
      /\ \A u \in Threads : u # t => thread'[u] = thread[u]
  BY <1>1, ThreadKnown, SplitUnlockQuiet DEF Turned
<1>3. \A h : Inside(h)' = Inside(h)
  BY <1>2 DEF Inside
<1>4. thread[t].at \in Splitters /\ thread'[t].at \notin Splitters /\ sema[g].excl
  BY <1>1, <1>2 DEF Splitters, Alone
<1>5. Inside(g) = {}
  BY <1>2, <1>4 DEF Alone
<1>6. Counted'
  BY <1>2, <1>3, <1>5, FS_EmptySet DEF Counted
<1>7. \A u \in Threads : u # t => /\ thread'[u] = thread[u]
                                  /\ thread[u].at \in Splitters => thread[u].seg # g
  BY <1>1, <1>2, <1>4 DEF Alone
<1>8. \A u \in Threads : thread'[u].at \in Splitters => sema'[thread'[u].seg].excl
  BY <1>2, <1>4, <1>7, ThreadKnown DEF Alone
<1>9. ASSUME NEW h \in SegIds, sema'[h].excl
      PROVE  Inside(h)' = {} /\ \E u \in Threads : thread'[u].at \in Splitters /\ thread'[u].seg = h
  <2>1. h # g /\ sema[h].excl
    BY <1>2, <1>9
  <2>2. Inside(h) = {} /\ \E u \in Threads : thread[u].at \in Splitters /\ thread[u].seg = h
    BY <2>1 DEF Alone
  <2> QED
    BY <1>1, <1>3, <1>7, <2>1, <2>2
<1>10. \A u, w \in Threads :
         thread'[u].at \in Splitters /\ thread'[w].at \in Splitters /\ thread'[u].seg = thread'[w].seg => u = w
  BY <1>4, <1>7 DEF Alone
<1> QED
  BY <1>6, <1>8, <1>9, <1>10 DEF Alone

-----------------------------------------------------------------------------
(* What Copied computes.                                                   *)

SlotArrays == [Slots -> SlotRec]

IsCopy(w, slots, ld, n) ==
    w = [i \in 0 .. n |-> IF i = 0 THEN EmptySlots
                          ELSE IF Moves(slots[i - 1].key, ld) THEN Insert4split(w[i - 1], slots[i - 1])
                          ELSE w[i - 1]]

LEMMA CopyExists ==
    ASSUME NEW slots, NEW ld, NEW n \in Nat
    PROVE  \E w : IsCopy(w, slots, ld, n)
<1> DEFINE F(x, i) == IF Moves(slots[i - 1].key, ld) THEN Insert4split(x, slots[i - 1]) ELSE x
           S == {i \in Nat : \E w : IsCopy(w, slots, ld, i)}
<1>1. 0 \in S
  <2> DEFINE w == [j \in 0 .. 0 |-> EmptySlots]
  <2>1. IsCopy(w, slots, ld, 0)
    BY DEF IsCopy
  <2> QED
    BY <2>1
<1>2. ASSUME NEW i \in 0 .. n - 1, i \in S PROVE i + 1 \in S
  <2>1. PICK w : IsCopy(w, slots, ld, i)
    BY <1>2
  <2> DEFINE v == [j \in 0 .. i + 1 |-> IF j = i + 1 THEN F(w[i], i + 1) ELSE w[j]]
  <2>2. \A j \in 0 .. i : w[j] = IF j = 0 THEN EmptySlots ELSE F(w[j - 1], j)
    BY <2>1 DEF IsCopy
  <2> HIDE DEF F
  <2>3. \A j \in 0 .. i + 1 : v[j] = IF j = 0 THEN EmptySlots ELSE F(v[j - 1], j)
    <3> SUFFICES ASSUME NEW j \in 0 .. i + 1
                 PROVE  v[j] = IF j = 0 THEN EmptySlots ELSE F(v[j - 1], j)
      OBVIOUS
    <3>1. CASE j = i + 1
      <4>1. j # 0 /\ j - 1 = i /\ v[i] = w[i] /\ v[j] = F(w[i], i + 1)
        BY <3>1
      <4> QED
        BY <4>1, <3>1
    <3>2. CASE j \in 1 .. i
      <4>1. j # 0 /\ j # i + 1 /\ j - 1 # i + 1 /\ j - 1 \in 0 .. i + 1 /\ v[j] = w[j] /\ v[j-1] = w[j-1]
        BY <3>2
      <4> QED
        BY <4>1, <3>2, <2>2
    <3>3. CASE j = 0
      <4>1. v[0] = w[0]
        OBVIOUS
      <4> QED
        BY <4>1, <3>3, <2>2
    <3> QED
      BY <3>1, <3>2, <3>3
  <2>4. v = [j \in 0 .. i + 1 |-> v[j]]
    OBVIOUS
  <2> HIDE DEF v
  <2>5. v = [j \in 0 .. i + 1 |-> IF j = 0 THEN EmptySlots ELSE F(v[j - 1], j)]
    BY <2>3, <2>4
  <2>6. IsCopy(v, slots, ld, i + 1)
    BY <2>5 DEF IsCopy, F
  <2> QED
    BY <2>6
<1> HIDE DEF S
<1>3. n \in S
  BY <1>1, <1>2, Climb
<1> QED
  BY <1>3 DEF S

LEMMA CopyWalk ==
    ASSUME NEW slots, NEW ld
    PROVE  \E w : IsCopy(w, slots, ld, kNumSlot) /\ Copied(slots, ld) = w[kNumSlot]
<1> DEFINE w == CHOOSE v : v = [i \in 0 .. kNumSlot |->
                   IF i = 0 THEN EmptySlots
                   ELSE IF Moves(slots[i - 1].key, ld) THEN Insert4split(v[i - 1], slots[i - 1])
                   ELSE v[i - 1]]
<1>1. Copied(slots, ld) = w[kNumSlot]
  BY DEF Copied
<1>2. \E v : IsCopy(v, slots, ld, kNumSlot)
  BY ValuesKnown, CopyExists
<1>3. IsCopy(w, slots, ld, kNumSlot)
  BY <1>2 DEF IsCopy
<1> QED
  BY <1>1, <1>3

\* Step by step.
LEMMA CopySteps ==
    ASSUME NEW slots, NEW ld
    PROVE  \E w : /\ w[0] = EmptySlots /\ Copied(slots, ld) = w[kNumSlot]
                  /\ \A i \in 0 .. kNumSlot - 1 :
                       w[i + 1] = IF Moves(slots[i].key, ld) THEN Insert4split(w[i], slots[i]) ELSE w[i]
<1>1. PICK w : IsCopy(w, slots, ld, kNumSlot) /\ Copied(slots, ld) = w[kNumSlot]
  BY CopyWalk
<1>2. kNumSlot \in Nat
  BY ValuesKnown
<1> DEFINE F(x, i) == IF Moves(slots[i - 1].key, ld) THEN Insert4split(x, slots[i - 1]) ELSE x
<1>3. \A i \in 0 .. kNumSlot : w[i] = IF i = 0 THEN EmptySlots ELSE F(w[i - 1], i)
  BY <1>1 DEF IsCopy
<1> HIDE DEF F
<1>4. w[0] = EmptySlots
  BY <1>2, <1>3
<1>5. ASSUME NEW i \in 0 .. kNumSlot - 1 PROVE w[i + 1] = F(w[i], i + 1)
  <2>1. i + 1 \in 0 .. kNumSlot /\ i + 1 # 0 /\ (i + 1) - 1 = i
    BY <1>2
  <2>2. w[i + 1] = F(w[(i + 1) - 1], i + 1)
    BY <1>3, <2>1
  <2> QED
    BY <2>1, <2>2
<1>6. \A i \in 0 .. kNumSlot - 1 : F(w[i], i + 1) = IF Moves(slots[i].key, ld) THEN Insert4split(w[i], slots[i]) ELSE w[i]
  <2> SUFFICES ASSUME NEW i \in 0 .. kNumSlot - 1
               PROVE  F(w[i], i + 1) = IF Moves(slots[i].key, ld) THEN Insert4split(w[i], slots[i]) ELSE w[i]
    OBVIOUS
  <2>1. (i + 1) - 1 = i
    BY <1>2
  <2> QED
    BY <2>1 DEF F
<1> QED
  BY <1>1, <1>4, <1>5, <1>6

\* Where a copied entry goes: to the first free slot of its window, if it has one.
LEMMA InsertKnown ==
    ASSUME NEW acc \in SlotArrays, NEW rec \in SlotRec, rec.key \in Keys
    PROVE  /\ Insert4split(acc, rec) \in SlotArrays
           /\ \/ /\ Insert4split(acc, rec) = acc
                 /\ \A j \in 0 .. ProbeLength - 1 : acc[Window(rec.key)[j]].key # INVALID
              \/ \E j \in 0 .. ProbeLength - 1 :
                   /\ acc[Window(rec.key)[j]].key = INVALID
                   /\ \A l \in 0 .. ProbeLength - 1 : acc[Window(rec.key)[l]].key = INVALID => j <= l
                   /\ Insert4split(acc, rec)[Window(rec.key)[j]] = rec
                   /\ \A s \in Slots : s # Window(rec.key)[j] => Insert4split(acc, rec)[s] = acc[s]
<1> DEFINE at(j) == (Loc[rec.key] + j) % kNumSlot
           room  == {j \in 0 .. ProbeLength - 1 : acc[at(j)].key = INVALID}
<1>1. Loc[rec.key] \in Nat /\ kNumSlot \in Nat \ {0} /\ ProbeLength \in Nat
  BY ValuesKnown, TableAssumption DEF Slots
<1>2. \A j \in 0 .. ProbeLength - 1 : at(j) \in Slots /\ Window(rec.key)[j] = at(j)
  BY <1>1 DEF Slots, Window
<1>3. CASE room = {}
  <2>1. Insert4split(acc, rec) = acc
    BY <1>3 DEF Insert4split
  <2>2. \A j \in 0 .. ProbeLength - 1 : acc[at(j)].key # INVALID
    BY <1>3
  <2> HIDE DEF at
  <2> QED
    BY <1>2, <2>1, <2>2
<1>4. CASE room # {}
  <2> DEFINE c == CHOOSE j \in room : \A l \in room : j <= l
  <2>1. room \in SUBSET Nat
    BY <1>1
  <2>2. \E j \in room : \A l \in room : j <= l
    BY <1>4, <2>1, LeastExists
  <2>3. c \in room /\ \A l \in room : c <= l
    BY <2>2
  <2>4. Insert4split(acc, rec) = [acc EXCEPT ![at(c)] = rec]
    BY <1>4 DEF Insert4split
  <2> HIDE DEF c
  <2>5. c \in 0 .. ProbeLength - 1 /\ acc[at(c)].key = INVALID
    BY <2>3
  <2>6. \A l \in 0 .. ProbeLength - 1 : acc[at(l)].key = INVALID => c <= l
    BY <2>3
  <2> HIDE DEF at
  <2>7. at(c) \in Slots
    BY <1>2, <2>5
  <2>8. /\ Insert4split(acc, rec) \in SlotArrays /\ Insert4split(acc, rec)[at(c)] = rec
        /\ \A s \in Slots : s # at(c) => Insert4split(acc, rec)[s] = acc[s]
    BY <2>4, <2>7 DEF SlotArrays
  <2> QED
    BY <1>2, <2>5, <2>6, <2>8
<1> QED
  BY <1>3, <1>4

LEMMA MovesKey ==
    ASSUME NEW k \in Keys \cup {INVALID, SENTINEL}, NEW ld, Moves(k, ld)
    PROVE  k \in Keys
BY DEF Moves

LEMMA EmptyTyped == EmptySlots \in SlotArrays /\ \A s \in Slots : EmptySlots[s].key = INVALID
BY ValuesKnown DEF EmptySlots, SlotArrays, SlotRec

LEMMA CopiedTyped ==
    ASSUME NEW slots \in SlotArrays, NEW ld
    PROVE  Copied(slots, ld) \in SlotArrays
<1>1. PICK w : /\ w[0] = EmptySlots /\ Copied(slots, ld) = w[kNumSlot]
               /\ \A i \in 0 .. kNumSlot - 1 :
                    w[i + 1] = IF Moves(slots[i].key, ld) THEN Insert4split(w[i], slots[i]) ELSE w[i]
  BY CopySteps
<1>2. kNumSlot \in Nat
  BY ValuesKnown
<1> DEFINE S == {i \in Nat : w[i] \in SlotArrays}
<1>3. 0 \in S
  BY <1>1, EmptyTyped
<1>4. ASSUME NEW i \in 0 .. kNumSlot - 1, i \in S PROVE i + 1 \in S
  <2>1. slots[i] \in SlotRec /\ slots[i].key \in Keys \cup {INVALID, SENTINEL}
    BY <1>2 DEF SlotArrays, Slots, SlotRec
  <2>2. w[i] \in SlotArrays
    BY <1>4
  <2>3. w[i + 1] \in SlotArrays
    <3>1. CASE Moves(slots[i].key, ld)
      <4>1. slots[i].key \in Keys
        BY <2>1, <3>1, MovesKey
      <4> QED
        BY <1>1, <2>1, <2>2, <3>1, <4>1, InsertKnown
    <3>2. CASE ~Moves(slots[i].key, ld)
      BY <1>1, <2>2, <3>2
    <3> QED
      BY <3>1, <3>2
  <2> QED
    BY <2>3
<1> HIDE DEF S
<1>5. kNumSlot \in S
  BY <1>2, <1>3, <1>4, Climb
<1> QED
  BY <1>1, <1>5 DEF S

-----------------------------------------------------------------------------
(* A split.                                                                *)

LEMMA LeafOfSegment ==
    ASSUME Typed, NEW g \in 0 .. used - 1
    PROVE  \E z \in SegIds : Has(g, z)
<1>1. segs[g].local_depth \in 0 .. MaxDepth /\ segs[g].pattern \in 0 .. Pow2[segs[g].local_depth] - 1
  BY DepthNat DEF Typed
<1> QED
  BY <1>1, TopLeaf DEF Has

\* Both children of the pattern of a segment have hashes.
LEMMA TwoLeaves ==
    ASSUME Typed, NEW g \in 0 .. used - 1, segs[g].local_depth < MaxDepth
    PROVE  \E y, z \in SegIds : Has(g, y) /\ Has(g, z) /\ y # z
<1>1. PICK d, p : d = segs[g].local_depth /\ p = segs[g].pattern
  OBVIOUS
<1>2. d \in 0 .. MaxDepth - 1 /\ p \in 0 .. Pow2[d] - 1 /\ d + 1 \in 0 .. MaxDepth
  BY <1>1, DepthNat DEF Typed
<1>3. Pow2[d] \in Nat \ {0} /\ Pow2[d + 1] = 2 * Pow2[d]
  BY <1>2, PowAt
<1>4. 2 * p \in 0 .. Pow2[d + 1] - 1 /\ 2 * p + 1 \in 0 .. Pow2[d + 1] - 1
  BY <1>2, <1>3
<1>5. PICK y \in SegIds : Top(y, d + 1) = 2 * p
  BY <1>2, <1>4, TopLeaf
<1>6. PICK z \in SegIds : Top(z, d + 1) = 2 * p + 1
  BY <1>2, <1>4, TopLeaf
<1>7. Top(y, d) = (2 * p) \div 2 /\ Top(z, d) = (2 * p + 1) \div 2
  BY <1>2, <1>5, <1>6, TopStep, LeafNat
<1>8. Top(y, d) = p /\ Top(z, d) = p /\ 2 * p # 2 * p + 1
  BY <1>2, <1>3, <1>7
<1> QED
  BY <1>1, <1>5, <1>6, <1>8 DEF Has

\* There is room for another segment, as there is a hash for each.
LEMMA Room ==
    ASSUME Typed, Apart, NEW g \in 0 .. used - 1, segs[g].local_depth < MaxDepth
    PROVE  used \in 0 .. Pow2[MaxDepth] - 1
<1> SUFFICES ASSUME used = Pow2[MaxDepth] PROVE FALSE
  BY SegsUsed, DepthNat, PowNat
<1>1. used \in Nat /\ SegIds = 0 .. used - 1
  BY SegsUsed DEF SegIds
<1>2. PICK y, z \in SegIds : Has(g, y) /\ Has(g, z) /\ y # z
  BY TwoLeaves
<1>3. PICK c : c = [h \in 0 .. used - 1 |-> CHOOSE x \in SegIds : Has(h, x)]
  OBVIOUS
<1>4. \A h \in 0 .. used - 1 : c[h] \in SegIds /\ Has(h, c[h])
  <2> SUFFICES ASSUME NEW h \in 0 .. used - 1 PROVE c[h] \in SegIds /\ Has(h, c[h])
    OBVIOUS
  <2>1. \E x \in SegIds : Has(h, x)
    BY LeafOfSegment
  <2> QED
    BY <1>3, <2>1
<1>5. PICK f : f = [h \in 0 .. used |-> IF h = used THEN y ELSE IF h = g THEN z ELSE c[h]]
  OBVIOUS
<1>6. f \in [0 .. used -> SegIds]
  <2>1. \A h \in 0 .. used : h # used => h \in 0 .. used - 1
    BY <1>1
  <2> QED
    BY <1>2, <1>4, <1>5, <2>1
<1>7. /\ IsFiniteSet(0 .. used) /\ IsFiniteSet(SegIds) /\ Cardinality(SegIds) < Cardinality(0 .. used)
  <2>1. 0 \in Int /\ used \in Int /\ used - 1 \in Int /\ ~(0 > used)
    BY <1>1
  <2>2. used >= 1 /\ used \in Nat
    BY SegsUsed
  <2>3. IsFiniteSet(0 .. used) /\ Cardinality(0 .. used) = used - 0 + 1
    BY <2>1, FS_Interval
  <2>4. IsFiniteSet(0 .. used - 1) /\ Cardinality(0 .. used - 1) = used - 1 - 0 + 1
    <3>1. ~(0 > used - 1)
      BY <2>2
    <3> QED
      BY <2>1, <3>1, FS_Interval
  <2>5. used - 0 + 1 = used + 1 /\ used - 1 - 0 + 1 = used /\ used < used + 1
    BY <2>2
  <2> QED
    BY <1>1, <2>3, <2>4, <2>5
<1>8. PICK h, r \in 0 .. used : h # r /\ f[h] = f[r]
  BY <1>6, <1>7, FS_PigeonHole, ZenonT(40)
<1>9. \A q \in 0 .. used - 1 : f[q] \in SegIds /\ Has(q, f[q]) /\ f[q] # y
  <2> SUFFICES ASSUME NEW q \in 0 .. used - 1 PROVE f[q] \in SegIds /\ Has(q, f[q]) /\ f[q] # y
    OBVIOUS
  <2>1. q # used /\ q \in 0 .. used
    BY <1>1
  <2>2. CASE q = g
    BY <1>2, <1>5, <2>1, <2>2
  <2>3. CASE q # g
    <3>1. f[q] = c[q] /\ Has(q, c[q]) /\ c[q] \in SegIds
      BY <1>4, <1>5, <2>1, <2>3
    <3>2. c[q] # y
      BY <1>2, <2>3, <3>1 DEF Apart
    <3> QED
      BY <3>1, <3>2
  <2> QED
    BY <2>2, <2>3
<1>10. f[used] = y
  BY <1>1, <1>5
<1>11. h \in 0 .. used - 1 /\ r \in 0 .. used - 1
  BY <1>1, <1>8, <1>9, <1>10
<1> QED
  BY <1>8, <1>9, <1>11 DEF Apart

\* The segments after the copy: g keeps the lower half, n takes the upper one.
InTwo(t, g, n) ==
    LET ld == segs[g].local_depth
        p  == Top(Bits[thread[t].key], ld)
    IN  /\ segs'[g].local_depth = ld + 1 /\ segs'[g].pattern = 2 * p /\ segs'[g].slots = segs[g].slots
        /\ segs'[n].local_depth = ld + 1 /\ segs'[n].pattern = 2 * p + 1
        /\ segs'[n].slots = Copied(segs[g].slots, ld)
        /\ \A h \in SegIds : h # g /\ h # n => segs'[h] = segs[h]

LEMMA SplitCopyKnown ==
    ASSUME Typed, Apart, Chosen, NEW t \in Threads, SplitCopy(t)
    PROVE  /\ thread[t].at = "copy" /\ thread[t].key \in Keys /\ ~stray
           /\ thread' \in [Threads -> ThreadRec]
           /\ thread'[t].at = "lockdir" /\ thread'[t].new = used /\ thread'[t].seg = thread[t].seg
           /\ thread'[t].key = thread[t].key /\ thread'[t].op = thread[t].op
           /\ \A u \in Threads : u # t => thread'[u] = thread[u]
           /\ thread[t].seg \in 0 .. used - 1 /\ used \in 1 .. Pow2[MaxDepth] - 1
           /\ segs[thread[t].seg].local_depth \in InitDepth .. MaxDepth - 1
           /\ segs[thread[t].seg].pattern = Top(Bits[thread[t].key], segs[thread[t].seg].local_depth)
           /\ segs[thread[t].seg].slots \in SlotArrays
           /\ segs' \in [SegIds -> SegRec]
           /\ InTwo(t, thread[t].seg, used)
           /\ used' = used + 1
           /\ UNCHANGED <<depth, dir, dir_lock, sema, ops, last, shared, stray, late, doubled>>
           /\ wrapped' = (wrapped \/ PastEnd(segs[thread[t].seg].slots))
<1>1. PICK g : g = thread[t].seg
  OBVIOUS
<1>2. PICK ld, p : ld = segs[g].local_depth /\ p = 2 * Top(Bits[thread[t].key], ld)
  OBVIOUS
<1>3. /\ thread[t].at = "copy" /\ thread[t].key \in Keys /\ ~stray /\ g \in 0 .. used - 1 /\ g \in SegIds
      /\ thread[t] \in ThreadRec
  BY <1>1, ThreadKnown DEF SplitCopy, At
<1>4. ld < MaxDepth /\ Has(g, Bits[thread[t].key])
  BY <1>1, <1>2, <1>3 DEF Chosen, At, Seg
<1>5. ld \in InitDepth .. MaxDepth - 1 /\ ld \in 0 .. MaxDepth
  BY <1>2, <1>3, <1>4, DepthNat DEF Typed
<1>6. used \in 0 .. Pow2[MaxDepth] - 1 /\ used >= 1 /\ used \in Nat /\ used \in SegIds
  BY <1>2, <1>3, <1>4, Room, SegsUsed DEF SegIds
<1>7. PICK r : r = [thread[t] EXCEPT !.at = "lockdir", !.new = used]
  OBVIOUS
<1>8. r \in ThreadRec /\ r.at = "lockdir" /\ r.new = used
  BY <1>3, <1>6, <1>7 DEF ThreadRec, Places, Splitters
<1>9. r.seg = g /\ r.key = thread[t].key /\ r.op = thread[t].op
  BY <1>1, <1>3, <1>7 DEF ThreadRec
<1>10. /\ thread' \in [Threads -> ThreadRec] /\ thread'[t] = r
       /\ \A u \in Threads : u # t => thread'[u] = thread[u]
  <2>1. To(t, r)
    BY <1>7 DEF SplitCopy
  <2> QED
    BY <1>8, <2>1, Others
<1>11. segs[g] \in SegRec /\ segs[g].slots \in SlotArrays
  <2>1. segs[g] \in SegRec
    BY <1>3 DEF Typed
  <2> QED
    BY <2>1 DEF SegRec, SlotArrays
<1>12. p \in Nat /\ ld + 1 \in 0 .. MaxDepth
  <2>1. Bits[thread[t].key] \in Nat
    BY <1>3, BitsLeaf, LeafNat
  <2>2. Top(Bits[thread[t].key], ld) \in Nat
    BY <1>5, <2>1, TopNat
  <2> QED
    BY <1>2, <1>5, <2>2, DepthNat
<1>13. PICK a : a = [segs[g] EXCEPT !.local_depth = ld + 1, !.pattern = p]
  OBVIOUS
<1>14. a \in SegRec /\ a.local_depth = ld + 1 /\ a.pattern = p /\ a.slots = segs[g].slots
  BY <1>11, <1>12, <1>13 DEF SegRec
<1>15. PICK cs : cs = Copied(segs[g].slots, ld)
  OBVIOUS
<1>16. PICK b : b = [local_depth |-> ld + 1, pattern |-> p + 1, slots |-> cs]
  OBVIOUS
<1>17. b \in SegRec /\ b.local_depth = ld + 1 /\ b.pattern = p + 1 /\ b.slots = cs
  <2>1. cs \in SlotArrays
    BY <1>11, <1>15, CopiedTyped
  <2> QED
    BY <1>12, <1>16, <2>1 DEF SegRec, SlotArrays
<1>18. segs' = [segs EXCEPT ![g] = a, ![used] = b]
  <2>1. 2 * Prefix(thread[t].key, ld) = p
    BY <1>2 DEF Prefix, Top
  <2> QED
    BY <1>1, <1>2, <1>13, <1>15, <1>16, <2>1 DEF SplitCopy, Seg
<1>19. /\ segs' \in [SegIds -> SegRec] /\ segs'[g] = a /\ segs'[used] = b
       /\ \A h \in SegIds : h # g /\ h # used => segs'[h] = segs[h]
  <2>1. g # used /\ segs \in [SegIds -> SegRec]
    BY <1>3, <1>6 DEF Typed
  <2> QED
    BY <1>3, <1>6, <1>14, <1>17, <1>18, <2>1
<1>20. InTwo(t, g, used)
  BY <1>2, <1>14, <1>15, <1>17, <1>19 DEF InTwo
<1>21. /\ used' = used + 1
       /\ UNCHANGED <<depth, dir, dir_lock, sema, ops, last, shared, stray, late, doubled>>
       /\ wrapped' = (wrapped \/ PastEnd(segs[g].slots))
  BY <1>1 DEF SplitCopy, Note, Seg
<1>22. segs[g].pattern = Top(Bits[thread[t].key], ld)
  BY <1>2, <1>4 DEF Has
<1> QED
  BY <1>1, <1>2, <1>3, <1>5, <1>6, <1>8, <1>9, <1>10, <1>11, <1>19, <1>20, <1>21, <1>22

\* The hashes of a split segment go to its two halves.
LEMMA HalvesHas ==
    ASSUME Typed, NEW t \in Threads, thread[t].key \in Keys, NEW g \in 0 .. used - 1, NEW n \in SegIds,
           segs[g].local_depth \in 0 .. MaxDepth - 1,
           segs[g].pattern = Top(Bits[thread[t].key], segs[g].local_depth),
           InTwo(t, g, n), g # n
    PROVE  /\ \A z \in SegIds : /\ Has(g, z) <=> Has(g, z)' \/ Has(n, z)'
                                /\ ~(Has(g, z)' /\ Has(n, z)')
                                /\ \A h \in SegIds : h # g /\ h # n => (Has(h, z)' <=> Has(h, z))
           /\ \A h \in {g, n} : segs'[h].pattern \in 0 .. Pow2[segs'[h].local_depth] - 1
<1>1. PICK d, p : d = segs[g].local_depth /\ p = segs[g].pattern
  OBVIOUS
<1>2. /\ d \in 0 .. MaxDepth - 1 /\ p = Top(Bits[thread[t].key], d) /\ p \in 0 .. Pow2[d] - 1
      /\ d + 1 \in 0 .. MaxDepth
  <2>1. MaxDepth \in Nat /\ d \in 0 .. MaxDepth - 1 /\ p = Top(Bits[thread[t].key], d)
    BY <1>1, DepthNat
  <2>2. p \in 0 .. Pow2[d] - 1
    BY <1>1 DEF Typed
  <2>3. d + 1 \in 0 .. MaxDepth
    BY <2>1
  <2> QED
    BY <2>1, <2>2, <2>3
<1>3. /\ segs'[g].local_depth = d + 1 /\ segs'[g].pattern = 2 * p
      /\ segs'[n].local_depth = d + 1 /\ segs'[n].pattern = 2 * p + 1
      /\ \A h \in SegIds : h # g /\ h # n => segs'[h] = segs[h]
  BY <1>1, <1>2 DEF InTwo
<1>4. Pow2[d] \in Nat \ {0} /\ Pow2[d + 1] = 2 * Pow2[d] /\ p \in Nat
  BY <1>2, PowAt
<1>5. ASSUME NEW z \in SegIds
      PROVE  /\ Has(g, z) <=> Has(g, z)' \/ Has(n, z)'
             /\ ~(Has(g, z)' /\ Has(n, z)')
             /\ \A h \in SegIds : h # g /\ h # n => (Has(h, z)' <=> Has(h, z))
  <2>1. PICK a, b : a = Top(z, d) /\ b = Top(z, d + 1)
    OBVIOUS
  <2>2. a \in Nat /\ b \in {2 * a, 2 * a + 1}
    <3>1. z \in Nat /\ d \in 0 .. MaxDepth
      <4>1. z \in Nat
        BY LeafNat
      <4>2. d \in 0 .. MaxDepth - 1
        BY <1>2
      <4>3. MaxDepth \in Nat
        BY DepthNat
      <4> QED
        BY <4>1, <4>2, <4>3
    <3> QED
      BY <1>2, <2>1, <3>1, TopNat, TopChild
  <2>3. Has(g, z) <=> a = p
    BY <1>1, <2>1 DEF Has
  <2>4. (Has(g, z)' <=> b = 2 * p) /\ (Has(n, z)' <=> b = 2 * p + 1)
    BY <1>3, <2>1 DEF Has, Top
  <2>5. \A h \in SegIds : h # g /\ h # n => (Has(h, z)' <=> Has(h, z))
    BY <1>3 DEF Has
  <2> QED
    BY <1>4, <2>2, <2>3, <2>4, <2>5
<1>6. \A h \in {g, n} : segs'[h].pattern \in 0 .. Pow2[segs'[h].local_depth] - 1
  BY <1>2, <1>3, <1>4
<1> QED
  BY <1>5, <1>6

LEMMA SplitCopyTyped ==
    ASSUME Typed, Apart, Chosen, NEW t \in Threads, SplitCopy(t)
    PROVE  Typed'
<1>0. PICK g, n : g = thread[t].seg /\ n = used
  OBVIOUS
<1>1. /\ thread' \in [Threads -> ThreadRec] /\ thread'[t].at = "lockdir" /\ thread'[t].seg = g
      /\ thread'[t].key \in Keys
      /\ \A u \in Threads : u # t => thread'[u] = thread[u]
      /\ g \in 0 .. used - 1 /\ n \in 1 .. Pow2[MaxDepth] - 1 /\ used' = n + 1
      /\ segs[g].local_depth \in InitDepth .. MaxDepth - 1
      /\ segs' \in [SegIds -> SegRec] /\ InTwo(t, g, n)
      /\ UNCHANGED <<depth, dir, dir_lock, sema, ops, last, shared, stray, late, doubled>>
      /\ wrapped' = (wrapped \/ PastEnd(segs[g].slots))
  BY <1>0, SplitCopyKnown
<1>2. Pow2[MaxDepth] \in Nat /\ n \in Nat /\ n = used /\ n \in SegIds /\ g # n /\ MaxDepth \in Nat /\ InitDepth \in Nat
  BY <1>0, <1>1, DepthNat, PowNat DEF SegIds
<1>3. used' \in 1 .. Pow2[MaxDepth]
  BY <1>1, <1>2
<1>4. dir' \in [0 .. Pow2[depth'] - 1 -> 0 .. used' - 1]
  <2>1. 0 .. used - 1 \subseteq 0 .. used' - 1
    BY <1>1, <1>2
  <2>2. dir \in [0 .. Pow2[depth] - 1 -> 0 .. used - 1]
    BY DEF Typed
  <2> QED
    BY <1>1, <2>1, <2>2
<1>5. ASSUME NEW h \in 0 .. used' - 1
      PROVE  /\ segs'[h].local_depth \in InitDepth .. MaxDepth
             /\ segs'[h].pattern \in 0 .. Pow2[segs'[h].local_depth] - 1
  <2>1. CASE h \in {g, n}
    <3>1. segs'[h].local_depth = segs[g].local_depth + 1
      BY <1>1, <2>1 DEF InTwo
    <3>2. segs'[h].local_depth \in InitDepth .. MaxDepth
      BY <1>1, <1>2, <3>1
    <3>3. \A r \in {g, n} : segs'[r].pattern \in 0 .. Pow2[segs'[r].local_depth] - 1
      <4>1. segs[g].local_depth \in 0 .. MaxDepth - 1
        BY <1>1, <1>2
      <4>2. thread[t].key \in Keys /\ segs[g].pattern = Top(Bits[thread[t].key], segs[g].local_depth)
        BY <1>0, SplitCopyKnown
      <4> QED
        BY <1>1, <1>2, <4>1, <4>2, HalvesHas
    <3> QED
      BY <2>1, <3>2, <3>3
  <2>2. CASE h \notin {g, n}
    <3>1. h \in 0 .. used - 1 /\ h \in SegIds
      BY <1>1, <1>2, <2>2, SegsUsed
    <3>2. segs'[h] = segs[h]
      BY <1>1, <2>2, <3>1 DEF InTwo
    <3> QED
      BY <3>1, <3>2 DEF Typed
  <2> QED
    BY <2>1, <2>2
<1>6. ASSUME NEW u \in Threads
      PROVE  /\ thread'[u].seg < used'
             /\ thread'[u].at # "idle" => thread'[u].key \in Keys
             /\ thread'[u].at \in {"invalidate", "wipe", "claim", "fill", "update", "erase"}
                   => thread'[u].op = "Insert"
  <2>1. CASE u = t
    BY <1>1, <1>2, <2>1
  <2>2. CASE u # t
    <3>1. thread'[u] = thread[u] /\ thread[u].seg \in 0 .. used - 1
      BY <1>1, <2>2, ThreadKnown
    <3>2. thread'[u].seg < used'
      BY <1>1, <1>2, <3>1
    <3> QED
      BY <3>1, <3>2 DEF Typed, Writes
  <2> QED
    BY <2>1, <2>2
<1>7. {shared', stray', late', wrapped', doubled'} \subseteq BOOLEAN
  BY <1>1 DEF Typed
<1> QED
  BY <1>1, <1>3, <1>4, <1>5, <1>6, <1>7 DEF Typed, Writes

LEMMA SplitCopyTree ==
    ASSUME Typed, Alone, Apart, Halves, Led, Chosen, NEW t \in Threads, SplitCopy(t)
    PROVE  Apart' /\ Halves' /\ Led' /\ Chosen'
<1>0. PICK g, n, k : g = thread[t].seg /\ n = used /\ k = thread[t].key
  OBVIOUS
<1>1. /\ thread[t].at = "copy" /\ k \in Keys
      /\ thread'[t].at = "lockdir" /\ thread'[t].seg = g /\ thread'[t].new = n /\ thread'[t].key = k
      /\ \A u \in Threads : u # t => thread'[u] = thread[u]
      /\ g \in 0 .. used - 1 /\ n \in 1 .. Pow2[MaxDepth] - 1 /\ used' = n + 1
      /\ segs[g].local_depth \in InitDepth .. MaxDepth - 1
      /\ segs[g].pattern = Top(Bits[k], segs[g].local_depth)
      /\ InTwo(t, g, n)
      /\ UNCHANGED <<depth, dir, stray>>
  BY <1>0, SplitCopyKnown
<1>2. /\ n \in Nat /\ n \in SegIds /\ g \in SegIds /\ g # n /\ InitDepth \in Nat /\ MaxDepth \in Nat
      /\ 0 .. used - 1 \subseteq SegIds /\ n = used
  BY <1>0, <1>1, DepthNat, PowNat, SegsUsed DEF SegIds
<1>3. /\ \A z \in SegIds : /\ Has(g, z) <=> Has(g, z)' \/ Has(n, z)'
                           /\ ~(Has(g, z)' /\ Has(n, z)')
                           /\ \A h \in SegIds : h # g /\ h # n => (Has(h, z)' <=> Has(h, z))
  <2>1. segs[g].local_depth \in 0 .. MaxDepth - 1
    BY <1>1, <1>2
  <2> QED
    BY <1>0, <1>1, <1>2, <2>1, HalvesHas
<1>4. Apart'
  <2> SUFFICES ASSUME NEW h \in 0 .. used' - 1, NEW r \in 0 .. used' - 1, NEW z \in SegIds,
                      Has(h, z)', Has(r, z)', h # r
               PROVE  FALSE
    BY DEF Apart
  <2>1. \A q \in 0 .. used' - 1 : q # n => q \in 0 .. used - 1
    BY <1>1, <1>2
  <2>2. \A q \in 0 .. used' - 1 : Has(q, z)' => Has(IF q = n THEN g ELSE q, z)
    BY <1>2, <1>3, <2>1
  <2>3. CASE h = n
    <3>1. r \in 0 .. used - 1 /\ Has(g, z) /\ Has(r, z)
      BY <2>1, <2>2, <2>3
    <3>2. r = g
      BY <1>1, <3>1 DEF Apart
    <3> QED
      BY <1>3, <2>3, <3>2
  <2>4. CASE r = n
    <3>1. h \in 0 .. used - 1 /\ Has(g, z) /\ Has(h, z)
      BY <2>1, <2>2, <2>4
    <3>2. h = g
      BY <1>1, <3>1 DEF Apart
    <3> QED
      BY <1>3, <2>4, <3>2
  <2>5. CASE h # n /\ r # n
    BY <2>1, <2>2, <2>5 DEF Apart
  <2> QED
    BY <2>3, <2>4, <2>5
<1>5. \A u \in Threads : u # t /\ thread[u].at \in Splitters => thread[u].seg # g
  BY <1>0, <1>1 DEF Alone, Splitters
<1>6. \A u \in Threads : thread[u].seg \in 0 .. used - 1 /\ thread[u].seg # n
  BY <1>2, ThreadKnown
<1>7. \A x \in DOMAIN dir : dir[x] \in 0 .. used - 1 /\ dir[x] # n
  BY <1>2 DEF Typed
<1>8. \A u \in Threads : Pending(u) => /\ thread[u].new \in 1 .. used - 1 /\ thread[u].new # n
                                       /\ thread[u].new # g /\ u # t
  BY <1>0, <1>1, <1>2 DEF Halves, Half, Pending
<1>9. Half(t)'
  <2>1. segs'[g].local_depth = segs[g].local_depth + 1 /\ segs'[n].local_depth = segs[g].local_depth + 1
        /\ segs'[g].pattern = 2 * segs[g].pattern /\ segs'[n].pattern = 2 * segs[g].pattern + 1
    BY <1>0, <1>1 DEF InTwo
  <2>2. segs'[g].local_depth >= 1 /\ segs'[g].local_depth - 1 = segs[g].local_depth
    BY <1>1, <1>2, <2>1
  <2>3. segs[g].pattern = Top(Bits[k], segs'[g].local_depth - 1)
    BY <1>1, <2>2
  <2>4. n \in 1 .. used' - 1
    BY <1>1, <1>2
  <2>5. \A u \in Threads : thread'[u].seg # n /\ (Pending(u)' /\ thread'[u].new = n => u = t)
    BY <1>1, <1>2, <1>6, <1>8 DEF Pending
  <2> QED
    BY <1>1, <1>7, <2>1, <2>2, <2>3, <2>4, <2>5 DEF Half
<1>10. ASSUME NEW u \in Threads, u # t, Pending(u) PROVE Half(u)'
  <2>1. PICK h, m : h = thread[u].seg /\ m = thread[u].new
    OBVIOUS
  <2>2. Half(u) /\ thread'[u] = thread[u]
    BY <1>1, <1>10 DEF Halves
  <2>3. h \in SegIds /\ h # g /\ h # n /\ m \in SegIds /\ m # g /\ m # n /\ m \in 1 .. used - 1
    BY <1>2, <1>5, <1>6, <1>8, <1>10, <2>1 DEF Pending, Splitters
  <2>4. segs'[h] = segs[h] /\ segs'[m] = segs[m]
    BY <1>1, <2>3 DEF InTwo
  <2>5. m \in 1 .. used' - 1
    BY <1>1, <1>2, <2>3
  <2>6. \A w \in Threads : thread'[w].seg # m /\ (Pending(w)' /\ thread'[w].new = m => w = u)
    <3>1. \A w \in Threads : thread[w].seg # m /\ (Pending(w) /\ thread[w].new = m => w = u)
      BY <2>1, <2>2 DEF Half
    <3> QED
      BY <1>0, <1>1, <2>3, <3>1 DEF Pending
  <2>7. \A x \in DOMAIN dir' : dir'[x] # m
    BY <1>1, <2>1, <2>2 DEF Half
  <2> QED
    BY <2>1, <2>2, <2>4, <2>5, <2>6, <2>7 DEF Half
<1>11. Halves'
  <2> SUFFICES ASSUME NEW u \in Threads, Pending(u)' PROVE Half(u)'
    BY DEF Halves
  <2>1. CASE u = t
    BY <1>9, <2>1
  <2>2. CASE u # t
    BY <1>1, <1>10, <2>2 DEF Pending
  <2> QED
    BY <2>1, <2>2
<1>12. Led'
  <2> SUFFICES ASSUME NEW z \in SegIds
               PROVE  Has(dir[Top(z, depth)], z)' \/ Astray(dir[Top(z, depth)], z)'
    BY DEF Led
  <2>1. PICK s : s = dir[Top(z, depth)]
    OBVIOUS
  <2>2. s \in 0 .. used - 1 /\ s \in SegIds /\ s # n
    <3>1. Top(z, depth) \in DOMAIN dir
      BY SegsUsed, TopRange
    <3> QED
      BY <1>2, <1>7, <2>1, <3>1
  <2>3. dir'[Top(z, depth')] = s
    BY <1>1, <2>1
  <2>4. Has(s, z)' \/ Astray(s, z)'
    <3>1. CASE Has(s, z) /\ s # g
      BY <1>3, <2>2, <3>1
    <3>2. CASE Has(s, z) /\ s = g
      <4>1. Has(g, z)' \/ Has(n, z)'
        BY <1>3, <3>2
      <4>2. Has(n, z)' => Astray(g, z)'
        BY <1>1 DEF Astray, Pending, Has
      <4> QED
        BY <3>2, <4>1, <4>2
    <3>3. CASE Astray(s, z)
      <4>1. PICK u \in Threads : Pending(u) /\ thread[u].seg = s /\ Has(thread[u].new, z)
        BY <3>3 DEF Astray
      <4>2. PICK m : m = thread[u].new
        OBVIOUS
      <4>3. u # t /\ thread'[u] = thread[u] /\ m \in SegIds /\ m # n /\ m # g
        BY <1>1, <1>2, <1>8, <4>1, <4>2
      <4>4. Has(m, z)'
        BY <1>3, <4>1, <4>2, <4>3
      <4> QED
        BY <4>1, <4>2, <4>3, <4>4 DEF Astray, Pending, Has
    <3>4. Has(s, z) \/ Astray(s, z)
      BY <2>1 DEF Led
    <3> QED
      BY <3>1, <3>2, <3>3, <3>4
  <2> QED
    BY <2>3, <2>4 DEF Has, Astray
<1>13. Chosen'
  <2> SUFFICES ASSUME NEW u \in Threads, thread'[u].at = "copy"
               PROVE  /\ Seg(u)'.local_depth < MaxDepth
                      /\ stray' \/ Has(thread[u].seg, Bits[thread[u].key])'
    BY DEF Chosen, At
  <2>1. u # t /\ thread'[u] = thread[u]
    BY <1>1
  <2>2. PICK h, q : h = thread[u].seg /\ q = thread[u].key
    OBVIOUS
  <2>3. h # g /\ h # n /\ h \in SegIds
    BY <1>2, <1>5, <1>6, <2>1, <2>2 DEF Splitters
  <2>4. segs'[h] = segs[h]
    BY <1>1, <2>3 DEF InTwo
  <2>5. segs[h].local_depth < MaxDepth /\ (stray \/ Has(h, Bits[q]))
    BY <2>1, <2>2 DEF Chosen, At, Seg
  <2> QED
    BY <1>1, <2>1, <2>2, <2>4, <2>5 DEF Seg, Has
<1> QED
  BY <1>4, <1>11, <1>12, <1>13

\* A pending split has the entries of its two halves.
LEMMA PendingLeads ==
    ASSUME Typed, Alone, Apart, Halves, Led, NEW t \in Threads, Pending(t), NEW z \in SegIds
    PROVE  dir[Top(z, depth)] = thread[t].seg
              <=> Top(z, segs[thread[t].seg].local_depth - 1)
                    = Top(Bits[thread[t].key], segs[thread[t].seg].local_depth - 1)
<1>1. PICK g, n, ld, p : /\ g = thread[t].seg /\ n = thread[t].new /\ ld = segs[g].local_depth
                         /\ p = Top(Bits[thread[t].key], ld - 1)
  OBVIOUS
<1>2. /\ ld >= 1 /\ n \in 1 .. used - 1 /\ segs[n].local_depth = ld
      /\ segs[g].pattern = 2 * p /\ segs[n].pattern = 2 * p + 1
      /\ \A x \in DOMAIN dir : dir[x] # n
      /\ \A u \in Threads : thread[u].seg # n /\ (Pending(u) /\ thread[u].new = n => u = t)
  BY <1>1 DEF Halves, Half
<1>3. g \in 0 .. used - 1 /\ n \in 0 .. used - 1 /\ thread[t].key \in Keys
  BY <1>1, <1>2, ThreadKnown, SegsUsed DEF Pending
<1>4. ld \in 1 .. MaxDepth /\ ld - 1 \in 0 .. MaxDepth - 1 /\ ld - 1 \in 0 .. MaxDepth
  <2>1. ld \in InitDepth .. MaxDepth
    BY <1>1, <1>3 DEF Typed
  <2> QED
    BY <1>2, <2>1, DepthNat
<1>5. p \in Nat
  <2>1. Bits[thread[t].key] \in Nat /\ ld - 1 \in 0 .. MaxDepth
    BY <1>3, <1>4, BitsLeaf, LeafNat
  <2> QED
    BY <1>1, <2>1, TopNat
<1>6. Has(g, z) \/ Has(n, z) <=> Top(z, ld - 1) = p
  <2>1. z \in Nat /\ ld - 1 \in 0 .. MaxDepth /\ (ld - 1) + 1 = ld
    BY <1>4, LeafNat, DepthNat
  <2>2. PICK a, b : a = Top(z, ld - 1) /\ b = Top(z, ld)
    OBVIOUS
  <2>3. a \in Nat /\ b \in {2 * a, 2 * a + 1}
    BY <1>4, <2>1, <2>2, TopNat, TopChild
  <2>4. (Has(g, z) <=> b = 2 * p) /\ (Has(n, z) <=> b = 2 * p + 1)
    BY <1>1, <1>2, <2>2 DEF Has
  <2> QED
    BY <1>5, <2>2, <2>3, <2>4
<1>7. PICK s : s = dir[Top(z, depth)]
  OBVIOUS
<1>8. s \in 0 .. used - 1 /\ s # n
  <2>1. Top(z, depth) \in DOMAIN dir
    BY SegsUsed, TopRange
  <2> QED
    BY <1>2, <1>7, <2>1 DEF Typed
<1>9. Has(s, z) \/ Astray(s, z)
  BY <1>7 DEF Led
<1>10. ASSUME s = g PROVE Has(g, z) \/ Has(n, z)
  <2>1. CASE Astray(s, z)
    <3>1. PICK u \in Threads : Pending(u) /\ thread[u].seg = s /\ Has(thread[u].new, z)
      BY <2>1 DEF Astray
    <3>2. u = t
      BY <1>1, <1>10, <3>1 DEF Alone, Pending, Splitters
    <3> QED
      BY <1>1, <3>1, <3>2
  <2> QED
    BY <1>9, <1>10, <2>1
<1>11. ASSUME Has(g, z) \/ Has(n, z) PROVE s = g
  <2>1. CASE Has(s, z)
    BY <1>3, <1>8, <1>11, <2>1 DEF Apart
  <2>2. CASE Astray(s, z)
    <3>1. PICK u \in Threads : Pending(u) /\ thread[u].seg = s /\ Has(thread[u].new, z)
      BY <2>2 DEF Astray
    <3>2. PICK m : m = thread[u].new
      OBVIOUS
    <3>3. m \in 0 .. used - 1 /\ m # g
      BY <1>1, <3>1, <3>2, SegsUsed DEF Halves, Half
    <3>4. m = n
      BY <1>3, <1>11, <3>1, <3>2, <3>3 DEF Apart
    <3> QED
      BY <1>1, <1>2, <3>1, <3>2, <3>4
  <2> QED
    BY <1>9, <2>1, <2>2
<1> QED
  BY <1>1, <1>6, <1>7, <1>10, <1>11

\* The update sends the hashes of the new segment there, and only them.
LEMMA DirChange ==
    ASSUME Typed, Alone, Apart, Halves, Led, NEW t \in Threads, UpdateDir(t)
    PROVE  /\ depth' \in InitDepth .. MaxDepth
           /\ dir' \in [0 .. Pow2[depth'] - 1 -> 0 .. used - 1]
           /\ \A y \in DOMAIN dir' : dir'[y] = thread[t].new \/ \E x \in DOMAIN dir : dir'[y] = dir[x]
           /\ \A z \in SegIds : dir'[Top(z, depth')] =
                 IF Has(thread[t].new, z) THEN thread[t].new ELSE dir[Top(z, depth)]
<1>1. PICK g, n, k : g = thread[t].seg /\ n = thread[t].new /\ k = thread[t].key
  OBVIOUS
<1>2. PICK ld, x, p : ld = segs[g].local_depth /\ x = Top(Bits[k], depth) /\ p = Top(Bits[k], ld - 1)
  OBVIOUS
<1>3. /\ Pending(t) /\ k \in Keys /\ Bits[k] \in SegIds /\ Bits[k] \in Nat
      /\ g \in 0 .. used - 1
  BY <1>1, ThreadKnown, BitsLeaf, LeafNat DEF UpdateDir, At, Pending
<1>4. /\ ld >= 1 /\ n \in 1 .. used - 1 /\ segs[n].local_depth = ld /\ segs[n].pattern = 2 * p + 1
  BY <1>1, <1>2, <1>3 DEF Halves, Half
<1>5. n \in 0 .. used - 1 /\ DOMAIN dir = 0 .. Pow2[depth] - 1 /\ depth \in 0 .. MaxDepth
      /\ dir \in [DOMAIN dir -> 0 .. used - 1] /\ depth \in InitDepth .. MaxDepth
      /\ InitDepth \in Nat /\ MaxDepth \in Nat
  BY <1>4, SegsUsed, DepthNat DEF Typed
<1>6. ld \in 1 .. MaxDepth
  BY <1>2, <1>3, <1>4, <1>5 DEF Typed
<1>7. x \in DOMAIN dir
  BY <1>2, <1>3, <1>5, TopRange
<1>8. dir[x] = g
  BY <1>1, <1>2, <1>3, PendingLeads
<1>9. \A z \in SegIds : Has(n, z) <=> Top(z, ld) = 2 * p + 1
  BY <1>4 DEF Has
<1>10. x = Prefix(thread[t].key, depth)
  BY <1>1, <1>2 DEF Prefix, Top
<1>11. \/ /\ ld - 1 < depth
          /\ dir' = [y \in DOMAIN dir |-> IF y \in SecondHalf(x, ld) THEN n ELSE dir[y]]
          /\ depth' = depth
       \/ /\ ld - 1 >= depth
          /\ dir' = [y \in 0 .. Pow2[depth + 1] - 1 |-> IF y = 2 * x + 1 THEN n ELSE dir[y \div 2]]
          /\ depth' = depth + 1
  BY <1>1, <1>2, <1>8, <1>10 DEF UpdateDir, Seg
<1>12. CASE ld - 1 < depth
  <2>1. /\ dir' = [y \in DOMAIN dir |-> IF y \in SecondHalf(x, ld) THEN n ELSE dir[y]]
        /\ depth' = depth
    BY <1>5, <1>6, <1>12, <1>11
  <2>2. ASSUME NEW z \in SegIds
        PROVE  dir'[Top(z, depth')] = IF Has(n, z) THEN n ELSE dir[Top(z, depth)]
    <3>1. Top(z, depth) \in DOMAIN dir /\ z \in Nat
      BY <1>5, TopRange, LeafNat
    <3>2. ld \in 1 .. depth
      BY <1>5, <1>6, <1>12
    <3>3. Top(z, depth) \in SecondHalf(x, ld) <=> Top(z, ld) = 2 * p + 1
      BY <1>2, <1>3, <1>5, <3>1, <3>2, UpperHalf
    <3> QED
      BY <1>9, <2>1, <3>1, <3>3
  <2>3. dir' \in [0 .. Pow2[depth'] - 1 -> 0 .. used - 1]
    BY <1>5, <2>1
  <2>4. \A y \in DOMAIN dir' : dir'[y] = n \/ \E v \in DOMAIN dir : dir'[y] = dir[v]
    BY <2>1
  <2> QED
    BY <1>1, <1>5, <2>1, <2>2, <2>3, <2>4
<1>13. CASE ld - 1 >= depth
  <2>1. /\ dir' = [y \in 0 .. Pow2[depth + 1] - 1 |-> IF y = 2 * x + 1 THEN n ELSE dir[y \div 2]]
        /\ depth' = depth + 1
    BY <1>5, <1>6, <1>13, <1>11
  <2>2. ld - 1 <= depth
    <3>1. ld - 1 \in 0 .. MaxDepth /\ x \in 0 .. Pow2[depth] - 1
      BY <1>5, <1>6, <1>7
    <3>2. \A z \in SegIds : Top(z, depth) = x => Top(z, ld - 1) = p
      BY <1>1, <1>2, <1>3, <1>8, PendingLeads
    <3>3. PICK d, j : d = depth /\ j = ld - 1
      OBVIOUS
    <3>4. /\ d \in 0 .. MaxDepth /\ j \in 0 .. MaxDepth /\ x \in 0 .. Pow2[d] - 1
          /\ \A z \in SegIds : Top(z, d) = x => Top(z, j) = p
      BY <1>5, <3>1, <3>2, <3>3
    <3>5. j <= d
      BY <3>4, LevelBound
    <3> QED
      BY <3>3, <3>5
  <2>3. ld = depth + 1 /\ ld - 1 = depth /\ depth \in 0 .. MaxDepth - 1 /\ depth + 1 \in InitDepth .. MaxDepth
        /\ depth + 1 \in 0 .. MaxDepth
    BY <1>5, <1>6, <1>13, <2>2
  <2>4. p = x
    BY <1>2, <2>3
  <2>5. Pow2[depth] \in Nat \ {0} /\ Pow2[depth + 1] = 2 * Pow2[depth]
    BY <2>3, PowAt
  <2>6. \A y \in 0 .. Pow2[depth + 1] - 1 : y \div 2 \in DOMAIN dir
    <3>1. PICK e, w : e = Pow2[depth] /\ w = Pow2[depth + 1]
      OBVIOUS
    <3>2. e \in Nat \ {0} /\ w = 2 * e /\ DOMAIN dir = 0 .. e - 1
      BY <1>5, <2>5, <3>1
    <3>3. \A y \in 0 .. w - 1 : y \div 2 \in 0 .. e - 1
      BY <3>2
    <3> QED
      BY <3>1, <3>2, <3>3
  <2>7. ASSUME NEW z \in SegIds
        PROVE  dir'[Top(z, depth')] = IF Has(n, z) THEN n ELSE dir[Top(z, depth)]
    <3>1. Top(z, depth + 1) \in 0 .. Pow2[depth + 1] - 1 /\ z \in Nat
      BY <2>3, TopRange, LeafNat
    <3>2. Top(z, depth) = Top(z, depth + 1) \div 2
      BY <2>3, <3>1, TopStep
    <3>3. Has(n, z) <=> Top(z, depth + 1) = 2 * x + 1
      BY <1>9, <2>3, <2>4
    <3> QED
      BY <2>1, <3>1, <3>2, <3>3
  <2>8. dir' \in [0 .. Pow2[depth'] - 1 -> 0 .. used - 1]
    BY <1>5, <2>1, <2>6
  <2>9. \A y \in DOMAIN dir' : dir'[y] = n \/ \E v \in DOMAIN dir : dir'[y] = dir[v]
    BY <2>1, <2>6
  <2> QED
    BY <1>1, <2>1, <2>3, <2>7, <2>8, <2>9
<1>14. ld - 1 < depth \/ ld - 1 >= depth
  BY <1>5, <1>6
<1> QED
  BY <1>12, <1>13, <1>14

\* The segments are as before, and the split is no longer pending.
LEMMA UpdateDirKnown ==
    ASSUME Typed, NEW t \in Threads, UpdateDir(t)
    PROVE  /\ Turned(t, "unlock") /\ thread[t].at = "dir" /\ Fits(t) /\ LocksStay(t) /\ Pending(t)
           /\ UNCHANGED <<segs, used, sema, ops, history>> /\ dir_lock' = FALSE
<1>1. /\ thread[t].at = "dir" /\ thread[t].key \in Keys
      /\ UNCHANGED <<segs, used, sema, ops, history>> /\ dir_lock' = FALSE
  BY ThreadKnown DEF UpdateDir, At, ReleaseDir
<1>2. Turned(t, "unlock") /\ "unlock" \in Places
  BY GotoKnown DEF UpdateDir, Places, Splitters
<1>3. Fits(t)
  BY <1>1, <1>2, TurnFits
<1>4. LocksStay(t) /\ Pending(t)
  BY <1>1, <1>2 DEF Turned, LocksStay, Pending, Working, Splitters
<1> QED
  BY <1>1, <1>2, <1>3, <1>4

LEMMA UpdateDirTree ==
    ASSUME Typed, Alone, Apart, Halves, Led, Chosen, NEW t \in Threads, UpdateDir(t)
    PROVE  Typed' /\ Apart' /\ Halves' /\ Led' /\ Chosen'
<1>1. PICK n : n = thread[t].new
  OBVIOUS
<1>2. /\ Turned(t, "unlock") /\ thread[t].at = "dir" /\ Pending(t)
      /\ UNCHANGED <<segs, used, sema, ops, history>> /\ dir_lock' = FALSE
  BY UpdateDirKnown
<1>3. /\ depth' \in InitDepth .. MaxDepth
      /\ dir' \in [0 .. Pow2[depth'] - 1 -> 0 .. used - 1]
      /\ \A y \in DOMAIN dir' : dir'[y] = n \/ \E x \in DOMAIN dir : dir'[y] = dir[x]
      /\ \A z \in SegIds : dir'[Top(z, depth')] = IF Has(n, z) THEN n ELSE dir[Top(z, depth)]
  BY <1>1, DirChange
<1>4. \A u \in Threads : /\ u # t => thread'[u] = thread[u] /\ (Pending(u)' <=> Pending(u))
                         /\ thread'[u].seg = thread[u].seg /\ thread'[u].key = thread[u].key
                         /\ thread'[u].op = thread[u].op /\ thread'[u].new = thread[u].new
  BY <1>2 DEF Turned, Pending
<1>5. thread'[t].at = "unlock" /\ ~Pending(t)'
  BY <1>2 DEF Turned, Pending
<1>6. \A g, z : Has(g, z)' <=> Has(g, z)
  BY <1>2 DEF Has
<1>7. Typed'
  <2>1. thread' \in [Threads -> ThreadRec]
    BY <1>2 DEF Turned
  <2>2. \A u \in Threads :
          /\ thread'[u].seg < used'
          /\ thread'[u].at # "idle" => thread'[u].key \in Keys
          /\ thread'[u].at \in {"invalidate", "wipe", "claim", "fill", "update", "erase"}
                => thread'[u].op = "Insert"
    BY <1>2, <1>4, <1>5 DEF Typed, Writes
  <2>3. \A g \in 0 .. used' - 1 : /\ segs'[g].local_depth \in InitDepth .. MaxDepth
                                  /\ segs'[g].pattern \in 0 .. Pow2[segs'[g].local_depth] - 1
    BY <1>2 DEF Typed
  <2>4. /\ used' \in 1 .. Pow2[MaxDepth] /\ segs' \in [SegIds -> SegRec] /\ sema' \in [SegIds -> LockRec]
        /\ ops' \in 0 .. MaxOps /\ last' \in [Keys -> 0 .. MaxOps + 1] /\ dir_lock' \in BOOLEAN
        /\ {shared', stray', late', wrapped', doubled'} \subseteq BOOLEAN
    BY <1>2 DEF Typed, history
  <2>5. dir' \in [0 .. Pow2[depth'] - 1 -> 0 .. used' - 1]
    BY <1>2, <1>3
  <2> QED
    BY <1>3, <2>1, <2>2, <2>3, <2>4, <2>5 DEF Typed, Writes
<1>8. Apart'
  BY <1>2, <1>6 DEF Apart
<1>9. Halves'
  <2> SUFFICES ASSUME NEW u \in Threads, Pending(u)' PROVE Half(u)'
    BY DEF Halves
  <2>1. u # t /\ Pending(u) /\ thread'[u] = thread[u]
    BY <1>4, <1>5
  <2>2. PICK h, m : h = thread[u].seg /\ m = thread[u].new
    OBVIOUS
  <2>3. Half(u)
    BY <2>1 DEF Halves
  <2>4. m # n
    BY <1>1, <1>2, <2>1, <2>2, <2>3 DEF Halves, Half
  <2>5. \A y \in DOMAIN dir' : dir'[y] # m
    BY <1>3, <2>2, <2>3, <2>4 DEF Half
  <2>6. \A w \in Threads : thread'[w].seg # m /\ (Pending(w)' /\ thread'[w].new = m => w = u)
    <3>1. \A w \in Threads : thread[w].seg # m /\ (Pending(w) /\ thread[w].new = m => w = u)
      BY <2>2, <2>3 DEF Half
    <3> QED
      BY <1>4, <1>5, <3>1
  <2> QED
    BY <1>2, <2>1, <2>2, <2>3, <2>5, <2>6 DEF Half
<1>10. Led'
  <2> SUFFICES ASSUME NEW z \in SegIds
               PROVE  Has(dir[Top(z, depth)], z)' \/ Astray(dir[Top(z, depth)], z)'
    BY DEF Led
  <2>1. PICK s, r : s = dir[Top(z, depth)] /\ r = dir'[Top(z, depth')]
    OBVIOUS
  <2>2. r = IF Has(n, z) THEN n ELSE s
    BY <1>3, <2>1
  <2>3. Has(r, z)' \/ Astray(r, z)'
    <3>1. CASE Has(n, z)
      BY <1>6, <2>2, <3>1
    <3>2. CASE ~Has(n, z) /\ Has(s, z)
      BY <1>6, <2>2, <3>2
    <3>3. CASE ~Has(n, z) /\ Astray(s, z)
      <4>1. PICK u \in Threads : Pending(u) /\ thread[u].seg = s /\ Has(thread[u].new, z)
        BY <3>3 DEF Astray
      <4>2. PICK m : m = thread[u].new
        OBVIOUS
      <4>3. u # t /\ Pending(u)' /\ thread'[u].seg = s /\ thread'[u].new = m /\ Has(m, z)'
        BY <1>1, <1>4, <1>6, <3>3, <4>1, <4>2
      <4> QED
        BY <2>2, <3>3, <4>3 DEF Astray, Has
    <3>4. Has(s, z) \/ Astray(s, z)
      BY <2>1 DEF Led
    <3> QED
      BY <3>1, <3>2, <3>3, <3>4
  <2> QED
    BY <2>1, <2>3 DEF Has, Astray
<1>11. Chosen'
  <2> SUFFICES ASSUME NEW u \in Threads, thread'[u].at = "copy"
               PROVE  /\ Seg(u)'.local_depth < MaxDepth
                      /\ stray' \/ Has(thread[u].seg, Bits[thread[u].key])'
    BY DEF Chosen, At
  <2>1. u # t /\ thread'[u] = thread[u]
    BY <1>4, <1>5
  <2>2. Seg(u).local_depth < MaxDepth /\ (stray \/ Has(thread[u].seg, Bits[thread[u].key]))
    BY <2>1 DEF Chosen, At
  <2> QED
    BY <1>2, <2>1, <2>2 DEF Seg, Has, history
<1> QED
  BY <1>7, <1>8, <1>9, <1>10, <1>11

-----------------------------------------------------------------------------
(* The first state.                                                        *)

LEMMA PowMono == Pow2[InitDepth] \in 1 .. Pow2[MaxDepth]
<1> DEFINE S == {i \in Nat : Pow2[InitDepth] <= Pow2[i]}
<1>1. MaxDepth \in Nat /\ InitDepth \in 0 .. MaxDepth /\ Pow2[InitDepth] \in Nat \ {0}
  BY DepthNat, PowNat
<1>2. InitDepth \in S
  BY <1>1
<1>3. ASSUME NEW i \in InitDepth .. MaxDepth - 1, i \in S PROVE i + 1 \in S
  <2>1. i \in 0 .. MaxDepth - 1 /\ Pow2[InitDepth] <= Pow2[i]
    BY <1>1, <1>3
  <2>2. Pow2[i] \in Nat \ {0} /\ Pow2[i + 1] = 2 * Pow2[i]
    BY <2>1, PowAt
  <2> QED
    BY <1>1, <2>1, <2>2
<1> HIDE DEF S
<1>4. \A i \in InitDepth .. MaxDepth : i \in S
  BY <1>1, <1>2, <1>3, Climb, SMTT(30)
<1>5. MaxDepth \in S
  BY <1>1, <1>4
<1>6. Pow2[MaxDepth] \in Nat
  BY <1>1, PowNat
<1> QED
  BY <1>1, <1>5, <1>6 DEF S

LEMMA FirstSlotsTyped ==
    ASSUME NEW g
    PROVE  FirstSlots(g) \in [Slots -> SlotRec]
<1>1. EmptySlots \in [Slots -> SlotRec]
  BY EmptyTyped DEF SlotArrays
<1>2. ASSUME g \in DOMAIN Filled PROVE FirstSlots(g) \in [Slots -> SlotRec]
  <2>1. Filled[g] \in [Slots -> Keys \cup {INVALID}]
    BY <1>2, FilledAssumption
  <2>2. 1 \in 0 .. MaxOps + 1 /\ Tombstone \in 0 .. MaxOps + 1
    BY ValuesKnown
  <2> QED
    BY <1>2, <2>1, <2>2 DEF FirstSlots, SlotRec
<1> QED
  BY <1>1, <1>2 DEF FirstSlots

LEMMA IdleTyped == Idle \in ThreadRec /\ Idle.at = "idle" /\ Idle.seg = 0
<1>1. 0 \in SegIds
  BY PowNat, DepthNat DEF SegIds
<1>2. 0 \in 0 .. ProbeLength - 1 /\ 0 \in 0 .. MaxOps + 1 /\ 0 \in 0 .. MaxDepth
  BY ValuesKnown, DepthNat
<1> QED
  BY <1>1, <1>2 DEF Idle, ThreadRec, Places, Tombstone

LEMMA TreeInit == Init => TreeInv
<1> SUFFICES ASSUME Init PROVE TreeInv
  OBVIOUS
<1>1. MaxDepth \in Nat /\ InitDepth \in 0 .. MaxDepth /\ Pow2[InitDepth] \in 1 .. Pow2[MaxDepth]
      /\ Pow2[MaxDepth] \in Nat
  BY DepthNat, PowMono, PowNat
<1>2. 0 .. used - 1 = 0 .. Pow2[InitDepth] - 1 /\ 0 .. used - 1 \subseteq SegIds /\ SegIds \subseteq Nat
  BY <1>1, LeafNat DEF Init, SegIds
<1>3. \A g \in SegIds : segs[g].local_depth = InitDepth /\ segs[g].pattern = g
  BY DEF Init
<1>4. \A t \in Threads : thread[t] = Idle
  BY DEF Init
<1>5. \A t \in Threads : thread[t] \in ThreadRec /\ thread[t].at = "idle" /\ thread[t].seg = 0
  BY <1>4, IdleTyped
<1>6. segs \in [SegIds -> SegRec]
  <2>1. \A g \in SegIds : [local_depth |-> InitDepth, pattern |-> g, slots |-> FirstSlots(g)] \in SegRec
    BY <1>1, <1>2, FirstSlotsTyped DEF SegRec
  <2> QED
    BY <2>1 DEF Init
<1>7. Typed
  <2>1. depth \in InitDepth .. MaxDepth /\ used \in 1 .. Pow2[MaxDepth]
        /\ dir \in [0 .. Pow2[depth] - 1 -> 0 .. used - 1]
    BY <1>1 DEF Init
  <2>2. sema \in [SegIds -> LockRec]
    BY DEF Init, LockRec
  <2>3. last \in [Keys -> 0 .. MaxOps + 1]
    <3>1. 1 \in 0 .. MaxOps + 1 /\ Tombstone \in 0 .. MaxOps + 1
      BY ValuesKnown
    <3> QED
      BY <3>1 DEF Init
  <2>4. thread \in [Threads -> ThreadRec]
    BY IdleTyped DEF Init
  <2>5. \A g \in 0 .. used - 1 : /\ segs[g].local_depth \in InitDepth .. MaxDepth
                                 /\ segs[g].pattern \in 0 .. Pow2[segs[g].local_depth] - 1
    <3>1. InitDepth \in InitDepth .. MaxDepth
      BY <1>1
    <3> QED
      BY <1>2, <1>3, <3>1
  <2>6. \A t \in Threads : thread[t].seg < used /\ thread[t].at = "idle"
    BY <1>1, <1>5 DEF Init
  <2>7. ops \in 0 .. MaxOps /\ dir_lock \in BOOLEAN /\ {shared, stray, late, wrapped, doubled} \subseteq BOOLEAN
    <3>1. 0 \in 0 .. MaxOps
      BY ValuesKnown
    <3> QED
      BY <3>1 DEF Init
  <2> QED
    BY <1>6, <2>1, <2>2, <2>3, <2>4, <2>5, <2>6, <2>7 DEF Typed
<1>8. Counted
  <2>1. \A g : Inside(g) = {}
    BY <1>5 DEF Inside
  <2> QED
    BY <2>1, FS_EmptySet DEF Counted, Init
<1>9. Alone /\ Halves /\ Chosen
  BY <1>5 DEF Alone, Halves, Chosen, Pending, Splitters, At, Init
<1>10. Apart
  BY <1>2, <1>3 DEF Apart, Has
<1>11. Led
  <2> SUFFICES ASSUME NEW z \in SegIds PROVE Has(dir[Top(z, depth)], z)
    BY DEF Led
  <2>1. Top(z, InitDepth) \in 0 .. Pow2[InitDepth] - 1
    BY <1>1, TopRange
  <2>2. dir[Top(z, depth)] = Top(z, InitDepth) /\ Top(z, InitDepth) \in SegIds
    BY <1>2, <2>1 DEF Init
  <2> QED
    BY <1>3, <2>2 DEF Has
<1> QED
  BY <1>7, <1>8, <1>9, <1>10, <1>11 DEF TreeInv

-----------------------------------------------------------------------------
(* The invariant.                                                          *)

\* A step that leaves the directory and who is inside or splits.
LEMMA QuietInv ==
    ASSUME TreeInv, NEW t \in Threads, Fits(t), Quiet, Rest, SplitsStay(t), LocksStay(t)
    PROVE  TreeInv'
<1>1. Typed'
  BY QuietTyped DEF TreeInv
<1>2. Counted' /\ Alone'
  BY QuietLocks DEF TreeInv
<1>3. Apart' /\ Halves' /\ Led' /\ Chosen'
  BY QuietTree DEF TreeInv
<1> QED
  BY <1>1, <1>2, <1>3 DEF TreeInv

LEMMA SplitCopyLocks ==
    ASSUME Typed, Counted, Alone, Apart, Chosen, NEW t \in Threads, SplitCopy(t)
    PROVE  Counted' /\ Alone'
<1>1. /\ thread[t].at = "copy" /\ thread[t].key \in Keys
      /\ thread' \in [Threads -> ThreadRec] /\ thread'[t].at = "lockdir"
      /\ thread'[t].seg = thread[t].seg /\ thread'[t].key = thread[t].key
      /\ \A u \in Threads : u # t => thread'[u] = thread[u]
      /\ sema' = sema
  BY SplitCopyKnown
<1>2. Fits(t)
  BY <1>1 DEF Fits
<1>3. LocksStay(t)
  BY <1>1 DEF LocksStay, Working, Splitters
<1> QED
  BY <1>2, <1>3, QuietLocks

LEMMA TreeStep ==
    ASSUME TreeInv, NEW t \in Threads, Beginning(t) \/ Step(t)
    PROVE  TreeInv'
<1> USE DEF TreeInv
<1>1. CASE Beginning(t)
  BY <1>1, BeginKnown, QuietInv
<1>2. CASE Target(t)
  BY <1>2, TargetQuiet, QuietInv
<1>3. CASE Check(t)
  BY <1>3, CheckQuiet, QuietInv
<1>15. CASE ReadDepth(t)
  BY <1>15, ReadDepthQuiet, QuietInv
<1>16. CASE ReadPattern(t)
  BY <1>16, ReadPatternQuiet, QuietInv
<1>4. CASE Enter(t)
  <2>1. Fits(t) /\ Quiet /\ Rest /\ SplitsStay(t) /\ (Entered(t) \/ LocksStay(t))
    BY <1>4, EnterQuiet
  <2>2. CASE Entered(t)
    <3>1. Typed'
      BY <2>1, QuietTyped
    <3>2. Apart' /\ Halves' /\ Led' /\ Chosen'
      BY <2>1, QuietTree
    <3>3. Counted' /\ Alone'
      BY <2>1, <2>2, EnterLocks
    <3> QED
      BY <3>1, <3>2, <3>3
  <2> QED
    BY <2>1, <2>2, QuietInv
<1>5. CASE ScanGet(t)
  BY <1>5, ScanGetQuiet, QuietInv
<1>6. CASE ScanInsert(t)
  BY <1>6, ScanInsertQuiet, QuietInv
<1>7. CASE Invalidate(t) \/ Wipe(t) \/ Claim(t) \/ Fill(t) \/ Update(t) \/ Erase(t)
  BY <1>7, SlotStepsQuiet, QuietInv
<1>8. CASE Leave(t)
  <2>1. Fits(t) /\ Quiet /\ Rest /\ SplitsStay(t)
    BY <1>8, LeaveQuiet
  <2>2. Typed'
    BY <2>1, QuietTyped
  <2>3. Apart' /\ Halves' /\ Led' /\ Chosen'
    BY <2>1, QuietTree
  <2>4. Counted' /\ Alone'
    BY <1>8, LeaveLocks
  <2> QED
    BY <2>2, <2>3, <2>4
<1>9. CASE SplitLock(t)
  <2>1. /\ Fits(t) /\ Quiet /\ Rest /\ SplitsStay(t) /\ thread[t].at = "split"
        /\ Locked(t) \/ LocksStay(t)
    BY <1>9, SplitLockQuiet
  <2>2. CASE Locked(t)
    <3>1. Typed'
      BY <2>1, QuietTyped
    <3>2. Apart' /\ Halves' /\ Led' /\ Chosen'
      BY <2>1, QuietTree
    <3>3. Counted' /\ Alone'
      BY <2>1, <2>2, LockLocks
    <3> QED
      BY <3>1, <3>2, <3>3
  <2> QED
    BY <2>1, <2>2, QuietInv
<1>10. CASE SplitBound(t)
  BY <1>10, SplitBoundQuiet, QuietInv
<1>11. CASE SplitCopy(t)
  <2>1. Typed'
    BY <1>11, SplitCopyTyped
  <2>2. Apart' /\ Halves' /\ Led' /\ Chosen'
    BY <1>11, SplitCopyTree
  <2>3. Counted' /\ Alone'
    BY <1>11, SplitCopyLocks
  <2> QED
    BY <2>1, <2>2, <2>3
<1>12. CASE LockDir(t)
  BY <1>12, LockDirQuiet, QuietInv
<1>13. CASE UpdateDir(t)
  <2>1. Typed' /\ Apart' /\ Halves' /\ Led' /\ Chosen'
    BY <1>13, UpdateDirTree
  <2>2. Fits(t) /\ LocksStay(t)
    BY <1>13, UpdateDirKnown
  <2>3. Counted' /\ Alone'
    BY <2>2, QuietLocks
  <2> QED
    BY <2>1, <2>3
<1>14. CASE SplitUnlock(t)
  <2>1. Fits(t) /\ Quiet /\ Rest /\ SplitsStay(t)
    BY <1>14, SplitUnlockQuiet
  <2>2. Typed'
    BY <2>1, QuietTyped
  <2>3. Apart' /\ Halves' /\ Led' /\ Chosen'
    BY <2>1, QuietTree
  <2>4. Counted' /\ Alone'
    BY <1>14, UnlockLocks
  <2> QED
    BY <2>2, <2>3, <2>4
<1> HIDE DEF TreeInv
<1> QED
  BY <1>1, <1>2, <1>3, <1>4, <1>5, <1>6, <1>7, <1>8, <1>9, <1>10, <1>11, <1>12, <1>13, <1>14,
     <1>15, <1>16
  DEF Step, Scan

LEMMA TreeStutter == TreeInv /\ UNCHANGED vars => TreeInv'
<1> SUFFICES ASSUME TreeInv, UNCHANGED vars PROVE TreeInv'
  OBVIOUS
<1>1. UNCHANGED <<depth, dir, dir_lock, segs, used, sema, thread, ops, last, shared, stray, late, wrapped, doubled>>
  BY DEF vars, tableVars, history
<1>2. Typed'
  BY <1>1 DEF TreeInv, Typed, Writes
<1>3. Counted' /\ Alone'
  BY <1>1 DEF TreeInv, Counted, Alone, Inside
<1>4. Apart' /\ Led'
  BY <1>1 DEF TreeInv, Apart, Led, Astray, Pending, Has
<1>5. Halves' /\ Chosen'
  BY <1>1 DEF TreeInv, Halves, Half, Pending, Chosen, Seg, At, Has
<1> QED
  BY <1>2, <1>3, <1>4, <1>5 DEF TreeInv

LEMMA NextStep == Next => \E t \in Threads : Beginning(t) \/ Step(t)
BY DEF Next, Beginning

\* The locks, the segments and the directory fit each other in every state.
THEOREM TreeInvariance == Spec => []TreeInv
<1>1. Init => TreeInv
  BY TreeInit
<1>2. TreeInv /\ [Next]_vars => TreeInv'
  BY TreeStep, TreeStutter, NextStep
<1> QED
  BY <1>1, <1>2, PTL DEF Spec

LEMMA SemaFollows == TreeInv => SemaExact
<1> SUFFICES ASSUME TreeInv PROVE SemaExact
  OBVIOUS
<1>1. Typed /\ Counted /\ Alone
  BY DEF TreeInv
<1>2. TableTypeOK
  <2>1. used \in 0 .. Pow2[MaxDepth] /\ 0 .. used - 1 \subseteq SegIds
    <3>1. 0 .. used - 1 \subseteq SegIds /\ used \in Nat /\ used <= Pow2[MaxDepth]
      BY <1>1, SegsUsed
    <3>2. Pow2[MaxDepth] \in Nat
      BY DepthNat, PowNat
    <3> QED
      BY <3>1, <3>2
  <2>2. \A g \in 0 .. used - 1 : segs[g].slots \in [Slots -> SlotRec]
    BY <1>1, <2>1 DEF Typed, SegRec
  <2>3. \A t \in Threads : /\ thread[t].i \in 0 .. ProbeLength - 1 /\ thread[t].seg \in SegIds
                           /\ thread[t].new \in SegIds
    BY <1>1, ThreadKnown
  <2> QED
    BY <1>1, <2>1, <2>2, <2>3 DEF Typed, TableTypeOK, SlotRec
<1>3. ASSUME NEW g \in SegIds
      PROVE  /\ sema[g].n = Cardinality(Inside(g))
             /\ sema[g].excl <=> Splitting(g) # {}
             /\ sema[g].excl => Inside(g) = {} /\ Cardinality(Splitting(g)) = 1
  <2>1. Splitting(g) = {t \in Threads : thread[t].seg = g /\ thread[t].at \in Splitters}
    BY DEF Splitting, Splitters
  <2>2. sema[g].n = Cardinality(Inside(g)) /\ (sema[g].excl <=> Splitting(g) # {})
        /\ sema[g].excl \in BOOLEAN
    <3>1. sema[g] \in LockRec
      BY <1>1 DEF Typed
    <3>2. sema[g].excl \in BOOLEAN
      BY <3>1 DEF LockRec
    <3> QED
      BY <1>1, <2>1, <3>2 DEF Counted, Alone
  <2>3. ASSUME sema[g].excl PROVE Inside(g) = {} /\ Cardinality(Splitting(g)) = 1
    <3>1. PICK t \in Threads : thread[t].at \in Splitters /\ thread[t].seg = g
      BY <1>1, <2>3 DEF Alone
    <3>2. Splitting(g) = {t}
      BY <1>1, <2>1, <3>1 DEF Alone
    <3> QED
      BY <1>1, <2>3, <3>2, FS_Singleton DEF Alone
  <2> QED
    BY <2>2, <2>3
<1> QED
  BY <1>2, <1>3 DEF SemaExact

\* SemaExact: the lock of a segment (sema) counts the threads inside exactly, and
\* a split has its segment for itself.  The types come with it.
THEOREM SemaCorrect == Spec => []SemaExact
BY TreeInvariance, SemaFollows, PTL

LEMMA DirectoryFollows == TreeInv => DirectoryExact
<1> SUFFICES ASSUME TreeInv, NEW x \in DOMAIN dir, ~sema[dir[x]].excl
             PROVE  /\ segs[dir[x]].local_depth <= depth
                    /\ x \div Pow2[depth - segs[dir[x]].local_depth] = segs[dir[x]].pattern
  BY DEF DirectoryExact
<1>1. PICK g, ld, p : g = dir[x] /\ ld = segs[g].local_depth /\ p = segs[g].pattern
  OBVIOUS
<1>2. Typed /\ Alone /\ Led
  BY DEF TreeInv
<1>3. depth \in 0 .. MaxDepth /\ x \in 0 .. Pow2[depth] - 1 /\ g \in 0 .. used - 1 /\ g \in SegIds
      /\ SegIds \subseteq Nat /\ MaxDepth \in Nat
  BY <1>1, <1>2, SegsUsed, LeafNat, DepthNat DEF Typed
<1>4. ld \in 0 .. MaxDepth
  <2>1. ld \in InitDepth .. MaxDepth
    BY <1>1, <1>2, <1>3 DEF Typed
  <2> QED
    BY <2>1, DepthNat
<1>5. \A t \in Threads : ~(Pending(t) /\ thread[t].seg = g)
  BY <1>1, <1>2 DEF Alone, Pending, Splitters
<1>6. \A z \in SegIds : Top(z, depth) = x => Top(z, ld) = p
  BY <1>1, <1>2, <1>5 DEF Led, Astray, Has
<1>7. PICK d : d = depth
  OBVIOUS
<1>8. ld <= d
  <2>1. /\ d \in 0 .. MaxDepth /\ x \in 0 .. Pow2[d] - 1
        /\ \A z \in SegIds : Top(z, d) = x => Top(z, ld) = p
    BY <1>3, <1>6, <1>7
  <2> QED
    BY <1>4, <2>1, LevelBound
<1>9. PICK z \in SegIds : Top(z, d) = x
  BY <1>3, <1>7, TopLeaf
<1>10. Top(z, ld) = Top(z, d) \div Pow2[d - ld]
  <2>1. z \in Nat /\ d \in 0 .. MaxDepth /\ ld \in 0 .. d
    BY <1>3, <1>4, <1>7, <1>8
  <2> QED
    BY <2>1, TopDiv
<1> QED
  BY <1>1, <1>6, <1>7, <1>8, <1>9, <1>10

\* DirectoryExact: outside a split, every entry of the directory leads to the
\* segment that has the hashes below it, whatever splits and doublings ran at once.
THEOREM DirectoryCorrect == Spec => []DirectoryExact
BY TreeInvariance, DirectoryFollows, PTL

-----------------------------------------------------------------------------
(* The entries.                                                            *)

Cell(g, s) == segs[g].slots[s]

\* An entry that counts: a split leaves the keys of the other half behind.
Live(g, s, k) == Cell(g, s).key = k /\ Has(g, Bits[k])

InWindow == \A g \in 0 .. used - 1 : \A s \in Slots : Cell(g, s).key \in Keys =>
                \E j \in 0 .. ProbeLength - 1 : s = Window(Cell(g, s).key)[j]
OneLive == \A k \in Keys : \A g \in 0 .. used - 1 : \A s, r \in Slots :
               Live(g, s, k) /\ Live(g, r, k) => s = r
LiveValue == \A k \in Keys : \A g \in 0 .. used - 1 : \A s \in Slots :
                 Live(g, s, k) => Cell(g, s).val = last[k]
Kept == \A k \in Keys : last[k] # Tombstone =>
            \E g \in 0 .. used - 1 : \E s \in Slots : Live(g, s, k)

Writer(t) == thread[t].at \in Working /\ Writes(t)
Solo == \A t, u \in Threads : Writer(t) /\ Writer(u) /\ thread[t].seg = thread[u].seg => t = u
Home == \A t \in Threads : Writer(t) => Has(thread[t].seg, Bits[thread[t].key])

\* With the shift it has read, a writer takes no key of its segment for a moved one.
Sharp(t) == \A k \in Keys : Has(thread[t].seg, Bits[k]) => Prefix(k, thread[t].shift) = Seg(t).pattern
AllSharp == \A t \in Threads : Writer(t) => Sharp(t)

\* What a writer has found in its slot, or put there.
Placed(t) ==
    /\ thread[t].at = "invalidate" =>
          thread[t].seen # INVALID /\ (thread[t].seen \in Keys => ~Has(thread[t].seg, Bits[thread[t].seen]))
    /\ thread[t].at = "wipe" => SlotAt(t).key = INVALID
    /\ thread[t].at = "fill" => SlotAt(t).key = SENTINEL
    /\ thread[t].at = "update" => SlotAt(t).key = thread[t].key
    /\ thread[t].at = "erase" => SlotAt(t).key = thread[t].key /\ last[thread[t].key] = Tombstone
InPlace == \A t \in Threads : Placed(t)

Table   == InWindow /\ OneLive /\ LiveValue /\ Kept
Writers == Solo /\ Home /\ AllSharp /\ InPlace
Clean   == ~shared /\ ~stray /\ ~late /\ ~wrapped /\ ~doubled

\* As long as none of the known ways to lose an entry was taken.
EntryInv == Clean => Table /\ Writers

\* Some fields of the records are used all the time.
LEMMA HasStays ==
    ASSUME \A g \in SegIds : /\ segs'[g].local_depth = segs[g].local_depth
                             /\ segs'[g].pattern = segs[g].pattern
    PROVE  \A g \in SegIds : \A z : Has(g, z)' <=> Has(g, z)
BY DEF Has

\* A step that leaves the entries alone.
LEMMA TableSame ==
    ASSUME Table, UNCHANGED <<segs, used, last>>
    PROVE  Table'
BY DEF Table, InWindow, OneLive, LiveValue, Kept, Live, Cell, Has

LEMMA WritersSame ==
    ASSUME Typed', Writers, NEW t \in Threads, UNCHANGED <<segs, last>>,
           \A u \in Threads : u # t => thread'[u] = thread[u],
           Writer(t)' => /\ Writer(t) /\ thread'[t].seg = thread[t].seg /\ thread'[t].key = thread[t].key
                         /\ thread'[t].shift = thread[t].shift
                         /\ thread'[t].at \in {"scan", "leave"} \/ Placed(t)'
    PROVE  Writers'
<1>1. \A u \in Threads : Writer(u)' => /\ Writer(u) /\ thread'[u].seg = thread[u].seg
                                       /\ thread'[u].key = thread[u].key
                                       /\ thread'[u].shift = thread[u].shift
  BY DEF Writer, Writes
<1>2. Solo'
  BY <1>1 DEF Writers, Solo
<1>3. Home'
  <2> SUFFICES ASSUME NEW u \in Threads, Writer(u)' PROVE Has(thread[u].seg, Bits[thread[u].key])'
    BY DEF Home
  <2>1. Has(thread[u].seg, Bits[thread[u].key])
    BY <1>1 DEF Writers, Home
  <2> QED
    BY <1>1, <2>1 DEF Has
<1>4. InPlace'
  <2> SUFFICES ASSUME NEW u \in Threads PROVE Placed(u)'
    BY DEF InPlace
  <2>1. CASE u # t
    <3>1. Placed(u) /\ thread'[u] = thread[u]
      BY <2>1 DEF Writers, InPlace
    <3> QED
      BY <3>1 DEF Placed, SlotAt, Seg, SlotNo, Has
  <2>2. CASE u = t /\ Writer(t)'
    BY <2>2 DEF Placed
  <2>3. CASE u = t /\ ~Writer(t)'
    BY <2>3 DEF Placed, Writer, Working, Typed, Writes
  <2> QED
    BY <2>1, <2>2, <2>3
<1>5. AllSharp'
  <2> SUFFICES ASSUME NEW u \in Threads, Writer(u)', NEW k \in Keys, Has(thread[u].seg, Bits[k])'
               PROVE  (Prefix(k, thread[u].shift) = Seg(u).pattern)'
    BY DEF AllSharp, Sharp
  <2>1. Writer(u) /\ thread'[u].seg = thread[u].seg /\ thread'[u].shift = thread[u].shift
    BY <1>1
  <2>2. Has(thread[u].seg, Bits[k])
    BY <2>1 DEF Has
  <2>3. Prefix(k, thread[u].shift) = Seg(u).pattern
    BY <2>1, <2>2 DEF Writers, AllSharp, Sharp
  <2> QED
    BY <2>1, <2>3 DEF Prefix, Seg
<1> QED
  BY <1>2, <1>3, <1>4, <1>5 DEF Writers

\* A writer goes in where no thread is.
LEMMA EnterWriters ==
    ASSUME Typed, Typed', Counted, Writers, NEW t \in Threads, Entered(t), UNCHANGED <<segs, last>>,
           Writes(t) => ~(Sema(t).n > 0), ~stray', ~late'
    PROVE  Writers'
<1>1. PICK g : g = thread[t].seg
  OBVIOUS
<1>2. /\ g \in SegIds /\ thread[t].key \in Keys
      /\ thread'[t].at = "scan" /\ thread'[t].seg = g /\ thread'[t].key = thread[t].key
      /\ thread'[t].op = thread[t].op /\ thread'[t].shift = thread[t].shift
      /\ \A u \in Threads : u # t => thread'[u] = thread[u]
      /\ Has(g, Bits[thread[t].key])
  BY <1>1, ThreadKnown, CoversHas DEF Entered, Turned
<1>3. ASSUME Writes(t), NEW u \in Threads, u # t, Writer(u) PROVE thread[u].seg # g
  <2>1. sema[g].n = 0
    <3>1. sema[g] \in LockRec
      BY <1>2 DEF Typed
    <3>2. sema[g].n \in Nat
      BY <3>1 DEF LockRec
    <3> QED
      BY <1>1, <1>3, <3>2 DEF Sema
  <2>2. Inside(g) = {}
    BY <1>2, <2>1, InsideFinite, FS_EmptySet DEF Counted
  <2> QED
    BY <1>3, <2>2 DEF Inside, Writer, Working
<1>4. \A u \in Threads : Writer(u)' => \/ u # t /\ Writer(u) /\ thread'[u] = thread[u]
                                       \/ u = t /\ Writes(t)
  BY <1>2 DEF Writer, Writes
<1>5. Solo'
  BY <1>2, <1>3, <1>4 DEF Writers, Solo
<1>6. Home'
  <2> SUFFICES ASSUME NEW u \in Threads, Writer(u)' PROVE Has(thread[u].seg, Bits[thread[u].key])'
    BY DEF Home
  <2>1. Has(thread[u].seg, Bits[thread[u].key]) /\ thread'[u].seg = thread[u].seg
        /\ thread'[u].key = thread[u].key
    BY <1>1, <1>2, <1>4 DEF Writers, Home
  <2> QED
    BY <2>1 DEF Has
<1>7. InPlace'
  <2> SUFFICES ASSUME NEW u \in Threads PROVE Placed(u)'
    BY DEF InPlace
  <2>1. CASE u # t
    <3>1. Placed(u) /\ thread'[u] = thread[u]
      BY <1>2, <2>1 DEF Writers, InPlace
    <3> QED
      BY <3>1 DEF Placed, SlotAt, Seg, SlotNo, Has
  <2>2. CASE u = t
    BY <1>2, <2>2 DEF Placed
  <2> QED
    BY <2>1, <2>2
<1>8. AllSharp'
  <2> SUFFICES ASSUME NEW u \in Threads, Writer(u)', NEW k \in Keys, Has(thread[u].seg, Bits[k])'
               PROVE  (Prefix(k, thread[u].shift) = Seg(u).pattern)'
    BY DEF AllSharp, Sharp
  <2>1. thread'[u].seg = thread[u].seg /\ thread'[u].shift = thread[u].shift
    BY <1>1, <1>2, <1>4
  <2>2. Has(thread[u].seg, Bits[k])
    BY <2>1 DEF Has
  <2>3. Prefix(k, thread[u].shift) = Seg(u).pattern
    <3>1. CASE u # t /\ Writer(u)
      BY <2>2, <3>1 DEF Writers, AllSharp, Sharp
    <3>2. CASE u = t /\ Writes(t)
      <4>1. ~Misjudges(t)
        BY <3>2 DEF Entered
      <4> QED
        BY <2>2, <3>2, <4>1, CoversHas DEF Misjudges
    <3> QED
      BY <1>4, <3>1, <3>2
  <2> QED
    BY <2>1, <2>3 DEF Prefix, Seg
<1> QED
  BY <1>5, <1>6, <1>7, <1>8 DEF Writers

-----------------------------------------------------------------------------
(* A writer writes its slot.                                               *)

\* Two writers of one key are one.
LEMMA SoloKey ==
    ASSUME Typed, Apart, Writers, NEW t \in Threads, NEW u \in Threads, Writer(t), Writer(u),
           thread[t].seg = thread[u].seg \/ thread[t].key = thread[u].key
    PROVE  t = u
<1>1. thread[t].seg \in 0 .. used - 1 /\ thread[u].seg \in 0 .. used - 1
  BY ThreadKnown
<1>2. thread[t].key \in Keys /\ thread[u].key \in Keys
  BY ThreadKnown DEF Writer, Working
<1>3. Has(thread[t].seg, Bits[thread[t].key]) /\ Has(thread[u].seg, Bits[thread[u].key])
  BY DEF Writers, Home
<1>4. thread[t].seg = thread[u].seg
  BY <1>1, <1>2, <1>3, BitsLeaf DEF Apart
<1> QED
  BY <1>4 DEF Writers, Solo

\* The write of a slot that has, and gets, no entry but one of the writer's key.
SlotWrite(t, c, v) ==
    LET k == thread[t].key
        g == thread[t].seg
        s == SlotNo(t)
        o == Cell(g, s).key
        apart == \A r \in Slots : r # s => Cell(g, r).key # k
    IN  /\ segs' \in [SegIds -> SegRec]
        /\ \A h \in SegIds : /\ segs'[h].local_depth = segs[h].local_depth
                             /\ segs'[h].pattern = segs[h].pattern
        /\ segs'[g].slots[s].key = c /\ segs'[g].slots[s].val = v
        /\ \A h \in SegIds, r \in Slots : h # g \/ r # s => segs'[h].slots[r] = segs[h].slots[r]
        /\ \A q \in Keys : q # k => last'[q] = last[q]
        /\ o \in Keys => o = k \/ ~Has(g, Bits[o])
        /\ \/ c = k /\ v = last'[k] /\ apart
           \/ c \notin Keys /\ o # k /\ last'[k] = last[k]
           \/ c \notin Keys /\ last'[k] = Tombstone /\ apart

LEMMA WriteTable ==
    ASSUME Typed, Apart, Table, Writers, NEW t \in Threads, Writer(t), used' = used,
           NEW c, NEW v, SlotWrite(t, c, v)
    PROVE  Table'
<1>1. PICK g, s, k, o : g = thread[t].seg /\ s = SlotNo(t) /\ k = thread[t].key /\ o = Cell(g, s).key
  OBVIOUS
<1>2. k \in Keys /\ s \in Slots /\ g \in 0 .. used - 1 /\ 0 .. used - 1 \subseteq SegIds
  BY <1>1, ThreadKnown, SlotNoKnown, SegsUsed DEF Writer, Working
<1>3. /\ segs'[g].slots[s].key = c /\ segs'[g].slots[s].val = v
      /\ \A h \in 0 .. used - 1, r \in Slots : h # g \/ r # s => segs'[h].slots[r] = segs[h].slots[r]
      /\ \A q \in Keys : q # k => last'[q] = last[q]
      /\ o \in Keys => o = k \/ ~Has(g, Bits[o])
      /\ c = k \/ c \notin Keys
  BY <1>1, <1>2 DEF SlotWrite
<1>4. \A h \in 0 .. used - 1 : \A z : Has(h, z)' <=> Has(h, z)
  BY <1>2, HasStays DEF SlotWrite
<1>5. Has(g, Bits[k])
  BY <1>1 DEF Writers, Home
<1>6. \A h \in 0 .. used - 1 : h # g => ~Has(h, Bits[k])
  BY <1>2, <1>5, BitsLeaf DEF Apart
\* Entries of other keys stay.
<1>7. \A q \in Keys : q # k => \A h \in 0 .. used - 1 : \A r \in Slots :
         /\ Live(h, r, q)' <=> Live(h, r, q)
         /\ Live(h, r, q) => Cell(h, r)' = Cell(h, r)
  <2> SUFFICES ASSUME NEW q \in Keys, q # k, NEW h \in 0 .. used - 1, NEW r \in Slots
               PROVE  /\ Live(h, r, q)' <=> Live(h, r, q)
                      /\ Live(h, r, q) => Cell(h, r)' = Cell(h, r)
    OBVIOUS
  <2>1. CASE h = g /\ r = s
    <3>1. ~Live(h, r, q) /\ segs'[h].slots[r].key # q
      BY <1>1, <1>2, <1>3, <2>1 DEF Live
    <3> QED
      BY <3>1 DEF Live, Cell
  <2>2. CASE h # g \/ r # s
    BY <1>3, <1>4, <2>2 DEF Live, Cell
  <2> QED
    BY <2>1, <2>2
\* Entries of the key.
<1>8. \A h \in 0 .. used - 1 : \A r \in Slots : Live(h, r, k)' => h = g
  BY <1>4, <1>6 DEF Live
<1>9. \A r \in Slots : r # s => (Live(g, r, k)' <=> Live(g, r, k)) /\ Cell(g, r)' = Cell(g, r)
  BY <1>2, <1>3, <1>4 DEF Live, Cell
<1>10. Live(g, s, k)' <=> c = k
  BY <1>2, <1>3, <1>4, <1>5 DEF Live, Cell
<1>11. /\ \A r, q \in Slots : Live(g, r, k)' /\ Live(g, q, k)' => r = q
       /\ \A r \in Slots : Live(g, r, k)' => Cell(g, r)'.val = last'[k]
       /\ last'[k] # Tombstone => \E r \in Slots : Live(g, r, k)'
  <2> DEFINE apart == \A r \in Slots : r # s => Cell(g, r).key # k
  <2>1. \/ c = k /\ v = last'[k] /\ apart
        \/ c \notin Keys /\ o # k /\ last'[k] = last[k]
        \/ c \notin Keys /\ last'[k] = Tombstone /\ apart
    BY <1>1 DEF SlotWrite
  <2>2. ASSUME apart PROVE \A r \in Slots : Live(g, r, k)' => r = s
    BY <1>9, <2>2 DEF Live
  <2> HIDE DEF apart
  <2>3. CASE c = k /\ v = last'[k] /\ apart
    <3>1. Cell(g, s)'.val = v
      BY <1>3 DEF Cell
    <3> QED
      BY <1>2, <1>10, <2>2, <2>3, <3>1
  <2>4. CASE c \notin Keys /\ o # k /\ last'[k] = last[k]
    <3>1. \A r \in Slots : (Live(g, r, k)' <=> Live(g, r, k)) /\ (Live(g, r, k)' => Cell(g, r)' = Cell(g, r))
      BY <1>1, <1>2, <1>9, <1>10, <2>4 DEF Live
    <3>2. last[k] # Tombstone => \E r \in Slots : Live(g, r, k)
      BY <1>2, <1>6 DEF Table, Kept, Live
    <3> QED
      BY <1>2, <2>4, <3>1, <3>2 DEF Table, OneLive, LiveValue
  <2>5. CASE c \notin Keys /\ last'[k] = Tombstone /\ apart
    BY <1>2, <1>10, <2>2, <2>5
  <2> QED
    BY <2>1, <2>3, <2>4, <2>5
<1>12. InWindow'
  <2> SUFFICES ASSUME NEW h \in 0 .. used - 1, NEW r \in Slots, Cell(h, r)'.key \in Keys
               PROVE  \E j \in 0 .. ProbeLength - 1 : r = Window(Cell(h, r)'.key)[j]
    BY DEF InWindow
  <2>1. CASE h = g /\ r = s
    <3>1. Cell(h, r)'.key = k
      BY <1>3, <2>1 DEF Cell
    <3>2. thread[t].i \in 0 .. ProbeLength - 1
      BY ThreadKnown
    <3>3. s = Window(k)[thread[t].i]
      BY <1>1, <3>2 DEF SlotNo, Window
    <3> QED
      BY <2>1, <3>1, <3>2, <3>3
  <2>2. CASE h # g \/ r # s
    <3>1. Cell(h, r)' = Cell(h, r)
      BY <1>3, <2>2 DEF Cell
    <3> QED
      BY <3>1 DEF Table, InWindow
  <2> QED
    BY <2>1, <2>2
<1>13. OneLive'
  <2> SUFFICES ASSUME NEW q \in Keys, NEW h \in 0 .. used - 1, NEW r \in Slots, NEW p \in Slots,
                      Live(h, r, q)', Live(h, p, q)'
               PROVE  r = p
    BY DEF OneLive
  <2>1. CASE q = k
    BY <1>8, <1>11, <2>1
  <2>2. CASE q # k
    BY <1>7, <2>2 DEF Table, OneLive
  <2> QED
    BY <2>1, <2>2
<1>14. LiveValue'
  <2> SUFFICES ASSUME NEW q \in Keys, NEW h \in 0 .. used - 1, NEW r \in Slots, Live(h, r, q)'
               PROVE  Cell(h, r)'.val = last'[q]
    BY DEF LiveValue
  <2>1. CASE q = k
    BY <1>8, <1>11, <2>1
  <2>2. CASE q # k
    BY <1>3, <1>7, <2>2 DEF Table, LiveValue
  <2> QED
    BY <2>1, <2>2
<1>15. Kept'
  <2> SUFFICES ASSUME NEW q \in Keys, last'[q] # Tombstone
               PROVE  \E h \in 0 .. used - 1 : \E r \in Slots : Live(h, r, q)'
    BY DEF Kept
  <2>1. CASE q = k
    BY <1>2, <1>11, <2>1
  <2>2. CASE q # k
    BY <1>3, <1>7, <2>2 DEF Table, Kept
  <2> QED
    BY <2>1, <2>2
<1> QED
  BY <1>12, <1>13, <1>14, <1>15 DEF Table

LEMMA WriteWriters ==
    ASSUME Typed, Typed', Apart, Writers, NEW t \in Threads, Writer(t),
           NEW c, NEW v, SlotWrite(t, c, v), NEW l \in Working, Turned(t, l), Placed(t)'
    PROVE  Writers'
<1>1. PICK g, s, k : g = thread[t].seg /\ s = SlotNo(t) /\ k = thread[t].key
  OBVIOUS
<1>2. /\ \A u \in Threads : u # t => thread'[u] = thread[u]
      /\ thread'[t].seg = g /\ thread'[t].key = k /\ thread'[t].op = thread[t].op
      /\ thread'[t].shift = thread[t].shift
  BY <1>1 DEF Turned
<1>3. \A u \in Threads : Writer(u)' => Writer(u) /\ thread'[u].seg = thread[u].seg
                                       /\ thread'[u].key = thread[u].key
                                       /\ thread'[u].shift = thread[u].shift
  BY <1>1, <1>2 DEF Writer, Writes
<1>4. \A u \in Threads : u # t /\ Writer(u) => thread[u].seg # g /\ thread[u].key # k
  BY <1>1, SoloKey
<1>5. \A h \in SegIds : \A z : Has(h, z)' <=> Has(h, z)
  BY HasStays DEF SlotWrite
<1>6. \A u \in Threads : thread[u].seg \in SegIds
  BY ThreadKnown
<1>7. Solo'
  BY <1>3 DEF Writers, Solo
<1>8. Home'
  <2> SUFFICES ASSUME NEW u \in Threads, Writer(u)' PROVE Has(thread[u].seg, Bits[thread[u].key])'
    BY DEF Home
  <2>1. PICK h, q : h = thread[u].seg /\ q = thread[u].key
    OBVIOUS
  <2>2. Has(h, Bits[q]) /\ h \in SegIds /\ thread'[u].seg = h /\ thread'[u].key = q
    BY <1>3, <1>6, <2>1 DEF Writers, Home
  <2>3. Has(h, Bits[q])'
    BY <1>5, <2>2
  <2> QED
    BY <2>2, <2>3 DEF Has
<1>9. InPlace'
  <2> SUFFICES ASSUME NEW u \in Threads, u # t PROVE Placed(u)'
    BY DEF InPlace
  <2>1. thread'[u] = thread[u] /\ Placed(u)
    BY <1>2 DEF Writers, InPlace
  <2>2. CASE ~Writer(u)
    BY <2>1, <2>2 DEF Placed, Writer, Working, Typed
  <2>3. CASE Writer(u)
    <3>1. PICK h, r, q : h = thread[u].seg /\ r = SlotNo(u) /\ q = thread[u].key
      OBVIOUS
    <3>2. h # g /\ h \in SegIds /\ q # k /\ q \in Keys /\ r \in Slots
      BY <1>4, <1>6, <2>3, <3>1, ThreadKnown, SlotNoKnown DEF Writer, Working
    <3>3. segs'[h].slots[r] = segs[h].slots[r] /\ last'[q] = last[q] /\ SlotNo(u)' = r
      BY <1>1, <2>1, <3>1, <3>2 DEF SlotWrite, SlotNo
    <3>4. SlotAt(u)' = SlotAt(u)
      BY <2>1, <3>1, <3>3 DEF SlotAt, Seg
    <3>5. \A z : Has(h, z)' <=> Has(h, z)
      BY <1>5, <3>2
    <3> QED
      BY <2>1, <3>1, <3>3, <3>4, <3>5 DEF Placed, Has
  <2> QED
    BY <2>2, <2>3
<1>10. AllSharp'
  <2> SUFFICES ASSUME NEW u \in Threads, Writer(u)', NEW q \in Keys, Has(thread[u].seg, Bits[q])'
               PROVE  (Prefix(q, thread[u].shift) = Seg(u).pattern)'
    BY DEF AllSharp, Sharp
  <2>1. PICK h : h = thread[u].seg
    OBVIOUS
  <2>2. /\ Writer(u) /\ h \in SegIds /\ thread'[u].seg = h /\ thread'[u].shift = thread[u].shift
        /\ segs'[h].pattern = segs[h].pattern /\ segs'[h].local_depth = segs[h].local_depth
    BY <1>3, <1>6, <2>1 DEF SlotWrite
  <2>3. Has(h, Bits[q])
    BY <2>2 DEF Has
  <2>4. Prefix(q, thread[u].shift) = segs[h].pattern
    BY <2>1, <2>2, <2>3 DEF Writers, AllSharp, Sharp, Seg
  <2> QED
    BY <2>2, <2>4 DEF Prefix, Seg
<1> QED
  BY <1>7, <1>8, <1>9, <1>10 DEF Writers

LEMMA WriteOf ==
    ASSUME Typed, NEW t \in Threads, thread[t].key \in Keys, NEW rec \in SlotRec, SetSlot(t, rec),
           \A q \in Keys : q # thread[t].key => last'[q] = last[q],
           SlotAt(t).key \in Keys =>
               SlotAt(t).key = thread[t].key \/ ~Has(thread[t].seg, Bits[SlotAt(t).key]),
           LET k     == thread[t].key
               apart == \A r \in Slots : r # SlotNo(t) => Cell(thread[t].seg, r).key # k
           IN  \/ rec.key = k /\ rec.val = last'[k] /\ apart
               \/ rec.key \notin Keys /\ SlotAt(t).key # k /\ last'[k] = last[k]
               \/ rec.key \notin Keys /\ last'[k] = Tombstone /\ apart
    PROVE  SlotWrite(t, rec.key, rec.val)
<1>1. /\ segs' \in [SegIds -> SegRec]
      /\ \A g \in SegIds : /\ segs'[g].local_depth = segs[g].local_depth
                           /\ segs'[g].pattern = segs[g].pattern
      /\ segs'[thread[t].seg].slots[SlotNo(t)] = rec
      /\ \A g \in SegIds, s \in Slots : g # thread[t].seg \/ s # SlotNo(t) =>
             segs'[g].slots[s] = segs[g].slots[s]
  BY SlotSet
<1>2. Cell(thread[t].seg, SlotNo(t)) = SlotAt(t)
  BY DEF Cell, SlotAt, Seg
<1> QED
  BY <1>1, <1>2 DEF SlotWrite

\* The only entry of the key in its segment is in the slot.
LEMMA OnlyHere ==
    ASSUME Typed, Table, Writers, NEW t \in Threads, Writer(t), SlotAt(t).key = thread[t].key
    PROVE  \A r \in Slots : r # SlotNo(t) => Cell(thread[t].seg, r).key # thread[t].key
<1>1. PICK g, k : g = thread[t].seg /\ k = thread[t].key
  OBVIOUS
<1>2. g \in 0 .. used - 1 /\ k \in Keys /\ SlotNo(t) \in Slots
  BY <1>1, ThreadKnown, SlotNoKnown DEF Writer, Working
<1>3. Has(g, Bits[k])
  BY <1>1 DEF Writers, Home
<1>4. Cell(g, SlotNo(t)).key = k
  BY <1>1 DEF Cell, SlotAt, Seg
<1> QED
  BY <1>1, <1>2, <1>3, <1>4 DEF Table, OneLive, Live

\* Nor is there another one if the key is in no slot of its window.
LEMMA NoneHere ==
    ASSUME Typed, Table, NEW t \in Threads, thread[t].key \in Keys, ~InLaterSlot(t)
    PROVE  \A r \in Slots : Cell(thread[t].seg, r).key # thread[t].key
<1> SUFFICES ASSUME NEW r \in Slots, Cell(thread[t].seg, r).key = thread[t].key PROVE FALSE
  OBVIOUS
<1>1. PICK g, k : g = thread[t].seg /\ k = thread[t].key
  OBVIOUS
<1>2. g \in 0 .. used - 1
  BY <1>1, ThreadKnown
<1>3. PICK j \in 0 .. ProbeLength - 1 : r = Window(k)[j]
  BY <1>1, <1>2 DEF Table, InWindow
<1>4. r = (Loc[k] + j) % kNumSlot
  BY <1>3 DEF Window
<1> QED
  BY <1>1, <1>3, <1>4 DEF InLaterSlot, Cell, Seg

\* The steps of a writer at its slot.
LEMMA InvalidateEntries ==
    ASSUME Typed, Typed', Apart, Table, Writers, NEW t \in Threads, Invalidate(t)
    PROVE  Table' /\ Writers'
<1>1. /\ thread[t].at = "invalidate" /\ thread[t].key \in Keys /\ Writes(t)
      /\ thread'[t].i = thread[t].i
      /\ \/ /\ Turned(t, "wipe") /\ SlotAt(t).key = thread[t].seen
            /\ \E rec \in SlotRec : SetSlot(t, rec) /\ rec.key = INVALID
         \/ Turned(t, "claim") /\ segs' = segs
      /\ UNCHANGED <<used, last>>
  BY InvalidateKnown DEF Invalidate, history
<1>2. Writer(t) /\ Placed(t)
  BY <1>1 DEF Writer, Working, Writers, InPlace
<1>3. CASE Turned(t, "claim") /\ segs' = segs
  BY <1>1, <1>2, <1>3, TableSame, WritersSame DEF Turned, Placed
<1>4. CASE Turned(t, "wipe") /\ SlotAt(t).key = thread[t].seen
           /\ \E rec \in SlotRec : SetSlot(t, rec) /\ rec.key = INVALID
  <2>1. PICK rec \in SlotRec : SetSlot(t, rec) /\ rec.key = INVALID
    BY <1>4
  <2>2. SlotAt(t).key \in Keys => ~Has(thread[t].seg, Bits[SlotAt(t).key])
    BY <1>1, <1>2, <1>4 DEF Placed
  <2>3. SlotAt(t).key # thread[t].key
    BY <1>1, <1>2, <2>2 DEF Writers, Home
  <2>4. SlotWrite(t, rec.key, rec.val)
    BY <1>1, <2>1, <2>2, <2>3, ValuesKnown, WriteOf
  <2>5. Placed(t)'
    <3>1. SlotNo(t)' = SlotNo(t) /\ thread'[t].seg = thread[t].seg
      BY <1>1, <1>4 DEF SlotNo, Turned
    <3>2. segs'[thread[t].seg].slots[SlotNo(t)].key = INVALID
      BY <2>1, <2>4 DEF SlotWrite
    <3>3. SlotAt(t)'.key = INVALID
      BY <3>1, <3>2 DEF SlotAt, Seg
    <3> QED
      BY <1>4, <3>3 DEF Placed, Turned
  <2> QED
    BY <1>1, <1>2, <1>4, <2>4, <2>5, WriteTable, WriteWriters DEF Working
<1> QED
  BY <1>1, <1>3, <1>4

LEMMA WipeEntries ==
    ASSUME Typed, Typed', Apart, Table, Writers, NEW t \in Threads, Wipe(t)
    PROVE  Table' /\ Writers'
<1>1. /\ thread[t].at = "wipe" /\ thread[t].key \in Keys /\ Writes(t) /\ Turned(t, "claim")
      /\ UNCHANGED <<used, last>>
  BY WipeKnown DEF Wipe, history
<1>2. PICK rec \in SlotRec : SetSlot(t, rec) /\ rec.key = SlotAt(t).key
  BY WipeKnown
<1>3. Writer(t) /\ SlotAt(t).key = INVALID
  BY <1>1 DEF Writer, Working, Writers, InPlace, Placed
<1>4. SlotWrite(t, rec.key, rec.val)
  BY <1>1, <1>2, <1>3, ValuesKnown, WriteOf
<1>5. Placed(t)'
  BY <1>1 DEF Placed, Turned
<1> QED
  BY <1>1, <1>3, <1>4, <1>5, WriteTable, WriteWriters DEF Working

LEMMA ClaimEntries ==
    ASSUME Typed, Typed', Apart, Table, Writers, NEW t \in Threads, Claim(t)
    PROVE  Table' /\ Writers'
<1>1. /\ thread[t].at = "claim" /\ thread[t].key \in Keys /\ Writes(t)
      /\ \/ /\ Turned(t, "fill") /\ SlotAt(t).key = INVALID /\ thread'[t].i = thread[t].i
            /\ \E rec \in SlotRec : SetSlot(t, rec) /\ rec.key = SENTINEL
         \/ /\ Turned(t, "update") /\ SlotAt(t).key = thread[t].key /\ thread'[t].i = thread[t].i
            /\ segs' = segs
         \/ segs' = segs /\ \E l \in {"scan", "leave"} : Turned(t, l)
      /\ UNCHANGED <<used, last>>
  BY ClaimKnown DEF Claim, history
<1>2. Writer(t)
  BY <1>1 DEF Writer, Working
<1>3. CASE segs' = segs /\ \E l \in {"scan", "leave"} : Turned(t, l)
  BY <1>1, <1>2, <1>3, TableSame, WritersSame DEF Turned
<1>4. CASE /\ Turned(t, "update") /\ SlotAt(t).key = thread[t].key /\ thread'[t].i = thread[t].i
           /\ segs' = segs
  <2>1. SlotNo(t)' = SlotNo(t) /\ thread'[t].seg = thread[t].seg /\ thread'[t].key = thread[t].key
    BY <1>4 DEF SlotNo, Turned
  <2>2. SlotAt(t)' = SlotAt(t)
    BY <1>4, <2>1 DEF SlotAt, Seg
  <2>3. Placed(t)'
    BY <1>4, <2>1, <2>2 DEF Placed, Turned
  <2> QED
    BY <1>1, <1>2, <1>4, <2>3, TableSame, WritersSame DEF Turned
<1>5. CASE /\ Turned(t, "fill") /\ SlotAt(t).key = INVALID /\ thread'[t].i = thread[t].i
           /\ \E rec \in SlotRec : SetSlot(t, rec) /\ rec.key = SENTINEL
  <2>1. PICK rec \in SlotRec : SetSlot(t, rec) /\ rec.key = SENTINEL
    BY <1>5
  <2>2. SlotWrite(t, rec.key, rec.val)
    BY <1>1, <1>5, <2>1, ValuesKnown, WriteOf
  <2>3. Placed(t)'
    <3>1. SlotNo(t)' = SlotNo(t) /\ thread'[t].seg = thread[t].seg
      BY <1>5 DEF SlotNo, Turned
    <3>2. segs'[thread[t].seg].slots[SlotNo(t)].key = SENTINEL
      BY <2>1, <2>2 DEF SlotWrite
    <3>3. SlotAt(t)'.key = SENTINEL
      BY <3>1, <3>2 DEF SlotAt, Seg
    <3> QED
      BY <1>5, <3>3 DEF Placed, Turned
  <2> QED
    BY <1>1, <1>2, <1>5, <2>2, <2>3, WriteTable, WriteWriters DEF Working
<1> QED
  BY <1>1, <1>3, <1>4, <1>5

LEMMA FillEntries ==
    ASSUME Typed, Typed', Apart, Table, Writers, NEW t \in Threads, Fill(t), ~doubled'
    PROVE  Table' /\ Writers'
<1>1. /\ thread[t].at = "fill" /\ thread[t].key \in Keys /\ Writes(t) /\ Turned(t, "leave")
      /\ last' = [last EXCEPT ![thread[t].key] = thread[t].val] /\ used' = used
      /\ ~InLaterSlot(t)
  BY FillKnown DEF Fill, Note
<1>2. PICK rec \in SlotRec : /\ SetSlot(t, rec) /\ rec.val = thread[t].val
                             /\ rec.key = IF thread[t].val = Tombstone THEN INVALID ELSE thread[t].key
  BY FillKnown
<1>3. Writer(t) /\ SlotAt(t).key = SENTINEL
  BY <1>1 DEF Writer, Working, Writers, InPlace, Placed
<1>4. \A r \in Slots : Cell(thread[t].seg, r).key # thread[t].key
  BY <1>1, NoneHere
<1>5. last'[thread[t].key] = thread[t].val /\ \A q \in Keys : q # thread[t].key => last'[q] = last[q]
  BY <1>1 DEF Typed
<1>6. SlotWrite(t, rec.key, rec.val)
  BY <1>1, <1>2, <1>3, <1>4, <1>5, ValuesKnown, WriteOf
<1>7. Placed(t)'
  BY <1>1 DEF Placed, Turned
<1> QED
  BY <1>1, <1>3, <1>6, <1>7, WriteTable, WriteWriters DEF Working

LEMMA UpdateEntries ==
    ASSUME Typed, Typed', Apart, Table, Writers, NEW t \in Threads, Update(t)
    PROVE  Table' /\ Writers'
<1>1. /\ thread[t].at = "update" /\ thread[t].key \in Keys /\ Writes(t)
      /\ last' = [last EXCEPT ![thread[t].key] = thread[t].val] /\ used' = used
      /\ \/ Turned(t, "erase") /\ thread[t].val = Tombstone /\ thread'[t].i = thread[t].i
         \/ Turned(t, "leave")
  BY UpdateKnown DEF Update
<1>2. PICK rec \in SlotRec : SetSlot(t, rec) /\ rec.val = thread[t].val /\ rec.key = SlotAt(t).key
  BY UpdateKnown
<1>3. Writer(t) /\ SlotAt(t).key = thread[t].key
  BY <1>1 DEF Writer, Working, Writers, InPlace, Placed
<1>4. \A r \in Slots : r # SlotNo(t) => Cell(thread[t].seg, r).key # thread[t].key
  BY <1>3, OnlyHere
<1>5. last'[thread[t].key] = thread[t].val /\ \A q \in Keys : q # thread[t].key => last'[q] = last[q]
  BY <1>1 DEF Typed
<1>6. SlotWrite(t, rec.key, rec.val)
  BY <1>1, <1>2, <1>3, <1>4, <1>5, WriteOf
<1>7. CASE Turned(t, "leave")
  <2>1. Placed(t)'
    BY <1>7 DEF Placed, Turned
  <2> QED
    BY <1>1, <1>3, <1>6, <1>7, <2>1, WriteTable, WriteWriters DEF Working
<1>8. CASE Turned(t, "erase") /\ thread[t].val = Tombstone /\ thread'[t].i = thread[t].i
  <2>1. SlotNo(t)' = SlotNo(t) /\ thread'[t].seg = thread[t].seg /\ thread'[t].key = thread[t].key
    BY <1>8 DEF SlotNo, Turned
  <2>2. segs'[thread[t].seg].slots[SlotNo(t)].key = thread[t].key
    BY <1>2, <1>3, <1>6 DEF SlotWrite
  <2>3. SlotAt(t)'.key = thread[t].key
    BY <2>1, <2>2 DEF SlotAt, Seg
  <2>4. Placed(t)'
    BY <1>5, <1>8, <2>1, <2>3 DEF Placed, Turned
  <2> QED
    BY <1>1, <1>3, <1>6, <1>8, <2>4, WriteTable, WriteWriters DEF Working
<1> QED
  BY <1>1, <1>7, <1>8

LEMMA EraseEntries ==
    ASSUME Typed, Typed', Apart, Table, Writers, NEW t \in Threads, Erase(t)
    PROVE  Table' /\ Writers'
<1>1. /\ thread[t].at = "erase" /\ thread[t].key \in Keys /\ Writes(t) /\ Turned(t, "leave")
      /\ UNCHANGED <<used, last>>
      /\ \/ /\ SlotAt(t).key = thread[t].key
            /\ \E rec \in SlotRec : SetSlot(t, rec) /\ rec.key = INVALID
         \/ segs' = segs
  BY EraseKnown DEF Erase, history
<1>2. Writer(t) /\ SlotAt(t).key = thread[t].key /\ last[thread[t].key] = Tombstone
  BY <1>1 DEF Writer, Working, Writers, InPlace, Placed
<1>3. CASE segs' = segs
  BY <1>1, <1>2, <1>3, TableSame, WritersSame DEF Turned
<1>4. CASE \E rec \in SlotRec : SetSlot(t, rec) /\ rec.key = INVALID
  <2>1. PICK rec \in SlotRec : SetSlot(t, rec) /\ rec.key = INVALID
    BY <1>4
  <2>2. \A r \in Slots : r # SlotNo(t) => Cell(thread[t].seg, r).key # thread[t].key
    BY <1>2, OnlyHere
  <2>3. SlotWrite(t, rec.key, rec.val)
    BY <1>1, <1>2, <2>1, <2>2, ValuesKnown, WriteOf
  <2>4. Placed(t)'
    BY <1>1 DEF Placed, Turned
  <2> QED
    BY <1>1, <1>2, <2>3, <2>4, WriteTable, WriteWriters DEF Working
<1> QED
  BY <1>1, <1>3, <1>4

-----------------------------------------------------------------------------
(* What a split copies.                                                    *)

\* No entry of the segment was probed past its last slot.
Straight(slots) ==
    \A s \in Slots : slots[s].key \in Keys =>
        Loc[slots[s].key] <= s /\ \E j \in 0 .. ProbeLength - 1 : s = Window(slots[s].key)[j]

Once(slots, k) == \A r, q \in Slots : slots[r].key = k /\ slots[q].key = k => r = q

\* After the first n slots: every entry of the copy is one of theirs, in its
\* window and no further on, and all that move are there, once.
CopyOf(acc, slots, ld, n) ==
    /\ acc \in SlotArrays
    /\ \A r \in Slots : acc[r].key # INVALID =>
          /\ r < n
          /\ \E o \in 0 .. n - 1 : slots[o] = acc[r] /\ Moves(slots[o].key, ld)
          /\ \E j \in 0 .. ProbeLength - 1 : r = Window(acc[r].key)[j]
    /\ \A o \in 0 .. n - 1 : Moves(slots[o].key, ld) => \E r \in Slots : acc[r] = slots[o]
    /\ \A k \in Keys : Once(slots, k) => Once(acc, k)

\* The slots of a window up to one that is not past the end follow each other.
LEMMA WindowStraight ==
    ASSUME NEW k \in Keys, NEW j \in 0 .. ProbeLength - 1, NEW l \in 0 .. j, Loc[k] <= Window(k)[j]
    PROVE  Window(k)[l] = Loc[k] + l /\ Window(k)[j] = Loc[k] + j
<1>1. PICK a, m : a = Loc[k] /\ m = kNumSlot
  OBVIOUS
<1>2. a \in 0 .. m - 1 /\ m \in Nat \ {0} /\ j \in 0 .. m - 1 /\ j \in Nat /\ l \in 0 .. ProbeLength - 1
  BY <1>1, TableAssumption, ValuesKnown DEF Slots
<1>3. Window(k)[j] = (a + j) % m /\ Window(k)[l] = (a + l) % m
  BY <1>1, <1>2 DEF Window
<1>4. a + j < m
  <2> SUFFICES ASSUME a + j >= m PROVE FALSE
    BY <1>2
  <2>1. a + j - m \in 0 .. m - 1 /\ a + j - m < a
    BY <1>2
  <2>2. (a + j) % m = a + j - m
    BY <1>2, <2>1
  <2> QED
    BY <1>1, <1>2, <1>3, <2>1, <2>2
<1>5. (a + j) % m = a + j /\ (a + l) % m = a + l
  BY <1>2, <1>4
<1> QED
  BY <1>1, <1>3, <1>5

\* One more slot.
LEMMA CopyOne ==
    ASSUME NEW slots \in SlotArrays, NEW ld, Straight(slots), NEW i \in 0 .. kNumSlot - 1, NEW acc,
           CopyOf(acc, slots, ld, i)
    PROVE  CopyOf(IF Moves(slots[i].key, ld) THEN Insert4split(acc, slots[i]) ELSE acc, slots, ld, i + 1)
<1>0. /\ i \in Slots /\ i \in Nat /\ Slots \subseteq Nat /\ slots[i] \in SlotRec
      /\ \A o \in 0 .. i : o \in 0 .. i - 1 \/ o = i
      /\ 0 .. i - 1 \subseteq 0 .. i /\ (i + 1) - 1 = i /\ i \in 0 .. i
      /\ \A o \in 0 .. i - 1 : o \in Slots /\ o # i
  BY ValuesKnown DEF Slots, SlotArrays
<1>1. /\ acc \in SlotArrays
      /\ \A r \in Slots : acc[r].key # INVALID =>
            /\ r < i
            /\ \E o \in 0 .. i - 1 : slots[o] = acc[r] /\ Moves(slots[o].key, ld)
            /\ \E j \in 0 .. ProbeLength - 1 : r = Window(acc[r].key)[j]
      /\ \A o \in 0 .. i - 1 : Moves(slots[o].key, ld) => \E r \in Slots : acc[r] = slots[o]
      /\ \A k \in Keys : Once(slots, k) => Once(acc, k)
  BY DEF CopyOf
<1>2. CASE ~Moves(slots[i].key, ld)
  <2>1. \A r \in Slots : acc[r].key # INVALID =>
            /\ r < i + 1
            /\ \E o \in 0 .. i : slots[o] = acc[r] /\ Moves(slots[o].key, ld)
            /\ \E j \in 0 .. ProbeLength - 1 : r = Window(acc[r].key)[j]
    BY <1>0, <1>1
  <2>2. \A o \in 0 .. i : Moves(slots[o].key, ld) => \E r \in Slots : acc[r] = slots[o]
    BY <1>0, <1>1, <1>2
  <2> QED
    BY <1>0, <1>1, <1>2, <2>1, <2>2 DEF CopyOf
<1>3. CASE Moves(slots[i].key, ld)
  <2>1. PICK k : k = slots[i].key
    OBVIOUS
  <2>2. k \in Keys /\ slots[i].key \in Keys
    <3>1. k \in Keys \cup {INVALID, SENTINEL}
      BY <1>0, <2>1 DEF SlotRec
    <3> QED
      BY <1>3, <2>1, <3>1, MovesKey
  <2>3. PICK j0 \in 0 .. ProbeLength - 1 : i = Window(k)[j0] /\ Loc[k] <= i
    BY <1>0, <2>1, <2>2 DEF Straight
  <2>4. acc[i].key = INVALID
    BY <1>0, <1>1
  <2>5. PICK b : b = Insert4split(acc, slots[i])
    OBVIOUS
  <2>6. /\ b \in SlotArrays
        /\ \/ /\ b = acc
              /\ \A j \in 0 .. ProbeLength - 1 : acc[Window(k)[j]].key # INVALID
           \/ \E j \in 0 .. ProbeLength - 1 :
                /\ acc[Window(k)[j]].key = INVALID
                /\ \A l \in 0 .. ProbeLength - 1 : acc[Window(k)[l]].key = INVALID => j <= l
                /\ b[Window(k)[j]] = slots[i]
                /\ \A s \in Slots : s # Window(k)[j] => b[s] = acc[s]
    <3>1. PICK rec : rec = slots[i]
      OBVIOUS
    <3>2. rec \in SlotRec /\ rec.key \in Keys /\ acc \in SlotArrays /\ rec.key = k /\ b = Insert4split(acc, rec)
      BY <1>0, <1>1, <2>1, <2>2, <2>5, <3>1
    <3>3. /\ Insert4split(acc, rec) \in SlotArrays
          /\ \/ /\ Insert4split(acc, rec) = acc
                /\ \A j \in 0 .. ProbeLength - 1 : acc[Window(rec.key)[j]].key # INVALID
             \/ \E j \in 0 .. ProbeLength - 1 :
                  /\ acc[Window(rec.key)[j]].key = INVALID
                  /\ \A l \in 0 .. ProbeLength - 1 : acc[Window(rec.key)[l]].key = INVALID => j <= l
                  /\ Insert4split(acc, rec)[Window(rec.key)[j]] = rec
                  /\ \A s \in Slots : s # Window(rec.key)[j] => Insert4split(acc, rec)[s] = acc[s]
      BY <3>2, InsertKnown
    <3> QED
      BY <3>1, <3>2, <3>3
  <2>7. PICK j \in 0 .. ProbeLength - 1 :
           /\ acc[Window(k)[j]].key = INVALID /\ j <= j0
           /\ b[Window(k)[j]] = slots[i]
           /\ \A s \in Slots : s # Window(k)[j] => b[s] = acc[s]
    BY <2>3, <2>4, <2>6
  <2>8. PICK w : w = Window(k)[j]
    OBVIOUS
  <2>9. w <= i /\ w \in Slots
    <3>1. j \in 0 .. j0 /\ Loc[k] \in Nat /\ j0 \in Nat
      BY <2>2, <2>7, TableAssumption, ValuesKnown DEF Slots
    <3>2. w = Loc[k] + j /\ i = Loc[k] + j0
      BY <2>2, <2>3, <2>8, <3>1, WindowStraight
    <3>3. PICK a, m : a = Loc[k] /\ m = kNumSlot
      OBVIOUS
    <3>4. a \in Nat /\ m \in Nat /\ i \in 0 .. m - 1
      BY <3>1, <3>3, ValuesKnown
    <3>5. a + j \in 0 .. m - 1 /\ a + j <= i
      BY <3>1, <3>2, <3>3, <3>4
    <3> QED
      BY <3>2, <3>3, <3>5 DEF Slots
  <2>10. ASSUME NEW r \in Slots, b[r].key # INVALID
         PROVE  /\ r < i + 1
                /\ \E o \in 0 .. i : slots[o] = b[r] /\ Moves(slots[o].key, ld)
                /\ \E l \in 0 .. ProbeLength - 1 : r = Window(b[r].key)[l]
    <3>1. CASE r = w
      <4>1. r < i + 1
        BY <1>0, <2>9, <3>1
      <4> QED
        BY <1>0, <1>3, <2>1, <2>7, <2>8, <3>1, <4>1
    <3>2. CASE r # w
      <4>1. b[r] = acc[r]
        BY <2>7, <2>8, <3>2
      <4> QED
        BY <1>0, <1>1, <2>10, <4>1
    <3> QED
      BY <3>1, <3>2
  <2>11. ASSUME NEW o \in 0 .. i, Moves(slots[o].key, ld) PROVE \E r \in Slots : b[r] = slots[o]
    <3>1. CASE o = i
      BY <2>7, <2>8, <2>9, <3>1
    <3>2. CASE o \in 0 .. i - 1
      <4>1. PICK r \in Slots : acc[r] = slots[o]
        BY <1>1, <2>11, <3>2
      <4>2. o \in Slots
        BY <1>0, <3>2
      <4>3. slots[o].key \in Keys \cup {INVALID, SENTINEL}
        BY <4>2 DEF SlotArrays, SlotRec
      <4>4. acc[r].key # INVALID
        BY <2>11, <4>1, <4>3, MovesKey, ValuesKnown
      <4>5. r # w
        BY <2>7, <2>8, <4>4
      <4> QED
        BY <2>7, <2>8, <4>1, <4>5
    <3> QED
      BY <1>0, <3>1, <3>2
  <2>12. ASSUME NEW q \in Keys, Once(slots, q) PROVE Once(b, q)
    <3> SUFFICES ASSUME NEW r \in Slots, NEW p \in Slots, b[r].key = q, b[p].key = q PROVE r = p
      BY DEF Once
    <3>1. \A s \in Slots : s # w => b[s] = acc[s]
      BY <2>7, <2>8
    <3>2. q = k => \A s \in Slots : s # w => b[s].key # q
      <4> SUFFICES ASSUME q = k, NEW s \in Slots, s # w, acc[s].key = q PROVE FALSE
        BY <3>1
      <4>1. PICK o \in 0 .. i - 1 : slots[o] = acc[s]
        BY <1>1, <2>12, ValuesKnown
      <4>2. o \in Slots /\ o # i
        BY <1>0
      <4> QED
        BY <1>0, <2>1, <2>12, <4>1, <4>2 DEF Once
    <3>3. b[w].key = k
      BY <2>1, <2>7, <2>8
    <3>4. Once(acc, q)
      BY <1>1, <2>12
    <3> QED
      BY <3>1, <3>2, <3>3, <3>4 DEF Once
  <2>13. CopyOf(b, slots, ld, i + 1)
    BY <1>0, <2>6, <2>10, <2>11, <2>12 DEF CopyOf
  <2> QED
    BY <1>3, <2>5, <2>13
<1> QED
  BY <1>2, <1>3

LEMMA CopiedEntries ==
    ASSUME NEW slots \in SlotArrays, NEW ld, Straight(slots)
    PROVE  CopyOf(Copied(slots, ld), slots, ld, kNumSlot)
<1>1. PICK w : /\ w[0] = EmptySlots /\ Copied(slots, ld) = w[kNumSlot]
               /\ \A i \in 0 .. kNumSlot - 1 :
                    w[i + 1] = IF Moves(slots[i].key, ld) THEN Insert4split(w[i], slots[i]) ELSE w[i]
  BY CopySteps
<1> DEFINE S == {i \in Nat : CopyOf(w[i], slots, ld, i)}
<1>2. 0 \in S
  <2>1. \A k \in Keys : Once(EmptySlots, k)
    BY EmptyTyped, ValuesKnown DEF Once
  <2>2. CopyOf(EmptySlots, slots, ld, 0)
    BY <2>1, EmptyTyped DEF CopyOf
  <2> QED
    BY <1>1, <2>2
<1>3. ASSUME NEW i \in 0 .. kNumSlot - 1, i \in S PROVE i + 1 \in S
  <2>1. CopyOf(IF Moves(slots[i].key, ld) THEN Insert4split(w[i], slots[i]) ELSE w[i], slots, ld, i + 1)
    BY <1>3, CopyOne
  <2>2. i + 1 \in Nat
    BY ValuesKnown
  <2> QED
    BY <1>1, <2>1, <2>2
<1> HIDE DEF S
<1>4. \A i \in 0 .. kNumSlot : i \in S
  BY <1>2, <1>3, ValuesKnown, Climb
<1>5. kNumSlot \in S
  BY <1>4, ValuesKnown
<1> QED
  BY <1>1, <1>5 DEF S


\* A split keeps the entries: those that move are in the new segment, and no
\* longer count in the old one.
LEMMA SplitEntries ==
    ASSUME Typed, Typed', Alone, Apart, Chosen, Table, Writers, NEW t \in Threads, SplitCopy(t), ~wrapped'
    PROVE  Table' /\ Writers'
<1>0. PICK g, n, k, ld, old, new : /\ g = thread[t].seg /\ n = used /\ k = thread[t].key
                                   /\ ld = segs[g].local_depth /\ old = segs[g].slots
                                   /\ new = Copied(old, ld)
  OBVIOUS
<1>1. /\ thread[t].at = "copy" /\ k \in Keys /\ thread'[t].at = "lockdir"
      /\ \A u \in Threads : u # t => thread'[u] = thread[u]
      /\ g \in 0 .. used - 1 /\ n \in 1 .. Pow2[MaxDepth] - 1 /\ used' = n + 1
      /\ ld \in InitDepth .. MaxDepth - 1 /\ segs[g].pattern = Top(Bits[k], ld)
      /\ old \in SlotArrays /\ InTwo(t, g, n) /\ last' = last
      /\ ~PastEnd(old)
  BY <1>0, SplitCopyKnown
<1>2. /\ n \in Nat /\ n \in SegIds /\ g \in SegIds /\ g # n /\ SegIds \subseteq Nat /\ n = used
      /\ ld \in 0 .. MaxDepth - 1 /\ MaxDepth \in Nat /\ ld + 1 \in 0 .. MaxDepth
      /\ 0 .. used - 1 \subseteq SegIds /\ \A h \in 0 .. used - 1 : h # n
      /\ n \in 0 .. used' - 1 /\ \A h \in 0 .. used' - 1 : h = n \/ h \in 0 .. used - 1
      /\ 0 .. used - 1 \subseteq 0 .. used' - 1
  <2>1. n = used /\ Pow2[MaxDepth] \in Nat /\ 0 .. used - 1 \subseteq SegIds /\ SegIds \subseteq Nat
        /\ MaxDepth \in Nat /\ InitDepth \in Nat
    BY <1>0, DepthNat, PowNat, SegsUsed, LeafNat
  <2>2. n \in Nat /\ n \in SegIds /\ g \in SegIds /\ g # n
    BY <1>1, <2>1 DEF SegIds
  <2>3. ld \in 0 .. MaxDepth - 1 /\ ld + 1 \in 0 .. MaxDepth
    BY <1>1, <2>1
  <2>4. /\ \A h \in 0 .. used - 1 : h # n
        /\ n \in 0 .. used' - 1 /\ \A h \in 0 .. used' - 1 : h = n \/ h \in 0 .. used - 1
        /\ 0 .. used - 1 \subseteq 0 .. used' - 1
    BY <1>1, <2>1, <2>2
  <2> QED
    BY <2>1, <2>2, <2>3, <2>4
<1>3. \A z \in SegIds : /\ Has(g, z) <=> Has(g, z)' \/ Has(n, z)'
                        /\ ~(Has(g, z)' /\ Has(n, z)')
                        /\ \A h \in SegIds : h # g /\ h # n => (Has(h, z)' <=> Has(h, z))
  BY <1>0, <1>1, <1>2, HalvesHas
<1>4. /\ segs'[g].slots = old /\ segs'[n].slots = new
      /\ segs'[n].local_depth = ld + 1 /\ segs'[n].pattern = 2 * Top(Bits[k], ld) + 1
      /\ \A h \in SegIds : h # g /\ h # n => segs'[h] = segs[h]
  BY <1>0, <1>1 DEF InTwo
<1>5. Straight(old)
  <2> SUFFICES ASSUME NEW s \in Slots, old[s].key \in Keys
               PROVE  Loc[old[s].key] <= s /\ \E j \in 0 .. ProbeLength - 1 : s = Window(old[s].key)[j]
    BY DEF Straight
  <2>1. \E j \in 0 .. ProbeLength - 1 : s = Window(old[s].key)[j]
    BY <1>0, <1>1 DEF Table, InWindow, Cell
  <2>2. ~(s < Loc[old[s].key])
    BY <1>1, ValuesKnown DEF PastEnd
  <2>3. s \in Nat /\ Loc[old[s].key] \in Nat
    BY TableAssumption DEF Slots
  <2> QED
    BY <2>1, <2>2, <2>3
<1>6. CopyOf(new, old, ld, kNumSlot)
  BY <1>0, <1>1, <1>5, CopiedEntries
<1>7. ASSUME NEW q \in Keys, Has(g, Bits[q]) PROVE Has(n, Bits[q])' <=> Moves(q, ld)
  <2>1. PICK z : z = Bits[q]
    OBVIOUS
  <2>2. z \in SegIds /\ z \in Nat
    BY <1>2, <2>1, BitsLeaf
  <2>3. Top(z, ld) = Top(Bits[k], ld)
    BY <1>0, <1>1, <1>7, <2>1 DEF Has
  <2>4. Top(z, ld + 1) % 2 = 1 <=> Top(z, ld + 1) = 2 * Top(z, ld) + 1
    BY <1>2, <2>2, TopChild
  <2>5. Has(n, z)' <=> Top(z, ld + 1) = 2 * Top(Bits[k], ld) + 1
    BY <1>4 DEF Has
  <2>6. Moves(q, ld) <=> Top(z, ld + 1) % 2 = 1
    <3>1. Prefix(q, ld + 1) = Top(z, ld + 1)
      BY <1>2, <2>1, PrefixTop
    <3> QED
      BY <3>1, ValuesKnown DEF Moves
  <2> QED
    BY <2>1, <2>3, <2>4, <2>5, <2>6
<1>8. /\ \A h \in 0 .. used - 1 : \A r \in Slots : Cell(h, r)' = Cell(h, r)
      /\ \A r \in Slots : Cell(n, r)' = new[r] /\ Cell(g, r) = old[r]
  BY <1>0, <1>2, <1>4 DEF Cell
\* The copy.
<1>9. /\ \A r \in Slots : new[r].key # INVALID =>
            /\ \E o \in Slots : old[o] = new[r]
            /\ \E j \in 0 .. ProbeLength - 1 : r = Window(new[r].key)[j]
      /\ \A o \in Slots : Moves(old[o].key, ld) => \E r \in Slots : new[r] = old[o]
      /\ \A q \in Keys : Once(old, q) => Once(new, q)
  BY <1>6 DEF CopyOf, Slots
<1>10. ASSUME NEW q \in Keys, NEW r \in Slots, Live(n, r, q)'
       PROVE  Has(g, Bits[q]) /\ \E o \in Slots : old[o] = new[r] /\ Live(g, o, q)
  <2>1. Has(n, Bits[q])' /\ new[r].key = q
    BY <1>8, <1>10 DEF Live
  <2>2. Has(g, Bits[q])
    BY <1>3, <2>1, BitsLeaf
  <2>3. PICK o \in Slots : old[o] = new[r]
    BY <1>9, <2>1, ValuesKnown
  <2> QED
    BY <1>8, <2>1, <2>2, <2>3 DEF Live
<1>11. ASSUME NEW q \in Keys, NEW h \in 0 .. used - 1, NEW r \in Slots, Live(h, r, q)'
       PROVE  Live(h, r, q)
  <2>1. Has(h, Bits[q])' /\ Cell(h, r).key = q
    BY <1>8, <1>11 DEF Live
  <2>2. Has(h, Bits[q])
    BY <1>2, <1>3, <2>1, BitsLeaf
  <2> QED
    BY <2>1, <2>2 DEF Live
<1>12. InWindow'
  <2> SUFFICES ASSUME NEW h \in 0 .. used' - 1, NEW r \in Slots, Cell(h, r)'.key \in Keys
               PROVE  \E j \in 0 .. ProbeLength - 1 : r = Window(Cell(h, r)'.key)[j]
    BY DEF InWindow
  <2>1. CASE h = n
    BY <1>8, <1>9, <2>1, ValuesKnown
  <2>2. CASE h \in 0 .. used - 1
    BY <1>8, <2>2 DEF Table, InWindow
  <2> QED
    BY <1>2, <2>1, <2>2
<1>13. OneLive'
  <2> SUFFICES ASSUME NEW q \in Keys, NEW h \in 0 .. used' - 1, NEW r \in Slots, NEW p \in Slots,
                      Live(h, r, q)', Live(h, p, q)'
               PROVE  r = p
    BY DEF OneLive
  <2>1. CASE h = n
    <3>1. Has(g, Bits[q])
      BY <1>10, <2>1
    <3>2. Once(old, q)
      BY <1>1, <1>8, <3>1 DEF Table, OneLive, Live, Once
    <3>3. new[r].key = q /\ new[p].key = q
      BY <1>8, <2>1 DEF Live
    <3> QED
      BY <1>9, <3>2, <3>3 DEF Once
  <2>2. CASE h \in 0 .. used - 1
    BY <1>11, <2>2 DEF Table, OneLive
  <2> QED
    BY <1>2, <2>1, <2>2
<1>14. LiveValue'
  <2> SUFFICES ASSUME NEW q \in Keys, NEW h \in 0 .. used' - 1, NEW r \in Slots, Live(h, r, q)'
               PROVE  Cell(h, r)'.val = last'[q]
    BY DEF LiveValue
  <2>1. CASE h = n
    <3>1. PICK o \in Slots : old[o] = new[r] /\ Live(g, o, q)
      BY <1>10, <2>1
    <3>2. Cell(g, o).val = last[q]
      BY <1>1, <3>1 DEF Table, LiveValue
    <3> QED
      BY <1>1, <1>8, <2>1, <3>1, <3>2
  <2>2. CASE h \in 0 .. used - 1
    BY <1>1, <1>8, <1>11, <2>2 DEF Table, LiveValue
  <2> QED
    BY <1>2, <2>1, <2>2
<1>15. Kept'
  <2> SUFFICES ASSUME NEW q \in Keys, last'[q] # Tombstone
               PROVE  \E h \in 0 .. used' - 1 : \E r \in Slots : Live(h, r, q)'
    BY DEF Kept
  <2>1. PICK h \in 0 .. used - 1, r \in Slots : Live(h, r, q)
    BY <1>1 DEF Table, Kept
  <2>2. Cell(h, r)' = Cell(h, r) /\ Cell(h, r).key = q /\ Has(h, Bits[q]) /\ h \in 0 .. used' - 1
    BY <1>2, <1>8, <2>1 DEF Live
  <2>3. CASE Has(h, Bits[q])'
    BY <2>2, <2>3 DEF Live
  <2>4. CASE ~Has(h, Bits[q])'
    <3>1. h = g
      BY <1>2, <1>3, <2>2, <2>4, BitsLeaf
    <3>2. Has(n, Bits[q])' /\ Moves(q, ld)
      BY <1>3, <1>7, <2>2, <2>4, <3>1, BitsLeaf
    <3>3. old[r].key = q
      BY <1>8, <2>2, <3>1
    <3>4. PICK s \in Slots : new[s] = old[r]
      BY <1>9, <3>2, <3>3
    <3>5. Live(n, s, q)'
      BY <1>8, <3>2, <3>3, <3>4 DEF Live
    <3> QED
      BY <1>2, <3>5
  <2> QED
    BY <2>3, <2>4
\* No writer is in a segment that is being split.
<1>16. ASSUME NEW u \in Threads, Writer(u)'
       PROVE  /\ u # t /\ Writer(u) /\ thread'[u] = thread[u]
              /\ thread[u].seg \in SegIds /\ thread[u].seg # g /\ thread[u].seg # n
  <2>1. u # t
    BY <1>1, <1>16 DEF Writer, Working
  <2>2. thread'[u] = thread[u] /\ Writer(u)
    BY <1>1, <1>16, <2>1 DEF Writer, Writes
  <2>3. Inside(g) = {}
    BY <1>0, <1>1, <1>2 DEF Alone, Splitters
  <2>4. thread[u].seg # g
    BY <2>2, <2>3 DEF Inside, Writer, Working
  <2>5. thread[u].seg \in 0 .. used - 1
    BY ThreadKnown
  <2> QED
    BY <1>2, <2>1, <2>2, <2>4, <2>5
<1>17. Solo'
  BY <1>16 DEF Writers, Solo
<1>18. Home'
  <2> SUFFICES ASSUME NEW u \in Threads, Writer(u)' PROVE Has(thread[u].seg, Bits[thread[u].key])'
    BY DEF Home
  <2>1. Has(thread[u].seg, Bits[thread[u].key]) /\ segs'[thread[u].seg] = segs[thread[u].seg]
    BY <1>4, <1>16 DEF Writers, Home
  <2> QED
    BY <1>16, <2>1 DEF Has
<1>19. InPlace'
  <2> SUFFICES ASSUME NEW u \in Threads PROVE Placed(u)'
    BY DEF InPlace
  <2>1. CASE ~Writer(u)'
    BY <2>1 DEF Placed, Writer, Working, Typed, Writes
  <2>2. CASE Writer(u)'
    <3>1. PICK h : h = thread[u].seg
      OBVIOUS
    <3>2. segs'[h] = segs[h] /\ thread'[u] = thread[u] /\ Placed(u)
      BY <1>4, <1>16, <2>2, <3>1 DEF Writers, InPlace
    <3>3. SlotAt(u)' = SlotAt(u)
      BY <3>1, <3>2 DEF SlotAt, Seg, SlotNo
    <3> QED
      BY <1>1, <3>1, <3>2, <3>3 DEF Placed, Has
  <2> QED
    BY <2>1, <2>2
<1>20. AllSharp'
  <2> SUFFICES ASSUME NEW u \in Threads, Writer(u)', NEW q \in Keys, Has(thread[u].seg, Bits[q])'
               PROVE  (Prefix(q, thread[u].shift) = Seg(u).pattern)'
    BY DEF AllSharp, Sharp
  <2>1. PICK h : h = thread[u].seg
    OBVIOUS
  <2>2. Writer(u) /\ thread'[u] = thread[u] /\ segs'[h] = segs[h]
    BY <1>4, <1>16, <2>1
  <2>3. Has(h, Bits[q])
    BY <2>1, <2>2 DEF Has
  <2>4. Prefix(q, thread[u].shift) = segs[h].pattern
    BY <2>1, <2>2, <2>3 DEF Writers, AllSharp, Sharp, Seg
  <2> QED
    BY <2>1, <2>2, <2>4 DEF Prefix, Seg
<1> QED
  BY <1>12, <1>13, <1>14, <1>15, <1>17, <1>18, <1>19, <1>20 DEF Table, Writers

-----------------------------------------------------------------------------
(* The entries, step by step.                                              *)

\* A step after which the thread is no writer, and that leaves the entries.
LEMMA BesideEntries ==
    ASSUME Typed', Table, Writers, NEW t \in Threads, Fits(t), Quiet, UNCHANGED <<segs, last>>, ~Writer(t)'
    PROVE  Table' /\ Writers'
<1>1. used' = used /\ \A u \in Threads : u # t => thread'[u] = thread[u]
  BY DEF Fits, Quiet
<1> QED
  BY <1>1, TableSame, WritersSame


\* Where the steps outside of a segment lead.
LEMMA OutsideKnown ==
    ASSUME Typed, NEW t \in Threads, Target(t) \/ Check(t) \/ SplitBound(t) \/ LockDir(t)
    PROVE  /\ thread'[t].at \in {"idle", "target", "check", "depth", "enter", "split"} \cup Splitters
           /\ UNCHANGED <<segs, last>>
<1>1. CASE Target(t)
  <2>1. PICK r : /\ To(t, r) /\ r.at \in {"check", "enter"}
    <3>1. To(t, [thread[t] EXCEPT !.seg = dir[Prefix(thread[t].key, depth)], !.ret = 1, !.i = 0,
                                  !.at = IF Writes(t) THEN "check" ELSE "enter"])
      BY <1>1 DEF Target
    <3>2. thread[t] \in ThreadRec
      BY ThreadKnown
    <3>3. [thread[t] EXCEPT !.seg = dir[Prefix(thread[t].key, depth)], !.ret = 1, !.i = 0,
                            !.at = IF Writes(t) THEN "check" ELSE "enter"].at \in {"check", "enter"}
      BY <3>2 DEF ThreadRec
    <3> QED
      BY <3>1, <3>3
  <2>2. thread'[t] = r
    BY <2>1, Others
  <2> QED
    BY <1>1, <2>1, <2>2 DEF Target, tableVars, history
<1>2. CASE Check(t)
  <2>1. PICK l \in {"target", "split", "depth"} : Goto(t, l)
    BY <1>2 DEF Check
  <2>2. Turned(t, l)
    BY <2>1, GotoKnown DEF Places
  <2> QED
    BY <1>2, <2>1, <2>2 DEF Check, Turned, tableVars, history
<1>3. CASE SplitBound(t)
  BY <1>3, IdleKnown DEF SplitBound, tableVars, history
<1>4. CASE LockDir(t)
  <2>1. Turned(t, "dir")
    BY <1>4, GotoKnown DEF LockDir, Places, Splitters
  <2> QED
    BY <1>4, <2>1 DEF LockDir, Turned, Splitters, tableVars, history
<1> QED
  BY <1>1, <1>2, <1>3, <1>4

LEMMA ScanGetKnown ==
    ASSUME Typed, NEW t \in Threads, ScanGet(t)
    PROVE  thread'[t].op = thread[t].op /\ ~Writes(t) /\ UNCHANGED <<segs, last>>
<1>1. CASE SlotAt(t).key = thread[t].key
  <2>1. PICK r : r = [thread[t] EXCEPT !.at = "leave", !.val = SlotAt(t).val, !.ret = 0]
    OBVIOUS
  <2>2. thread[t] \in ThreadRec
    BY ThreadKnown
  <2>3. r.op = thread[t].op /\ To(t, r)
    BY <1>1, <2>1, <2>2 DEF ScanGet, ThreadRec
  <2> QED
    BY <2>3, Others DEF ScanGet, tableVars, history
<1>2. CASE SlotAt(t).key # thread[t].key
  <2>1. NextProbe(t)
    BY <1>2 DEF ScanGet
  <2> QED
    BY <2>1, NextProbeKnown DEF Turned, ScanGet, tableVars, history
<1> QED
  BY <1>1, <1>2

\* A look at a slot.
LEMMA ScanEntries ==
    ASSUME Typed, Typed', Table, Writers, NEW t \in Threads, ScanInsert(t)
    PROVE  Table' /\ Writers'
<1>1. /\ thread[t].at = "scan" /\ thread[t].key \in Keys /\ Writes(t)
      /\ thread'[t].seen = SlotAt(t).key
      /\ \/ Turned(t, "invalidate") /\ Stale(t, SlotAt(t).key)
         \/ Turned(t, "claim")
      /\ UNCHANGED <<segs, used, last>>
  BY ScanInsertKnown DEF ScanInsert, tableVars, history
<1>2. Writer(t)
  BY <1>1 DEF Writer, Working
<1>3. Placed(t)'
  <2>1. CASE Turned(t, "claim")
    BY <2>1 DEF Turned, Placed
  <2>2. CASE Turned(t, "invalidate") /\ Stale(t, SlotAt(t).key)
    <3>1. PICK q : q = SlotAt(t).key
      OBVIOUS
    <3>0. Sharp(t)
      BY <1>2 DEF Writers, AllSharp
    <3>2. q # INVALID /\ (q \in Keys => ~Has(thread[t].seg, Bits[q]))
      BY <2>2, <3>0, <3>1, ValuesKnown DEF Stale, Sharp
    <3>3. thread'[t].seg = thread[t].seg /\ thread'[t].at = "invalidate" /\ thread'[t].seen = q
      BY <1>1, <2>2, <3>1 DEF Turned
    <3>4. q \in Keys => ~Has(thread[t].seg, Bits[q])'
      BY <1>1, <3>2, <3>3 DEF Has
    <3> QED
      BY <3>2, <3>3, <3>4 DEF Placed
  <2> QED
    BY <1>1, <2>1, <2>2
<1> QED
  BY <1>1, <1>2, <1>3, TableSame, WritersSame DEF Turned

LEMMA CleanBefore ==
    ASSUME Typed, NEW t \in Threads, Beginning(t) \/ Step(t), Clean'
    PROVE  Clean
<1>1. Rest => Clean
  BY DEF Rest, Clean
<1>2. UNCHANGED history => Clean
  BY DEF history, Clean
<1>3. CASE SplitCopy(t)
  BY <1>3 DEF SplitCopy, Note, Clean
<1>4. CASE Enter(t)
  BY <1>1, <1>4, EnterQuiet
<1>5. CASE SplitLock(t)
  BY <1>1, <1>5, SplitLockQuiet
<1>6. CASE Beginning(t)
  BY <1>2, <1>6, BeginKnown
<1>7. CASE Fill(t)
  BY <1>1, <1>7, SlotStepsQuiet
<1>8. CASE Update(t)
  BY <1>1, <1>8, SlotStepsQuiet
<1>9. CASE ScanGet(t) \/ ScanInsert(t) \/ Invalidate(t) \/ Wipe(t) \/ Claim(t) \/ Erase(t) \/ Leave(t)
  BY <1>2, <1>9 DEF ScanGet, ScanInsert, Invalidate, Wipe, Claim, Erase, Leave
<1>10. CASE Target(t) \/ Check(t) \/ ReadDepth(t) \/ ReadPattern(t) \/ SplitBound(t) \/ LockDir(t) \/ UpdateDir(t) \/ SplitUnlock(t)
  BY <1>2, <1>10 DEF Target, Check, ReadDepth, ReadPattern, SplitBound, LockDir, UpdateDir, SplitUnlock
<1> QED
  BY <1>3, <1>4, <1>5, <1>6, <1>7, <1>8, <1>9, <1>10 DEF Step, Scan

LEMMA EntryStep ==
    ASSUME TreeInv, TreeInv', EntryInv, NEW t \in Threads, Beginning(t) \/ Step(t)
    PROVE  EntryInv'
<1> SUFFICES ASSUME Clean' PROVE Table' /\ Writers'
  BY DEF EntryInv
<1>0. /\ Typed /\ Typed' /\ Counted /\ Alone /\ Apart /\ Chosen
      /\ Table /\ Writers
      /\ ~shared' /\ ~stray' /\ ~late' /\ ~wrapped' /\ ~doubled'
  <2>1. Typed /\ Typed' /\ Counted /\ Alone /\ Apart /\ Chosen
    BY DEF TreeInv
  <2>2. Clean
    BY <2>1, CleanBefore
  <2> QED
    BY <2>1, <2>2 DEF EntryInv, Clean
<1>1. CASE Beginning(t)
  <2>1. Fits(t) /\ Quiet /\ thread'[t].at = "target"
    BY <1>0, <1>1, BeginKnown
  <2>2. UNCHANGED <<segs, last>>
    BY <1>1 DEF Beginning, Insert, Delete, Get, Begin, tableVars, history
  <2>3. ~Writer(t)'
    BY <2>1 DEF Writer, Working
  <2> QED
    BY <1>0, <2>1, <2>2, <2>3, BesideEntries
<1>2. CASE Target(t) \/ Check(t) \/ SplitBound(t) \/ LockDir(t)
  <2>1. Fits(t) /\ Quiet
    BY <1>0, <1>2, TargetQuiet, CheckQuiet, SplitBoundQuiet, LockDirQuiet
  <2>2. UNCHANGED <<segs, last>>
        /\ thread'[t].at \in {"idle", "target", "check", "depth", "enter", "split"} \cup Splitters
    BY <1>0, <1>2, OutsideKnown
  <2>3. ~Writer(t)'
    BY <2>2 DEF Writer, Working, Splitters
  <2> QED
    BY <1>0, <2>1, <2>2, <2>3, BesideEntries
<1>3. CASE Enter(t)
  <2>1. /\ Fits(t) /\ Quiet
        /\ Entered(t) \/ \E l \in {"split", "target"} : Turned(t, l)
        /\ UNCHANGED <<segs, last>>
    BY <1>0, <1>3, EnterQuiet DEF Enter, tableVars
  <2>2. CASE Entered(t)
    <3>1. Writes(t) => ~(Sema(t).n > 0)
      BY <1>0, <2>2 DEF Entered
    <3>2. Table'
      BY <1>0, <2>1, TableSame DEF Quiet
    <3>3. Writers'
      BY <1>0, <2>1, <2>2, <3>1, EnterWriters
    <3> QED
      BY <3>2, <3>3
  <2>3. CASE \E l \in {"split", "target"} : Turned(t, l)
    <3>1. ~Writer(t)'
      BY <2>3 DEF Turned, Writer, Working
    <3> QED
      BY <1>0, <2>1, <3>1, BesideEntries
  <2> QED
    BY <2>1, <2>2, <2>3
<1>4. CASE ScanGet(t)
  <2>1. Fits(t) /\ Quiet
    BY <1>0, <1>4, ScanGetQuiet
  <2>2. thread'[t].op = thread[t].op /\ ~Writes(t) /\ UNCHANGED <<segs, last>>
    BY <1>0, <1>4, ScanGetKnown
  <2>3. ~Writer(t)'
    BY <2>2 DEF Writer, Writes
  <2> QED
    BY <1>0, <2>1, <2>2, <2>3, BesideEntries
<1>5. CASE ScanInsert(t)
  BY <1>0, <1>5, ScanEntries
<1>6. CASE Invalidate(t) \/ Wipe(t) \/ Claim(t) \/ Update(t) \/ Erase(t)
  BY <1>0, <1>6, InvalidateEntries, WipeEntries, ClaimEntries, UpdateEntries, EraseEntries
<1>7. CASE Fill(t)
  BY <1>0, <1>7, FillEntries
<1>8. CASE Leave(t)
  <2>1. Fits(t) /\ Quiet /\ UNCHANGED <<segs, last>> /\ thread'[t].at \in {"idle", "split"}
    BY <1>0, <1>8, LeaveQuiet
  <2>2. ~Writer(t)'
    BY <2>1 DEF Writer, Working
  <2> QED
    BY <1>0, <2>1, <2>2, BesideEntries
<1>9. CASE SplitLock(t)
  <2>1. Fits(t) /\ Quiet /\ UNCHANGED <<segs, last>> /\ thread'[t].at \in {"copy", "target"}
    BY <1>0, <1>9, SplitLockQuiet
  <2>2. ~Writer(t)'
    BY <2>1 DEF Writer, Working
  <2> QED
    BY <1>0, <2>1, <2>2, BesideEntries
<1>10. CASE SplitCopy(t)
  BY <1>0, <1>10, SplitEntries
<1>11. CASE UpdateDir(t)
  <2>1. Turned(t, "unlock") /\ Fits(t) /\ UNCHANGED <<segs, used, history>>
    BY <1>0, <1>11, UpdateDirKnown
  <2>2. UNCHANGED <<segs, used, last>> /\ \A u \in Threads : u # t => thread'[u] = thread[u]
    BY <2>1 DEF history, Fits
  <2>3. ~Writer(t)'
    BY <2>1 DEF Turned, Writer, Working
  <2> QED
    BY <1>0, <2>2, <2>3, TableSame, WritersSame
<1>12. CASE SplitUnlock(t)
  <2>1. Fits(t) /\ Quiet /\ UNCHANGED <<segs, last>> /\ Turned(t, "target")
    BY <1>0, <1>12, SplitUnlockQuiet
  <2>2. ~Writer(t)'
    BY <2>1 DEF Turned, Writer, Working
  <2> QED
    BY <1>0, <2>1, <2>2, BesideEntries
<1>13. CASE ReadDepth(t)
  <2>1. Fits(t) /\ Quiet /\ UNCHANGED <<segs, last>> /\ thread'[t].at = "pattern"
    BY <1>0, <1>13, ReadDepthQuiet
  <2>2. ~Writer(t)'
    BY <2>1 DEF Writer, Working
  <2> QED
    BY <1>0, <2>1, <2>2, BesideEntries
<1>14. CASE ReadPattern(t)
  <2>1. Fits(t) /\ Quiet /\ \E l \in {"enter", "target"} : Turned(t, l)
    BY <1>0, <1>14, ReadPatternQuiet
  <2>2. UNCHANGED <<segs, last>>
    BY <1>14 DEF ReadPattern, tableVars, history
  <2>3. ~Writer(t)'
    BY <2>1 DEF Turned, Writer, Working
  <2> QED
    BY <1>0, <2>1, <2>2, <2>3, BesideEntries
<1> QED
  BY <1>1, <1>2, <1>3, <1>4, <1>5, <1>6, <1>7, <1>8, <1>9, <1>10, <1>11, <1>12, <1>13, <1>14 DEF Step, Scan
-----------------------------------------------------------------------------
(* The entries are kept.                                                   *)

LEMMA EntryInit == Init => EntryInv
<1> SUFFICES ASSUME Init PROVE Table /\ Writers
  BY DEF EntryInv
<1>1. /\ 0 .. used - 1 = 0 .. Pow2[InitDepth] - 1 /\ 0 .. used - 1 \subseteq SegIds
      /\ DOMAIN Filled = 0 .. used - 1 /\ InitDepth \in 0 .. MaxDepth
  <2>1. Pow2[InitDepth] \in 1 .. Pow2[MaxDepth] /\ Pow2[MaxDepth] \in Nat /\ used = Pow2[InitDepth]
        /\ InitDepth \in 0 .. MaxDepth
    BY DepthNat, PowMono, PowNat DEF Init
  <2> QED
    BY <2>1, FilledAssumption DEF SegIds
<1>2. ASSUME NEW g \in 0 .. used - 1
      PROVE  /\ \A s \in Slots : /\ Cell(g, s).key = Filled[g][s]
                                 /\ Filled[g][s] # INVALID => Cell(g, s).val = 1
             /\ \A z : Has(g, z) <=> Top(z, InitDepth) = g
  <2>1. segs[g] = [local_depth |-> InitDepth, pattern |-> g, slots |-> FirstSlots(g)]
    BY <1>1 DEF Init
  <2>2. FirstSlots(g) = [s \in Slots |-> [key |-> Filled[g][s],
                                          val |-> IF Filled[g][s] = INVALID THEN Tombstone ELSE 1]]
    BY <1>1 DEF FirstSlots
  <2> QED
    BY <2>1, <2>2 DEF Cell, Has
<1>3. \A g \in 0 .. used - 1 : \A s \in Slots : Filled[g][s] # INVALID =>
          /\ Prefix(Filled[g][s], InitDepth) = g
          /\ \E j \in 0 .. ProbeLength - 1 : s = Window(Filled[g][s])[j]
          /\ \A r \in Slots : Filled[g][r] = Filled[g][s] => r = s
  BY <1>1, FilledAssumption
<1>4. \A k \in Keys : last[k] = IF \E g \in DOMAIN Filled, s \in Slots : Filled[g][s] = k
                                THEN 1 ELSE Tombstone
  BY DEF Init
<1>5. InWindow
  BY <1>2, <1>3, ValuesKnown DEF InWindow
<1>6. OneLive
  BY <1>2, <1>3, ValuesKnown DEF OneLive, Live
<1>7. LiveValue
  BY <1>1, <1>2, <1>4, ValuesKnown DEF LiveValue, Live
<1>8. Kept
  <2> SUFFICES ASSUME NEW k \in Keys, last[k] # Tombstone
               PROVE  \E g \in 0 .. used - 1 : \E s \in Slots : Live(g, s, k)
    BY DEF Kept
  <2>1. PICK g \in 0 .. used - 1, s \in Slots : Filled[g][s] = k
    BY <1>1, <1>4
  <2>2. Top(Bits[k], InitDepth) = g
    BY <1>1, <1>3, <2>1, PrefixTop, ValuesKnown
  <2> QED
    BY <1>2, <2>1, <2>2 DEF Live
<1>9. Writers
  <2>1. \A t \in Threads : thread[t].at = "idle"
    BY IdleTyped DEF Init
  <2> QED
    BY <2>1 DEF Writers, Solo, Home, AllSharp, InPlace, Placed, Writer, Working
<1> QED
  BY <1>5, <1>6, <1>7, <1>8, <1>9 DEF Table

LEMMA EntryStutter == EntryInv /\ UNCHANGED vars => EntryInv'
<1> SUFFICES ASSUME EntryInv, UNCHANGED vars PROVE EntryInv'
  OBVIOUS
<1>1. UNCHANGED <<segs, used, last, thread, shared, stray, late, wrapped, doubled>>
  BY DEF vars, tableVars, history
<1>2. Table => Table'
  BY <1>1, TableSame
<1>3. Writers => Writers'
  BY <1>1 DEF Writers, Solo, Home, AllSharp, Sharp, InPlace, Placed, Writer, Writes, Has, SlotAt, Seg, SlotNo
<1> QED
  BY <1>1, <1>2, <1>3 DEF EntryInv, Clean

\* As long as none of the known ways to lose an entry was taken: every key with
\* a value has one entry that counts, with that value and in its window, and at
\* most one insert is at work in a segment, where its key belongs and whose keys
\* its shift tells from moved ones.
THEOREM EntryInvariance == Spec => []EntryInv
<1>1. Init => TreeInv /\ EntryInv
  BY TreeInit, EntryInit
<1>2. TreeInv /\ EntryInv /\ [Next]_vars => (TreeInv /\ EntryInv)'
  <2>1. CASE Next
    <3> SUFFICES ASSUME TreeInv, EntryInv, NEW t \in Threads, Beginning(t) \/ Step(t)
                 PROVE  TreeInv' /\ EntryInv'
      BY <2>1, NextStep
    <3>1. TreeInv'
      BY TreeStep
    <3> QED
      BY <3>1, EntryStep
  <2>2. CASE UNCHANGED vars
    BY <2>2, TreeStutter, EntryStutter
  <2> QED
    BY <2>1, <2>2
<1> QED
  BY <1>1, <1>2, PTL DEF Spec

\* A lookup finds what the invariant says is there.
LEMMA FoundFollows == TreeInv /\ EntryInv => QuietFound
<1> SUFFICES ASSUME TreeInv, EntryInv, \A t \in Threads : At(t, "idle"), Clean, NEW k \in Keys
             PROVE  Found(k) = last[k]
  BY DEF QuietFound, Clean
<1>1. Typed /\ Apart /\ Led /\ Table
  BY DEF TreeInv, EntryInv
<1>2. PICK g, x, d : g = dir[x] /\ x = Prefix(k, d) /\ d = depth
  OBVIOUS
<1>3. d \in 0 .. MaxDepth /\ Bits[k] \in SegIds /\ DOMAIN dir = 0 .. Pow2[d] - 1
  BY <1>1, <1>2, BitsLeaf, SegsUsed
<1>4. x = Top(Bits[k], d) /\ x \in DOMAIN dir
  BY <1>2, <1>3, PrefixTop, TopRange
<1>5. g \in 0 .. used - 1
  BY <1>1, <1>2, <1>4 DEF Typed
<1>6. Has(g, Bits[k])
  <2>1. \A t \in Threads : ~Pending(t)
    BY DEF Pending, At
  <2> QED
    BY <1>1, <1>2, <1>3, <1>4, <2>1 DEF Led, Astray
<1>7. DOMAIN Window(k) = 0 .. ProbeLength - 1 /\ ProbeLength \in Nat
  BY ValuesKnown DEF Window
<1>8. \A j \in 0 .. ProbeLength - 1 : Window(k)[j] \in Slots
  BY ValuesKnown, TableAssumption DEF Window, Slots
<1> DEFINE hits == {j \in DOMAIN Window(k) : segs[g].slots[Window(k)[j]].key = k}
           least == CHOOSE j \in hits : \A l \in hits : j <= l
<1>9. Found(k) = IF hits = {} THEN Tombstone ELSE segs[g].slots[Window(k)[least]].val
  BY <1>2 DEF Found
<1>10. ASSUME hits = {} PROVE last[k] = Tombstone
  <2> SUFFICES ASSUME last[k] # Tombstone PROVE FALSE
    OBVIOUS
  <2>1. PICK h \in 0 .. used - 1, r \in Slots : Live(h, r, k)
    BY <1>1 DEF Table, Kept
  <2>2. h = g /\ Cell(g, r).key = k
    BY <1>1, <1>3, <1>5, <1>6, <2>1 DEF Apart, Live
  <2>3. PICK j \in 0 .. ProbeLength - 1 : r = Window(k)[j]
    BY <1>1, <1>5, <2>2 DEF Table, InWindow
  <2>4. j \in hits
    BY <1>7, <2>2, <2>3 DEF Cell
  <2> QED
    BY <1>10, <2>4
<1>11. ASSUME hits # {} PROVE segs[g].slots[Window(k)[least]].val = last[k]
  <2>1. hits \in SUBSET Nat
    BY <1>7
  <2>2. \E j \in hits : \A l \in hits : j <= l
    BY <1>11, <2>1, LeastExists
  <2>3. least \in hits
    BY <2>2
  <2>4. PICK s : s = Window(k)[least]
    OBVIOUS
  <2>5. s \in Slots /\ segs[g].slots[s].key = k
    BY <1>7, <1>8, <2>3, <2>4
  <2>6. Live(g, s, k)
    BY <1>6, <2>5 DEF Live, Cell
  <2>7. Cell(g, s).val = last[k]
    BY <1>1, <1>5, <2>5, <2>6 DEF Table, LiveValue
  <2> QED
    BY <2>4, <2>7 DEF Cell
<1> QED
  BY <1>9, <1>10, <1>11

\* QuietFound: no entry is lost or comes back.  Between operations a lookup
\* finds the last value stored under every key, unless one of the known ways to
\* lose an entry was taken.
THEOREM FoundCorrect == Spec => []QuietFound
BY TreeInvariance, EntryInvariance, FoundFollows, PTL
=============================================================================
