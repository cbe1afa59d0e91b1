---------------------------- MODULE FiniteLemmas ----------------------------
(***************************************************************************)
(* Facts about finite sets and sequences that the proofs of this project   *)
(* share: sums, orders, and sequences put together.                        *)
(*                                                                         *)
(* The theorems of induction of the library take a predicate, which the    *)
(* provers cannot be given.  Here a set takes its place (Upwards), and     *)
(* what is left is the least number of a set of exceptions (LeastOf).      *)
(***************************************************************************)
EXTENDS Integers, FiniteSetsExt, SequencesExt, FiniteSetTheorems, SequenceTheorems, WellFoundedInduction, TLAPS

(* A set of natural numbers has a least one.                               *)
LEMMA LeastOf ==
  ASSUME NEW T \in SUBSET Nat, T # {}
  PROVE  \E m \in T : \A k \in T : m <= k
<1>1. PICK m \in T : \A k \in T : <<k, m>> \notin OpToRel(<, Nat)
  BY NatLessThanWellFounded, WFMin
<1>2. \A k \in T : ~(k < m)
  BY <1>1 DEF OpToRel
<1> QED BY <1>2

(* The smaller of two numbers.                                             *)
LEMMA MinIs ==
  ASSUME NEW a \in Int, NEW b \in Int
  PROVE  Min({a, b}) \in {a, b} /\ Min({a, b}) <= a /\ Min({a, b}) <= b
<1>1. \E x \in {a, b} : \A y \in {a, b} : x <= y
  OBVIOUS
<1> QED BY <1>1 DEF Min

(* What holds at 0 and passes from each number to the next holds up to n.  *)
LEMMA Upwards ==
  ASSUME NEW n \in Nat, NEW P, 0 \in P, \A k \in 1..n : k - 1 \in P => k \in P
  PROVE  0..n \subseteq P
<1> DEFINE Bad == {k \in 0..n : k \notin P}
<1> SUFFICES ASSUME Bad # {} PROVE FALSE
  OBVIOUS
<1>0. Bad \in SUBSET Nat
  OBVIOUS
<1>1. PICK m \in Bad : \A k \in Bad : m <= k
  <2> HIDE DEF Bad
  <2> QED BY <1>0, LeastOf
<1>2. m \in 1..n /\ m - 1 \in 0..n
  BY <1>1
<1>3. m - 1 \notin Bad
  BY <1>1, <1>2
<1> QED BY <1>1, <1>2, <1>3

(* The values that F makes from b, one from another.                       *)
Chained(n, A, b, F) == \E r \in [0..n -> A] : r[0] = b /\ \A k \in 1..n : r[k] = F[<<r[k - 1], k>>]

(* There are such values.                                                 *)
LEMMA Chain ==
  ASSUME NEW n \in Nat, NEW A, NEW b \in A, NEW F \in [A \X (1..n) -> A]
  PROVE  Chained(n, A, b, F)
<1> DEFINE Made(m) == \E r \in [0..m -> A] : r[0] = b /\ \A k \in 1..m : r[k] = F[<<r[k - 1], k>>]
           P == {m \in 0..n : Made(m)}
<1>1. 0 \in P
  <2> DEFINE r == [k \in 0..0 |-> b]
  <2>1. r \in [0..0 -> A] /\ r[0] = b /\ 1..0 = {}
    OBVIOUS
  <2>2. Made(0)
    <3> HIDE DEF r
    <3> QED BY <2>1
  <2> QED BY <2>2
<1>2. ASSUME NEW m \in 1..n, m - 1 \in P PROVE m \in P
  <2>1. PICK r \in [0..(m - 1) -> A] : r[0] = b /\ \A k \in 1..(m - 1) : r[k] = F[<<r[k - 1], k>>]
    BY <1>2
  <2> DEFINE next == F[<<r[m - 1], m>>]
             t == [k \in 0..m |-> IF k = m THEN next ELSE r[k]]
  <2>2. next \in A
    BY <2>1
  <2> HIDE DEF next
  <2>3. t \in [0..m -> A]
    BY <2>1, <2>2
  <2>4. \A k \in 0..(m - 1) : t[k] = r[k] /\ k # m
    BY <2>1
  <2>5. t[0] = b /\ t[m] = next /\ t[m - 1] = r[m - 1]
    BY <2>1, <2>4
  <2>6. ASSUME NEW k \in 1..m PROVE t[k] = F[<<t[k - 1], k>>]
    <3> HIDE DEF t
    <3>1. CASE k = m
      BY <2>5, <3>1 DEF next
    <3>2. CASE k # m
      <4>1. k \in 1..(m - 1) /\ k \in 0..(m - 1) /\ k - 1 \in 0..(m - 1)
        BY <3>2
      <4> QED BY <2>1, <2>4, <4>1
    <3> QED BY <3>1, <3>2
  <2>7. Made(m)
    <3> HIDE DEF t
    <3> QED BY <2>3, <2>5, <2>6
  <2> QED BY <2>7
<1>3. n \in P
  <2>1. 0..n \subseteq P
    <3> HIDE DEF P
    <3> QED BY <1>1, <1>2, Upwards
  <2> QED BY <2>1
<1> QED BY <1>3 DEF Chained

-----------------------------------------------------------------------------
(* A fold from the left, as the community modules define it, visits the    *)
(* subsets of the indices from their last element.                         *)
LastFirst(g, n, b, F) ==
  \A s \in SUBSET (1..n) : g[s] = IF s = {} THEN b ELSE F[<<g[s \ {Max(s)}], Max(s)>>]

LEMMA MaxUpToIs ==
  ASSUME NEW n \in Nat, NEW s \in SUBSET (1..n), s # {}
  PROVE  Max(s) \in s /\ \A k \in s : k <= Max(s)
<1> DEFINE U == {n - k : k \in s}
<1>1. U \in SUBSET Nat /\ U # {}
  <2>1. \A k \in s : n - k \in Nat
    OBVIOUS
  <2> QED BY <2>1
<1>2. PICK m \in U : \A k \in U : m <= k
  <2> HIDE DEF U
  <2> QED BY <1>1, LeastOf
<1>3. PICK x \in s : m = n - x
  BY <1>2
<1>4. \A k \in s : x >= k
  BY <1>2, <1>3
<1>5. \E y \in s : \A k \in s : y >= k
  BY <1>4
<1> QED BY <1>5 DEF Max

(* There is such a fold,                                                   *)
LEMMA FoldExists ==
  ASSUME NEW n \in Nat, NEW A, NEW b \in A, NEW F \in [A \X (1..n) -> A]
  PROVE  \E g \in [SUBSET (1..n) -> A] : LastFirst(g, n, b, F)
<1> DEFINE S == 1..n
           Upto(m) == {s \in SUBSET S : \A k \in s : k <= m}
           Fits(g, m) == /\ g \in [Upto(m) -> A]
                         /\ \A s \in Upto(m) : g[s] = IF s = {} THEN b ELSE F[<<g[s \ {Max(s)}], Max(s)>>]
           P == {m \in 0..n : \E g : Fits(g, m)}
<1>1. 0 \in P
  <2> DEFINE g == [s \in Upto(0) |-> b]
  <2>1. \A s \in Upto(0) : s = {}
    OBVIOUS
  <2>2. Fits(g, 0)
    BY <2>1
  <2> HIDE DEF g, Fits
  <2> QED BY <2>2
<1>2. ASSUME NEW m \in 1..n, m - 1 \in P PROVE m \in P
  <2>1. PICK g : Fits(g, m - 1)
    <3> HIDE DEF Fits
    <3> QED BY <1>2
  <2> DEFINE h == [s \in Upto(m) |-> IF s \in Upto(m - 1) THEN g[s] ELSE F[<<g[s \ {m}], m>>]]
  <2>2. \A s \in Upto(m) : s # {} => Max(s) \in s /\ s \ {Max(s)} \in Upto(m - 1)
    <3> SUFFICES ASSUME NEW s \in Upto(m), s # {} PROVE Max(s) \in s /\ s \ {Max(s)} \in Upto(m - 1)
      OBVIOUS
    <3>1. s \in SUBSET (1..n) /\ \A k \in s : k <= m /\ k \in Nat
      OBVIOUS
    <3> DEFINE x == Max(s)
    <3>2. x \in s /\ \A k \in s : k <= x
      BY <3>1, MaxUpToIs
    <3> HIDE DEF x
    <3>3. \A k \in s \ {x} : k <= m - 1
      <4> TAKE k \in s \ {x}
      <4>1. k \in Nat /\ x \in Nat /\ k <= x /\ x <= m /\ k # x /\ m \in Nat
        BY <3>1, <3>2
      <4> QED BY <4>1
    <3>4. s \ {x} \in SUBSET (1..n)
      BY <3>1
    <3>5. x \in s /\ s \ {x} \in Upto(m - 1)
      BY <3>2, <3>3, <3>4
    <3> QED BY <3>5 DEF x
  <2>3. \A s \in Upto(m) : s \notin Upto(m - 1) => m \in s /\ Max(s) = m /\ s # {}
    <3> SUFFICES ASSUME NEW s \in Upto(m), s \notin Upto(m - 1) PROVE m \in s /\ Max(s) = m
      OBVIOUS
    <3>1. PICK k \in s : ~(k <= m - 1)
      OBVIOUS
    <3>2. s \in SUBSET (1..n) /\ \A j \in s : j <= m /\ j \in Nat
      OBVIOUS
    <3>3. k = m
      BY <3>1, <3>2
    <3> DEFINE x == Max(s)
    <3>4. x \in s /\ m <= x
      BY <3>2, <3>3, MaxUpToIs
    <3> HIDE DEF x
    <3>5. m \in s /\ x = m
      BY <3>2, <3>3, <3>4
    <3> QED BY <3>5 DEF x
  <2>4. \A s \in Upto(m - 1) : s \in Upto(m) /\ h[s] = g[s] /\ g[s] \in A
    <3> TAKE s \in Upto(m - 1)
    <3>1. \A k \in s : k \in Nat /\ k <= m - 1
      OBVIOUS
    <3>2. s \in Upto(m)
      BY <3>1
    <3>3. g[s] \in A
      BY <2>1
    <3> HIDE DEF Upto
    <3> QED BY <3>2, <3>3
  <2>5. \A s \in Upto(m) : h[s] = IF s = {} THEN b ELSE F[<<h[s \ {Max(s)}], Max(s)>>]
    <3> SUFFICES ASSUME NEW s \in Upto(m) PROVE h[s] = IF s = {} THEN b ELSE F[<<h[s \ {Max(s)}], Max(s)>>]
      OBVIOUS
    <3>1. CASE s \in Upto(m - 1)
      <4>1. h[s] = IF s = {} THEN b ELSE F[<<g[s \ {Max(s)}], Max(s)>>]
        BY <2>1, <2>4, <3>1
      <4> HIDE DEF h, Upto, Fits
      <4> QED BY <2>2, <2>4, <4>1
    <3>2. CASE s \notin Upto(m - 1)
      <4>1. h[s] = F[<<g[s \ {m}], m>>]
        BY <3>2
      <4> HIDE DEF h, Upto, Fits
      <4> QED BY <2>2, <2>3, <2>4, <3>2, <4>1
    <3> QED BY <3>1, <3>2
  <2>6. \A s \in Upto(m) : h[s] \in A
    <3> SUFFICES ASSUME NEW s \in Upto(m), s \notin Upto(m - 1) PROVE F[<<g[s \ {m}], m>>] \in A
      BY <2>4
    <3>1. g[s \ {m}] \in A
      <4> HIDE DEF h, Upto, Fits
      <4> QED BY <2>2, <2>3, <2>4
    <3> QED BY <3>1
  <2>7. Fits(h, m)
    <3>1. h \in [Upto(m) -> A]
      BY <2>6
    <3> HIDE DEF h, Upto
    <3> QED BY <2>5, <3>1
  <2> HIDE DEF Fits, h
  <2> QED BY <2>7
<1>3. n \in P
  <2>1. 0..n \subseteq P
    <3> HIDE DEF P
    <3> QED BY <1>1, <1>2, Upwards
  <2> HIDE DEF P
  <2> QED BY <2>1
<1>4. PICK g : Fits(g, n)
  <2> HIDE DEF Fits
  <2> QED BY <1>3
<1>5. Upto(n) = SUBSET S
  OBVIOUS
<1>6. g \in [SUBSET (1..n) -> A] /\ LastFirst(g, n, b, F)
  BY <1>4, <1>5 DEF LastFirst
<1> QED BY <1>6

(* and whatever visits them so goes from one value to the next.            *)
Stepwise(n, A, b, F, last) ==
  \E r \in [0..n -> A] : /\ r[0] = b /\ r[n] = last
                         /\ \A k \in 1..n : r[k] = F[<<r[k - 1], k>>]

LEMMA FoldSteps ==
  ASSUME NEW n \in Nat, NEW A, NEW b \in A, NEW F \in [A \X (1..n) -> A],
         NEW g, g[{}] = b,
         \A s \in SUBSET (1..n) : s # {} /\ g[s \ {Max(s)}] \in A => g[s] = F[<<g[s \ {Max(s)}], Max(s)>>]
  PROVE  Stepwise(n, A, b, F, g[1..n])
<1> DEFINE r == [k \in 0..n |-> g[1..k]]
           P == {k \in 0..n : g[1..k] \in A}
<1>1. ASSUME NEW k \in 1..n PROVE 1..k \in SUBSET (1..n) /\ Max(1..k) = k /\ (1..k) \ {k} = 1..(k - 1) /\ 1..k # {}
  <2>1. 1..k \in SUBSET (1..n) /\ k \in 1..k /\ 1..k # {} /\ (1..k) \ {k} = 1..(k - 1)
    OBVIOUS
  <2>2. Max(1..k) \in 1..k /\ k <= Max(1..k)
    BY <2>1, MaxUpToIs
  <2> QED BY <2>1, <2>2
<1>2. 1..0 = {} /\ 0 \in P
  OBVIOUS
<1>3. ASSUME NEW k \in 1..n, g[1..(k - 1)] \in A PROVE g[1..k] = F[<<g[1..(k - 1)], k>>] /\ g[1..k] \in A
  <2>1. g[1..k] = F[<<g[1..(k - 1)], k>>]
    BY <1>1, <1>3
  <2> QED BY <2>1, <1>3
<1>4. 0..n \subseteq P
  <2>1. \A k \in 1..n : k - 1 \in P => k \in P
    <3> TAKE k \in 1..n
    <3>1. g[1..(k - 1)] \in A => g[1..k] \in A
      BY <1>3
    <3> QED BY <3>1
  <2> HIDE DEF P
  <2> QED BY <1>2, <2>1, Upwards
<1>5. r \in [0..n -> A] /\ r[0] = b /\ r[n] = g[1..n]
  BY <1>2, <1>4
<1>6. \A k \in 1..n : r[k] = F[<<r[k - 1], k>>]
  <2> TAKE k \in 1..n
  <2>1. k \in 0..n /\ k - 1 \in 0..n /\ g[1..(k - 1)] \in A
    BY <1>4
  <2>2. g[1..k] = F[<<g[1..(k - 1)], k>>]
    BY <1>3, <2>1
  <2> QED BY <2>1, <2>2
<1> HIDE DEF r
<1> QED BY <1>5, <1>6 DEF Stepwise

-----------------------------------------------------------------------------
(* Sequences of sequences: Parts(seqs, r) says that r has what the first   *)
(* ones make together.                                                     *)
Parts(seqs, n, r) == r[0] = <<>> /\ \A k \in 1..n : r[k] = r[k - 1] \o seqs[k]

(* The last of them is what FlattenSeq gives.                              *)
LEMMA FlattenIs ==
  ASSUME NEW T, NEW seqs \in Seq(Seq(T)), NEW r \in [0..Len(seqs) -> Seq(T)], Parts(seqs, Len(seqs), r)
  PROVE  FlattenSeq(seqs) = r[Len(seqs)]
<1> DEFINE n == Len(seqs)
           Eq(f) == f = [i \in 1..n |-> IF i = 1 THEN seqs[i] ELSE f[i - 1] \o seqs[i]]
<1>0. n \in Nat /\ \A i \in 1..n : seqs[i] \in Seq(T)
  OBVIOUS
<1>1. CASE n = 0
  <2>1. seqs = <<>> /\ FlattenSeq(seqs) = seqs
    BY <1>1 DEF FlattenSeq
  <2> QED BY <1>1, <2>1 DEF Parts
<1>2. CASE n # 0
  <2>1. FlattenSeq(seqs) = (CHOOSE f : Eq(f))[n]
    BY <1>2 DEF FlattenSeq
  <2> HIDE DEF n
  <2> DEFINE h == [i \in 1..n |-> r[i]]
  <2>2. r[1] = seqs[1]
    <3>1. 1 \in 1..n /\ 1 - 1 = 0
      BY <1>0, <1>2
    <3>2. r[1] = <<>> \o seqs[1]
      BY <3>1 DEF Parts, n
    <3>3. seqs[1] \in Seq(T)
      BY <1>0, <3>1
    <3> QED BY <3>2, <3>3, ConcatEmptySeq
  <2>3. Eq(h)
    <3>1. ASSUME NEW i \in 1..n PROVE h[i] = IF i = 1 THEN seqs[i] ELSE h[i - 1] \o seqs[i]
      <4>1. CASE i = 1
        BY <2>2, <4>1
      <4>2. CASE i # 1
        <5>1. i - 1 \in 1..n
          BY <1>0, <4>2
        <5>2. r[i] = r[i - 1] \o seqs[i]
          BY DEF Parts, n
        <5> QED BY <4>2, <5>1, <5>2
      <4> QED BY <4>1, <4>2
    <3> QED BY <3>1
  <2> DEFINE f == CHOOSE f : Eq(f)
  <2>4. Eq(f)
    <3> HIDE DEF Eq, h
    <3> QED BY <2>3
  <2>5. \A i \in 1..n : f[i] = IF i = 1 THEN seqs[i] ELSE f[i - 1] \o seqs[i]
    BY <2>4
  <2> HIDE DEF f, h
  <2> DEFINE P == {i \in 0..n : i = 0 \/ f[i] = r[i]}
  <2>6. 0 \in P
    BY <1>0
  <2>7. ASSUME NEW i \in 1..n, i - 1 \in P PROVE i \in P
    <3>1. CASE i = 1
      BY <2>2, <2>5, <3>1
    <3>2. CASE i # 1
      <4>1. i - 1 # 0 /\ f[i - 1] = r[i - 1]
        BY <2>7, <3>2
      <4>2. r[i] = r[i - 1] \o seqs[i]
        BY DEF Parts, n
      <4>3. f[i] = f[i - 1] \o seqs[i]
        BY <2>5, <3>2
      <4>4. f[i] = r[i]
        BY <4>1, <4>2, <4>3, Zenon
      <4>5. i \in 0..n
        BY <1>0
      <4> QED BY <4>4, <4>5
    <3> QED BY <3>1, <3>2
  <2>8. n \in P
    <3>1. 0..n \subseteq P
      <4> HIDE DEF P
      <4> QED BY <1>0, <2>6, <2>7, Upwards
    <3> QED BY <1>0, <3>1
  <2> QED BY <1>2, <2>1, <2>8 DEF f, n
<1> QED BY <1>1, <1>2

(* There are such.                                                         *)
LEMMA PartsExist ==
  ASSUME NEW T, NEW seqs \in Seq(Seq(T))
  PROVE  \E r \in [0..Len(seqs) -> Seq(T)] : Parts(seqs, Len(seqs), r)
<1> DEFINE n == Len(seqs)
           F == [p \in Seq(T) \X (1..n) |-> p[1] \o seqs[p[2]]]
<1>1. n \in Nat /\ \A i \in 1..n : seqs[i] \in Seq(T)
  OBVIOUS
<1> HIDE DEF n
<1>2. <<>> \in Seq(T)
  OBVIOUS
<1>3. \A p \in Seq(T) \X (1..n) : p[1] \o seqs[p[2]] \in Seq(T)
  <2> TAKE p \in Seq(T) \X (1..n)
  <2>1. p[1] \in Seq(T) /\ seqs[p[2]] \in Seq(T)
    BY <1>1
  <2> QED BY <2>1
<1>4. F \in [Seq(T) \X (1..n) -> Seq(T)]
  BY <1>3
<1>5. \A a \in Seq(T), k \in 1..n : F[<<a, k>>] = a \o seqs[k]
  OBVIOUS
<1> HIDE DEF F
<1>6. PICK r \in [0..n -> Seq(T)] : r[0] = <<>> /\ \A k \in 1..n : r[k] = F[<<r[k - 1], k>>]
  <2>1. Chained(n, Seq(T), <<>>, F)
    BY <1>1, <1>2, <1>4, Chain
  <2> QED BY <2>1 DEF Chained
<1>7. \A k \in 1..n : r[k] = r[k - 1] \o seqs[k]
  <2> TAKE k \in 1..n
  <2>1. r[k - 1] \in Seq(T)
    BY <1>1
  <2> QED BY <1>5, <1>6, <2>1
<1> QED BY <1>6, <1>7 DEF Parts, n

(* Flattening two sequences one after the other.                           *)
LEMMA FlattenBoth ==
  ASSUME NEW T, NEW a \in Seq(Seq(T)), NEW b \in Seq(Seq(T))
  PROVE  FlattenSeq(a) \in Seq(T) /\ FlattenSeq(b) \in Seq(T)
         /\ FlattenSeq(a \o b) = FlattenSeq(a) \o FlattenSeq(b)
<1> DEFINE m == Len(a)
           n == Len(b)
<1>1. PICK r \in [0..m -> Seq(T)] : Parts(a, m, r)
  BY PartsExist
<1>2. PICK q \in [0..n -> Seq(T)] : Parts(b, n, q)
  BY PartsExist
<1>3. m \in Nat /\ n \in Nat
  OBVIOUS
<1>4. FlattenSeq(a) = r[m] /\ FlattenSeq(b) = q[n]
  BY <1>1, <1>2, FlattenIs
<1>5. /\ a \o b \in Seq(Seq(T)) /\ Len(a \o b) = m + n
      /\ \A i \in 1..(m + n) : (a \o b)[i] = IF i <= m THEN a[i] ELSE b[i - m]
  BY ConcatProperties
<1> HIDE DEF m, n
<1>6. r[m] \in Seq(T) /\ q[n] \in Seq(T)
  BY <1>1, <1>2, <1>3
<1> DEFINE t == [i \in 0..(m + n) |-> IF i <= m THEN r[i] ELSE r[m] \o q[i - m]]
<1>7. t \in [0..(m + n) -> Seq(T)]
  <2> SUFFICES ASSUME NEW i \in 0..(m + n), ~(i <= m) PROVE r[m] \o q[i - m] \in Seq(T)
    BY <1>1, <1>3
  <2>1. i - m \in 0..n
    BY <1>3
  <2>2. q[i - m] \in Seq(T)
    BY <1>2, <2>1
  <2> QED BY <1>6, <2>2
<1>8. Parts(a \o b, m + n, t)
  <2>1. t[0] = <<>>
    BY <1>1, <1>3 DEF Parts
  <2>2. ASSUME NEW k \in 1..(m + n) PROVE t[k] = t[k - 1] \o (a \o b)[k]
    <3>0. k \in 0..(m + n) /\ k - 1 \in 0..(m + n)
      BY <1>3
    <3>1. CASE k <= m
      <4>1. k \in 1..m /\ k - 1 <= m
        BY <1>3, <3>1
      <4>2. t[k] = r[k] /\ t[k - 1] = r[k - 1]
        BY <3>0, <3>1, <4>1
      <4>3. r[k] = r[k - 1] \o a[k] /\ (a \o b)[k] = a[k]
        BY <1>1, <1>5, <3>1, <4>1 DEF Parts
      <4> QED BY <4>2, <4>3
    <3>2. CASE ~(k <= m)
      <4>1. k - m \in 1..n /\ (k - m) - 1 \in 0..n /\ (k - 1) - m = (k - m) - 1
        BY <1>3, <3>2
      <4>2. t[k] = r[m] \o q[k - m]
        BY <3>0, <3>2
      <4>3. q[k - m] = q[(k - m) - 1] \o b[k - m] /\ (a \o b)[k] = b[k - m]
        BY <1>2, <1>5, <3>2, <4>1 DEF Parts
      <4>4. q[(k - m) - 1] \in Seq(T) /\ b[k - m] \in Seq(T)
        BY <1>2, <4>1 DEF n
      <4>5. t[k] = (r[m] \o q[(k - m) - 1]) \o b[k - m]
        <5> HIDE DEF t
        <5>1. t[k] = r[m] \o (q[(k - m) - 1] \o b[k - m])
          BY <4>2, <4>3, Zenon
        <5> DEFINE x == r[m]
                   y == q[(k - m) - 1]
                   z == b[k - m]
        <5>2. x \in Seq(T) /\ y \in Seq(T) /\ z \in Seq(T)
          BY <1>6, <4>4
        <5> HIDE DEF x, y, z
        <5>3. (x \o y) \o z = x \o (y \o z)
          BY <5>2, ConcatAssociative
        <5> QED BY <5>1, <5>3 DEF x, y, z
      <4>6. t[k - 1] = r[m] \o q[(k - m) - 1]
        <5>1. CASE k - 1 <= m
          <6>1. k - 1 = m /\ (k - m) - 1 = 0
            BY <1>3, <3>2, <5>1
          <6>2. q[0] = <<>> /\ t[k - 1] = r[m]
            BY <1>2, <3>0, <5>1, <6>1 DEF Parts
          <6> QED BY <1>6, <6>1, <6>2, ConcatEmptySeq
        <5>2. CASE ~(k - 1 <= m)
          BY <3>0, <4>1, <5>2
        <5> QED BY <5>1, <5>2
      <4> QED BY <4>3, <4>5, <4>6
    <3> QED BY <3>1, <3>2
  <2> HIDE DEF t
  <2> QED BY <2>1, <2>2 DEF Parts
<1>9. FlattenSeq(a \o b) = t[m + n]
  <2> HIDE DEF t
  <2> QED BY <1>5, <1>7, <1>8, FlattenIs
<1>10. t[m + n] = r[m] \o q[n]
  <2>1. CASE n = 0
    <3>1. q[n] = <<>> /\ m + n = m /\ m \in 0..(m + n)
      BY <1>2, <1>3, <2>1 DEF Parts
    <3>2. t[m + n] = r[m]
      BY <1>3, <3>1
    <3> QED BY <1>6, <3>1, <3>2, ConcatEmptySeq
  <2>2. CASE n # 0
    <3>1. ~(m + n <= m) /\ (m + n) - m = n /\ m + n \in 0..(m + n)
      BY <1>3, <2>2
    <3> QED BY <3>1
  <2> QED BY <2>1, <2>2
<1> QED BY <1>4, <1>6, <1>9, <1>10

(* An array is a sequence.                                                 *)
LEMMA ArrayIsSequence ==
  ASSUME NEW S, NEW n \in Nat, NEW f \in [1..n -> S]
  PROVE  f \in Seq(S) /\ Len(f) = n
OBVIOUS

(* A sequence cut in slices of w elements, and how many there are.         *)
Needed(n, w) == (n + w - 1) \div w
Slices(s, w) ==
  [i \in 1..Needed(Len(s), w) |-> SubSeq(s, (i - 1) * w + 1, IF i * w < Len(s) THEN i * w ELSE Len(s))]

(* They are enough, and none is empty.                                     *)
LEMMA SlicesNeeded ==
  ASSUME NEW n \in Nat, NEW w \in Nat \ {0}
  PROVE  LET c == Needed(n, w) IN
         c \in Nat /\ n <= c * w /\ \A i \in 1..c : (i - 1) * w \in Nat /\ (i - 1) * w < n
<1> DEFINE c == Needed(n, w)
<1>1. c \in Int /\ w * c <= n + w - 1 /\ n + w - 1 < w * c + w
  BY DEF Needed
<1> HIDE DEF c
<1>2. n <= c * w
  BY <1>1
<1>3. c \in Nat
  <2>1. SUFFICES ASSUME c <= -1 PROVE FALSE
    BY <1>1
  <2>2. w * c <= w * (-1)
    BY <1>1, <2>1
  <2> QED BY <1>1, <2>2
<1>4. ASSUME NEW i \in 1..c PROVE (i - 1) * w \in Nat /\ (i - 1) * w < n
  <2>1. i - 1 \in Nat /\ i - 1 <= c - 1 /\ i - 1 \in Int /\ c - 1 \in Int
    BY <1>3
  <2>2. (i - 1) * w \in Nat
    BY <2>1
  <2>3. (i - 1) * w <= (c - 1) * w
    BY <2>1
  <2>4. (c - 1) * w = w * c - w
    BY <1>1
  <2> QED BY <1>1, <2>2, <2>3, <2>4
<1> QED BY <1>2, <1>3, <1>4 DEF c

(* One after the other they are the sequence.                              *)
LEMMA SlicesTogether ==
  ASSUME NEW T, NEW s \in Seq(T), NEW w \in Nat \ {0}
  PROVE  /\ Slices(s, w) \in Seq(Seq(T)) /\ Len(Slices(s, w)) = Needed(Len(s), w)
         /\ FlattenSeq(Slices(s, w)) = s
<1> DEFINE n == Len(s)
           c == Needed(n, w)
           seqs == Slices(s, w)
           upto(i) == IF i * w < n THEN i * w ELSE n
<1>1. n \in Nat /\ \A i \in 1..n : s[i] \in T
  OBVIOUS
<1>2. c \in Nat /\ n <= c * w /\ \A i \in 1..c : (i - 1) * w \in Nat /\ (i - 1) * w < n
  <2> HIDE DEF n
  <2> QED BY <1>1, SlicesNeeded
<1>3. \A i \in 0..c : upto(i) \in 0..n
  <2> TAKE i \in 0..c
  <2>1. i * w \in Nat
    BY <1>2
  <2> QED BY <1>1, <2>1
<1>4. \A i \in 1..c : upto(i - 1) = (i - 1) * w /\ upto(i - 1) <= upto(i) /\ (i - 1) \in 0..c /\ i \in 0..c
  <2> TAKE i \in 1..c
  <2>1. i * w = (i - 1) * w + w /\ i * w \in Nat /\ (i - 1) * w \in Nat /\ (i - 1) * w < n
    BY <1>2
  <2> QED BY <1>1, <1>2, <2>1
<1>5. upto(0) = 0 /\ upto(c) = n
  <2>1. 0 * w = 0 /\ c * w \in Nat
    BY <1>2
  <2> QED BY <1>1, <1>2, <2>1
<1>6. DOMAIN seqs = 1..c /\ seqs = [i \in 1..c |-> seqs[i]]
  BY DEF Slices
<1>16. \A i \in 1..c : seqs[i] = SubSeq(s, upto(i - 1) + 1, upto(i))
  BY <1>4 DEF Slices
<1> HIDE DEF n, c, seqs, upto
<1>7. \A i \in 0..c : SubSeq(s, 1, upto(i)) \in Seq(T)
  BY <1>1, <1>3, SubSeqProperties
<1>8. \A i \in 1..c : seqs[i] \in Seq(T)
  <2> TAKE i \in 1..c
  <2>1. \A k \in (upto(i - 1) + 1)..upto(i) : s[k] \in T
    BY <1>1, <1>3, <1>4
  <2>2. upto(i - 1) + 1 \in Int /\ upto(i) \in Int
    BY <1>3, <1>4
  <2>3. SubSeq(s, upto(i - 1) + 1, upto(i)) \in Seq(T)
    BY <2>1, <2>2, SubSeqProperties
  <2> QED BY <1>16, <2>3
<1>9. seqs \in Seq(Seq(T)) /\ Len(seqs) = c
  <2>1. seqs \in [1..c -> Seq(T)]
    BY <1>6, <1>8
  <2> QED BY <1>2, <2>1, ArrayIsSequence
<1> DEFINE r == [i \in 0..c |-> SubSeq(s, 1, upto(i))]
<1>10. r \in [0..c -> Seq(T)]
  BY <1>7
<1>11. \A i \in 0..c : r[i] = SubSeq(s, 1, upto(i))
  OBVIOUS
<1> HIDE DEF r
<1>12. r[0] = <<>>
  <2>1. SubSeq(s, 1, 0) = <<>>
    BY SubSeqEmpty
  <2> QED BY <1>2, <1>5, <1>11, <2>1
<1>13. ASSUME NEW k \in 1..c PROVE r[k] = r[k - 1] \o seqs[k]
  <2> DEFINE a == upto(k - 1)
             b == upto(k)
  <2>1. a \in Nat /\ b \in Nat /\ a <= b /\ b <= n
    BY <1>1, <1>3, <1>4
  <2>2. r[k] = SubSeq(s, 1, b) /\ r[k - 1] = SubSeq(s, 1, a) /\ seqs[k] = SubSeq(s, a + 1, b)
    BY <1>4, <1>11, <1>16
  <2> HIDE DEF a, b
  <2>3. 1 \in 1..Len(s) + 1 /\ a \in (1 - 1)..Len(s) /\ b \in a..Len(s)
    BY <1>1, <2>1 DEF n
  <2>4. SubSeq(s, 1, a) \o SubSeq(s, a + 1, b) = SubSeq(s, 1, b)
    BY <2>3, ConcatAdjacentSubSeq
  <2> QED BY <2>2, <2>4
<1>14. Parts(seqs, Len(seqs), r)
  BY <1>9, <1>12, <1>13 DEF Parts
<1>15. FlattenSeq(seqs) = r[c]
  BY <1>9, <1>10, <1>14, FlattenIs
<1>17. r[c] = s
  <2>1. SubSeq(s, 1, n) = s
    BY SubSeqFull DEF n
  <2>2. c \in 0..c
    BY <1>2
  <2>3. r[c] = SubSeq(s, 1, upto(c))
    BY <1>11, <2>2
  <2> QED BY <1>5, <2>1, <2>3, Zenon
<1> QED BY <1>9, <1>15, <1>17 DEF n, c, seqs

-----------------------------------------------------------------------------
(* Orders of the elements of a finite set.                                 *)
StrictlyOrders(R, D) ==
  \A a, b, c \in D :
    /\ a # b => <<a, b>> \in R \/ <<b, a>> \in R
    /\ ~(<<a, b>> \in R /\ <<b, a>> \in R)
    /\ <<a, b>> \in R /\ <<b, c>> \in R => <<a, c>> \in R

(* s has the elements of S in that order.                                  *)
Sorted(s, S, R) ==
  /\ s \in [1..Cardinality(S) -> S]
  /\ \A o \in S : \E i \in 1..Cardinality(S) : s[i] = o
  /\ \A i, j \in 1..Cardinality(S) : i < j => <<s[i], s[j]>> \in R

(* A set that is not empty has a last element,                             *)
LEMMA LastExists ==
  ASSUME NEW D, NEW R, StrictlyOrders(R, D), NEW S \in SUBSET D, IsFiniteSet(S), S # {}
  PROVE  \E o \in S : \A x \in S \ {o} : <<x, o>> \in R
<1> DEFINE HasLast(U) == \E o \in U : \A x \in U \ {o} : <<x, o>> \in R
           Bad == {n \in Nat : \E U \in SUBSET S : U # {} /\ Cardinality(U) = n /\ ~HasLast(U)}
<1>0. \A U \in SUBSET S : IsFiniteSet(U) /\ Cardinality(U) \in Nat
  BY FS_Subset, FS_CardinalityType
<1>1. SUFFICES ASSUME Bad # {} PROVE FALSE
  BY <1>0
<1>2. PICK n \in Bad : \A k \in Bad : n <= k
  BY <1>1, LeastOf
<1>3. PICK U \in SUBSET S : U # {} /\ Cardinality(U) = n /\ ~HasLast(U)
  BY <1>2
<1>4. PICK o \in U : TRUE
  BY <1>3
<1> DEFINE V == U \ {o}
<1>5. V # {}
  BY <1>3, <1>4
<1>6. Cardinality(V) = n - 1 /\ n \in Nat /\ Cardinality(V) \in Nat
  BY <1>0, <1>2, <1>3, FS_RemoveElement
<1>7. HasLast(V)
  <2> HIDE DEF HasLast
  <2>1. ~HasLast(V) => Cardinality(V) \in Bad
    BY <1>3, <1>5, <1>6
  <2> QED BY <1>2, <1>6, <2>1
<1>8. PICK m \in V : \A x \in V \ {m} : <<x, m>> \in R
  BY <1>7
<1>9. CASE <<o, m>> \in R
  BY <1>3, <1>4, <1>8, <1>9
<1>10. CASE <<m, o>> \in R
  <2>1. ASSUME NEW x \in U \ {o} PROVE <<x, o>> \in R
    <3>1. x \in D /\ m \in D /\ o \in D
      OBVIOUS
    <3>2. x = m \/ <<x, m>> \in R
      BY <1>8
    <3> QED BY <1>10, <3>1, <3>2 DEF StrictlyOrders
  <2> QED BY <1>3, <2>1
<1>11. <<o, m>> \in R \/ <<m, o>> \in R
  <2>1. m \in D /\ o \in D /\ m # o
    OBVIOUS
  <2> QED BY <2>1 DEF StrictlyOrders
<1> QED BY <1>9, <1>10, <1>11

(* so it can be put in order,                                              *)
LEMMA SortedExists ==
  ASSUME NEW D, NEW R, StrictlyOrders(R, D), NEW S \in SUBSET D, IsFiniteSet(S)
  PROVE  \E s : Sorted(s, S, R)
<1> DEFINE Bad == {n \in Nat : \E U \in SUBSET S : Cardinality(U) = n /\ ~(\E s : Sorted(s, U, R))}
<1>0. \A U \in SUBSET S : IsFiniteSet(U) /\ Cardinality(U) \in Nat
  BY FS_Subset, FS_CardinalityType
<1>1. SUFFICES ASSUME Bad # {} PROVE FALSE
  BY <1>0
<1>2. PICK n \in Bad : \A k \in Bad : n <= k
  BY <1>1, LeastOf
<1>3. PICK U \in SUBSET S : Cardinality(U) = n /\ ~(\E s : Sorted(s, U, R))
  BY <1>2
<1>4. U # {}
  <2>1. SUFFICES ASSUME U = {} PROVE FALSE
    OBVIOUS
  <2>2. Cardinality(U) = 0
    BY <2>1, FS_EmptySet
  <2>3. Sorted([i \in 1..0 |-> i], U, R)
    BY <2>1, <2>2 DEF Sorted
  <2> QED BY <1>3, <2>3
<1>5. PICK m \in U : \A x \in U \ {m} : <<x, m>> \in R
  <2>1. U \in SUBSET D /\ IsFiniteSet(U)
    BY <1>0
  <2> QED BY <1>4, <2>1, LastExists
<1> DEFINE V == U \ {m}
<1>6. Cardinality(V) = n - 1 /\ n \in Nat /\ Cardinality(V) \in Nat
  BY <1>0, <1>2, <1>3, <1>5, FS_RemoveElement
<1>7. PICK s : Sorted(s, V, R)
  BY <1>2, <1>3, <1>6
<1> DEFINE t == [i \in 1..n |-> IF i = n THEN m ELSE s[i]]
<1>8. /\ s \in [1..(n - 1) -> V]
      /\ \A o \in V : \E i \in 1..(n - 1) : s[i] = o
      /\ \A i, j \in 1..(n - 1) : i < j => <<s[i], s[j]>> \in R
  BY <1>6, <1>7 DEF Sorted
<1>9. \A i \in 1..n : i = n \/ i \in 1..(n - 1)
  BY <1>6
<1>10. t \in [1..n -> U]
  BY <1>5, <1>8, <1>9
<1>11. \A o \in U : \E i \in 1..n : t[i] = o
  <2>1. ASSUME NEW o \in V PROVE \E i \in 1..n : t[i] = o
    <3>1. PICK i \in 1..(n - 1) : s[i] = o
      BY <1>8
    <3>2. i \in 1..n /\ i # n
      BY <1>6
    <3> QED BY <3>1, <3>2
  <2>2. n \in 1..n /\ t[n] = m
    <3>1. n # 0
      BY <1>3, <1>4, <1>0, FS_EmptySet
    <3> QED BY <1>6, <3>1
  <2> QED BY <2>1, <2>2
<1>12. \A i, j \in 1..n : i < j => <<t[i], t[j]>> \in R
  <2> SUFFICES ASSUME NEW i \in 1..n, NEW j \in 1..n, i < j PROVE <<t[i], t[j]>> \in R
    OBVIOUS
  <2>1. i \in 1..(n - 1) /\ t[i] = s[i] /\ s[i] \in V
    BY <1>6, <1>8
  <2>2. CASE j = n
    BY <1>5, <2>1, <2>2
  <2>3. CASE j # n
    BY <1>8, <1>9, <2>1, <2>3
  <2> QED BY <2>2, <2>3
<1>13. Sorted(t, U, R)
  BY <1>3, <1>10, <1>11, <1>12 DEF Sorted
<1> QED BY <1>3, <1>13

(* in one way only,                                                        *)
LEMMA SortedOnce ==
  ASSUME NEW D, NEW R, StrictlyOrders(R, D), NEW S \in SUBSET D, IsFiniteSet(S),
         NEW s, Sorted(s, S, R), NEW t, Sorted(t, S, R)
  PROVE  s = t
<1> DEFINE n == Cardinality(S)
           Bad == {k \in 1..n : s[k] # t[k]}
<1>1. n \in Nat
  BY FS_CardinalityType
<1>2. s = [i \in 1..n |-> s[i]] /\ t = [i \in 1..n |-> t[i]]
  BY DEF Sorted
<1> HIDE DEF n
<1>3. \A k \in 1..n : /\ s[k] \in S /\ t[k] \in S
                      /\ \E j \in 1..n : t[j] = s[k]
                      /\ \E j \in 1..n : s[j] = t[k]
  BY DEF Sorted, n
<1>4. \A i, j \in 1..n : i < j => <<s[i], s[j]>> \in R /\ <<t[i], t[j]>> \in R
  BY DEF Sorted, n
<1>5. SUFFICES ASSUME Bad # {} PROVE FALSE
  BY <1>2
<1>6. PICK k \in Bad : \A j \in Bad : k <= j
  <2>1. Bad \in SUBSET Nat
    OBVIOUS
  <2> HIDE DEF Bad
  <2> QED BY <1>5, <2>1, LeastOf
<1>7. \A j \in 1..n : j < k => s[j] = t[j]
  BY <1>1, <1>6
<1>8. \A a, b \in S : ~(<<a, b>> \in R /\ <<b, a>> \in R)
  BY DEF StrictlyOrders
<1>9. PICK j \in 1..n : t[j] = s[k]
  BY <1>3, <1>6
<1>10. PICK i \in 1..n : s[i] = t[k]
  BY <1>3, <1>6
<1>11. k < j /\ k < i
  <2>1. ~(j < k) /\ j # k
    <3>1. ~(j < k)
      <4>1. SUFFICES ASSUME j < k PROVE FALSE
        OBVIOUS
      <4>2. s[j] = s[k] /\ k \in 1..n
        BY <1>6, <1>7, <1>9, <4>1
      <4>3. <<s[j], s[k]>> \in R /\ s[k] \in S
        BY <1>3, <1>4, <4>1, <4>2
      <4> QED BY <1>8, <4>2, <4>3
    <3> QED BY <1>6, <1>9, <3>1
  <2>2. ~(i < k) /\ i # k
    <3>1. ~(i < k)
      <4>1. SUFFICES ASSUME i < k PROVE FALSE
        OBVIOUS
      <4>2. t[i] = t[k] /\ k \in 1..n
        BY <1>6, <1>7, <1>10, <4>1
      <4>3. <<t[i], t[k]>> \in R /\ t[k] \in S
        BY <1>3, <1>4, <4>1, <4>2
      <4> QED BY <1>8, <4>2, <4>3
    <3> QED BY <1>6, <1>10, <3>1
  <2> QED BY <1>1, <1>6, <2>1, <2>2
<1>12. <<t[k], s[k]>> \in R /\ <<s[k], t[k]>> \in R
  BY <1>4, <1>6, <1>9, <1>10, <1>11
<1> QED BY <1>3, <1>6, <1>8, <1>12

(* and that is the sequence that has each element once, in that order.     *)
Increasing(s, R) == \A i, j \in DOMAIN s : i < j => <<s[i], s[j]>> \in R

LEMMA SequenceSorted ==
  ASSUME NEW D, NEW R, StrictlyOrders(R, D), NEW S \in SUBSET D, IsFiniteSet(S)
  PROVE  /\ \E s \in SetToSeqs(S) : Increasing(s, R)
         /\ \A t \in SetToSeqs(S) : Increasing(t, R) => Sorted(t, S, R)
<1>0. Cardinality(S) \in Nat
  BY FS_CardinalityType
<1>1. PICK s : Sorted(s, S, R)
  BY SortedExists
<1>2. \A i, j \in 1..Cardinality(S) : i # j => s[i] # s[j]
  <2>1. \A i, j \in 1..Cardinality(S) : i < j => s[i] # s[j]
    BY <1>1 DEF Sorted, StrictlyOrders
  <2> QED BY <1>0, <2>1
<1>3. s \in SetToSeqs(S) /\ Increasing(s, R)
  BY <1>1, <1>2 DEF Sorted, SetToSeqs, Increasing
<1>4. ASSUME NEW t \in SetToSeqs(S), Increasing(t, R) PROVE Sorted(t, S, R)
  <2>1. /\ t \in [1..Cardinality(S) -> S] /\ DOMAIN t = 1..Cardinality(S)
        /\ \A i, j \in 1..Cardinality(S) : i # j => t[i] # t[j]
    BY DEF SetToSeqs
  <2>2. t \in Injection(1..Cardinality(S), S)
    BY <2>1 DEF Injection, IsInjective
  <2>3. t \in Surjection(1..Cardinality(S), S)
    <3>1. IsFiniteSet(1..Cardinality(S)) /\ Cardinality(1..Cardinality(S)) = Cardinality(S)
      BY <1>0, FS_Interval
    <3> QED BY <2>2, <3>1, FS_Injection
  <2>4. \A o \in S : \E i \in 1..Cardinality(S) : t[i] = o
    BY <2>3 DEF Surjection
  <2> QED BY <1>4, <2>1, <2>4 DEF Sorted, Increasing
<1> QED BY <1>3, <1>4

LEMMA SortedChosen ==
  ASSUME NEW D, NEW R, StrictlyOrders(R, D), NEW S \in SUBSET D, IsFiniteSet(S)
  PROVE  Sorted(CHOOSE s \in SetToSeqs(S) : \A i, j \in DOMAIN s : i < j => <<s[i], s[j]>> \in R, S, R)
<1> DEFINE t == CHOOSE u \in SetToSeqs(S) : \A i, j \in DOMAIN u : i < j => <<u[i], u[j]>> \in R
<1>1. t \in SetToSeqs(S) /\ Increasing(t, R)
  BY SequenceSorted DEF Increasing
<1> HIDE DEF t
<1>2. Sorted(t, S, R)
  BY <1>1, SequenceSorted
<1> QED BY <1>2 DEF t

(* Numbers, in the order that they have.                                   *)
Smaller == {p \in Nat \X Nat : p[1] < p[2]}

LEMMA NumbersSorted ==
  ASSUME NEW S \in SUBSET Nat, IsFiniteSet(S)
  PROVE  Sorted(CHOOSE s \in SetToSeqs(S) : \A i, j \in DOMAIN s : i < j => s[i] < s[j], S, Smaller)
<1> DEFINE Grows(u) == \A i, j \in DOMAIN u : i < j => u[i] < u[j]
           t == CHOOSE u \in SetToSeqs(S) : Grows(u)
<1>1. StrictlyOrders(Smaller, Nat)
  BY DEF StrictlyOrders, Smaller
<1>2. \A u \in SetToSeqs(S) : \A i \in DOMAIN u : u[i] \in Nat
  BY DEF SetToSeqs
<1>3. \A u \in SetToSeqs(S) : Grows(u) <=> Increasing(u, Smaller)
  BY <1>2 DEF Increasing, Smaller
<1> HIDE DEF Grows
<1>4. \E u \in SetToSeqs(S) : Grows(u)
  BY <1>1, <1>3, SequenceSorted
<1>5. t \in SetToSeqs(S) /\ Grows(t)
  BY <1>4
<1> HIDE DEF t
<1>6. Sorted(t, S, Smaller)
  BY <1>1, <1>3, <1>5, SequenceSorted
<1> QED BY <1>6 DEF t, Grows

(* Two sets, all of one before all of the other, one after the other.      *)
LEMMA SortedBoth ==
  ASSUME NEW D, NEW R, StrictlyOrders(R, D),
         NEW S \in SUBSET D, IsFiniteSet(S), NEW U \in SUBSET D, IsFiniteSet(U),
         \A a \in S, b \in U : <<a, b>> \in R,
         NEW s, Sorted(s, S, R), NEW u, Sorted(u, U, R)
  PROVE  Sorted(s \o u, S \cup U, R)
<1> DEFINE m == Cardinality(S)
           n == Cardinality(U)
<1>1. m \in Nat /\ n \in Nat
  BY FS_CardinalityType
<1>2. S \cap U = {}
  BY DEF StrictlyOrders
<1>3. Cardinality(S \cup U) = m + n
  <2>1. Cardinality(S \cup U) = m + n - Cardinality(S \cap U)
    BY FS_Union
  <2>2. Cardinality(S \cap U) = 0
    BY <1>2, FS_EmptySet
  <2> HIDE DEF m, n
  <2> QED BY <1>1, <2>1, <2>2
<1>4. s \in [1..m -> S] /\ u \in [1..n -> U]
  BY DEF Sorted
<1>5. /\ \A o \in S : \E i \in 1..m : s[i] = o
      /\ \A o \in U : \E i \in 1..n : u[i] = o
      /\ \A i, j \in 1..m : i < j => <<s[i], s[j]>> \in R
      /\ \A i, j \in 1..n : i < j => <<u[i], u[j]>> \in R
  BY DEF Sorted
<1> HIDE DEF m, n
<1>6. s \in Seq(S \cup U) /\ u \in Seq(S \cup U) /\ Len(s) = m /\ Len(u) = n
  <2>1. s \in [1..m -> S \cup U] /\ u \in [1..n -> S \cup U]
    BY <1>4
  <2> QED BY <1>1, <2>1
<1> DEFINE t == s \o u
<1>7. /\ t \in Seq(S \cup U) /\ Len(t) = m + n
      /\ \A i \in 1..(m + n) : t[i] = IF i <= m THEN s[i] ELSE u[i - m]
  BY <1>6, ConcatProperties
<1> HIDE DEF t
<1>8. t \in [1..(m + n) -> S \cup U]
  BY <1>7, LenProperties
<1>9. ASSUME NEW o \in S \cup U PROVE \E i \in 1..(m + n) : t[i] = o
  <2>1. CASE o \in S
    <3>1. PICK i \in 1..m : s[i] = o
      BY <1>5, <2>1
    <3> QED BY <1>1, <1>7, <3>1
  <2>2. CASE o \in U
    <3>1. PICK i \in 1..n : u[i] = o
      BY <1>5, <2>2
    <3>2. m + i \in 1..(m + n) /\ ~(m + i <= m) /\ (m + i) - m = i
      BY <1>1
    <3> QED BY <1>7, <3>1, <3>2
  <2> QED BY <2>1, <2>2
<1>10. ASSUME NEW i \in 1..(m + n), NEW j \in 1..(m + n), i < j PROVE <<t[i], t[j]>> \in R
  <2>1. CASE j <= m
    <3>1. i \in 1..m /\ j \in 1..m
      BY <1>1, <1>10, <2>1
    <3> QED BY <1>5, <1>7, <1>10, <2>1, <3>1
  <2>2. CASE ~(i <= m)
    <3>1. ~(j <= m) /\ i - m \in 1..n /\ j - m \in 1..n /\ i - m < j - m
      BY <1>1, <1>10, <2>2
    <3> QED BY <1>5, <1>7, <2>2, <3>1
  <2>3. CASE i <= m /\ ~(j <= m)
    <3>1. i \in 1..m /\ j - m \in 1..n
      BY <1>1, <2>3
    <3>2. s[i] \in S /\ u[j - m] \in U
      BY <1>4, <3>1
    <3> QED BY <1>7, <2>3, <3>2
  <2> QED BY <2>1, <2>2, <2>3
<1> QED BY <1>3, <1>8, <1>9, <1>10 DEF Sorted, t

-----------------------------------------------------------------------------
(***************************************************************************)
(* Sums over finite sets.  What is true of them all is shown by the least  *)
(* size of a set that would be an exception.                               *)
(***************************************************************************)
(* The element that is taken first.                                        *)
OneOf(s) == CHOOSE x \in s : TRUE

(* The sums of the subsets of S, as MapThenSumSet takes them.              *)
SumsOf(f, S) == CHOOSE g : g = [s \in SUBSET S |-> IF s = {} THEN 0 ELSE f[OneOf(s)] + g[s \ {OneOf(s)}]]
Total(f, S) == SumsOf(f, S)[S]

(* Some function does what is asked of the sums.                           *)
AddsUp(f, S) ==
  \E g \in [SUBSET S -> Int] : \A s \in SUBSET S : g[s] = IF s = {} THEN 0 ELSE f[OneOf(s)] + g[s \ {OneOf(s)}]

(* A subset has a size, which is one less without one of its elements.     *)
LEMMA Sizes ==
  ASSUME NEW S, IsFiniteSet(S)
  PROVE  \A s \in SUBSET S :
           /\ IsFiniteSet(s) /\ Cardinality(s) \in Nat
           /\ Cardinality(s) = 0 <=> s = {}
           /\ \A x \in s : s \ {x} \in SUBSET S /\ Cardinality(s \ {x}) = Cardinality(s) - 1
           /\ s # {} => OneOf(s) \in s
BY FS_Subset, FS_CardinalityType, FS_EmptySet, FS_RemoveElement DEF OneOf

(* There is a function that adds up every subset,                          *)
LEMMA SumsExist ==
  ASSUME NEW S, IsFiniteSet(S), NEW f, \A x \in S : f[x] \in Int
  PROVE  AddsUp(f, S)
<1> DEFINE Small(n) == {s \in SUBSET S : Cardinality(s) <= n}
           UpTo(g, n) == /\ g \in [Small(n) -> Int]
                         /\ \A s \in Small(n) : g[s] = IF s = {} THEN 0 ELSE f[OneOf(s)] + g[s \ {OneOf(s)}]
           Bad == {n \in Nat : ~(\E g : UpTo(g, n))}
<1>1. Bad = {}
  <2> SUFFICES ASSUME Bad # {} PROVE FALSE
    OBVIOUS
  <2>1. PICK n \in Bad : \A k \in Bad : n <= k
    BY LeastOf
  <2>2. UpTo([s \in Small(0) |-> 0], 0)
    BY Sizes
  <2>3. n \in Nat /\ n # 0
    <3> HIDE DEF UpTo
    <3> QED BY <2>2
  <2>4. n - 1 \in Nat /\ n - 1 \notin Bad
    <3> HIDE DEF UpTo
    <3> QED BY <2>1, <2>3
  <2>5. PICK g : UpTo(g, n - 1)
    <3> HIDE DEF UpTo
    <3> QED BY <2>4
  <2> DEFINE h == [s \in Small(n) |-> IF s = {} THEN 0 ELSE f[OneOf(s)] + g[s \ {OneOf(s)}]]
  <2>6. \A s \in Small(n) : s # {} => s \ {OneOf(s)} \in Small(n - 1) /\ OneOf(s) \in S
    BY <2>3, Sizes
  <2>7. \A s \in Small(n) : h[s] \in Int
    BY <2>5, <2>6
  <2>8. \A s \in Small(n - 1) : h[s] = g[s] /\ s \in Small(n)
    BY <2>3, <2>5, Sizes
  <2>9. UpTo(h, n)
    <3>1. h \in [Small(n) -> Int]
      BY <2>7
    <3>2. ASSUME NEW s \in Small(n) PROVE h[s] = IF s = {} THEN 0 ELSE f[OneOf(s)] + h[s \ {OneOf(s)}]
      <4>1. h[s] = IF s = {} THEN 0 ELSE f[OneOf(s)] + g[s \ {OneOf(s)}]
        OBVIOUS
      <4> HIDE DEF h
      <4> QED BY <2>6, <2>8, <4>1
    <3> HIDE DEF h
    <3> QED BY <3>1, <3>2
  <2> HIDE DEF UpTo
  <2> QED BY <2>9
<1>2. Cardinality(S) \in Nat /\ \A s \in SUBSET S : Cardinality(s) <= Cardinality(S)
  BY Sizes, FS_Subset
<1>3. PICK g : UpTo(g, Cardinality(S))
  <2> HIDE DEF UpTo
  <2> QED BY <1>1, <1>2
<1>4. Small(Cardinality(S)) = SUBSET S
  BY <1>2
<1>5. g \in [SUBSET S -> Int] /\ \A s \in SUBSET S : g[s] = IF s = {} THEN 0 ELSE f[OneOf(s)] + g[s \ {OneOf(s)}]
  <2> HIDE DEF Small
  <2> QED BY <1>3, <1>4
<1> QED BY <1>5 DEF AddsUp

(* and only one, so the sums are what their definition says.               *)
LEMMA SumsAre ==
  ASSUME NEW S, IsFiniteSet(S), NEW f, \A x \in S : f[x] \in Int
  PROVE  /\ SumsOf(f, S) \in [SUBSET S -> Int]
         /\ \A s \in SUBSET S : SumsOf(f, S)[s] = IF s = {} THEN 0 ELSE f[OneOf(s)] + SumsOf(f, S)[s \ {OneOf(s)}]
<1> DEFINE Eq(g) == g = [s \in SUBSET S |-> IF s = {} THEN 0 ELSE f[OneOf(s)] + g[s \ {OneOf(s)}]]
<1>1. PICK h \in [SUBSET S -> Int] : Eq(h)
  <2>0. AddsUp(f, S)
    BY SumsExist
  <2>1. PICK h \in [SUBSET S -> Int] :
          \A s \in SUBSET S : h[s] = IF s = {} THEN 0 ELSE f[OneOf(s)] + h[s \ {OneOf(s)}]
    BY <2>0 DEF AddsUp
  <2>2. h = [s \in SUBSET S |-> h[s]]
    OBVIOUS
  <2> QED BY <2>1, <2>2
<1>2. Eq(SumsOf(f, S))
  BY <1>1 DEF SumsOf
<1> DEFINE g == SumsOf(f, S)
<1>3. DOMAIN g = SUBSET S /\ \A s \in SUBSET S : g[s] = IF s = {} THEN 0 ELSE f[OneOf(s)] + g[s \ {OneOf(s)}]
  BY <1>2
<1>4. \A s \in SUBSET S : h[s] = IF s = {} THEN 0 ELSE f[OneOf(s)] + h[s \ {OneOf(s)}]
  BY <1>1
<1> HIDE DEF g, Eq
<1>5. \A s \in SUBSET S : g[s] = h[s]
  <2> DEFINE Bad == {n \in Nat : \E s \in SUBSET S : Cardinality(s) = n /\ g[s] # h[s]}
  <2> SUFFICES ASSUME Bad # {} PROVE FALSE
    BY Sizes
  <2>1. PICK n \in Bad : \A k \in Bad : n <= k
    BY LeastOf
  <2>2. PICK s \in SUBSET S : Cardinality(s) = n /\ g[s] # h[s]
    BY <2>1
  <2>3. s # {}
    BY <1>3, <1>4, <2>2
  <2> DEFINE t == s \ {OneOf(s)}
  <2>4. t \in SUBSET S /\ Cardinality(t) = n - 1 /\ n - 1 \in Nat
    BY <2>2, <2>3, Sizes
  <2>5. n - 1 \notin Bad
    BY <2>1, <2>4
  <2>6. g[t] = h[t]
    <3> HIDE DEF t
    <3> QED BY <2>4, <2>5
  <2> QED BY <1>3, <1>4, <2>2, <2>3, <2>6
<1>6. \A s \in SUBSET S : g[s] \in Int
  BY <1>1, <1>5
<1>7. g = [s \in SUBSET S |-> g[s]]
  BY <1>2, <1>3 DEF Eq, g
<1>8. g \in [SUBSET S -> Int]
  BY <1>6, <1>7
<1> QED BY <1>3, <1>8 DEF g

(* It does not matter which element is taken first.                        *)
LEMMA TakeAnyFirst ==
  ASSUME NEW S, IsFiniteSet(S), NEW f, \A x \in S : f[x] \in Int, NEW a \in S
  PROVE  Total(f, S) = f[a] + SumsOf(f, S)[S \ {a}]
<1> DEFINE g == SumsOf(f, S)
<1> DEFINE Fits(s) == \A x \in s : g[s] = f[x] + g[s \ {x}]
           Bad == {n \in Nat : \E s \in SUBSET S : Cardinality(s) = n /\ ~Fits(s)}
<1>1. g \in [SUBSET S -> Int] /\ \A s \in SUBSET S : g[s] = IF s = {} THEN 0 ELSE f[OneOf(s)] + g[s \ {OneOf(s)}]
  BY SumsAre
<1> HIDE DEF g
<1>2. Bad = {}
  <2> SUFFICES ASSUME Bad # {} PROVE FALSE
    OBVIOUS
  <2>1. PICK n \in Bad : \A k \in Bad : n <= k
    BY LeastOf
  <2>2. PICK s \in SUBSET S : \E x \in s : Cardinality(s) = n /\ g[s] # f[x] + g[s \ {x}]
    BY <2>1
  <2>0. PICK x \in s : Cardinality(s) = n /\ g[s] # f[x] + g[s \ {x}]
    BY <2>2
  <2> DEFINE y == OneOf(s)
  <2>3. y \in s /\ g[s] = f[y] + g[s \ {y}]
    BY <1>1, <2>0, Sizes
  <2> HIDE DEF y
  <2>4. x # y
    BY <2>0, <2>3
  <2>5. n - 1 \in Nat /\ n - 1 \notin Bad
    <3>1. n - 1 \in Nat
      BY <2>0, Sizes
    <3> HIDE DEF Fits
    <3> QED BY <2>1, <3>1
  <2>6. \A z \in s : s \ {z} \in SUBSET S /\ Cardinality(s \ {z}) = n - 1 /\ f[z] \in Int
    BY <2>0, Sizes
  <2>7. \A z \in s : Fits(s \ {z})
    <3> HIDE DEF Fits
    <3> QED BY <2>5, <2>6
  <2> DEFINE rest == (s \ {y}) \ {x}
  <2>8. rest \in SUBSET S /\ (s \ {x}) \ {y} = rest
    OBVIOUS
  <2>9. g[s \ {x}] = f[y] + g[rest] /\ g[s \ {y}] = f[x] + g[rest]
    BY <2>0, <2>3, <2>4, <2>7, <2>8
  <2>10. g[rest] \in Int /\ f[x] \in Int /\ f[y] \in Int
    BY <1>1, <2>3, <2>6, <2>8
  <2> HIDE DEF rest
  <2>11. g[s] = f[y] + (f[x] + g[rest]) /\ f[x] + g[s \ {x}] = f[x] + (f[y] + g[rest])
    BY <2>3, <2>9
  <2>12. f[y] + (f[x] + g[rest]) = f[x] + (f[y] + g[rest])
    BY <2>10
  <2> QED BY <2>0, <2>11, <2>12
<1>3. Fits(S)
  <2> HIDE DEF Fits
  <2> QED BY <1>2, Sizes
<1> QED BY <1>3 DEF Total, g

(* A sum is about the values of its elements.                              *)
LEMMA SameTotals ==
  ASSUME NEW S, IsFiniteSet(S), NEW f, \A x \in S : f[x] \in Int,
         NEW U, IsFiniteSet(U), NEW h, \A x \in U : h[x] \in Int,
         NEW T \in SUBSET (S \cap U), \A x \in T : f[x] = h[x]
  PROVE  SumsOf(f, S)[T] = SumsOf(h, U)[T]
<1> DEFINE g == SumsOf(f, S)
           k == SumsOf(h, U)
           Bad == {n \in Nat : \E s \in SUBSET T : Cardinality(s) = n /\ g[s] # k[s]}
<1>1. \A s \in SUBSET T : g[s] = IF s = {} THEN 0 ELSE f[OneOf(s)] + g[s \ {OneOf(s)}]
  <2>1. \A s \in SUBSET S : g[s] = IF s = {} THEN 0 ELSE f[OneOf(s)] + g[s \ {OneOf(s)}]
    BY SumsAre, Zenon
  <2> QED BY <2>1
<1>2. \A s \in SUBSET T : k[s] = IF s = {} THEN 0 ELSE h[OneOf(s)] + k[s \ {OneOf(s)}]
  <2>1. \A s \in SUBSET U : k[s] = IF s = {} THEN 0 ELSE h[OneOf(s)] + k[s \ {OneOf(s)}]
    BY SumsAre, Zenon
  <2> QED BY <2>1
<1> HIDE DEF g, k
<1>3. Bad = {}
  <2> SUFFICES ASSUME Bad # {} PROVE FALSE
    OBVIOUS
  <2>1. PICK n \in Bad : \A m \in Bad : n <= m
    BY LeastOf
  <2>2. PICK s \in SUBSET T : Cardinality(s) = n /\ g[s] # k[s]
    BY <2>1
  <2>3. s # {}
    BY <1>1, <1>2, <2>2
  <2> DEFINE t == s \ {OneOf(s)}
  <2>4. OneOf(s) \in s /\ t \in SUBSET T /\ Cardinality(t) = n - 1 /\ n - 1 \in Nat
    BY <2>2, <2>3, Sizes
  <2>5. g[t] = k[t]
    <3> HIDE DEF t
    <3> QED BY <2>1, <2>4
  <2> QED BY <1>1, <1>2, <2>2, <2>3, <2>4, <2>5
<1>4. \A s \in SUBSET T : g[s] = k[s]
  BY <1>3, Sizes, FS_Subset
<1> QED BY <1>4 DEF g, k

(* A sum of integers is one.                                               *)
LEMMA TotalIsInt ==
  ASSUME NEW S, IsFiniteSet(S), NEW f, \A x \in S : f[x] \in Int
  PROVE  Total(f, S) \in Int
BY SumsAre DEF Total

(* Two functions that agree on a set have the same sum there.              *)
LEMMA TotalOfSame ==
  ASSUME NEW S, IsFiniteSet(S), NEW f, NEW h, \A x \in S : f[x] \in Int /\ f[x] = h[x]
  PROVE  Total(f, S) = Total(h, S)
<1>1. S \in SUBSET (S \cap S)
  OBVIOUS
<1> QED BY <1>1, SameTotals DEF Total

(* One element more adds its value.                                        *)
LEMMA TotalOfOneMore ==
  ASSUME NEW S, IsFiniteSet(S), NEW a, a \notin S, NEW f, \A x \in S \cup {a} : f[x] \in Int
  PROVE  Total(f, S \cup {a}) = f[a] + Total(f, S)
<1> DEFINE U == S \cup {a}
<1>1. IsFiniteSet(U) /\ a \in U /\ U \ {a} = S /\ S \in SUBSET (U \cap S) /\ \A x \in U : f[x] \in Int
  BY FS_AddElement
<1> HIDE DEF U
<1>2. Total(f, U) = f[a] + SumsOf(f, U)[S]
  BY <1>1, TakeAnyFirst
<1>3. SumsOf(f, U)[S] = Total(f, S)
  BY <1>1, SameTotals DEF Total
<1> QED BY <1>2, <1>3 DEF U

(* A sum does not fall when its values do not,                             *)
LEMMA TotalOfMore ==
  ASSUME NEW S, IsFiniteSet(S), NEW f, NEW h, \A x \in S : f[x] \in Int /\ h[x] \in Int /\ f[x] <= h[x]
  PROVE  Total(f, S) <= Total(h, S)
<1> DEFINE g == SumsOf(f, S)
           k == SumsOf(h, S)
           Bad == {n \in Nat : \E s \in SUBSET S : Cardinality(s) = n /\ ~(g[s] <= k[s])}
<1>1. g \in [SUBSET S -> Int] /\ \A s \in SUBSET S : g[s] = IF s = {} THEN 0 ELSE f[OneOf(s)] + g[s \ {OneOf(s)}]
  BY SumsAre
<1>2. k \in [SUBSET S -> Int] /\ \A s \in SUBSET S : k[s] = IF s = {} THEN 0 ELSE h[OneOf(s)] + k[s \ {OneOf(s)}]
  BY SumsAre
<1> HIDE DEF g, k
<1>3. Bad = {}
  <2> SUFFICES ASSUME Bad # {} PROVE FALSE
    OBVIOUS
  <2>1. PICK n \in Bad : \A m \in Bad : n <= m
    BY LeastOf
  <2>2. PICK s \in SUBSET S : Cardinality(s) = n /\ ~(g[s] <= k[s])
    BY <2>1
  <2>3. s # {}
    <3>1. g[{}] = 0 /\ k[{}] = 0
      BY <1>1, <1>2
    <3>2. g[{}] <= k[{}]
      BY <3>1
    <3> QED BY <2>2, <3>2
  <2> DEFINE t == s \ {OneOf(s)}
             x == OneOf(s)
  <2>4. x \in s /\ t \in SUBSET S /\ Cardinality(t) = n - 1 /\ n - 1 \in Nat
    BY <2>2, <2>3, Sizes
  <2>5. g[s] = f[x] + g[t] /\ k[s] = h[x] + k[t]
    BY <1>1, <1>2, <2>3
  <2> HIDE DEF t, x
  <2>6. g[t] <= k[t]
    BY <2>1, <2>4
  <2>7. f[x] \in Int /\ h[x] \in Int /\ f[x] <= h[x] /\ g[t] \in Int /\ k[t] \in Int
    BY <1>1, <1>2, <2>4
  <2> QED BY <2>2, <2>5, <2>6, <2>7
<1>4. g[S] <= k[S]
  BY <1>3, Sizes
<1> QED BY <1>4 DEF Total, g, k

(* and is zero of nothing but zeros.                                       *)
LEMMA TotalOfZeros ==
  ASSUME NEW S, IsFiniteSet(S), NEW f, \A x \in S : f[x] = 0
  PROVE  Total(f, S) = 0
<1> DEFINE g == SumsOf(f, S)
           Bad == {n \in Nat : \E s \in SUBSET S : Cardinality(s) = n /\ g[s] # 0}
<1>1. \A s \in SUBSET S : g[s] = IF s = {} THEN 0 ELSE f[OneOf(s)] + g[s \ {OneOf(s)}]
  <2>1. \A x \in S : f[x] \in Int
    OBVIOUS
  <2> QED BY <2>1, SumsAre, Zenon
<1> HIDE DEF g
<1>2. Bad = {}
  <2> SUFFICES ASSUME Bad # {} PROVE FALSE
    OBVIOUS
  <2>1. PICK n \in Bad : \A m \in Bad : n <= m
    BY LeastOf
  <2>2. PICK s \in SUBSET S : Cardinality(s) = n /\ g[s] # 0
    BY <2>1
  <2>3. s # {}
    BY <1>1, <2>2
  <2> DEFINE t == s \ {OneOf(s)}
  <2>4. OneOf(s) \in s /\ t \in SUBSET S /\ Cardinality(t) = n - 1 /\ n - 1 \in Nat
    BY <2>2, <2>3, Sizes
  <2>5. g[t] = 0
    <3> HIDE DEF t
    <3> QED BY <2>1, <2>4
  <2> QED BY <1>1, <2>2, <2>3, <2>4, <2>5
<1>3. g[S] = 0
  BY <1>2, Sizes
<1> QED BY <1>3 DEF Total, g

LEMMA TotalIsNat ==
  ASSUME NEW S, IsFiniteSet(S), NEW f, \A x \in S : f[x] \in Nat
  PROVE  Total(f, S) \in Nat
<1> DEFINE zeros == [x \in S |-> 0]
<1>1. \A x \in S : zeros[x] = 0
  OBVIOUS
<1> HIDE DEF zeros
<1>2. Total(zeros, S) = 0 /\ Total(zeros, S) <= Total(f, S) /\ Total(f, S) \in Int
  BY <1>1, TotalOfZeros, TotalOfMore, TotalIsInt
<1> QED BY <1>2

(* One value that changes makes its difference.                            *)
LEMMA TotalOfChange ==
  ASSUME NEW S, IsFiniteSet(S), NEW a \in S, NEW f, NEW h,
         \A x \in S : f[x] \in Int /\ h[x] \in Int, \A x \in S \ {a} : f[x] = h[x]
  PROVE  Total(h, S) = Total(f, S) - f[a] + h[a]
<1> DEFINE T == S \ {a}
<1>1. IsFiniteSet(T) /\ a \notin T /\ T \cup {a} = S /\ \A x \in T : f[x] \in Int /\ f[x] = h[x]
  BY FS_Subset
<1> HIDE DEF T
<1>2. Total(f, S) = f[a] + Total(f, T) /\ Total(h, S) = h[a] + Total(h, T)
  BY <1>1, TotalOfOneMore
<1>3. Total(f, T) = Total(h, T) /\ Total(f, T) \in Int
  BY <1>1, TotalOfSame, TotalIsInt
<1> QED BY <1>2, <1>3

(* When no other value grows, a sum grows by at most what one value does.  *)
LEMMA TotalOfOneMoving ==
  ASSUME NEW S, IsFiniteSet(S), NEW a \in S, NEW f, NEW h,
         \A x \in S : f[x] \in Int /\ h[x] \in Int, \A x \in S \ {a} : h[x] <= f[x]
  PROVE  Total(h, S) <= Total(f, S) - f[a] + h[a]
<1> DEFINE k == [x \in S |-> IF x = a THEN h[a] ELSE f[x]]
<1>1. \A x \in S : k[x] \in Int /\ h[x] <= k[x]
  OBVIOUS
<1>2. k[a] = h[a] /\ \A x \in S \ {a} : f[x] = k[x]
  OBVIOUS
<1> HIDE DEF k
<1>3. Total(h, S) <= Total(k, S)
  BY <1>1, TotalOfMore
<1>4. Total(k, S) = Total(f, S) - f[a] + k[a]
  BY <1>1, <1>2, TotalOfChange
<1>5. Total(h, S) \in Int /\ Total(k, S) \in Int /\ Total(f, S) \in Int
  BY <1>1, TotalIsInt
<1> QED BY <1>2, <1>3, <1>4, <1>5

(* The fold by which the community modules sum a function.                 *)
LEMMA SumIsTotal ==
  ASSUME NEW f, NEW S
  PROVE  SumFunctionOnSet(f, S) = Total(f, S)
BY DEF SumFunctionOnSet, FoldFunctionOnSet, MapThenFoldSet, Total, SumsOf, OneOf
=============================================================================
