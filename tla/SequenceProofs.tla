--------------------------- MODULE SequenceProofs ---------------------------
(***************************************************************************)
(* Induction over numbers and folds over sequences, for the proofs about   *)
(* the resolver and the fusers.                                            *)
(*                                                                         *)
(* The induction goes over sets: a set that has 0 and with a number the    *)
(* next one has all of them, because a set of naturals has a least         *)
(* element.  FoldLeft is a recursive function on the sets of indexes; a    *)
(* fold that stays in a set S runs over the prefixes of its sequence, one  *)
(* element at a time (FoldRun).                                            *)
(***************************************************************************)
EXTENDS Integers, SequencesExt, FiniteSetTheorems, WellFoundedInduction,
        SequenceTheorems, TLAPS

-----------------------------------------------------------------------------
(* Induction *)

\* A set of naturals has a least element.
LEMMA LeastNat ==
  ASSUME NEW T \in SUBSET Nat, T # {}
  PROVE  \E n \in T : \A m \in T : n <= m
<1> DEFINE R == OpToRel(<, Nat)
<1>1. IsWellFoundedOn(R, Nat)
  BY NatLessThanWellFounded
<1>2. T \subseteq Nat
  OBVIOUS
<1> HIDE DEF R
<1>3. PICK n \in T : \A m \in T : ~(<<m, n>> \in R)
  BY <1>1, <1>2, WFMin
<1>4. \A m \in T : ~(m < n)
  BY <1>3 DEF R, OpToRel
<1> QED BY <1>4

\* Induction up to k, for a set of numbers.
LEMMA InductionUpTo ==
  ASSUME NEW k \in Nat, NEW T, 0 \in T, \A i \in 0 .. k - 1 : i \in T => i + 1 \in T
  PROVE  \A i \in 0 .. k : i \in T
<1> DEFINE Missed == {i \in 0 .. k : i \notin T}
<1> SUFFICES ASSUME Missed # {} PROVE FALSE
  OBVIOUS
<1>1. Missed \in SUBSET Nat
  OBVIOUS
<1>2. PICK i \in Missed : \A j \in Missed : i <= j
  BY <1>1, LeastNat
<1>3. i \in 0 .. k /\ i # 0 /\ i - 1 \in 0 .. k - 1
  BY <1>2
<1>4. i - 1 \in T
  BY <1>2, <1>3
<1>5. (i - 1) + 1 \in T
  BY <1>3, <1>4
<1> QED BY <1>2, <1>3, <1>5

\* The greatest of a non-empty set of indexes.
LEMMA MaxOfIndexes ==
  ASSUME NEW k \in Nat, NEW s \in SUBSET (1 .. k), s # {}
  PROVE  /\ Max(s) \in s
         /\ \A x \in s : x <= Max(s)
<1> DEFINE Gap == {k - x : x \in s}
<1>1. Gap \in SUBSET Nat /\ Gap # {}
  <2>1. \A x \in s : x \in Int /\ k - x \in Nat
    OBVIOUS
  <2> QED BY <2>1
<1>2. PICK d \in Gap : \A e \in Gap : d <= e
  BY <1>1, LeastNat
<1>3. PICK x \in s : d = k - x
  BY <1>2
<1>4. \A y \in s : k - x <= k - y
  BY <1>2, <1>3
<1>5. \A y \in s : x >= y
  BY <1>4
<1>6. \E z \in s : \A y \in s : z >= y
  BY <1>5
<1>7. Max(s) \in s /\ \A y \in s : Max(s) >= y
  BY <1>6 DEF Max
<1> QED BY <1>7

\* It is unchanged by what lies below it.
LEMMA MaxIsLast ==
  ASSUME NEW k \in Nat \ {0}, NEW s \in SUBSET (1 .. k), k \in s
  PROVE  Max(s) = k
<1>1. Max(s) \in s /\ k <= Max(s)
  BY MaxOfIndexes
<1>2. Max(s) \in 1 .. k
  BY <1>1
<1> QED BY <1>1, <1>2

\* The recursion behind FoldLeft over 1 .. k, for a step function F on S.
Fold(F, b, k, g) ==
  g = [s \in SUBSET (1 .. k) |->
         IF s = {} THEN b ELSE F[Max(s)][g[s \ {Max(s)}]]]

StepsIn(F, k, S) == \A i \in 1 .. k : \A x \in S : F[i][x] \in S

\* One more element.
LEMMA FoldExtends ==
  ASSUME NEW k \in Nat, NEW S, NEW b \in S, NEW F,
         StepsIn(F, k + 1, S),
         NEW g \in [SUBSET (1 .. k) -> S], Fold(F, b, k, g)
  PROVE  \E h \in [SUBSET (1 .. k + 1) -> S] : Fold(F, b, k + 1, h)
<1> DEFINE h == [s \in SUBSET (1 .. k + 1) |->
                   IF k + 1 \in s THEN F[k + 1][g[s \ {k + 1}]] ELSE g[s]]
<1>1. \A s \in SUBSET (1 .. k + 1) : k + 1 \notin s => s \in SUBSET (1 .. k)
  OBVIOUS
<1>2. \A s \in SUBSET (1 .. k + 1) : s \ {k + 1} \in SUBSET (1 .. k)
  OBVIOUS
<1>3. h \in [SUBSET (1 .. k + 1) -> S]
  <2> SUFFICES ASSUME NEW s \in SUBSET (1 .. k + 1)
               PROVE  (IF k + 1 \in s THEN F[k + 1][g[s \ {k + 1}]] ELSE g[s]) \in S
    OBVIOUS
  <2>1. CASE k + 1 \in s
    <3>1. g[s \ {k + 1}] \in S /\ k + 1 \in 1 .. k + 1
      BY <1>2
    <3> QED BY <2>1, <3>1 DEF StepsIn
  <2>2. CASE k + 1 \notin s
    BY <1>1, <2>2
  <2> QED BY <2>1, <2>2
<1>4. ASSUME NEW s \in SUBSET (1 .. k + 1)
      PROVE  h[s] = IF s = {} THEN b ELSE F[Max(s)][h[s \ {Max(s)}]]
  <2>1. CASE s = {}
    <3>1. h[s] = g[{}]
      BY <2>1
    <3>2. g[{}] = b
      BY DEF Fold
    <3> QED BY <2>1, <3>1, <3>2
  <2>2. CASE s # {} /\ k + 1 \notin s
    <3>1. s \in SUBSET (1 .. k) /\ h[s] = g[s]
      BY <1>1, <2>2
    <3>2. g[s] = F[Max(s)][g[s \ {Max(s)}]]
      BY <2>2, <3>1 DEF Fold
    <3>3. h[s \ {Max(s)}] = g[s \ {Max(s)}]
      BY <2>2
    <3> QED BY <2>2, <3>1, <3>2, <3>3
  <2>3. CASE k + 1 \in s
    <3>1. k + 1 \in Nat \ {0}
      OBVIOUS
    <3>2. Max(s) = k + 1
      BY <2>3, <3>1, MaxIsLast
    <3>3. h[s \ {k + 1}] = g[s \ {k + 1}]
      OBVIOUS
    <3>4. h[s] = F[k + 1][g[s \ {k + 1}]]
      BY <2>3
    <3> HIDE DEF h
    <3> QED BY <2>3, <3>2, <3>3, <3>4
  <2> QED BY <2>1, <2>2, <2>3
<1>5. Fold(F, b, k + 1, h)
  BY <1>4 DEF Fold
<1> QED BY <1>3, <1>5

\* The recursion has a solution.
LEMMA FoldExists ==
  ASSUME NEW n \in Nat, NEW S, NEW b \in S, NEW F,
         StepsIn(F, n, S)
  PROVE  \E g \in [SUBSET (1 .. n) -> S] : Fold(F, b, n, g)
<1> DEFINE T == {k \in 0 .. n : \E g \in [SUBSET (1 .. k) -> S] : Fold(F, b, k, g)}
<1>1. 0 \in T
  <2> DEFINE g == [s \in SUBSET (1 .. 0) |-> b]
  <2>1. g \in [SUBSET (1 .. 0) -> S]
    OBVIOUS
  <2>2. \A s \in SUBSET (1 .. 0) : s = {}
    OBVIOUS
  <2>3. Fold(F, b, 0, g)
    BY <2>2 DEF Fold
  <2> QED BY <2>1, <2>3
<1>2. ASSUME NEW k \in 0 .. n - 1, k \in T PROVE k + 1 \in T
  <2>1. PICK g \in [SUBSET (1 .. k) -> S] : Fold(F, b, k, g)
    BY <1>2
  <2>2. k \in Nat /\ k + 1 \in 0 .. n /\ \A i \in 1 .. k + 1 : i \in 1 .. n
    OBVIOUS
  <2>3. StepsIn(F, k + 1, S)
    BY <2>2 DEF StepsIn
  <2>4. \E h \in [SUBSET (1 .. k + 1) -> S] : Fold(F, b, k + 1, h)
    BY <2>1, <2>2, <2>3, FoldExtends
  <2> QED BY <2>2, <2>4
<1> HIDE DEF T
<1>3. n \in T
  BY <1>1, <1>2, InductionUpTo
<1> QED BY <1>3 DEF T

\* A prefix of the indexes, without its last.
LEMMA PrefixIndexes ==
  ASSUME NEW k \in Nat \ {0}
  PROVE  1 .. k # {} /\ Max(1 .. k) = k /\ (1 .. k) \ {k} = 1 .. k - 1
<1>1. k \in 1 .. k /\ 1 .. k \in SUBSET (1 .. k)
  OBVIOUS
<1>2. Max(1 .. k) = k
  BY <1>1, MaxIsLast
<1>3. (1 .. k) \ {k} = 1 .. k - 1
  OBVIOUS
<1> QED BY <1>1, <1>2, <1>3

\* A function that satisfies the recursion, as far as it stays in S, runs
\* through the steps.
FoldsIn(F, b, n, S, c) ==
  /\ c[{}] = b
  /\ \A s \in SUBSET (1 .. n) :
       s # {} /\ c[s \ {Max(s)}] \in S => c[s] = F[Max(s)][c[s \ {Max(s)}]]
FoldRuns(F, b, n, S, c) ==
  /\ c[1 .. 0] = b
  /\ \A k \in 1 .. n : c[1 .. k] = F[k][c[1 .. k - 1]]
  /\ \A k \in 0 .. n : c[1 .. k] \in S

LEMMA FoldRun ==
  ASSUME NEW n \in Nat, NEW S, NEW b \in S, NEW F, StepsIn(F, n, S), NEW c,
         FoldsIn(F, b, n, S, c)
  PROVE  FoldRuns(F, b, n, S, c)
<1>1. c[1 .. 0] = b
  <2>1. 1 .. 0 = {}
    OBVIOUS
  <2> QED BY <2>1 DEF FoldsIn
<1>2. ASSUME NEW k \in 1 .. n, c[1 .. k - 1] \in S
      PROVE  c[1 .. k] = F[k][c[1 .. k - 1]] /\ c[1 .. k] \in S
  <2>1. k \in Nat \ {0} /\ 1 .. k \in SUBSET (1 .. n)
    OBVIOUS
  <2>2. 1 .. k # {} /\ Max(1 .. k) = k /\ (1 .. k) \ {k} = 1 .. k - 1
    BY <2>1, PrefixIndexes
  <2>3. c[1 .. k] = F[k][c[1 .. k - 1]]
    BY <1>2, <2>1, <2>2 DEF FoldsIn
  <2> QED BY <1>2, <2>3 DEF StepsIn
<1> DEFINE T == {k \in 0 .. n : c[1 .. k] \in S}
<1>3. 0 \in T
  <2>1. 0 \in 0 .. n
    OBVIOUS
  <2> QED BY <1>1, <2>1
<1>4. ASSUME NEW k \in 0 .. n - 1, k \in T PROVE k + 1 \in T
  <2>1. k + 1 \in 1 .. n /\ k + 1 \in 0 .. n /\ (k + 1) - 1 = k
    OBVIOUS
  <2>2. c[1 .. (k + 1) - 1] \in S
    BY <1>4, <2>1
  <2>3. c[1 .. k + 1] \in S
    BY <1>2, <2>1, <2>2
  <2> QED BY <2>1, <2>3
<1> HIDE DEF T
<1>5. \A k \in 0 .. n : k \in T
  BY <1>3, <1>4, InductionUpTo
<1>6. \A k \in 0 .. n : c[1 .. k] \in S
  BY <1>5 DEF T
<1>7. \A k \in 1 .. n : k - 1 \in 0 .. n
  OBVIOUS
<1> QED BY <1>1, <1>2, <1>6, <1>7 DEF FoldRuns

\* The elements of a longer sequence.
LEMMA AppendedSet ==
  ASSUME NEW M, NEW q \in Seq(M), NEW e \in M
  PROVE  ToSet(Append(q, e)) = ToSet(q) \cup {e}
<1>1. /\ DOMAIN Append(q, e) = 1 .. Len(q) + 1 /\ DOMAIN q = 1 .. Len(q) /\ Len(q) \in Nat
      /\ \A i \in 1 .. Len(q) : Append(q, e)[i] = q[i]
      /\ Append(q, e)[Len(q) + 1] = e
  OBVIOUS
<1>2. \A i : i \in 1 .. Len(q) + 1 <=> i \in 1 .. Len(q) \/ i = Len(q) + 1
  BY <1>1
<1> DEFINE a == Append(q, e)
<1> HIDE DEF a
<1>3. \A x : (\E i \in DOMAIN a : a[i] = x) <=> (\E i \in DOMAIN q : q[i] = x) \/ x = e
  BY <1>1, <1>2 DEF a
<1>4. ToSet(a) = {a[i] : i \in DOMAIN a} /\ ToSet(q) = {q[i] : i \in DOMAIN q}
  BY DEF ToSet
<1> QED BY <1>3, <1>4 DEF a

-----------------------------------------------------------------------------
(* Sequences *)

\* A sequence over the set of its elements.
LEMMA SeqOfElements ==
  ASSUME NEW B, NEW q \in Seq(B), NEW A, \A i \in DOMAIN q : q[i] \in A
  PROVE  q \in Seq(A)
<1>1. Len(q) \in Nat /\ DOMAIN q = 1 .. Len(q) /\ q = [i \in 1 .. Len(q) |-> q[i]]
  OBVIOUS
<1> QED BY <1>1

\* A sequence without repetitions has as many elements as places.
Distinct(q) == \A i, j \in DOMAIN q : q[i] = q[j] => i = j

LEMMA DistinctCount ==
  ASSUME NEW M, NEW q \in Seq(M), Distinct(q)
  PROVE  IsFiniteSet(ToSet(q)) /\ Cardinality(ToSet(q)) = Len(q)
<1> DEFINE m == Len(q)
<1>1. m \in Nat /\ DOMAIN q = 1 .. m /\ q \in [1 .. m -> ToSet(q)]
  <2>1. m \in Nat /\ DOMAIN q = 1 .. m /\ q = [i \in 1 .. m |-> q[i]]
    OBVIOUS
  <2>2. \A i \in 1 .. m : q[i] \in ToSet(q)
    BY <2>1 DEF ToSet
  <2> QED BY <2>1, <2>2
<1> HIDE DEF m
<1>2. q \in Bijection(1 .. m, ToSet(q))
  <2>1. q \in Injection(1 .. m, ToSet(q))
    BY <1>1 DEF Injection, IsInjective, Distinct
  <2>2. q \in Surjection(1 .. m, ToSet(q))
    BY <1>1 DEF Surjection, ToSet
  <2> QED BY <2>1, <2>2 DEF Bijection
<1>3. ExistsBijection(1 .. m, ToSet(q))
  BY <1>2 DEF ExistsBijection
<1>4. Cardinality(ToSet(q)) = m
  BY <1>1, <1>3, FS_CountingElements
<1>5. IsFiniteSet(ToSet(q))
  BY <1>1, <1>3, FS_NatBijection
<1> QED BY <1>4, <1>5 DEF m

\* One more element, not in the sequence yet.
LEMMA AppendDistinct ==
  ASSUME NEW M, NEW q \in Seq(M), NEW e \in M, Distinct(q), e \notin ToSet(q)
  PROVE  Distinct(Append(q, e))
<1> DEFINE a == Append(q, e)
<1>1. /\ Len(q) \in Nat /\ DOMAIN q = 1 .. Len(q) /\ DOMAIN a = 1 .. Len(q) + 1
      /\ a[Len(q) + 1] = e /\ \A i \in 1 .. Len(q) : a[i] = q[i]
  OBVIOUS
<1> HIDE DEF a
<1>2. \A i \in 1 .. Len(q) : a[i] # e
  BY <1>1 DEF ToSet
<1>3. \A i : i \in 1 .. Len(q) + 1 <=> i \in 1 .. Len(q) \/ i = Len(q) + 1
  BY <1>1
<1>4. \A i, j \in 1 .. Len(q) + 1 : a[i] = a[j] => i = j
  BY <1>1, <1>2, <1>3 DEF Distinct
<1> QED BY <1>1, <1>4 DEF Distinct, a

\* The elements of two sequences, joined.
LEMMA JoinedSet ==
  ASSUME NEW M, NEW p \in Seq(M), NEW q \in Seq(M)
  PROVE  p \o q \in Seq(M) /\ ToSet(p \o q) = ToSet(p) \cup ToSet(q)
<1> DEFINE a == p \o q
<1>1. /\ Len(p) \in Nat /\ Len(q) \in Nat /\ Len(a) = Len(p) + Len(q) /\ a \in Seq(M)
      /\ DOMAIN p = 1 .. Len(p) /\ DOMAIN q = 1 .. Len(q) /\ DOMAIN a = 1 .. Len(p) + Len(q)
      /\ \A i \in 1 .. Len(p) : a[i] = p[i]
      /\ \A i \in 1 .. Len(q) : a[Len(p) + i] = q[i]
  OBVIOUS
<1> HIDE DEF a
<1>2. \A i \in 1 .. Len(p) + Len(q) : i \in 1 .. Len(p) \/ \E j \in 1 .. Len(q) : i = Len(p) + j
  <2> SUFFICES ASSUME NEW i \in 1 .. Len(p) + Len(q), i \notin 1 .. Len(p)
               PROVE  \E j \in 1 .. Len(q) : i = Len(p) + j
    OBVIOUS
  <2>1. i - Len(p) \in 1 .. Len(q) /\ i = Len(p) + (i - Len(p))
    BY <1>1
  <2> QED BY <2>1
<1>3. \A i \in 1 .. Len(p) : i \in 1 .. Len(p) + Len(q)
  BY <1>1
<1>4. \A j \in 1 .. Len(q) : Len(p) + j \in 1 .. Len(p) + Len(q)
  BY <1>1
<1>5. ToSet(a) = {a[i] : i \in DOMAIN a} /\ ToSet(q) = {q[i] : i \in DOMAIN q} /\ ToSet(p) = {p[i] : i \in DOMAIN p}
  BY DEF ToSet
<1>6. ASSUME NEW x \in ToSet(a) PROVE x \in ToSet(p) \cup ToSet(q)
  <2>1. PICK i \in 1 .. Len(p) + Len(q) : a[i] = x
    BY <1>1, <1>5
  <2>2. CASE i \in 1 .. Len(p)
    BY <1>1, <1>5, <2>1, <2>2
  <2>3. CASE \E j \in 1 .. Len(q) : i = Len(p) + j
    BY <1>1, <1>5, <2>1, <2>3
  <2> QED BY <1>2, <2>2, <2>3
<1>7. ASSUME NEW x \in ToSet(p) PROVE x \in ToSet(a)
  BY <1>1, <1>3, <1>5
<1>8. ASSUME NEW x \in ToSet(q) PROVE x \in ToSet(a)
  <2>1. PICK j \in 1 .. Len(q) : q[j] = x
    BY <1>1, <1>5
  <2>2. a[Len(p) + j] = x /\ Len(p) + j \in DOMAIN a
    BY <1>1, <1>4, <2>1
  <2> QED BY <1>5, <2>2
<1>9. ToSet(a) = ToSet(p) \cup ToSet(q)
  BY <1>6, <1>7, <1>8
<1> QED BY <1>1, <1>9 DEF a
=============================================================================
