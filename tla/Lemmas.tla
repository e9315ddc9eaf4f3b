------------------------------- MODULE Lemmas -------------------------------
(***************************************************************************)
(* Facts about numbers and sequences that the proofs of several components *)
(* need.                                                                   *)
(***************************************************************************)
EXTENDS Integers, SequencesExt, FiniteSetTheorems, TLAPS

\* A set of numbers that is not empty has a least one.
LEMMA LeastNumber ==
    ASSUME NEW S \in SUBSET Nat, S # {}
    PROVE  \E n \in S : \A m \in S : n <= m
<1>1. PICK n \in S : TRUE
  OBVIOUS
<1> DEFINE Initial == {0 .. m : m \in {k \in S : k <= n}}
<1>2. IsFiniteSet(0 .. n)
  BY FS_Interval
<1>3. Initial \in SUBSET (SUBSET (0 .. n)) /\ 0 .. n \in Initial
  OBVIOUS
<1>4. IsWellFoundedOn(StrictSubsetOrdering(0 .. n), FiniteSubsetsOf(0 .. n))
  BY FS_StrictSubsetOrderingWellFounded
<1>5. Initial \subseteq FiniteSubsetsOf(0 .. n)
  BY <1>2, <1>3, FS_FiniteSubsetsOfFinite
<1>6. PICK x \in Initial : \A y \in Initial : <<y, x>> \notin StrictSubsetOrdering(0 .. n)
  <2> HIDE DEF Initial
  <2> QED BY <1>3, <1>4, <1>5, WFMin
<1>7. PICK m \in S : m <= n /\ x = 0 .. m
  OBVIOUS
<1>8. ASSUME NEW k \in S, k < m PROVE FALSE
  <2>1. 0 .. k \in Initial
    BY <1>7, <1>8
  <2>2. 0 .. k \subseteq 0 .. m /\ 0 .. k # 0 .. m
    BY <1>7, <1>8
  <2>3. <<0 .. k, x>> \in StrictSubsetOrdering(0 .. n)
    BY <2>1, <2>2, <1>3, <1>7 DEF StrictSubsetOrdering
  <2> QED BY <2>1, <2>3, <1>6
<1>9. \A k \in S : m <= k
  BY <1>7, <1>8
<1> QED BY <1>7, <1>9

\* Induction, for a set of numbers: it has all numbers up to n if it has 0 and,
\* with each number below n, the next one.
LEMMA Induction ==
    ASSUME NEW n \in Nat, NEW S, 0 \in S, \A i \in 0 .. n - 1 : i \in S => i + 1 \in S
    PROVE  0 .. n \subseteq S
<1> SUFFICES ASSUME (0 .. n) \ S # {} PROVE FALSE
  OBVIOUS
<1>1. PICK m \in (0 .. n) \ S : \A k \in (0 .. n) \ S : m <= k
  <2>1. (0 .. n) \ S \in SUBSET Nat
    OBVIOUS
  <2> QED BY <2>1, LeastNumber
<1>2. m # 0 /\ m - 1 \in 0 .. n - 1
  BY <1>1
<1>3. m - 1 \in S
  BY <1>1, <1>2
<1>4. (m - 1) + 1 \in S
  BY <1>2, <1>3
<1> QED BY <1>1, <1>2, <1>4

\* The step of a sum over a set, one element after the other.
SumStep(f, g, s) ==
    IF s = {} THEN 0 ELSE LET x == CHOOSE x \in s : TRUE IN f[x] + g[s \ {x}]

\* The sets of at most m elements.
Small(S, m) == {s \in SUBSET S : Cardinality(s) <= m}

\* One element less.
LEMMA OneLess ==
    ASSUME NEW S, IsFiniteSet(S), NEW m \in Nat, NEW s \in Small(S, m), s # {}
    PROVE  /\ (CHOOSE x \in s : TRUE) \in s
           /\ m # 0 /\ s \ {CHOOSE x \in s : TRUE} \in Small(S, m - 1)
<1> DEFINE x == CHOOSE x \in s : TRUE
<1>1. x \in s
  OBVIOUS
<1> HIDE DEF x
<1>2. IsFiniteSet(s) /\ Cardinality(s) \in Nat /\ Cardinality(s) <= m
  BY FS_Subset, FS_CardinalityType DEF Small
<1>3. Cardinality(s \ {x}) = Cardinality(s) - 1
  BY <1>1, <1>2, FS_RemoveElement
<1>4. Cardinality(s) # 0
  BY <1>2, FS_EmptySet
<1>5. s \ {x} \in SUBSET S
  BY DEF Small
<1>6. m # 0 /\ Cardinality(s) - 1 <= m - 1
  BY <1>2, <1>4
<1> QED BY <1>1, <1>3, <1>5, <1>6 DEF Small, x

\* The sums of all subsets exist.
LEMMA SumsExist ==
    ASSUME NEW S, IsFiniteSet(S), NEW f
    PROVE  \E g : g = [s \in SUBSET S |-> SumStep(f, g, s)]
<1> DEFINE n == Cardinality(S)
           Is(g, m) == g = [s \in Small(S, m) |-> SumStep(f, g, s)]
           Ms == {m \in 0 .. n : \E g : Is(g, m)}
<1>1. n \in Nat
  BY FS_CardinalityType
<1>2. Small(S, n) = SUBSET S
  <2>1. \A s \in SUBSET S : Cardinality(s) <= n
    BY FS_Subset
  <2> QED BY <2>1 DEF Small
<1> HIDE DEF n
<1>3. 0 \in Ms
  <2>1. \A s \in Small(S, 0) : s = {}
    <3>1. \A s \in Small(S, 0) : s = {} \/ 0 # 0
      BY OneLess
    <3> QED BY <3>1
  <2> DEFINE g == [s \in Small(S, 0) |-> 0]
  <2>2. g = [s \in Small(S, 0) |-> SumStep(f, g, s)]
    BY <2>1 DEF SumStep
  <2>3. \E h : Is(h, 0)
    BY <2>2
  <2> QED BY <1>1, <2>3
<1>4. ASSUME NEW m \in 0 .. n - 1, m \in Ms PROVE m + 1 \in Ms
  <2>1. PICK g : Is(g, m)
    BY <1>4
  <2>2. m \in Nat /\ m + 1 \in Nat /\ (m + 1) - 1 = m /\ m + 1 \in 0 .. n
    BY <1>1
  <2> DEFINE h == [s \in Small(S, m + 1) |-> SumStep(f, g, s)]
  <2>3. \A s \in Small(S, m) : s \in Small(S, m + 1) /\ g[s] = SumStep(f, g, s)
    <3>1. ASSUME NEW s \in Small(S, m) PROVE s \in Small(S, m + 1)
      <4>1. IsFiniteSet(s)
        BY FS_Subset DEF Small
      <4>2. Cardinality(s) \in Nat /\ Cardinality(s) <= m
        BY <4>1, FS_CardinalityType DEF Small
      <4>3. Cardinality(s) <= m + 1
        BY <2>2, <4>2
      <4> QED BY <4>3 DEF Small
    <3>2. ASSUME NEW s \in Small(S, m) PROVE g[s] = SumStep(f, g, s)
      BY <2>1
    <3> QED BY <3>1, <3>2
  <2>4. \A s \in Small(S, m) : h[s] = g[s]
    BY <2>3
  <2>5. \A s \in Small(S, m + 1) : SumStep(f, g, s) = SumStep(f, h, s)
    <3> TAKE s \in Small(S, m + 1)
    <3>1. CASE s = {}
      BY <3>1 DEF SumStep
    <3>2. CASE s # {}
      <4> DEFINE x == CHOOSE x \in s : TRUE
      <4>1. s \ {x} \in Small(S, m)
        BY <2>2, <3>2, OneLess
      <4>2. h[s \ {x}] = g[s \ {x}]
        BY <2>4, <4>1
      <4> HIDE DEF h
      <4> QED BY <3>2, <4>2 DEF SumStep
    <3> QED BY <3>1, <3>2
  <2>6. h = [s \in Small(S, m + 1) |-> h[s]] /\ \A s \in Small(S, m + 1) : h[s] = SumStep(f, g, s)
    OBVIOUS
  <2> HIDE DEF h
  <2>7. h = [s \in Small(S, m + 1) |-> SumStep(f, h, s)]
    BY <2>5, <2>6
  <2>8. \E k : Is(k, m + 1)
    BY <2>7
  <2> QED BY <2>2, <2>8
<1>5. n \in Ms
  <2> HIDE DEF Ms
  <2>1. 0 .. n \subseteq Ms
    BY <1>1, <1>3, <1>4, Induction
  <2> QED BY <1>1, <2>1
<1> QED BY <1>2, <1>5

\* A sum is no less than what it sums up.
LEMMA SumBounds ==
    ASSUME NEW S, IsFiniteSet(S), NEW f \in [S -> Nat]
    PROVE  /\ MapThenSumSet(LAMBDA x : f[x], S) \in Nat
           /\ \A x \in S : f[x] <= MapThenSumSet(LAMBDA y : f[y], S)
<1> DEFINE g == CHOOSE g : g = [s \in SUBSET S |-> SumStep(f, g, s)]
           n == Cardinality(S)
           Fits(s) == g[s] \in Nat /\ \A x \in s : f[x] <= g[s]
           Ms == {m \in 0 .. n : \A s \in Small(S, m) : Fits(s)}
<1>1. MapThenSumSet(LAMBDA x : f[x], S) = g[S]
  BY DEF MapThenSumSet, MapThenFoldSet, SumStep
<1>2. \A s \in SUBSET S : g[s] = SumStep(f, g, s)
  <2>1. g = [s \in SUBSET S |-> SumStep(f, g, s)]
    BY SumsExist
  <2> HIDE DEF g
  <2> QED BY <2>1
<1> HIDE DEF g
<1>3. n \in Nat
  BY FS_CardinalityType
<1>4. S \in Small(S, n)
  BY <1>3 DEF Small
<1> HIDE DEF n
<1>5. ASSUME NEW m \in Nat, NEW s \in Small(S, m), s # {},
             \A t \in Small(S, m - 1) : Fits(t)
      PROVE  Fits(s)
  <2> DEFINE x == CHOOSE x \in s : TRUE
  <2>1. x \in s /\ Fits(s \ {x})
    BY <1>5, OneLess
  <2>2. g[s] = f[x] + g[s \ {x}]
    BY <1>2, <1>5 DEF SumStep, Small
  <2> HIDE DEF x
  <2>3. f[x] \in Nat /\ g[s \ {x}] \in Nat /\ \A y \in s \ {x} : f[y] \in Nat /\ f[y] <= g[s \ {x}]
    BY <2>1 DEF Small
  <2>4. \A y \in s : y = x \/ y \in s \ {x}
    OBVIOUS
  <2>5. g[s] \in Nat /\ f[x] <= g[s]
    BY <2>2, <2>3
  <2>6. \A y \in s \ {x} : f[y] <= g[s]
    BY <2>2, <2>3
  <2> QED BY <2>4, <2>5, <2>6
<1>6. Fits({})
  <2>1. {} \in SUBSET S
    OBVIOUS
  <2>2. g[{}] = 0
    BY <1>2, <2>1 DEF SumStep
  <2> QED BY <2>2
<1>7. 0 \in Ms
  <2>1. \A s \in Small(S, 0) : s = {}
    <3>1. \A s \in Small(S, 0) : s = {} \/ 0 # 0
      BY OneLess
    <3> QED BY <3>1
  <2> HIDE DEF Fits
  <2> QED BY <1>3, <1>6, <2>1
<1>8. ASSUME NEW m \in 0 .. n - 1, m \in Ms PROVE m + 1 \in Ms
  <2>1. m + 1 \in Nat /\ (m + 1) - 1 = m /\ m + 1 \in 0 .. n
    BY <1>3
  <2> HIDE DEF Fits
  <2>2. \A s \in Small(S, m) : Fits(s)
    BY <1>8
  <2>3. \A s \in Small(S, m + 1) : s # {} => Fits(s)
    BY <1>5, <2>1, <2>2
  <2> QED BY <1>6, <2>1, <2>3
<1>9. n \in Ms
  <2> HIDE DEF Ms
  <2>1. 0 .. n \subseteq Ms
    BY <1>3, <1>7, <1>8, Induction
  <2> QED BY <1>3, <2>1
<1> QED BY <1>1, <1>4, <1>9
=============================================================================
