------------------------------ MODULE SumProofs ------------------------------
(***************************************************************************)
(* What the sum of a function over a finite domain is: SumFunction of the  *)
(* module Functions is a fold by a recursive function, so every fact about *)
(* it is an induction over the subsets of the domain.                      *)
(***************************************************************************)
EXTENDS Integers, FiniteSets, Functions, FiniteSetTheorems, TLAPS

\* The recursive function of the fold: g[s] is the sum of f over s.
Sums(f, S, g) ==
  g = [s \in SUBSET S |->
         IF s = {} THEN 0 ELSE LET x == CHOOSE x \in s : TRUE IN f[x] + g[s \ {x}]]

\* The same for the sets of at most n elements, which is what induction speaks of.
SumsTo(n, f, S, g) ==
  \A s \in SUBSET S :
    Cardinality(s) <= n =>
      g[s] = IF s = {} THEN 0 ELSE LET x == CHOOSE x \in s : TRUE IN f[x] + g[s \ {x}]

(***************************************************************************)
(* Induction over the natural numbers, for a set instead of an operator.   *)
(***************************************************************************)
\* A set of natural numbers has a least one.
LEMMA LeastNat ==
  ASSUME NEW T \in SUBSET Nat, T # {}
  PROVE  \E n \in T : \A m \in T : n <= m
<1>1. PICK R : IsWellFoundedOn(R, Nat) /\ \A m, n \in Nat : m < n => <<m, n>> \in R
  <2>1. \A m, n \in Nat : m < n => <<m, n>> \in OpToRel(<, Nat)
    BY DEF OpToRel
  <2> QED BY <2>1, NatLessThanWellFounded
<1>2. IsWellFoundedOn(R, Nat)
  BY <1>1
<1>3. PICK n \in T : \A m \in T : <<m, n>> \notin R
  BY <1>2, WFMin
<1>4. ASSUME NEW m \in T PROVE n <= m
  <2>1. ~(m < n)
    BY <1>1, <1>3
  <2> QED BY <2>1
<1> QED BY <1>4

\* A set that holds zero, and with a number the next one, holds them all.
LEMMA InductionOnNat ==
  ASSUME NEW T \in SUBSET Nat, 0 \in T, \A n \in T : n + 1 \in T
  PROVE  T = Nat
<1>1. SUFFICES ASSUME Nat \ T # {} PROVE FALSE
  OBVIOUS
<1>2. PICK n \in Nat \ T : \A m \in Nat \ T : n <= m
  BY <1>1, LeastNat, Nat \ T \in SUBSET Nat
<1>3. n # 0 /\ n - 1 \in Nat
  BY <1>2
<1>4. n - 1 \in T
  BY <1>2, <1>3
<1> QED BY <1>2, <1>4

\* A subset of a finite set, less one of its elements
LEMMA OneLess ==
  ASSUME NEW S, IsFiniteSet(S), NEW s \in SUBSET S, s # {}
  PROVE  LET x == CHOOSE x \in s : TRUE
         IN  /\ x \in s /\ s \ {x} \in SUBSET S
             /\ Cardinality(s) \in Nat /\ Cardinality(s \ {x}) \in Nat
             /\ Cardinality(s \ {x}) = Cardinality(s) - 1
<1> DEFINE x == CHOOSE x \in s : TRUE
<1>1. x \in s
  OBVIOUS
<1>2. IsFiniteSet(s)
  BY FS_Subset
<1>3. Cardinality(s \ {x}) = Cardinality(s) - 1 /\ IsFiniteSet(s \ {x})
  BY <1>1, <1>2, FS_RemoveElement
<1> QED BY <1>1, <1>2, <1>3, FS_CardinalityType

(***************************************************************************)
(* The fold is the function its definition speaks of: there is one.        *)
(***************************************************************************)
\* Sums of sets with one element more follow from those without it.
LEMMA SumsExtend ==
  ASSUME NEW f, NEW S, IsFiniteSet(S), NEW n \in Nat, NEW g, SumsTo(n, f, S, g)
  PROVE  \E h : SumsTo(n + 1, f, S, h)
<1> DEFINE h == [s \in SUBSET S |->
                   IF s = {} THEN 0 ELSE LET x == CHOOSE x \in s : TRUE IN f[x] + g[s \ {x}]]
<1>1. \A s \in SUBSET S : Cardinality(s) \in Nat /\ (Cardinality(s) <= n => h[s] = g[s])
  BY FS_Subset, FS_CardinalityType DEF SumsTo
<1>2. ASSUME NEW s \in SUBSET S, Cardinality(s) <= n + 1, s # {}
      PROVE  h[s] = LET x == CHOOSE x \in s : TRUE IN f[x] + h[s \ {x}]
  <2> DEFINE x == CHOOSE x \in s : TRUE
  <2>1. s \ {x} \in SUBSET S /\ Cardinality(s \ {x}) <= n
    BY <1>2, OneLess
  <2>2. h[s \ {x}] = g[s \ {x}]
    BY <1>1, <2>1
  <2>3. h[s] = f[x] + g[s \ {x}]
    BY <1>2
  <2> HIDE DEF h
  <2> QED BY <2>2, <2>3
<1>3. h[{}] = 0
  OBVIOUS
<1> HIDE DEF h
<1>4. SumsTo(n + 1, f, S, h)
  BY <1>2, <1>3 DEF SumsTo
<1> QED BY <1>4

LEMMA SumsExist ==
  ASSUME NEW f, NEW S, IsFiniteSet(S)
  PROVE  \E g : Sums(f, S, g)
<1> DEFINE T == {n \in Nat : \E g : SumsTo(n, f, S, g)}
<1>1. 0 \in T
  <2>1. \A s \in SUBSET S : Cardinality(s) <= 0 => s = {}
    BY FS_Subset, FS_CardinalityType, FS_EmptySet
  <2>2. SumsTo(0, f, S, [s \in SUBSET S |-> 0])
    BY <2>1 DEF SumsTo
  <2> QED BY <2>2
<1>2. \A n \in T : n + 1 \in T
  BY SumsExtend
<1>3. Cardinality(S) \in T
  <2>1. T \in SUBSET Nat
    OBVIOUS
  <2> HIDE DEF T
  <2> QED BY <1>1, <1>2, <2>1, InductionOnNat, FS_CardinalityType
<1>4. PICK g : SumsTo(Cardinality(S), f, S, g)
  BY <1>3
<1>5. \A s \in SUBSET S : Cardinality(s) <= Cardinality(S)
  BY FS_Subset
<1> DEFINE h == [s \in SUBSET S |-> g[s]]
<1>6. Sums(f, S, h)
  <2>1. \A s \in SUBSET S : s \ {CHOOSE x \in s : TRUE} \in SUBSET S
    OBVIOUS
  <2> QED BY <1>4, <1>5, <2>1 DEF SumsTo, Sums
<1> QED BY <1>6

\* The sum is that of a function that sums.
LEMMA SumIsSums ==
  ASSUME NEW f, IsFiniteSet(DOMAIN f)
  PROVE  \E g : Sums(f, DOMAIN f, g) /\ SumFunction(f) = g[DOMAIN f]
<1>1. SumFunction(f) = (CHOOSE g : Sums(f, DOMAIN f, g))[DOMAIN f]
  BY DEF SumFunction, SumFunctionOnSet, FoldFunctionOnSet, MapThenFoldSet, Sums
<1> QED BY <1>1, SumsExist
(***************************************************************************)
(* What a sum yields.                                                      *)
(***************************************************************************)
\* Induction over the subsets of a finite set, in the order of the fold
LEMMA InductionOnSubsets ==
  ASSUME NEW S, IsFiniteSet(S), NEW U, {} \in U,
         \A s \in SUBSET S : s # {} /\ s \ {CHOOSE x \in s : TRUE} \in U => s \in U
  PROVE  S \in U
<1> DEFINE T == {n \in Nat : \A s \in SUBSET S : Cardinality(s) = n => s \in U}
<1>1. T \in SUBSET Nat
  OBVIOUS
<1>2. 0 \in T
  BY FS_Subset, FS_EmptySet
<1>3. ASSUME NEW n \in T PROVE n + 1 \in T
  <2>1. ASSUME NEW s \in SUBSET S, Cardinality(s) = n + 1 PROVE s \in U
    <3>1. s # {}
      BY <2>1, FS_EmptySet
    <3>2. s \ {CHOOSE x \in s : TRUE} \in SUBSET S /\ Cardinality(s \ {CHOOSE x \in s : TRUE}) = n
      BY <2>1, <3>1, OneLess
    <3> QED BY <3>1, <3>2
  <2> QED BY <2>1
<1>4. Cardinality(S) \in T
  <2> HIDE DEF T
  <2> QED BY <1>1, <1>2, <1>3, InductionOnNat, FS_CardinalityType
<1> QED BY <1>4

\* A sum of integers is an integer, one of natural numbers a natural number.
LEMMA SumType ==
  ASSUME NEW S, IsFiniteSet(S), NEW N \in {Nat, Int}, NEW f \in [S -> N]
  PROVE  SumFunction(f) \in N
<1>1. PICK g : Sums(f, S, g) /\ SumFunction(f) = g[S]
  BY SumIsSums, DOMAIN f = S
<1> DEFINE U == {s \in SUBSET S : g[s] \in N}
<1>2. {} \in U
  BY <1>1 DEF Sums
<1>3. ASSUME NEW s \in SUBSET S, s # {}, s \ {CHOOSE x \in s : TRUE} \in U PROVE s \in U
  BY <1>1, <1>3 DEF Sums
<1>4. S \in U
  <2> HIDE DEF U
  <2> QED BY <1>2, <1>3, InductionOnSubsets
<1> QED BY <1>1, <1>4

\* A sum of zeros is zero.
LEMMA SumOfZeros ==
  ASSUME NEW S, IsFiniteSet(S), NEW f \in [S -> {0}]
  PROVE  SumFunction(f) = 0
<1>1. PICK g : Sums(f, S, g) /\ SumFunction(f) = g[S]
  BY SumIsSums, DOMAIN f = S
<1> DEFINE U == {s \in SUBSET S : g[s] = 0}
<1>2. {} \in U
  BY <1>1 DEF Sums
<1>3. ASSUME NEW s \in SUBSET S, s # {}, s \ {CHOOSE x \in s : TRUE} \in U PROVE s \in U
  <2>1. g[s] = f[CHOOSE x \in s : TRUE] + g[s \ {CHOOSE x \in s : TRUE}]
    BY <1>1, <1>3 DEF Sums
  <2>2. f[CHOOSE x \in s : TRUE] = 0
    BY <1>3
  <2> QED BY <1>3, <2>1, <2>2
<1>4. S \in U
  <2> HIDE DEF U
  <2> QED BY <1>2, <1>3, InductionOnSubsets
<1> QED BY <1>1, <1>4

\* Changing the function at one place changes its sum by the difference there.
LEMMA SumOfUpdate ==
  ASSUME NEW S, IsFiniteSet(S), NEW f \in [S -> Int], NEW a \in S, NEW v \in Int
  PROVE  SumFunction([f EXCEPT ![a] = v]) = SumFunction(f) + v - f[a]
<1> DEFINE h == [f EXCEPT ![a] = v]
<1>1. PICK g : Sums(f, S, g) /\ SumFunction(f) = g[S]
  BY SumIsSums, DOMAIN f = S
<1>2. PICK k : Sums(h, S, k) /\ SumFunction(h) = k[S]
  BY SumIsSums, DOMAIN h = S
<1>h. h \in [S -> Int] /\ \A x \in S : h[x] = IF x = a THEN v ELSE f[x]
  OBVIOUS
<1> HIDE DEF h
<1> DEFINE U == {s \in SUBSET S : /\ g[s] \in Int /\ k[s] \in Int
                                 /\ k[s] = g[s] + (IF a \in s THEN v - f[a] ELSE 0)}
<1>3. {} \in U
  BY <1>1, <1>2 DEF Sums
<1>4. ASSUME NEW s \in SUBSET S, s # {}, s \ {CHOOSE x \in s : TRUE} \in U PROVE s \in U
  <2> DEFINE x == CHOOSE x \in s : TRUE
  <2>1. x \in s
    BY <1>4
  <2>2. g[s] = f[x] + g[s \ {x}] /\ k[s] = h[x] + k[s \ {x}]
    BY <1>1, <1>2, <1>4 DEF Sums
  <2>3. f[x] \in Int /\ f[a] \in Int /\ h[x] \in Int
    BY <2>1, <1>h
  <2>4. h[x] = IF x = a THEN v ELSE f[x]
    BY <2>1, <1>h
  <2>5. a \in s \ {x} <=> a \in s /\ a # x
    OBVIOUS
  <2>6. /\ g[s \ {x}] \in Int /\ k[s \ {x}] \in Int
        /\ k[s \ {x}] = g[s \ {x}] + (IF a \in s \ {x} THEN v - f[a] ELSE 0)
    BY <1>4
  <2> HIDE DEF x
  <2>7. CASE x = a
    BY <2>1, <2>2, <2>3, <2>4, <2>5, <2>6, <2>7
  <2>8. CASE x # a
    BY <2>1, <2>2, <2>3, <2>4, <2>5, <2>6, <2>8
  <2> QED BY <2>7, <2>8
<1>5. S \in U
  <2> HIDE DEF U
  <2> QED BY <1>3, <1>4, InductionOnSubsets
<1> QED BY <1>1, <1>2, <1>5 DEF h

\* The same for two functions that differ at one place at most.
LEMMA SumChanges ==
  ASSUME NEW S, IsFiniteSet(S), NEW f \in [S -> Int], NEW g \in [S -> Int],
         NEW a \in S, \A x \in S \ {a} : g[x] = f[x]
  PROVE  SumFunction(g) = SumFunction(f) + g[a] - f[a]
<1>1. g[a] \in Int
  OBVIOUS
<1>2. g = [f EXCEPT ![a] = g[a]]
  OBVIOUS
<1>3. SumFunction([f EXCEPT ![a] = g[a]]) = SumFunction(f) + g[a] - f[a]
  BY <1>1, SumOfUpdate
<1> QED BY <1>2, <1>3

\* Nothing that is summed is more than the sum.
LEMMA SumBounds ==
  ASSUME NEW S, IsFiniteSet(S), NEW f \in [S -> Nat], NEW a \in S
  PROVE  f[a] <= SumFunction(f)
<1> DEFINE g == [f EXCEPT ![a] = 0]
<1>1. g \in [S -> Nat] /\ g \in [S -> Int] /\ g[a] = 0 /\ \A x \in S \ {a} : g[x] = f[x]
  OBVIOUS
<1>2. f \in [S -> Int]
  OBVIOUS
<1> HIDE DEF g
<1>3. SumFunction(g) \in Nat /\ SumFunction(f) \in Nat
  BY <1>1, SumType
<1>4. SumFunction(g) = SumFunction(f) + g[a] - f[a]
  BY <1>1, <1>2, SumChanges
<1> QED BY <1>1, <1>3, <1>4
==============================================================================
