----------------------------- MODULE SumTheorems -----------------------------
(***************************************************************************)
(* Facts about the finite sums of the community modules, MapThenSumSet and  *)
(* SumFunction, for the proofs about positions and weights.                 *)
(*                                                                          *)
(* Both are a fold: a recursive function on the subsets of the index set    *)
(* that takes off the element CHOOSE picks.  The induction theorems of the  *)
(* library cannot be instantiated by the provers, so that every induction   *)
(* here takes a minimal counterexample out of a set of sets instead, which  *)
(* exists because strict inclusion is well-founded on finite sets.          *)
(***************************************************************************)
EXTENDS Integers, FiniteSets, Functions, FiniteSetsExt, FiniteSetTheorems, TLAPS

Total(v, S) == MapThenSumSet(LAMBDA m : v[m], S)

Picked(s) == CHOOSE x \in s : TRUE
Without(s) == s \ {Picked(s)}
Adds(v, s, h) == h[s] = IF s = {} THEN 0 ELSE v[Picked(s)] + h[Without(s)]
Takes(v, s, x, h) == h[s] = v[x] + h[s \ {x}]

-----------------------------------------------------------------------------
(* The fold is defined.                                                     *)

\* A nonempty family of subsets of a finite set has a minimal member.
LEMMA MinimalMember ==
  ASSUME NEW S, IsFiniteSet(S), NEW F \in SUBSET (SUBSET S), F # {}
  PROVE  \E T \in F : \A U \in F : U \subseteq T => U = T
<1>1. IsWellFoundedOn(StrictSubsetOrdering(S), FiniteSubsetsOf(S))
  BY FS_StrictSubsetOrderingWellFounded
<1>2. F \subseteq FiniteSubsetsOf(S)
  BY FS_Subset DEF FiniteSubsetsOf
<1>3. PICK T \in F : \A U \in F : ~(<<U, T>> \in StrictSubsetOrdering(S))
  BY <1>1, <1>2, WFMin
<1> QED
  BY <1>3 DEF StrictSubsetOrdering

\* The element a nonempty set loses is one of its own.
LEMMA PickedIn == ASSUME NEW s, s # {} PROVE Picked(s) \in s
BY DEF Picked

\* A function on the small subsets that adds up extends to the next size, and
\* so there is one on all subsets.
LEMMA SumExists ==
  ASSUME NEW S, IsFiniteSet(S), NEW v, \A x \in S : v[x] \in Int
  PROVE  \E h \in [SUBSET S -> Int] : \A s \in SUBSET S : Adds(v, s, h)
<1> DEFINE UpTo(T) == {s \in SUBSET S : Cardinality(s) <= Cardinality(T)}
           Defined(T) == \E h \in [UpTo(T) -> Int] : \A s \in UpTo(T) : Adds(v, s, h)
           Bad == {T \in SUBSET S : ~Defined(T)}
<1>1. \A T \in SUBSET S : IsFiniteSet(T) /\ Cardinality(T) \in Nat
  BY FS_Subset, FS_CardinalityType
<1>2. Bad = {}
  <2> SUFFICES ASSUME Bad # {} PROVE FALSE
    OBVIOUS
  <2>1. PICK T \in Bad : \A U \in Bad : U \subseteq T => U = T
    <3> HIDE DEF Bad
    <3>1. Bad \in SUBSET (SUBSET S)
      BY DEF Bad
    <3> QED
      BY <3>1, MinimalMember
  <2>2. CASE T = {}
    <3>1. UpTo(T) = {{}}
      BY <1>1, <2>2, FS_EmptySet
    <3> DEFINE h == [s \in UpTo(T) |-> 0]
    <3>2. h \in [UpTo(T) -> Int] /\ \A s \in UpTo(T) : Adds(v, s, h)
      BY <3>1 DEF Adds
    <3> QED
      BY <3>2
  <2>3. CASE T # {}
    <3> DEFINE U == Without(T)
    <3>1. U \in SUBSET S /\ U \subseteq T /\ U # T
      BY <2>3, PickedIn DEF Without
    <3>2. Cardinality(U) = Cardinality(T) - 1
      BY <1>1, <2>3, PickedIn, FS_RemoveElement DEF Without
    <3>3. PICK h \in [UpTo(U) -> Int] : \A s \in UpTo(U) : Adds(v, s, h)
      BY <2>1, <3>1
    <3> DEFINE g == [s \in UpTo(T) |->
                       IF s \in UpTo(U) THEN h[s]
                       ELSE v[Picked(s)] + h[Without(s)]]
    <3>4. ASSUME NEW s \in UpTo(T), s # {}
          PROVE  /\ Picked(s) \in S /\ Without(s) \in UpTo(U)
                 /\ v[Picked(s)] \in Int
      <4>1. Picked(s) \in s
        BY <3>4, PickedIn
      <4>2. IsFiniteSet(s) /\ Cardinality(s) \in Nat
        BY <1>1
      <4>3. Cardinality(Without(s)) = Cardinality(s) - 1
        BY <4>1, <4>2, FS_RemoveElement DEF Without
      <4>4. Without(s) \in SUBSET S
        BY DEF Without
      <4>5. Cardinality(Without(s)) <= Cardinality(U)
        BY <4>2, <4>3, <3>2, <1>1
      <4> QED
        BY <4>1, <4>4, <4>5
    <3>5. UpTo(U) \subseteq UpTo(T)
      BY <3>1, <3>2, <1>1
    <3>6. {} \in UpTo(U)
      BY <1>1, <3>1, FS_EmptySet
    <3>7. g \in [UpTo(T) -> Int]
      <4> SUFFICES ASSUME NEW s \in UpTo(T)
                   PROVE  (IF s \in UpTo(U) THEN h[s]
                           ELSE v[Picked(s)] + h[Without(s)]) \in Int
        OBVIOUS
      <4>1. CASE s \in UpTo(U)
        BY <4>1
      <4>2. CASE s \notin UpTo(U)
        <5>1. s # {}
          BY <4>2, <3>6
        <5>2. h[Without(s)] \in Int /\ v[Picked(s)] \in Int
          BY <5>1, <3>4
        <5> QED
          BY <5>2, <4>2
      <4> QED
        BY <4>1, <4>2
    <3>8. ASSUME NEW s \in UpTo(T) PROVE Adds(v, s, g)
      <4>1. CASE s = {}
        BY <4>1, <3>6, <3>3, <3>5 DEF Adds
      <4>2. CASE s # {}
        <5>1. Without(s) \in UpTo(U)
          BY <4>2, <3>4
        <5>2. g[Without(s)] = h[Without(s)]
          BY <5>1, <3>5
        <5>3. g[s] = v[Picked(s)] + h[Without(s)]
          BY <3>3, <4>2 DEF Adds
        <5> QED
          BY <5>2, <5>3, <4>2 DEF Adds
      <4> QED
        BY <4>1, <4>2
    <3>9. Defined(T)
      <4> HIDE DEF g
      <4> QED
        BY <3>7, <3>8
    <3> QED
      BY <3>9
  <2> QED
    BY <2>2, <2>3
<1>3. UpTo(S) = SUBSET S
  BY FS_Subset, <1>1
<1>4. Defined(S)
  BY <1>2
<1> QED
  BY <1>3, <1>4

\* Functions that add up agree wherever both are defined.
LEMMA SumUnique ==
  ASSUME NEW S, IsFiniteSet(S), NEW v,
         NEW g, NEW h,
         \A s \in SUBSET S : Adds(v, s, g),
         \A s \in SUBSET S : Adds(v, s, h)
  PROVE  g[S] = h[S]
<1> DEFINE Bad == {T \in SUBSET S : g[T] # h[T]}
<1> SUFFICES ASSUME Bad # {} PROVE FALSE
  OBVIOUS
<1>1. PICK T \in Bad : \A U \in Bad : U \subseteq T => U = T
  <2> HIDE DEF Bad
  <2>1. Bad \in SUBSET (SUBSET S)
    BY DEF Bad
  <2> QED
    BY <2>1, MinimalMember
<1>2. CASE T = {}
  BY <1>1, <1>2 DEF Adds
<1>3. CASE T # {}
  <2>1. Without(T) \in SUBSET S /\ Without(T) \subseteq T /\ Without(T) # T
    BY <1>3, PickedIn DEF Without
  <2>2. g[Without(T)] = h[Without(T)]
    BY <1>1, <2>1
  <2> QED
    BY <1>1, <1>3, <2>2 DEF Adds
<1> QED
  BY <1>2, <1>3

\* What the fold of the community modules computes is such a function.
LEMMA TotalIsSum ==
  ASSUME NEW S, IsFiniteSet(S), NEW v, NEW h \in [SUBSET S -> Int],
         \A s \in SUBSET S : Adds(v, s, h)
  PROVE  \A T \in SUBSET S : Total(v, T) = h[T]
<1> SUFFICES ASSUME NEW T \in SUBSET S PROVE Total(v, T) = h[T]
  OBVIOUS
<1> DEFINE Fold(it) ==
      it = [s \in SUBSET T |->
              IF s = {} THEN 0
              ELSE LET x == CHOOSE x \in s : TRUE IN v[x] + it[s \ {x}]]
<1>1. Total(v, T) = (CHOOSE it : Fold(it))[T]
  BY DEF Total, MapThenSumSet, MapThenFoldSet
<1>2. \E it : Fold(it)
  <2> DEFINE g == [s \in SUBSET T |-> h[s]]
  <2>1. \A s \in SUBSET T : g[s] = h[s]
    OBVIOUS
  <2>2. \A s \in SUBSET T : Without(s) \in SUBSET T
    BY DEF Without
  <2>3. g = [s \in SUBSET T |-> IF s = {} THEN 0 ELSE v[Picked(s)] + g[Without(s)]]
    BY <2>1, <2>2 DEF Adds
  <2> HIDE DEF g
  <2>4. Fold(g)
    BY <2>3 DEF Picked, Without
  <2> QED
    BY <2>4
<1>3. PICK it : it = (CHOOSE i : Fold(i)) /\ Fold(it)
  BY <1>2
<1> HIDE DEF Fold
<1>4. \A s \in SUBSET T : Adds(v, s, it)
  BY <1>3 DEF Fold, Adds, Picked, Without
<1>5. IsFiniteSet(T) /\ \A s \in SUBSET T : Adds(v, s, h)
  BY FS_Subset
<1>6. it[T] = h[T]
  BY <1>4, <1>5, SumUnique
<1> QED
  BY <1>1, <1>3, <1>6

-----------------------------------------------------------------------------
(* Sums.                                                                    *)

\* Any element may be taken off first.
LEMMA SumTakes ==
  ASSUME NEW S, IsFiniteSet(S), NEW v, \A x \in S : v[x] \in Int,
         NEW h \in [SUBSET S -> Int], \A s \in SUBSET S : Adds(v, s, h)
  PROVE  \A T \in SUBSET S : \A x \in T : Takes(v, T, x, h)
<1> USE DEF Takes
<1> DEFINE Bad == {T \in SUBSET S : \E x \in T : h[T] # v[x] + h[T \ {x}]}
<1> SUFFICES ASSUME Bad # {} PROVE FALSE
  OBVIOUS
<1>1. PICK T \in Bad : \A U \in Bad : U \subseteq T => U = T
  <2> HIDE DEF Bad
  <2>1. Bad \in SUBSET (SUBSET S)
    BY DEF Bad
  <2> QED
    BY <2>1, MinimalMember
<1>2. PICK x \in T : h[T] # v[x] + h[T \ {x}]
  BY <1>1
<1> DEFINE y == Picked(T)
<1>3. y \in T
  BY <1>2, PickedIn
<1>4. h[T] = v[y] + h[T \ {y}]
  BY <1>2 DEF Adds, Without
<1> HIDE DEF y
<1>5. x # y
  BY <1>2, <1>4
<1>6. ASSUME NEW U \in SUBSET S, U \subseteq T, U # T, NEW z \in U
      PROVE  h[U] = v[z] + h[U \ {z}]
  BY <1>1, <1>6
<1>7. h[T \ {y}] = v[x] + h[(T \ {y}) \ {x}]
  BY <1>2, <1>3, <1>5, <1>6
<1>8. h[T \ {x}] = v[y] + h[(T \ {y}) \ {x}]
  <2>1. h[T \ {x}] = v[y] + h[(T \ {x}) \ {y}]
    BY <1>2, <1>3, <1>5, <1>6
  <2>2. (T \ {x}) \ {y} = (T \ {y}) \ {x}
    OBVIOUS
  <2> QED
    BY <2>1, <2>2
<1> DEFINE rest == h[(T \ {y}) \ {x}]
<1>9. v[x] \in Int /\ v[y] \in Int /\ rest \in Int
  BY <1>2, <1>3
<1>10. h[T] = v[x] + h[T \ {x}]
  <2> HIDE DEF rest
  <2>1. h[T] = v[y] + (v[x] + rest)
    BY <1>4, <1>7 DEF rest
  <2>2. h[T \ {x}] = v[y] + rest
    BY <1>8 DEF rest
  <2> QED
    BY <2>1, <2>2, <1>9
<1> QED
  BY <1>2, <1>10

\* The sum over no index is zero, a sum of integers is an integer, and it is
\* any of its terms and the sum of the others.
LEMMA TotalTakes ==
  ASSUME NEW S, IsFiniteSet(S), NEW v, \A x \in S : v[x] \in Int
  PROVE  /\ Total(v, S) \in Int
         /\ S = {} => Total(v, S) = 0
         /\ \A x \in S : Total(v, S) = v[x] + Total(v, S \ {x})
<1>1. PICK h \in [SUBSET S -> Int] : \A s \in SUBSET S : Adds(v, s, h)
  BY SumExists
<1>2. \A T \in SUBSET S : Total(v, T) = h[T]
  BY <1>1, TotalIsSum
<1>3. \A T \in SUBSET S : \A x \in T : Takes(v, T, x, h)
  BY <1>1, SumTakes
<1>4. S = {} => h[S] = 0
  BY <1>1 DEF Adds
<1> HIDE DEF Total
<1>5. S \in SUBSET S /\ \A x \in S : S \ {x} \in SUBSET S
  OBVIOUS
<1> QED
  BY <1>2, <1>3, <1>4, <1>5 DEF Takes

\* Larger terms have the larger sum.
LEMMA TotalGrows ==
  ASSUME NEW S, IsFiniteSet(S), NEW v, NEW w,
         \A x \in S : v[x] \in Int /\ w[x] \in Int /\ v[x] <= w[x]
  PROVE  Total(v, S) <= Total(w, S)
<1> DEFINE Bad == {T \in SUBSET S : ~(Total(v, T) <= Total(w, T))}
<1> SUFFICES ASSUME Bad # {} PROVE FALSE
  OBVIOUS
<1> HIDE DEF Total
<1>1. PICK T \in Bad : \A U \in Bad : U \subseteq T => U = T
  <2> HIDE DEF Bad
  <2>1. Bad \in SUBSET (SUBSET S)
    BY DEF Bad
  <2> QED
    BY <2>1, MinimalMember
<1>2. IsFiniteSet(T) /\ \A x \in T : IsFiniteSet(T \ {x})
  BY FS_Subset
<1>3. CASE T = {}
  <2>1. Total(v, T) = 0 /\ Total(w, T) = 0
    BY <1>2, <1>3, TotalTakes
  <2> QED
    BY <1>1, <2>1
<1>4. CASE T # {}
  <2>1. PICK x \in T : TRUE
    BY <1>4
  <2> DEFINE U == T \ {x}
  <2>2. U \in SUBSET S /\ U \subseteq T /\ U # T /\ IsFiniteSet(U)
    BY <2>1, <1>2
  <2>3. Total(v, U) <= Total(w, U)
    BY <1>1, <2>2
  <2>4. /\ Total(v, T) = v[x] + Total(v, U) /\ Total(w, T) = w[x] + Total(w, U)
    BY <2>1, <1>2, TotalTakes
  <2>5. Total(v, U) \in Int /\ Total(w, U) \in Int /\ v[x] \in Int /\ w[x] \in Int
        /\ v[x] <= w[x]
    <3>1. \A z \in U : v[z] \in Int /\ w[z] \in Int
      BY <2>2
    <3> QED
      BY <2>1, <2>2, <3>1, TotalTakes
  <2>6. Total(v, T) <= Total(w, T)
    BY <2>3, <2>4, <2>5
  <2> QED
    BY <1>1, <2>6
<1> QED
  BY <1>3, <1>4

\* Equal terms have the same sum.
LEMMA TotalSame ==
  ASSUME NEW S, IsFiniteSet(S), NEW v, NEW w,
         \A x \in S : v[x] \in Int /\ w[x] = v[x]
  PROVE  Total(v, S) = Total(w, S)
<1> HIDE DEF Total
<1>1. Total(v, S) <= Total(w, S) /\ Total(w, S) <= Total(v, S)
  BY TotalGrows
<1>2. Total(v, S) \in Int /\ Total(w, S) \in Int
  BY TotalTakes
<1> QED
  BY <1>1, <1>2

\* One term changes: the sum changes by as much.
LEMMA TotalChanges ==
  ASSUME NEW S, IsFiniteSet(S), NEW v, NEW w, NEW x \in S,
         \A z \in S : v[z] \in Int /\ w[z] \in Int,
         \A z \in S \ {x} : w[z] = v[z]
  PROVE  Total(w, S) = Total(v, S) - v[x] + w[x]
<1> HIDE DEF Total
<1> DEFINE U == S \ {x}
<1>1. IsFiniteSet(U)
  BY FS_Subset
<1>2. Total(v, U) = Total(w, U) /\ Total(v, U) \in Int
  BY <1>1, TotalSame, TotalTakes
<1>3. Total(v, S) = v[x] + Total(v, U) /\ Total(w, S) = w[x] + Total(w, U)
  BY TotalTakes
<1> QED
  BY <1>2, <1>3

\* A sum of naturals is a natural.
LEMMA TotalNat ==
  ASSUME NEW S, IsFiniteSet(S), NEW v, \A x \in S : v[x] \in Nat
  PROVE  Total(v, S) \in Nat
<1> HIDE DEF Total
<1> DEFINE zero == [x \in S |-> 0]
           Bad == {T \in SUBSET S : Total(v, T) \notin Nat}
<1> SUFFICES ASSUME Bad # {} PROVE FALSE
  OBVIOUS
<1>1. PICK T \in Bad : \A U \in Bad : U \subseteq T => U = T
  <2> HIDE DEF Bad
  <2>1. Bad \in SUBSET (SUBSET S)
    BY DEF Bad
  <2> QED
    BY <2>1, MinimalMember
<1>2. IsFiniteSet(T) /\ \A x \in T : v[x] \in Int
  BY FS_Subset
<1>3. CASE T = {}
  BY <1>1, <1>2, <1>3, TotalTakes
<1>4. CASE T # {}
  <2>1. PICK x \in T : TRUE
    BY <1>4
  <2>2. Total(v, T) = v[x] + Total(v, T \ {x})
    BY <1>2, TotalTakes
  <2>3. Total(v, T \ {x}) \in Nat
    BY <1>1, <2>1
  <2> QED
    BY <1>1, <2>2, <2>3
<1> QED
  BY <1>3, <1>4

\* A sum of zeros is zero.
LEMMA TotalZero ==
  ASSUME NEW S, IsFiniteSet(S), NEW v, \A x \in S : v[x] = 0
  PROVE  Total(v, S) = 0
<1> HIDE DEF Total
<1> DEFINE Bad == {T \in SUBSET S : Total(v, T) # 0}
<1> SUFFICES ASSUME Bad # {} PROVE FALSE
  OBVIOUS
<1>1. PICK T \in Bad : \A U \in Bad : U \subseteq T => U = T
  <2> HIDE DEF Bad
  <2>1. Bad \in SUBSET (SUBSET S)
    BY DEF Bad
  <2> QED
    BY <2>1, MinimalMember
<1>2. IsFiniteSet(T) /\ \A x \in T : v[x] \in Int
  BY FS_Subset
<1>3. CASE T = {}
  BY <1>1, <1>2, <1>3, TotalTakes
<1>4. CASE T # {}
  <2>1. PICK x \in T : TRUE
    BY <1>4
  <2>2. Total(v, T) = v[x] + Total(v, T \ {x})
    BY <1>2, TotalTakes
  <2>3. Total(v, T \ {x}) = 0
    BY <1>1, <2>1
  <2> QED
    BY <1>1, <2>1, <2>2, <2>3
<1> QED
  BY <1>3, <1>4

\* Only what is not zero counts.
LEMMA TotalSupport ==
  ASSUME NEW S, IsFiniteSet(S), NEW v, \A x \in S : v[x] \in Int,
         NEW R \in SUBSET S, \A x \in S \ R : v[x] = 0
  PROVE  Total(v, R) = Total(v, S)
<1> HIDE DEF Total
<1> DEFINE Bad == {T \in SUBSET S : R \subseteq T /\ Total(v, T) # Total(v, R)}
<1> SUFFICES ASSUME Bad # {} PROVE FALSE
  OBVIOUS
<1>1. PICK T \in Bad : \A U \in Bad : U \subseteq T => U = T
  <2> HIDE DEF Bad
  <2>1. Bad \in SUBSET (SUBSET S)
    BY DEF Bad
  <2> QED
    BY <2>1, MinimalMember
<1>2. IsFiniteSet(T) /\ \A x \in T : v[x] \in Int
  BY FS_Subset
<1>3. PICK x \in T : x \notin R
  <2>1. R \subseteq T /\ T # R
    BY <1>1
  <2> QED
    BY <2>1
<1>4. Total(v, T) = v[x] + Total(v, T \ {x}) /\ v[x] = 0
  BY <1>2, <1>3, TotalTakes
<1>5. Total(v, T \ {x}) = Total(v, R)
  BY <1>1, <1>3
<1>6. Total(v, R) \in Int
  BY FS_Subset, TotalTakes
<1> QED
  BY <1>1, <1>4, <1>5, <1>6

\* The same for SumFunction.
LEMMA SumFunctionTotal ==
  ASSUME NEW S, NEW v, DOMAIN v = S
  PROVE  SumFunction(v) = Total(v, S)
BY DEF SumFunction, SumFunctionOnSet, FoldFunctionOnSet, Total, MapThenSumSet
=============================================================================
