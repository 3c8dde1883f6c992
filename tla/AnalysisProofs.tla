---------------------------- MODULE AnalysisProofs ----------------------------
(***************************************************************************)
(* Theorems about Assessment, and with it SchemaAnalysis, and about        *)
(* EntityMatcher, for any systems, tables, fields and findings, and runs   *)
(* of any length.  Neither extends the other; they share this module and   *)
(* its facts about finite sets.                                            *)
(*                                                                         *)
(* The consistency score, the total effort and the readiness score are     *)
(* sums over finite sets.  The first part is the theory of such sums: that *)
(* there is one, that it may be taken in any order, and how it compares    *)
(* with its terms and with the sum of a part.  The induction is by the     *)
(* smallest counterexample, since strict inclusion is well-founded on the  *)
(* finite sets.  The second part uses it for Assessment, and the third     *)
(* proves the invariant of the matcher's passes, MInv.                     *)
(***************************************************************************)
EXTENDS Assessment, EntityMatcher, FiniteSetTheorems, WellFoundedInduction, TLAPS

\* Among finite sets there is a smallest.
LEMMA SmallestSet ==
    ASSUME NEW S, IsFiniteSet(S), NEW T, T \subseteq SUBSET S, T # {}
    PROVE  \E U \in T : \A V \in T : V \subseteq U => V = U
<1>1. T \subseteq FiniteSubsetsOf(S)
  BY FS_Subset DEF FiniteSubsetsOf
<1>2. IsWellFoundedOn(StrictSubsetOrdering(S), FiniteSubsetsOf(S))
  BY FS_StrictSubsetOrderingWellFounded
<1>3. \E U \in T : \A V \in T : ~ (<<V, U>> \in StrictSubsetOrdering(S))
  BY <1>1, <1>2, WFMin
<1> QED
  BY <1>1, <1>3 DEF StrictSubsetOrdering, FiniteSubsetsOf

\* The member that a fold takes first, and what it leaves.
Pick(s) == CHOOSE x \in s : TRUE
Rest(s) == s \ {Pick(s)}

LEMMA Picked ==
    ASSUME NEW s, s # {}
    PROVE  /\ Pick(s) \in s /\ Rest(s) \subseteq s /\ Rest(s) # s /\ Pick(s) \notin Rest(s)
<1>1. Pick(s) \in s
  BY DEF Pick
<1> QED
  BY <1>1 DEF Rest

\* g gives the sum of f over every subset of S.
SumsUp(f, S, g) ==
    g = [s \in SUBSET S |-> IF s = {} THEN 0 ELSE f[Pick(s)] + g[Rest(s)]]

LEMMA ChosenSum ==
    ASSUME NEW f, NEW S
    PROVE  SumFunctionOnSet(f, S) = (CHOOSE g : SumsUp(f, S, g))[S]
BY Zenon DEF SumFunctionOnSet, FoldFunctionOnSet, MapThenFoldSet, SumsUp, Pick, Rest

LEMMA SumsUpAt ==
    ASSUME NEW f, NEW S, NEW g, SumsUp(f, S, g), NEW s \in SUBSET S
    PROVE  g[s] = IF s = {} THEN 0 ELSE f[Pick(s)] + g[Rest(s)]
<1> DEFINE h == [t \in SUBSET S |-> IF t = {} THEN 0 ELSE f[Pick(t)] + g[Rest(t)]]
<1>1. g = h
  BY DEF SumsUp
<1>2. h[s] = IF s = {} THEN 0 ELSE f[Pick(s)] + g[Rest(s)]
  OBVIOUS
<1> QED
  BY <1>1, <1>2, Zenon

LEMMA UniqueSums ==
    ASSUME NEW f, NEW S, IsFiniteSet(S), NEW g, SumsUp(f, S, g), NEW h, SumsUp(f, S, h)
    PROVE  g = h
<1> DEFINE T == {s \in SUBSET S : g[s] # h[s]}
<1>1. ASSUME NEW s \in SUBSET S
      PROVE  /\ g[s] = IF s = {} THEN 0 ELSE f[Pick(s)] + g[Rest(s)]
             /\ h[s] = IF s = {} THEN 0 ELSE f[Pick(s)] + h[Rest(s)]
  <2>1. g[s] = IF s = {} THEN 0 ELSE f[Pick(s)] + g[Rest(s)]
    BY SumsUpAt
  <2>2. h[s] = IF s = {} THEN 0 ELSE f[Pick(s)] + h[Rest(s)]
    BY SumsUpAt
  <2> QED
    BY <2>1, <2>2
<1>2. ASSUME T # {}
      PROVE  FALSE
  <2>1. PICK U \in T : \A V \in T : V \subseteq U => V = U
    <3>1. T \subseteq SUBSET S
      OBVIOUS
    <3> HIDE DEF T
    <3> QED
      BY <1>2, <3>1, SmallestSet
  <2>2. U # {}
    BY <1>1
  <2>3. Rest(U) \in SUBSET S /\ Rest(U) \subseteq U /\ Rest(U) # U
    BY <2>2, Picked
  <2>4. g[Rest(U)] = h[Rest(U)]
    BY <2>1, <2>3
  <2> QED
    BY <1>1, <2>2, <2>4
<1>3. g = [s \in SUBSET S |-> g[s]] /\ h = [s \in SUBSET S |-> h[s]]
  <2>1. g = [s \in SUBSET S |-> IF s = {} THEN 0 ELSE f[Pick(s)] + g[Rest(s)]]
    BY DEF SumsUp
  <2>2. h = [s \in SUBSET S |-> IF s = {} THEN 0 ELSE f[Pick(s)] + h[Rest(s)]]
    BY DEF SumsUp
  <2> QED
    BY <1>1, <2>1, <2>2
<1> QED
  BY <1>2, <1>3

LEMMA PartialSums ==
    ASSUME NEW f, NEW S, NEW g, SumsUp(f, S, g), NEW U \in SUBSET S
    PROVE  SumsUp(f, U, [s \in SUBSET U |-> g[s]])
<1> DEFINE h == [s \in SUBSET U |-> g[s]]
<1>1. ASSUME NEW s \in SUBSET U
      PROVE  h[s] = IF s = {} THEN 0 ELSE f[Pick(s)] + h[Rest(s)]
  <2>1. h[s] = IF s = {} THEN 0 ELSE f[Pick(s)] + g[Rest(s)]
    <3>1. s \in SUBSET S /\ g[s] = h[s]
      OBVIOUS
    <3> HIDE DEF h
    <3> QED
      BY <3>1, SumsUpAt
  <2>2. s # {} => Rest(s) \in SUBSET U
    BY Picked
  <2> QED
    BY <2>1, <2>2
<1>2. h = [s \in SUBSET U |-> IF s = {} THEN 0 ELSE f[Pick(s)] + h[Rest(s)]]
  BY <1>1
<1> QED
  BY <1>2 DEF SumsUp

LEMMA SumsExist ==
    ASSUME NEW f, NEW S, IsFiniteSet(S)
    PROVE  \E g : SumsUp(f, S, g)
<1> DEFINE T == {U \in SUBSET S : ~ \E g : SumsUp(f, U, g)}
           G(U) == CHOOSE g : SumsUp(f, U, g)
<1>1. ASSUME T # {}
      PROVE  FALSE
  <2>1. PICK U \in T : \A V \in T : V \subseteq U => V = U
    <3>1. T \subseteq SUBSET S
      OBVIOUS
    <3> HIDE DEF T
    <3> QED
      BY <1>1, <3>1, SmallestSet
  <2>2. ASSUME NEW V \in SUBSET U, V # U
        PROVE  SumsUp(f, V, G(V)) /\ IsFiniteSet(V)
    <3>1. V \in SUBSET S /\ V \notin T
      BY <2>1, <2>2
    <3>2. \E g : SumsUp(f, V, g)
      BY <3>1
    <3>3. SumsUp(f, V, G(V))
      BY <3>2
    <3> QED
      BY <3>1, <3>3, FS_Subset
  <2> DEFINE g == [s \in SUBSET U |-> IF s = {} THEN 0
                                      ELSE f[Pick(s)] + G(Rest(s))[Rest(s)]]
  <2>3. ASSUME NEW r \in SUBSET U, r # U
        PROVE  g[r] = G(r)[r]
    <3>1. SumsUp(f, r, G(r)) /\ IsFiniteSet(r)
      BY <2>2, <2>3
    <3>2. G(r)[r] = IF r = {} THEN 0 ELSE f[Pick(r)] + G(r)[Rest(r)]
      <4>1. r \in SUBSET r
        OBVIOUS
      <4> HIDE DEF G
      <4> QED
        BY <3>1, <4>1, SumsUpAt
    <3>3. ASSUME r # {}
          PROVE  G(r)[Rest(r)] = G(Rest(r))[Rest(r)]
      <4>1. Rest(r) \in SUBSET r /\ Rest(r) \in SUBSET U /\ Rest(r) # U
        BY <2>3, <3>3, Picked
      <4>2. SumsUp(f, Rest(r), G(Rest(r))) /\ IsFiniteSet(Rest(r))
        BY <2>2, <4>1
      <4> HIDE DEF G
      <4> DEFINE h == [s \in SUBSET Rest(r) |-> G(r)[s]]
      <4>3. SumsUp(f, Rest(r), h)
        BY <3>1, <4>1, PartialSums
      <4>4. h = G(Rest(r))
        <5> HIDE DEF h
        <5> QED
          BY <4>2, <4>3, UniqueSums
      <4>5. h[Rest(r)] = G(r)[Rest(r)]
        OBVIOUS
      <4> QED
        BY <4>4, <4>5
    <3> HIDE DEF G
    <3>4. g[r] = IF r = {} THEN 0 ELSE f[Pick(r)] + G(Rest(r))[Rest(r)]
      OBVIOUS
    <3> QED
      BY <3>2, <3>3, <3>4
  <2>4. ASSUME NEW s \in SUBSET U
        PROVE  g[s] = IF s = {} THEN 0 ELSE f[Pick(s)] + g[Rest(s)]
    <3> HIDE DEF G
    <3>1. g[s] = IF s = {} THEN 0 ELSE f[Pick(s)] + G(Rest(s))[Rest(s)]
      OBVIOUS
    <3>2. CASE s = {}
      BY <3>1, <3>2
    <3>3. CASE s # {}
      <4>1. Rest(s) \in SUBSET U /\ Rest(s) # U
        BY <3>3, Picked
      <4>2. g[Rest(s)] = G(Rest(s))[Rest(s)]
        BY <2>3, <4>1
      <4> QED
        BY <3>1, <4>2
    <3> QED
      BY <3>2, <3>3
  <2>5. SumsUp(f, U, g)
    <3>1. g = [s \in SUBSET U |-> g[s]]
      OBVIOUS
    <3> HIDE DEF g
    <3>2. [s \in SUBSET U |-> g[s]]
            = [s \in SUBSET U |-> IF s = {} THEN 0 ELSE f[Pick(s)] + g[Rest(s)]]
      BY <2>4
    <3> QED
      BY <3>1, <3>2 DEF SumsUp
  <2> QED
    BY <2>5
<1>2. S \in SUBSET S
  OBVIOUS
<1> QED
  BY <1>1, <1>2

\* The recursion of a sum, whatever element it starts from.
LEMMA SumRecursion ==
    ASSUME NEW f, NEW S, IsFiniteSet(S)
    PROVE  SumFunctionOnSet(f, S) = IF S = {} THEN 0
                                    ELSE f[Pick(S)] + SumFunctionOnSet(f, Rest(S))
<1> DEFINE G(U) == CHOOSE g : SumsUp(f, U, g)
<1>1. ASSUME NEW U \in SUBSET S
      PROVE  SumsUp(f, U, G(U)) /\ SumFunctionOnSet(f, U) = G(U)[U] /\ IsFiniteSet(U)
  <2>1. IsFiniteSet(U)
    BY FS_Subset
  <2>2. SumsUp(f, U, G(U))
    BY <2>1, SumsExist
  <2> QED
    BY <2>1, <2>2, ChosenSum
<1> HIDE DEF G
<1>2. CASE S = {}
  <2>1. SumsUp(f, S, G(S)) /\ SumFunctionOnSet(f, S) = G(S)[S]
    BY <1>1
  <2>2. G(S)[S] = 0
    BY <1>2, <2>1, SumsUpAt
  <2> QED
    BY <1>2, <2>1, <2>2
<1>3. CASE S # {}
  <2>1. Rest(S) \in SUBSET S /\ S \in SUBSET S
    BY <1>3, Picked
  <2>2. /\ SumsUp(f, S, G(S)) /\ SumFunctionOnSet(f, S) = G(S)[S]
        /\ SumsUp(f, Rest(S), G(Rest(S))) /\ SumFunctionOnSet(f, Rest(S)) = G(Rest(S))[Rest(S)]
        /\ IsFiniteSet(Rest(S))
    BY <1>1, <2>1
  <2>3. G(S)[S] = f[Pick(S)] + G(S)[Rest(S)]
    <3>1. G(S)[S] = IF S = {} THEN 0 ELSE f[Pick(S)] + G(S)[Rest(S)]
      BY <2>1, <2>2, SumsUpAt
    <3> QED
      BY <1>3, <3>1
  <2> DEFINE h == [s \in SUBSET Rest(S) |-> G(S)[s]]
  <2>4. SumsUp(f, Rest(S), h)
    BY <2>1, <2>2, PartialSums
  <2>5. h[Rest(S)] = G(S)[Rest(S)]
    OBVIOUS
  <2> HIDE DEF h
  <2>6. h = G(Rest(S))
    BY <2>2, <2>4, UniqueSums
  <2> QED
    BY <1>3, <2>2, <2>3, <2>5, <2>6
<1> QED
  BY <1>2, <1>3

\* The sum of f over S.
Sum(f, S) == SumFunctionOnSet(f, S)

LEMMA SumStep ==
    ASSUME NEW f, NEW S, IsFiniteSet(S), S # {}
    PROVE  /\ Sum(f, S) = f[Pick(S)] + Sum(f, Rest(S))
           /\ Pick(S) \in S /\ Rest(S) = S \ {Pick(S)} /\ Rest(S) # S
           /\ IsFiniteSet(Rest(S))
BY SumRecursion, Picked, FS_Subset DEF Sum, Rest

LEMMA SumEmpty ==
    ASSUME NEW f
    PROVE  Sum(f, {}) = 0
BY SumRecursion, FS_EmptySet DEF Sum

\* The sum of natural numbers is one.
LEMMA SumNat ==
    ASSUME NEW f, NEW S, IsFiniteSet(S), \A x \in S : f[x] \in Nat
    PROVE  Sum(f, S) \in Nat
<1> DEFINE T == {U \in SUBSET S : Sum(f, U) \notin Nat}
<1>1. ASSUME T # {}
      PROVE  FALSE
  <2>1. PICK U \in T : \A V \in T : V \subseteq U => V = U
    <3>1. T \subseteq SUBSET S
      OBVIOUS
    <3> HIDE DEF T
    <3> QED
      BY <1>1, <3>1, SmallestSet
  <2>2. IsFiniteSet(U) /\ U \subseteq S
    BY FS_Subset
  <2>3. /\ Sum(f, U) = f[Pick(U)] + Sum(f, Rest(U)) /\ Pick(U) \in U
        /\ Rest(U) \subseteq U /\ Rest(U) # U
    <3>1. U # {}
      BY SumEmpty
    <3> QED
      BY <2>2, <3>1, SumStep
  <2>4. Sum(f, Rest(U)) \in Nat
    BY <2>1, <2>2, <2>3
  <2> QED
    BY <2>2, <2>3, <2>4
<1> QED
  BY <1>1

\* Any element may be taken first.
LEMMA SumWithout ==
    ASSUME NEW f, NEW S, IsFiniteSet(S), \A x \in S : f[x] \in Nat, NEW y \in S
    PROVE  Sum(f, S) = f[y] + Sum(f, S \ {y})
<1> DEFINE T == {U \in SUBSET S : \E x \in U : Sum(f, U) # f[x] + Sum(f, U \ {x})}
<1>1. ASSUME T # {}
      PROVE  FALSE
  <2>1. PICK U \in T : \A V \in T : V \subseteq U => V = U
    <3>1. T \subseteq SUBSET S
      OBVIOUS
    <3> HIDE DEF T
    <3> QED
      BY <1>1, <3>1, SmallestSet
  <2>2. PICK x \in U : Sum(f, U) # f[x] + Sum(f, U \ {x})
    OBVIOUS
  <2>3. IsFiniteSet(U) /\ U # {} /\ U \subseteq S
    BY FS_Subset
  <2> DEFINE p == Pick(U)
             V == U \ {p}
             W == U \ {x}
             X == V \ {x}
  <2>4. Sum(f, U) = f[p] + Sum(f, V) /\ p \in U
    BY <2>3, SumStep
  <2>5. p # x
    BY <2>2, <2>4
  <2>6. Sum(f, V) = f[x] + Sum(f, X)
    <3>1. V \in SUBSET S /\ V \subseteq U /\ V # U /\ x \in V
      BY <2>3, <2>4, <2>5
    <3>2. V \notin T
      BY <2>1, <3>1
    <3> QED
      BY <3>1, <3>2
  <2>7. Sum(f, W) = f[p] + Sum(f, X)
    <3>1. W \in SUBSET S /\ W \subseteq U /\ W # U /\ p \in W
      BY <2>3, <2>4, <2>5
    <3>2. W \notin T
      BY <2>1, <3>1
    <3>3. W \ {p} = X
      OBVIOUS
    <3> QED
      BY <3>1, <3>2, <3>3
  <2>8. Sum(f, X) \in Nat /\ f[p] \in Nat /\ f[x] \in Nat
    <3>1. X \in SUBSET S
      BY <2>3
    <3>2. IsFiniteSet(X) /\ \A z \in X : f[z] \in Nat
      BY <3>1, FS_Subset
    <3> QED
      BY <2>3, <2>4, <3>2, SumNat
  <2>9. Sum(f, U) # f[x] + Sum(f, W)
    BY <2>2
  <2> HIDE DEF p, V, W, X
  <2> QED
    BY <2>4, <2>6, <2>7, <2>8, <2>9
<1> QED
  BY <1>1

\* A sum is no less than any element, and than the sum of any part.
LEMMA SumCovers ==
    ASSUME NEW f, NEW S, IsFiniteSet(S), \A x \in S : f[x] \in Nat, NEW y \in S
    PROVE  f[y] <= Sum(f, S)
<1>1. IsFiniteSet(S \ {y}) /\ \A x \in S \ {y} : f[x] \in Nat
  BY FS_Subset
<1>2. Sum(f, S \ {y}) \in Nat
  BY <1>1, SumNat
<1> QED
  BY <1>2, SumWithout

LEMMA SumOfPart ==
    ASSUME NEW f, NEW S, IsFiniteSet(S), \A x \in S : f[x] \in Nat, NEW R \in SUBSET S
    PROVE  Sum(f, R) <= Sum(f, S)
<1> DEFINE T == {U \in SUBSET S : R \subseteq U /\ ~(Sum(f, R) <= Sum(f, U))}
<1>1. ASSUME T # {}
      PROVE  FALSE
  <2>1. PICK U \in T : \A V \in T : V \subseteq U => V = U
    <3>1. T \subseteq SUBSET S
      OBVIOUS
    <3> HIDE DEF T
    <3> QED
      BY <1>1, <3>1, SmallestSet
  <2>2. IsFiniteSet(R) /\ IsFiniteSet(U) /\ \A x \in U : f[x] \in Nat
    BY FS_Subset
  <2>3. Sum(f, R) \in Nat /\ Sum(f, U) \in Nat
    BY <2>2, SumNat
  <2>4. U # R
    BY <2>3
  <2>5. PICK x \in U : x \notin R
    BY <2>4
  <2> DEFINE V == U \ {x}
  <2>6. V \in SUBSET S /\ R \subseteq V /\ V \subseteq U /\ V # U
    BY <2>5
  <2>7. V \notin T
    BY <2>1, <2>6
  <2>8. Sum(f, R) <= Sum(f, V)
    BY <2>6, <2>7
  <2>9. Sum(f, U) = f[x] + Sum(f, V)
    BY <2>2, SumWithout
  <2>10. IsFiniteSet(V) /\ \A z \in V : f[z] \in Nat
    BY <2>2, FS_Subset
  <2>11. Sum(f, V) \in Nat /\ f[x] \in Nat
    BY <2>2, <2>10, SumNat
  <2>12. ~(Sum(f, R) <= Sum(f, U))
    OBVIOUS
  <2> HIDE DEF V
  <2> QED
    BY <2>3, <2>8, <2>9, <2>11, <2>12
<1> QED
  BY <1>1

\* Functions that agree have one sum.
LEMMA SumAgrees ==
    ASSUME NEW f, NEW h, NEW S, IsFiniteSet(S), \A x \in S : f[x] = h[x]
    PROVE  Sum(f, S) = Sum(h, S)
<1> DEFINE T == {U \in SUBSET S : Sum(f, U) # Sum(h, U)}
<1>1. ASSUME T # {}
      PROVE  FALSE
  <2>1. PICK U \in T : \A V \in T : V \subseteq U => V = U
    <3>1. T \subseteq SUBSET S
      OBVIOUS
    <3> HIDE DEF T
    <3> QED
      BY <1>1, <3>1, SmallestSet
  <2>2. IsFiniteSet(U) /\ U \subseteq S
    BY FS_Subset
  <2>3. U # {}
    BY SumEmpty
  <2>4. /\ Sum(f, U) = f[Pick(U)] + Sum(f, Rest(U)) /\ Sum(h, U) = h[Pick(U)] + Sum(h, Rest(U))
        /\ Pick(U) \in U /\ Rest(U) \subseteq U /\ Rest(U) # U
    BY <2>2, <2>3, SumStep
  <2>5. Sum(f, Rest(U)) = Sum(h, Rest(U))
    BY <2>1, <2>2, <2>4
  <2> QED
    BY <2>2, <2>4, <2>5
<1> QED
  BY <1>1

\* Percentages add up to at most a hundred each.
LEMMA SumOfPercentages ==
    ASSUME NEW f, NEW S, IsFiniteSet(S), \A x \in S : f[x] \in 0..100
    PROVE  Sum(f, S) <= 100 * Cardinality(S)
<1> DEFINE T == {U \in SUBSET S : ~(Sum(f, U) <= 100 * Cardinality(U))}
<1>1. ASSUME T # {}
      PROVE  FALSE
  <2>1. PICK U \in T : \A V \in T : V \subseteq U => V = U
    <3>1. T \subseteq SUBSET S
      OBVIOUS
    <3> HIDE DEF T
    <3> QED
      BY <1>1, <3>1, SmallestSet
  <2>2. IsFiniteSet(U) /\ U \subseteq S
    BY FS_Subset
  <2>3. U # {}
    BY SumEmpty, FS_EmptySet
  <2> DEFINE p == Pick(U)
             V == U \ {p}
  <2>4. Sum(f, U) = f[p] + Sum(f, V) /\ p \in U
    BY <2>2, <2>3, SumStep
  <2>5. V \in SUBSET S /\ V \subseteq U /\ V # U
    BY <2>2, <2>4
  <2>6. Sum(f, V) <= 100 * Cardinality(V)
    BY <2>1, <2>5
  <2>7. IsFiniteSet(V) /\ Cardinality(V) = Cardinality(U) - 1
    BY <2>2, <2>4, FS_RemoveElement
  <2>8. Sum(f, V) \in Nat
    <3>1. \A z \in V : f[z] \in Nat
      BY <2>5
    <3> HIDE DEF V
    <3> QED
      BY <2>7, <3>1, SumNat
  <2>9. f[p] \in 0..100 /\ Cardinality(U) \in Nat
    BY <2>2, <2>4, FS_CardinalityType
  <2>10. ~(Sum(f, U) <= 100 * Cardinality(U))
    OBVIOUS
  <2> DEFINE n == Cardinality(U)
             m == Cardinality(V)
  <2>11. /\ Sum(f, V) <= 100 * m /\ m = n - 1 /\ n \in Nat /\ ~(Sum(f, U) <= 100 * n)
    BY <2>6, <2>7, <2>9, <2>10
  <2> HIDE DEF p, V, n, m
  <2> QED
    BY <2>4, <2>8, <2>9, <2>11
<1>2. S \in SUBSET S
  OBVIOUS
<1> QED
  BY <1>1, <1>2

\* Only full percentages add up to a hundred each.
LEMMA FullPercentages ==
    ASSUME NEW f, NEW S, IsFiniteSet(S), \A x \in S : f[x] \in 0..100,
           Sum(f, S) >= 100 * Cardinality(S), NEW y \in S
    PROVE  f[y] = 100
<1> DEFINE V == S \ {y}
           n == Cardinality(S)
           m == Cardinality(V)
<1>1. IsFiniteSet(V) /\ m = n - 1 /\ n \in Nat
  BY FS_RemoveElement, FS_CardinalityType
<1>2. \A x \in V : f[x] \in 0..100
  OBVIOUS
<1>3. Sum(f, V) <= 100 * m
  <2> HIDE DEF V
  <2> QED
    BY <1>1, <1>2, SumOfPercentages
<1>4. Sum(f, V) \in Nat
  <2>1. \A x \in V : f[x] \in Nat
    BY <1>2
  <2> HIDE DEF V
  <2> QED
    BY <1>1, <2>1, SumNat
<1>5. Sum(f, S) = f[y] + Sum(f, V)
  <2>1. \A x \in S : f[x] \in Nat
    OBVIOUS
  <2> QED
    BY <2>1, SumWithout
<1>6. Sum(f, S) >= 100 * n /\ f[y] \in 0..100
  OBVIOUS
<1> HIDE DEF V, n, m
<1> QED
  BY <1>1, <1>3, <1>4, <1>5, <1>6

\* The image of a finite set is finite.
LEMMA ImageFinite ==
    ASSUME NEW S, IsFiniteSet(S), NEW f
    PROVE  IsFiniteSet({f[x] : x \in S})
<1> DEFINE T == {f[x] : x \in S}
           h == [x \in S |-> f[x]]
<1>1. h \in Surjection(S, T)
  BY DEF Surjection
<1> HIDE DEF h, T
<1>2. IsFiniteSet(T)
  BY <1>1, FS_Surjection
<1> QED
  BY <1>2 DEF T

\* A nonempty finite set of natural numbers has a least and a greatest member.
LEMMA Extremes ==
    ASSUME NEW S, IsFiniteSet(S), S \subseteq Nat, S # {}
    PROVE  /\ Min(S) \in S /\ \A x \in S : Min(S) <= x
           /\ Max(S) \in S /\ \A x \in S : Max(S) >= x
<1>1. \A x \in S : x \in Nat
  OBVIOUS
<1>2. \E x \in S : \A y \in S : x <= y
  <2> DEFINE T == {U \in SUBSET S : U # {} /\ ~ \E x \in U : \A y \in U : x <= y}
  <2>1. ASSUME T # {}
        PROVE  FALSE
    <3>1. PICK U \in T : \A V \in T : V \subseteq U => V = U
      <4>1. T \subseteq SUBSET S
        OBVIOUS
      <4> HIDE DEF T
      <4> QED
        BY ONLY IsFiniteSet(S), <2>1, <4>1, SmallestSet
    <3>2. PICK u \in U : TRUE
      OBVIOUS
    <3> DEFINE V == U \ {u}
    <3>3. V \in SUBSET S /\ V \subseteq U /\ V # U
      BY <3>2
    <3>4. CASE V = {}
      BY <1>1, <3>2, <3>4
    <3>5. CASE V # {}
      <4>1. PICK v \in V : \A y \in V : v <= y
        BY <3>1, <3>3, <3>5
      <4>2. u \in Nat /\ v \in Nat
        BY <1>1, <4>1
      <4>3. CASE v <= u
        <5>1. v \in U /\ \A y \in U : v <= y
          BY <4>1, <4>3
        <5> QED
          BY <5>1
      <4>4. CASE u < v
        <5>1. ASSUME NEW y \in V
              PROVE  u <= y
          <6>1. y \in Nat /\ v <= y
            BY <1>1, <4>1
          <6> QED
            BY <4>2, <4>4, <6>1
        <5>2. \A y \in U : u <= y
          BY <4>2, <5>1
        <5> QED
          BY <5>2
      <4> QED
        BY <4>2, <4>3, <4>4
    <3> QED
      BY <3>4, <3>5
  <2>2. S \in SUBSET S
    OBVIOUS
  <2> QED
    BY <2>1, <2>2
<1>3. \E x \in S : \A y \in S : x >= y
  <2> DEFINE T == {U \in SUBSET S : U # {} /\ ~ \E x \in U : \A y \in U : x >= y}
  <2>1. ASSUME T # {}
        PROVE  FALSE
    <3>1. PICK U \in T : \A V \in T : V \subseteq U => V = U
      <4>1. T \subseteq SUBSET S
        OBVIOUS
      <4> HIDE DEF T
      <4> QED
        BY ONLY IsFiniteSet(S), <2>1, <4>1, SmallestSet
    <3>2. PICK u \in U : TRUE
      OBVIOUS
    <3> DEFINE V == U \ {u}
    <3>3. V \in SUBSET S /\ V \subseteq U /\ V # U
      BY <3>2
    <3>4. CASE V = {}
      BY <1>1, <3>2, <3>4
    <3>5. CASE V # {}
      <4>1. PICK v \in V : \A y \in V : v >= y
        BY <3>1, <3>3, <3>5
      <4>2. u \in Nat /\ v \in Nat
        BY <1>1, <4>1
      <4>3. CASE v >= u
        <5>1. v \in U /\ \A y \in U : v >= y
          BY <4>1, <4>3
        <5> QED
          BY <5>1
      <4>4. CASE u > v
        <5>1. ASSUME NEW y \in V
              PROVE  u >= y
          <6>1. y \in Nat /\ v >= y
            BY <1>1, <4>1
          <6> QED
            BY <4>2, <4>4, <6>1
        <5>2. \A y \in U : u >= y
          BY <4>2, <5>1
        <5> QED
          BY <5>2
      <4> QED
        BY <4>2, <4>3, <4>4
    <3> QED
      BY <3>4, <3>5
  <2>2. S \in SUBSET S
    OBVIOUS
  <2> QED
    BY <2>1, <2>2
<1> QED
  BY <1>2, <1>3 DEF Min, Max

-----------------------------------------------------------------------------
(* The invariant is one of types: what the properties say follows from it. *)

Profile == [name : Names, connected : BOOLEAN, entity : Entities]

AInv == /\ connections \in Seq(Profile)
        /\ others \in [Findings -> Nat]

LEMMA AInvInit == AssessInit => AInv
BY DEF AssessInit, Init, AInv

LEMMA AInvNext == AInv /\ [Next]_vars => AInv'
<1> SUFFICES ASSUME AInv, [Next]_vars
             PROVE  AInv'
  OBVIOUS
<1>1. CASE UNCHANGED vars
  BY <1>1 DEF AInv, vars
<1>2. ASSUME NEW n \in Names, NEW c \in BOOLEAN, NEW e \in Entities, Connect(n, c, e)
      PROVE  AInv'
  <2>1. [name |-> n, connected |-> c, entity |-> e] \in Profile
    BY DEF Profile
  <2> QED
    BY <1>2, <2>1 DEF AInv, Connect, AddConnection
<1>3. ASSUME NEW f \in Findings, Report(f)
      PROVE  AInv'
  BY <1>3 DEF AInv, Report
<1> QED
  BY <1>1, <1>2, <1>3 DEF Next

-----------------------------------------------------------------------------
(* The analysis *)

LEMMA Indices ==
    ASSUME AInv
    PROVE  /\ Len(connections) \in Nat /\ DOMAIN connections = 1..Len(connections)
           /\ \A i \in DOMAIN connections : connections[i] \in Profile
           /\ Represented \subseteq Nat /\ IsFiniteSet(Represented)
<1>1. /\ Len(connections) \in Nat /\ DOMAIN connections = 1..Len(connections)
      /\ \A i \in DOMAIN connections : connections[i] \in Profile
  BY DEF AInv
<1>2. Represented \in SUBSET (1..Len(connections))
  BY <1>1 DEF Represented
<1>3. IsFiniteSet(1..Len(connections))
  BY <1>1, FS_Interval
<1>4. Represented \subseteq Nat
  BY <1>1, <1>2
<1> HIDE DEF Represented
<1>5. IsFiniteSet(Represented)
  BY ONLY <1>2, <1>3, FS_Subset
<1> QED
  BY <1>1, <1>4, <1>5

LEMMA SystemsFinite ==
    ASSUME AInv
    PROVE  IsFiniteSet(Systems)
<1> DEFINE f == [i \in Represented |-> connections[i].name]
<1>1. Systems = {f[i] : i \in Represented}
  BY DEF Systems
<1> HIDE DEF f
<1> QED
  BY <1>1, Indices, ImageFinite

\* Every system has a place of its own and describes the entity.
LEMMA Placed ==
    ASSUME AInv, NEW s \in Systems
    PROVE  /\ Place(s) \in Bearers(s) /\ Place(s) \in Nat
           /\ FieldsOf(s) \in [Fields -> Definitions \cup {NoField}]
<1>1. Bearers(s) \subseteq Represented /\ Bearers(s) # {}
  BY DEF Bearers, Systems
<1>2. IsFiniteSet(Bearers(s)) /\ Bearers(s) \subseteq Nat
  BY <1>1, Indices, FS_Subset
<1>3. Min(Bearers(s)) \in Bearers(s) /\ Max(Bearers(s)) \in Bearers(s)
  BY <1>1, <1>2, Extremes
<1>4. connections[Max(Bearers(s))] \in Profile /\ connections[Max(Bearers(s))].entity # NoEntity
  BY <1>1, <1>3, Indices DEF Represented
<1>5. FieldsOf(s) \in Entities /\ FieldsOf(s) # NoEntity
  BY <1>4 DEF FieldsOf, Profile
<1> QED
  BY <1>2, <1>3, <1>5 DEF Place, Entities

LEMMA PlacesDiffer ==
    ASSUME AInv, NEW s \in Systems, NEW t \in Systems, s # t
    PROVE  Place(s) < Place(t) \/ Place(t) < Place(s)
<1>1. Place(s) \in Nat /\ Place(t) \in Nat /\ Place(s) \in Bearers(s) /\ Place(t) \in Bearers(t)
  BY Placed
<1>2. Place(s) # Place(t)
  BY <1>1 DEF Bearers
<1> QED
  BY <1>1, <1>2

LEMMA MappingsFinite ==
    ASSUME AInv
    PROVE  IsFiniteSet(Fields \X Systems \X Systems) /\ IsFiniteSet(FieldMappings)
<1>1. IsFiniteSet(Fields \X Systems \X Systems)
  <2>1. IsFiniteSet((Fields \X Systems) \X Systems)
    BY SystemsFinite, SchemaAssumption, FS_Product
  <2> DEFINE f == [p \in (Fields \X Systems) \X Systems |-> <<p[1][1], p[1][2], p[2]>>]
             T == {f[p] : p \in (Fields \X Systems) \X Systems}
  <2>2. ASSUME NEW m \in Fields \X Systems \X Systems
        PROVE  m \in T
    <3>1. m = f[<<<<m[1], m[2]>>, m[3]>>]
      OBVIOUS
    <3> QED
      BY <3>1
  <2> HIDE DEF f
  <2>3. IsFiniteSet(T)
    BY <2>1, ImageFinite
  <2> QED
    BY <2>2, <2>3, FS_Subset
<1> QED
  BY <1>1, FS_Subset DEF FieldMappings

LEMMA MappingScores ==
    ASSUME AInv, NEW m \in FieldMappings
    PROVE  MappingScore(m) \in 0..100
BY DEF MappingScore, Similarity

\* SumFunction adds over the domain.
LEMMA TheSum ==
    ASSUME NEW S, NEW g, DOMAIN g = S
    PROVE  SumFunction(g) = Sum(g, S)
BY DEF SumFunction, Sum

\* A score of a hundred percent leaves no mapping below it.
LEMMA AllFull ==
    ASSUME AInv, ConsistentTo(100), NEW m \in FieldMappings
    PROVE  MappingScore(m) = 100
<1> DEFINE g == [n \in FieldMappings |-> MappingScore(n)]
<1>1. DOMAIN g = FieldMappings /\ g[m] = MappingScore(m)
  OBVIOUS
<1>2. \A n \in FieldMappings : g[n] \in 0..100
  BY MappingScores
<1>3. SumFunction(g) >= 100 * Cardinality(FieldMappings)
  BY DEF ConsistentTo
<1>4. IsFiniteSet(FieldMappings)
  BY MappingsFinite
<1> HIDE DEF g
<1>5. Sum(g, FieldMappings) >= 100 * Cardinality(FieldMappings)
  BY <1>1, <1>3, TheSum
<1>6. g[m] = 100
  BY <1>2, <1>4, <1>5, FullPercentages
<1> QED
  BY <1>1, <1>6

LEMMA PerfectMissing ==
    ASSUME AInv, ConsistentTo(100), NEW i \in Missing
    PROVE  i.kind = "missing_field" /\ Place(i.target) < Place(i.source)
<1>1. PICK m \in Fields \X Systems \X Systems :
          /\ Has(m[2], m[1]) /\ ~Has(m[3], m[1])
          /\ i = Inconsistency("missing_field", m[1], m[2], m[3],
                               IF FieldsOf(m[2])[m[1]].key THEN "HIGH" ELSE "MEDIUM")
  BY DEF Missing
<1>2. i.kind = "missing_field" /\ i.source = m[2] /\ i.target = m[3]
  BY <1>1 DEF Inconsistency
<1>3. m[2] \in Systems /\ m[3] \in Systems /\ m[2] # m[3]
  BY <1>1
<1>4. ASSUME Place(m[2]) < Place(m[3])
      PROVE  FALSE
  <2>1. m \in FieldMappings
    BY <1>1, <1>4 DEF FieldMappings
  <2>2. MappingScore(m) = 0
    BY <1>1 DEF MappingScore
  <2> QED
    BY <2>1, <2>2, AllFull
<1> QED
  BY <1>2, <1>3, <1>4, PlacesDiffer

LEMMA PerfectMismatches ==
    ASSUME AInv, ConsistentTo(100)
    PROVE  Mismatches = {}
<1> SUFFICES ASSUME NEW m \in FieldMappings, Has(m[3], m[1]),
                    Mismatched(FieldsOf(m[2])[m[1]].type, FieldsOf(m[3])[m[1]].type)
             PROVE  FALSE
  BY DEF Mismatches
<1>1. MappingScore(m) = Similarity(FieldsOf(m[2])[m[1]].type, FieldsOf(m[3])[m[1]].type)
  BY DEF MappingScore
<1>2. Similarity(FieldsOf(m[2])[m[1]].type, FieldsOf(m[3])[m[1]].type) = 100
  BY <1>1, AllFull
<1> QED
  BY <1>2 DEF Mismatched, Compatible

LEMMA PerfectScoreHolds == AInv => PerfectScoreHides
BY PerfectMissing, PerfectMismatches DEF PerfectScoreHides, Inconsistencies

-----------------------------------------------------------------------------
(* The items of the plan *)

SchemaItems == {SchemaItem([kind |-> "", severity |-> v]) : v \in {"HIGH", "MEDIUM"}}

LEMMA ItemKinds ==
    ASSUME NEW k \in ItemKeys
    PROVE  Item(k) \in Findings \cup SchemaItems
<1>1. CASE k \in Missing
  <2>1. k.kind = "missing_field" /\ k.severity \in {"HIGH", "MEDIUM"}
    BY <1>1 DEF Missing, Inconsistency
  <2> QED
    BY <2>1 DEF Item, SchemaItems, SchemaItem
<1>2. CASE k \in Mismatches
  <2>1. k.kind = "type_mismatch" /\ k.severity = "HIGH"
    BY <1>2 DEF Mismatches, Inconsistency
  <2> QED
    BY <2>1 DEF Item, SchemaItems, SchemaItem
<1>3. CASE k \in OtherItems
  <2>1. k.kind = "other" /\ k.finding \in Findings
    BY <1>3 DEF OtherItems
  <2> QED
    BY <2>1 DEF Item
<1> QED
  BY <1>1, <1>2, <1>3 DEF ItemKeys, Inconsistencies

\* The two kinds of item that an inconsistency may become.
LEMMA SchemaItemsAre ==
    SchemaItems = {Finding("schema", "HIGH", FALSE, FromLevel("MEDIUM"), 8),
                   Finding("schema", "MEDIUM", FALSE, FromLevel("LOW"), 5)}
BY DEF SchemaItems, SchemaItem, SchemaEffort, SchemaPriority

LEMMA LesserOfTen ==
    ASSUME NEW n \in Nat
    PROVE  Min({10, n}) = IF n <= 10 THEN n ELSE 10
BY DEF Min

\* The priority of a gap that blocks, and of one that does not.
LEMMA GapPriorities ==
    /\ \A v \in DOMAIN Weight : GapPriority(v, TRUE) =
           CASE v = "CRITICAL" -> 10 [] v = "HIGH" -> 9 [] v = "LOW" -> 4 [] OTHER -> 7
    /\ \A v \in DOMAIN Weight : GapPriority(v, FALSE) =
           CASE v = "CRITICAL" -> 10 [] v = "HIGH" -> 8 [] v = "LOW" -> 3 [] OTHER -> 6
BY LesserOfTen DEF GapPriority, Weight

LEMMA FromLevelIs ==
    ASSUME NEW level \in Levels
    PROVE  FromLevel(level) \in Estimates
BY DEF FromLevel, Estimates, Levels, Days

LEMMA FindingKinds ==
    ASSUME NEW x \in Findings
    PROVE  \/ \E s \in Severities : x = Finding("pipeline", s, FALSE, FromLevel("MEDIUM"), BottleneckPriority(s))
           \/ \E s \in Severities, b \in BOOLEAN, e \in Efforts :
                  x = Finding("middleware", s, b, e, GapPriority(s, b))
           \/ \E s \in Severities, p \in Priorities :
                  x = Finding("data_quality", s, FALSE, FromLevel("LOW"), p)
<1>1. CASE x \in Bottlenecks
  BY <1>1 DEF Bottlenecks
<1>2. CASE x \in Gaps
  <2> DEFINE G(s, b, e) == Finding("middleware", s, b, e, GapPriority(s, b))
  <2>1. x \in {G(s, b, e) : s \in Severities, b \in BOOLEAN, e \in Efforts}
    BY <1>2 DEF Gaps
  <2>2. \E s \in Severities, b \in BOOLEAN, e \in Efforts : x = G(s, b, e)
    <3> HIDE DEF G
    <3> QED
      BY <2>1
  <2> QED
    BY <2>2
<1>3. CASE x \in Issues
  BY <1>3 DEF Issues, Finding, FromLevel
<1> QED
  BY <1>1, <1>2, <1>3 DEF Findings

LEMMA LowAndMedium == FromLevel("LOW") \in Estimates /\ FromLevel("MEDIUM") \in Estimates
BY FromLevelIs DEF Levels, Days

\* How items of every category are ranked.
LEMMA Ranks ==
    ASSUME NEW x \in Findings \cup SchemaItems
    PROVE  /\ x.severity \in {"CRITICAL", "HIGH", "MEDIUM", "LOW", "INFO"}
           /\ x.effort \in Estimates
           /\ x.category \in {"schema", "pipeline", "middleware", "data_quality"}
           /\ x.blocking => x.category = "middleware" /\ x.priority = GapPriority(x.severity, TRUE)
           /\ x.category = "schema" => x.severity \in {"HIGH", "MEDIUM"}
                                       /\ x.priority = SchemaPriority(x.severity)
           /\ x.category = "pipeline" => x.priority = BottleneckPriority(x.severity)
           /\ x.category = "middleware" /\ ~x.blocking
                => x.priority = GapPriority(x.severity, FALSE)
<1>1. CASE x \in SchemaItems
  <2>1. CASE x = Finding("schema", "HIGH", FALSE, FromLevel("MEDIUM"), 8)
    BY <2>1, LowAndMedium DEF Finding, SchemaPriority
  <2>2. CASE x = Finding("schema", "MEDIUM", FALSE, FromLevel("LOW"), 5)
    BY <2>2, LowAndMedium DEF Finding, SchemaPriority
  <2> QED
    BY <1>1, <2>1, <2>2, SchemaItemsAre
<1>2. CASE \E s \in Severities : x = Finding("pipeline", s, FALSE, FromLevel("MEDIUM"), BottleneckPriority(s))
  BY <1>2, ReportAssumption, LowAndMedium DEF Finding, Weight
<1>3. CASE \E s \in Severities, b \in BOOLEAN, e \in Efforts :
               x = Finding("middleware", s, b, e, GapPriority(s, b))
  <2>1. PICK s \in Severities, b \in BOOLEAN, e \in Efforts :
            x = Finding("middleware", s, b, e, GapPriority(s, b))
    BY <1>3
  <2>2. s \in {"CRITICAL", "HIGH", "MEDIUM", "LOW", "INFO"} /\ e \in Estimates
    BY ReportAssumption DEF Weight
  <2>3. CASE b = TRUE
    BY <2>1, <2>2, <2>3 DEF Finding
  <2>4. CASE b = FALSE
    BY <2>1, <2>2, <2>4 DEF Finding
  <2> QED
    BY <2>3, <2>4
<1>4. CASE \E s \in Severities, p \in Priorities :
               x = Finding("data_quality", s, FALSE, FromLevel("LOW"), p)
  BY <1>4, ReportAssumption, LowAndMedium DEF Finding, Weight
<1> QED
  BY <1>1, <1>2, <1>3, <1>4, FindingKinds

\* Two items, of whatever categories, the second of them a blocking gap.
LEMMA HeldBack ==
    ASSUME NEW x \in Findings \cup SchemaItems, NEW y \in Findings \cup SchemaItems,
           y.blocking, ~x.blocking,
           \/ x.priority > y.priority
           \/ /\ x.priority = y.priority
              /\ Weight[x.severity] > Weight[y.severity] \/ x.severity = y.severity
    PROVE  \/ Weight[x.severity] > Weight[y.severity]
           \/ x.severity = "CRITICAL" /\ y.severity = "CRITICAL"
           \/ x.category \in {"pipeline", "middleware"} /\ x.severity = "INFO"
           \/ x.category = "data_quality"
<1> DEFINE v == x.severity
           w == y.severity
<1>1. v \in DOMAIN Weight /\ w \in DOMAIN Weight
  BY Ranks DEF Weight
<1>2. y.priority = CASE w = "CRITICAL" -> 10 [] w = "HIGH" -> 9 [] w = "LOW" -> 4 [] OTHER -> 7
  BY <1>1, Ranks, GapPriorities
<1>3. CASE x.category = "schema"
  <2>1. v \in {"HIGH", "MEDIUM"} /\ x.priority = IF v = "HIGH" THEN 8 ELSE 5
    BY <1>3, Ranks DEF SchemaPriority
  <2> QED
    BY <1>1, <1>2, <2>1 DEF Weight
<1>4. CASE x.category = "pipeline"
  <2>1. x.priority = CASE v = "CRITICAL" -> 9 [] v = "HIGH" -> 7 [] v = "LOW" -> 2 [] OTHER -> 5
    BY <1>4, Ranks DEF BottleneckPriority
  <2> QED
    BY <1>1, <1>2, <1>4, <2>1 DEF Weight
<1>5. CASE x.category = "middleware"
  <2>1. x.priority = CASE v = "CRITICAL" -> 10 [] v = "HIGH" -> 8 [] v = "LOW" -> 3 [] OTHER -> 6
    BY <1>1, <1>5, Ranks, GapPriorities
  <2> QED
    BY <1>1, <1>2, <1>5, <2>1 DEF Weight
<1> QED
  BY <1>3, <1>4, <1>5, Ranks

LEMMA BlockingHolds == BlockingHeldBack
BY ItemKinds, HeldBack DEF BlockingHeldBack, Precedes

-----------------------------------------------------------------------------
(* The total effort *)

LEMMA FiveFinite ==
    ASSUME NEW a, NEW b, NEW c, NEW d, NEW e
    PROVE  IsFiniteSet({a, b, c, d, e})
<1>1. IsFiniteSet({a})
  BY FS_Singleton
<1>2. IsFiniteSet({a} \cup {b})
  BY <1>1, FS_AddElement
<1>3. IsFiniteSet(({a} \cup {b}) \cup {c})
  BY <1>2, FS_AddElement
<1>4. IsFiniteSet((({a} \cup {b}) \cup {c}) \cup {d})
  BY <1>3, FS_AddElement
<1>5. IsFiniteSet(((({a} \cup {b}) \cup {c}) \cup {d}) \cup {e})
  BY <1>4, FS_AddElement
<1>6. {a, b, c, d, e} = ((({a} \cup {b}) \cup {c}) \cup {d}) \cup {e}
  OBVIOUS
<1> QED
  BY <1>5, <1>6

LEMMA FindingsFinite == IsFiniteSet(Findings)
<1>1. IsFiniteSet(Severities) /\ IsFiniteSet(Efforts)
  <2>1. IsFiniteSet({"CRITICAL", "HIGH", "MEDIUM", "LOW", "INFO"})
    BY FiveFinite
  <2>2. Severities \in SUBSET {"CRITICAL", "HIGH", "MEDIUM", "LOW", "INFO"}
    BY ReportAssumption DEF Weight
  <2> QED
    BY <2>1, <2>2, ReportAssumption, FS_Subset
<1>2. IsFiniteSet(Priorities) /\ IsFiniteSet(BOOLEAN)
  <2>1. IsFiniteSet(1..10) /\ Priorities \in SUBSET (1..10)
    <3>1. IsFiniteSet(1..10)
      BY FS_Interval, 1 \in Int, 10 \in Int
    <3> QED
      BY <3>1, ReportAssumption
  <2>2. IsFiniteSet({TRUE})
    BY FS_Singleton
  <2>3. IsFiniteSet({TRUE} \cup {FALSE})
    BY <2>2, FS_AddElement
  <2>4. BOOLEAN = {TRUE} \cup {FALSE}
    OBVIOUS
  <2>5. IsFiniteSet(BOOLEAN)
    BY <2>3, <2>4
  <2>6. IsFiniteSet(Priorities)
    BY <2>1, FS_Subset
  <2> QED
    BY <2>5, <2>6
<1> DEFINE bottleneck == [s \in Severities |->
                              Finding("pipeline", s, FALSE, FromLevel("MEDIUM"), BottleneckPriority(s))]
           gap == [q \in (Severities \X BOOLEAN) \X Efforts |->
                       Finding("middleware", q[1][1], q[1][2], q[2], GapPriority(q[1][1], q[1][2]))]
           issue == [q \in Severities \X Priorities |->
                         Finding("data_quality", q[1], FALSE, FromLevel("LOW"), q[2])]
           All == ({bottleneck[s] : s \in Severities}
                   \cup {gap[q] : q \in (Severities \X BOOLEAN) \X Efforts})
                  \cup {issue[q] : q \in Severities \X Priorities}
<1>3. Findings \in SUBSET All
  <2>1. ASSUME NEW s \in Severities
        PROVE  Finding("pipeline", s, FALSE, FromLevel("MEDIUM"), BottleneckPriority(s)) \in All
    <3>1. bottleneck[s] = Finding("pipeline", s, FALSE, FromLevel("MEDIUM"), BottleneckPriority(s))
      OBVIOUS
    <3> HIDE DEF bottleneck, gap, issue
    <3> QED
      BY <3>1
  <2>2. ASSUME NEW s \in Severities, NEW b \in BOOLEAN, NEW e \in Efforts
        PROVE  Finding("middleware", s, b, e, GapPriority(s, b)) \in All
    <3>1. <<<<s, b>>, e>> \in (Severities \X BOOLEAN) \X Efforts
      OBVIOUS
    <3>2. gap[<<<<s, b>>, e>>] = Finding("middleware", s, b, e, GapPriority(s, b))
      BY <3>1
    <3> HIDE DEF bottleneck, gap, issue
    <3> QED
      BY <3>1, <3>2
  <2>3. ASSUME NEW s \in Severities, NEW p \in Priorities
        PROVE  Finding("data_quality", s, FALSE, FromLevel("LOW"), p) \in All
    <3>1. <<s, p>> \in Severities \X Priorities
      OBVIOUS
    <3>2. issue[<<s, p>>] = Finding("data_quality", s, FALSE, FromLevel("LOW"), p)
      BY <3>1
    <3> HIDE DEF bottleneck, gap, issue
    <3> QED
      BY <3>1, <3>2
  <2> HIDE DEF All
  <2>4. ASSUME NEW x \in Findings
        PROVE  x \in All
    BY <2>1, <2>2, <2>3, FindingKinds
  <2> QED
    BY <2>4
<1>4. /\ IsFiniteSet((Severities \X BOOLEAN) \X Efforts)
      /\ IsFiniteSet(Severities \X Priorities)
  BY <1>1, <1>2, FS_Product
<1> HIDE DEF bottleneck, gap, issue
<1>5. /\ IsFiniteSet({bottleneck[s] : s \in Severities})
      /\ IsFiniteSet({gap[q] : q \in (Severities \X BOOLEAN) \X Efforts})
      /\ IsFiniteSet({issue[q] : q \in Severities \X Priorities})
  BY SMTT(30), <1>1, <1>4, ImageFinite
<1>6. IsFiniteSet(All)
  BY <1>5, FS_Union
<1> HIDE DEF All
<1> QED
  BY <1>3, <1>6, FS_Subset

LEMMA OthersFinite ==
    ASSUME AInv
    PROVE  IsFiniteSet(OtherItems)
<1> DEFINE copies(f) == {[kind |-> "other", finding |-> f, nth |-> n] : n \in 1..others[f]}
           g == [f \in Findings |-> copies(f)]
<1>1. OtherItems = UNION {g[f] : f \in Findings}
  BY DEF OtherItems
<1>2. ASSUME NEW f \in Findings
      PROVE  IsFiniteSet(g[f])
  <2> DEFINE h == [n \in 1..others[f] |-> [kind |-> "other", finding |-> f, nth |-> n]]
  <2>1. others[f] \in Nat
    BY DEF AInv
  <2>2. IsFiniteSet(1..others[f])
    BY <2>1, FS_Interval
  <2>3. g[f] = {h[n] : n \in 1..others[f]}
    OBVIOUS
  <2> HIDE DEF h
  <2>4. IsFiniteSet({h[n] : n \in 1..others[f]})
    BY ONLY <2>2, ImageFinite
  <2> HIDE DEF g
  <2> QED
    BY <2>3, <2>4
<1> HIDE DEF g
<1>3. IsFiniteSet({g[f] : f \in Findings})
  BY FindingsFinite, ImageFinite
<1>4. \A T \in {g[f] : f \in Findings} : IsFiniteSet(T)
  BY <1>2
<1>5. IsFiniteSet(UNION {g[f] : f \in Findings})
  BY <1>3, <1>4, FS_UNION
<1> QED
  BY <1>1, <1>5

LEMMA ItemsFinite ==
    ASSUME AInv
    PROVE  IsFiniteSet(ItemKeys)
<1> DEFINE lack == [m \in Fields \X Systems \X Systems |->
                        Inconsistency("missing_field", m[1], m[2], m[3],
                                      IF FieldsOf(m[2])[m[1]].key THEN "HIGH" ELSE "MEDIUM")]
           clash == [m \in Fields \X Systems \X Systems |->
                        Inconsistency("type_mismatch", m[1], m[2], m[3], "HIGH")]
           Lack == {lack[m] : m \in Fields \X Systems \X Systems}
           Clash == {clash[m] : m \in Fields \X Systems \X Systems}
<1>1. Missing \in SUBSET Lack
  BY DEF Missing
<1>2. Mismatches \in SUBSET Clash
  <2>1. ASSUME NEW k \in Mismatches
        PROVE  k \in Clash
    <3>1. PICK m \in FieldMappings : k = Inconsistency("type_mismatch", m[1], m[2], m[3], "HIGH")
      BY DEF Mismatches
    <3>2. m \in Fields \X Systems \X Systems
      BY DEF FieldMappings
    <3>3. k = clash[m]
      BY <3>1, <3>2
    <3> QED
      BY <3>2, <3>3
  <2> QED
    BY <2>1
<1> HIDE DEF lack, clash
<1>3. IsFiniteSet(Lack) /\ IsFiniteSet(Clash)
  <2>1. IsFiniteSet(Fields \X Systems \X Systems)
    BY MappingsFinite
  <2> QED
    BY ONLY <2>1, ImageFinite
<1> HIDE DEF Lack, Clash
<1>4. IsFiniteSet(Missing) /\ IsFiniteSet(Mismatches)
  BY ONLY <1>1, <1>2, <1>3, FS_Subset
<1>5. IsFiniteSet(Inconsistencies)
  BY <1>4, FS_Union DEF Inconsistencies
<1>6. IsFiniteSet(OtherItems)
  BY OthersFinite
<1> QED
  BY <1>5, <1>6, FS_Union DEF ItemKeys

\* What the discount leaves of the least total of every level but the first.
LEMMA DiscountBounds ==
    ASSUME NEW n \in Nat
    PROVE  /\ n >= 5 => Discounted(n) >= 2
           /\ n >= 6 => Discounted(n) >= 3
           /\ n >= 21 => Discounted(n) >= 13
           /\ n >= 22 => Discounted(n) >= 14
           /\ n >= 90 => Discounted(n) >= 62
           /\ n >= 180 => Discounted(n) >= 125
           /\ Discounted(n) \in Int
<1> DEFINE q == (n * 7) \div 10
<1>1. q \in Int /\ 10 * q <= n * 7 /\ n * 7 < 10 * q + 10
  OBVIOUS
<1>2. Discounted(n) \in {q, q - 1}
  BY <1>1 DEF Discounted
<1> HIDE DEF q
<1> QED
  BY <1>1, <1>2

LEMMA RankOf ==
    ASSUME NEW t \in Int
    PROVE  Rank[LevelOf(t)] = IF t <= 1 THEN 1 ELSE IF t <= 5 THEN 2
                              ELSE IF t <= 21 THEN 3 ELSE IF t <= 90 THEN 4 ELSE 5
BY DEF Rank, LevelOf

\* A total no less than the days of an item is at most one level below them.
LEMMA OneLevelBelow ==
    ASSUME NEW n \in Nat, NEW d \in Nat, d <= n
    PROVE  Rank[LevelOf(d)] <= Rank[LevelOf(Discounted(n))] + 1
<1> DEFINE t == Discounted(n)
<1>1. PICK u \in Int : u = t
  BY DiscountBounds
<1>2. /\ n >= 6 => u >= 3
      /\ n >= 22 => u >= 14
      /\ n >= 90 => u >= 62
  BY <1>1, DiscountBounds
<1>3. Rank[LevelOf(d)] <= Rank[LevelOf(u)] + 1
  BY <1>2, RankOf
<1> QED
  BY <1>1, <1>3

\* The days of a canonical range are the longest of their level.
LEMMA CanonicalDays ==
    ASSUME NEW level \in Levels
    PROVE  FromLevel(level).max \in {1, 5, 21, 90, 180}
BY DEF FromLevel, Levels, Days

LEMMA NoLevelBelow ==
    ASSUME NEW n \in Nat, NEW d \in {1, 5, 21, 90, 180}, d <= n
    PROVE  Rank[LevelOf(d)] <= Rank[LevelOf(Discounted(n))]
<1> DEFINE t == Discounted(n)
<1>1. PICK u \in Int : u = t
  BY DiscountBounds
<1>2. /\ n >= 5 => u >= 2
      /\ n >= 21 => u >= 13
      /\ n >= 90 => u >= 62
      /\ n >= 180 => u >= 125
  BY <1>1, DiscountBounds
<1>3. Rank[LevelOf(d)] <= Rank[LevelOf(u)]
  BY <1>2, RankOf
<1> QED
  BY <1>1, <1>3

LEMMA TotalHolds == AInv => TotalCoversItems
<1> SUFFICES ASSUME AInv, NEW k \in ItemKeys
             PROVE  Rank[LevelOf(DaysOf(k, "max"))]
                        <= Rank[TotalLevel] + IF Canonical(k) THEN 0 ELSE 1
  BY DEF TotalCoversItems
<1> DEFINE g == [j \in ItemKeys |-> DaysOf(j, "max")]
<1>1. ASSUME NEW j \in ItemKeys
      PROVE  DaysOf(j, "max") \in Nat
  <2>1. Item(j).effort \in Estimates
    BY ItemKinds, Ranks
  <2> QED
    BY <2>1 DEF DaysOf, Estimates
<1>2. DOMAIN g = ItemKeys /\ g[k] = DaysOf(k, "max") /\ \A j \in ItemKeys : g[j] \in Nat
  BY <1>1
<1>3. TotalLevel = LevelOf(Discounted(SumFunction(g)))
  BY DEF Total, TotalLevel
<1> HIDE DEF g
<1>4. IsFiniteSet(ItemKeys)
  BY ItemsFinite
<1>5. SumFunction(g) = Sum(g, ItemKeys)
  BY <1>2, TheSum
<1>6. PICK n \in Nat : n = Sum(g, ItemKeys)
  BY <1>2, <1>4, SumNat
<1>7. PICK d \in Nat : d = DaysOf(k, "max")
  BY <1>1
<1>8. d <= n
  <2>1. g[k] <= Sum(g, ItemKeys)
    BY <1>2, <1>4, SumCovers
  <2> QED
    BY <1>2, <1>6, <1>7, <2>1
<1>9. PICK r \in 1..5 : r = Rank[TotalLevel]
  <2>1. PICK u \in Int : u = Discounted(n)
    BY DiscountBounds
  <2> QED
    BY <1>3, <1>5, <1>6, <2>1, RankOf
<1>10. Rank[TotalLevel] = Rank[LevelOf(Discounted(n))]
  BY <1>3, <1>5, <1>6
<1>11. CASE Canonical(k)
  <2>1. d \in {1, 5, 21, 90, 180}
    BY <1>7, <1>11, CanonicalDays DEF Canonical, DaysOf
  <2>2. Rank[LevelOf(d)] <= r
    BY <1>8, <1>9, <1>10, <2>1, NoLevelBelow
  <2> QED
    BY <1>7, <1>9, <1>11, <2>2
<1>12. CASE ~Canonical(k)
  <2>1. Rank[LevelOf(d)] <= r + 1
    BY <1>8, <1>9, <1>10, OneLevelBelow
  <2> QED
    BY <1>7, <1>9, <1>12, <2>1
<1> QED
  BY <1>11, <1>12

-----------------------------------------------------------------------------
(* The score *)

LEMMA CostIsNat ==
    ASSUME NEW k \in ItemKeys
    PROVE  Cost(k) \in Nat
<1> DEFINE x == Item(k)
<1>1. /\ x.severity \in {"CRITICAL", "HIGH", "MEDIUM", "LOW", "INFO"}
      /\ x.category \in {"schema", "pipeline", "middleware", "data_quality"}
  BY ItemKinds, Ranks
<1>2. Cost(k) = IF x.category = "data_quality" THEN 3 * 15
                ELSE Penalty[x.severity] * Share[x.category]
  BY DEF Cost
<1> HIDE DEF x
<1>3. Penalty[x.severity] \in {20, 10, 5, 2, 0}
  BY <1>1 DEF Penalty
<1>4. x.category # "data_quality" => Share[x.category] \in {30, 25, 20}
  BY <1>1 DEF Share
<1> QED
  BY <1>2, <1>3, <1>4

LEMMA CostsAreNat == \A k \in ItemKeys : Cost(k) \in Nat
BY CostIsNat

\* The score that a set of items leaves.
Left(M) == Max({0, 10000 - SumFunction([k \in M |-> Cost(k)])})

\* Whoever reports more, pays more.
LEMMA MoreCostsMore ==
    ASSUME NEW L, IsFiniteSet(L), NEW K \in SUBSET L, \A k \in L : Cost(k) \in Nat
    PROVE  Left(L) \in Int /\ Left(K) \in Int /\ Left(L) <= Left(K)
<1> DEFINE f == [k \in K |-> Cost(k)]
           g == [k \in L |-> Cost(k)]
<1>1. /\ DOMAIN f = K /\ DOMAIN g = L
      /\ \A k \in L : g[k] \in Nat
      /\ \A k \in K : f[k] = g[k]
  OBVIOUS
<1> HIDE DEF f, g
<1>2. IsFiniteSet(K)
  BY FS_Subset
<1>3. SumFunction(f) = Sum(f, K) /\ SumFunction(g) = Sum(g, L)
  BY <1>1, TheSum
<1>4. Sum(f, K) = Sum(g, K)
  BY <1>1, <1>2, SumAgrees
<1>5. Sum(g, K) <= Sum(g, L)
  BY <1>1, SumOfPart
<1>6. Sum(g, L) \in Nat /\ Sum(g, K) \in Nat
  <2>1. \A k \in K : g[k] \in Nat
    BY <1>1
  <2> QED
    BY <1>1, <1>2, <2>1, SumNat
<1> DEFINE a == SumFunction(f)
           b == SumFunction(g)
<1>7. a \in Nat /\ b \in Nat /\ a <= b
  BY <1>3, <1>4, <1>5, <1>6
<1> HIDE DEF a, b
<1>8. /\ Max({0, 10000 - b}) \in Int /\ Max({0, 10000 - a}) \in Int
      /\ Max({0, 10000 - b}) <= Max({0, 10000 - a})
  <2>1. /\ Max({0, 10000 - a}) = IF a <= 10000 THEN 10000 - a ELSE 0
        /\ Max({0, 10000 - b}) = IF b <= 10000 THEN 10000 - b ELSE 0
    BY <1>7 DEF Max
  <2> QED
    BY <1>7, <2>1
<1> QED
  BY <1>8 DEF Left, a, b, f, g

LEMMA ScoreFalls ==
    ASSUME AInv, AInv', ItemKeys \subseteq ItemKeys'
    PROVE  ~(Score' > Score)
<1>1. IsFiniteSet(ItemKeys')
  <2>1. (AInv => IsFiniteSet(ItemKeys))'
    BY ItemsFinite, PTL
  <2> QED
    BY <2>1
<1>2. \A k \in ItemKeys' : Cost(k) \in Nat
  <2>1. (\A k \in ItemKeys : Cost(k) \in Nat)'
    BY CostsAreNat, PTL
  <2> QED
    BY <2>1
<1>3. PICK L : L = ItemKeys'
  OBVIOUS
<1>4. /\ IsFiniteSet(L) /\ ItemKeys \in SUBSET L /\ \A k \in L : Cost(k) \in Nat
  BY <1>1, <1>2, <1>3
<1>5. Left(L) \in Int /\ Left(ItemKeys) \in Int /\ Left(L) <= Left(ItemKeys)
  BY <1>4, MoreCostsMore
<1>6. Score = Left(ItemKeys)
  BY DEF Score, Left
<1>7. Score' = Left(L)
  BY <1>3 DEF Score, Left
<1> QED
  BY <1>5, <1>6, <1>7

\* A finding more is an item more.
LEMMA MoreFindings ==
    ASSUME AInv, NEW f \in Findings, Report(f)
    PROVE  ItemKeys \subseteq ItemKeys'
<1>1. connections' = connections /\ others' = [others EXCEPT ![f] = @ + 1]
  BY DEF Report
<1>2. Inconsistencies' = Inconsistencies
  BY <1>1 DEF Inconsistencies, Missing, Mismatches, FieldMappings, Has, FieldsOf, Place, Bearers,
              Systems, Represented
<1>3. ASSUME NEW k \in OtherItems
      PROVE  k \in OtherItems'
  <2>1. PICK g \in Findings : k \in {[kind |-> "other", finding |-> g, nth |-> n] : n \in 1..others[g]}
    BY Zenon DEF OtherItems
  <2>2. PICK n \in 1..others[g] : k = [kind |-> "other", finding |-> g, nth |-> n]
    BY <2>1
  <2>3. n \in 1..others'[g]
    BY <1>1 DEF AInv
  <2> QED
    BY <2>2, <2>3 DEF OtherItems
<1> QED
  BY <1>2, <1>3 DEF ItemKeys

\* A system of a new name leaves the others as they were.
LEMMA OthersStay ==
    ASSUME AInv, NEW n \in Names, NEW c \in BOOLEAN, NEW e \in Entities, AddConnection(n, c, e),
           Bearers(n) = {}
    PROVE  /\ Systems \subseteq Systems'
           /\ \A s \in Systems : /\ Bearers(s)' = Bearers(s)
                                 /\ FieldsOf(s)' = FieldsOf(s)
                                 /\ Place(s)' = Place(s)
<1> DEFINE m == Len(connections) + 1
<1>1. /\ connections' = Append(connections, [name |-> n, connected |-> c, entity |-> e])
      /\ Len(connections) \in Nat /\ DOMAIN connections = 1..Len(connections)
      /\ connections \in Seq(Profile)
  BY Indices DEF AddConnection, AInv
<1>2. /\ DOMAIN connections' = DOMAIN connections \cup {m} /\ m \notin DOMAIN connections
      /\ \A i \in DOMAIN connections : connections'[i] = connections[i]
      /\ connections'[m].name = n
  BY <1>1
<1> HIDE DEF m
<1>3. Represented \subseteq Represented' /\ Represented' \subseteq Represented \cup {m}
  BY <1>2 DEF Represented
<1>4. \A i \in Represented : connections'[i] = connections[i]
  BY <1>2 DEF Represented
<1>5. Systems \subseteq Systems'
  BY <1>3, <1>4 DEF Systems
<1>6. ASSUME NEW s \in Systems
      PROVE  Bearers(s)' = Bearers(s) /\ Bearers(s) \subseteq Represented /\ Max(Bearers(s)) \in Bearers(s)
  <2>1. s # n
    BY DEF Bearers, Systems
  <2>2. Bearers(s)' = {i \in Represented' : connections'[i].name = s}
    BY DEF Bearers
  <2>3. Bearers(s)' = Bearers(s)
    BY <1>2, <1>3, <1>4, <2>1, <2>2 DEF Bearers
  <2>4. Bearers(s) \in SUBSET Represented /\ Bearers(s) # {}
    BY DEF Bearers, Systems
  <2>5. IsFiniteSet(Bearers(s)) /\ Bearers(s) \subseteq Nat
    BY <2>4, Indices, FS_Subset
  <2> QED
    BY <2>3, <2>4, <2>5, Extremes
<1>7. ASSUME NEW s \in Systems
      PROVE  FieldsOf(s)' = FieldsOf(s) /\ Place(s)' = Place(s)
  <2>1. FieldsOf(s)' = connections'[Max(Bearers(s)')].entity /\ Place(s)' = Min(Bearers(s)')
    BY DEF FieldsOf, Place, Max, Min
  <2>2. connections'[Max(Bearers(s))] = connections[Max(Bearers(s))]
    BY <1>4, <1>6
  <2> QED
    BY <1>6, <2>1, <2>2 DEF FieldsOf, Place
<1> QED
  BY <1>5, <1>6, <1>7

LEMMA MoreSystems ==
    ASSUME AInv, NEW n \in Names, NEW c \in BOOLEAN, NEW e \in Entities, Connect(n, c, e),
           Bearers(n) = {}
    PROVE  ItemKeys \subseteq ItemKeys'
<1>1. /\ Systems \subseteq Systems'
      /\ \A s \in Systems : FieldsOf(s)' = FieldsOf(s) /\ Place(s)' = Place(s)
  BY OthersStay DEF Connect
<1>2. \A s \in Systems, f \in Fields : Has(s, f)' = Has(s, f)
  BY <1>1 DEF Has
<1>3. ASSUME NEW k \in Missing
      PROVE  k \in Missing'
  <2>1. PICK m \in Fields \X Systems \X Systems :
            /\ Has(m[2], m[1]) /\ ~Has(m[3], m[1])
            /\ k = Inconsistency("missing_field", m[1], m[2], m[3],
                                 IF FieldsOf(m[2])[m[1]].key THEN "HIGH" ELSE "MEDIUM")
    BY DEF Missing
  <2>2. m \in Fields \X Systems' \X Systems'
    BY <1>1
  <2>3. Has(m[2], m[1])' /\ ~Has(m[3], m[1])' /\ FieldsOf(m[2])' = FieldsOf(m[2])
    BY <1>1, <1>2, <2>1
  <2> QED
    BY <2>1, <2>2, <2>3 DEF Missing, Inconsistency
<1>4. ASSUME NEW k \in Mismatches
      PROVE  k \in Mismatches'
  <2>1. PICK m \in Fields \X Systems \X Systems :
            /\ Place(m[2]) < Place(m[3]) /\ Has(m[2], m[1]) /\ Has(m[3], m[1])
            /\ Mismatched(FieldsOf(m[2])[m[1]].type, FieldsOf(m[3])[m[1]].type)
            /\ k = Inconsistency("type_mismatch", m[1], m[2], m[3], "HIGH")
    BY DEF Mismatches, FieldMappings
  <2>2. m \in Fields \X Systems' \X Systems'
    BY <1>1
  <2>3. /\ Has(m[2], m[1])' /\ Has(m[3], m[1])' /\ Place(m[2])' < Place(m[3])'
        /\ FieldsOf(m[2])' = FieldsOf(m[2]) /\ FieldsOf(m[3])' = FieldsOf(m[3])
    BY <1>1, <1>2, <2>1
  <2> QED
    BY <2>1, <2>2, <2>3 DEF Mismatches, FieldMappings, Inconsistency
<1>5. OtherItems' = OtherItems
  BY DEF Connect, OtherItems
<1> QED
  BY <1>3, <1>4, <1>5 DEF ItemKeys, Inconsistencies

LEMMA ScoreStep ==
    ASSUME AInv, AInv', [Next]_vars
    PROVE  [\/ connections' = connections
            \/ Bearers(connections'[Len(connections')].name) = {}
            => ~(Score' > Score)]_vars
<1>1. CASE UNCHANGED vars
  BY <1>1
<1>2. ASSUME NEW f \in Findings, Report(f)
      PROVE  ~(Score' > Score)
  BY <1>2, MoreFindings, ScoreFalls
<1>3. ASSUME NEW n \in Names, NEW c \in BOOLEAN, NEW e \in Entities, Connect(n, c, e),
             Score' > Score
      PROVE  connections' # connections /\ Bearers(connections'[Len(connections')].name) # {}
  <2>1. Bearers(n) # {}
    BY <1>3, MoreSystems, ScoreFalls
  <2>2. /\ connections' = Append(connections, [name |-> n, connected |-> c, entity |-> e])
        /\ connections \in Seq(Profile) /\ Len(connections) \in Nat
    BY <1>3, Indices DEF Connect, AddConnection, AInv
  <2>3. [name |-> n, connected |-> c, entity |-> e] \in Profile
    BY DEF Profile
  <2>4. Len(connections') = Len(connections) + 1 /\ connections'[Len(connections')].name = n
    BY <2>2, <2>3
  <2>5. connections' # connections
    BY <2>2, <2>4
  <2> QED
    BY <2>1, <2>4, <2>5
<1> QED
  BY <1>1, <1>2, <1>3 DEF Next

-----------------------------------------------------------------------------

LEMMA Inductive == Spec => []AInv
BY AInvInit, AInvNext, PTL DEF Spec

\* map_entity calls an entity perfectly consistent only beside fields that later
\* systems have and earlier ones lack: every mapping must have the full score.
THEOREM PerfectScore == Spec => []PerfectScoreHides
BY Inductive, PerfectScoreHolds, PTL

\* build_remediation_plan puts a blocking gap behind nothing but what is more
\* severe or as critical, a bottleneck or gap of severity INFO, or a data-quality
\* issue, in whatever order the analysis listed them.
THEOREM BlockingComesFirst == Spec => []BlockingHeldBack
BY BlockingHolds, PTL

\* calculate_total_effort never states a level below that of an item with a
\* canonical range of days, nor more than one below that of any gap, whatever the
\* ranges that the gaps carry.
THEOREM EffortIsCovered == Spec => []TotalCoversItems
BY Inductive, TotalHolds, PTL

\* calculate_score is never raised by a finding more, nor by a system more whose
\* name is new: its items are a superset, and none has a negative cost.
THEOREM ScoreOnlyFalls == Spec => ScoreNeverRises
<1>1. AInv /\ AInv' /\ [Next]_vars
      => [\/ connections' = connections
          \/ Bearers(connections'[Len(connections')].name) = {}
          => ~(Score' > Score)]_vars
  BY ScoreStep
<1> QED
  BY <1>1, Inductive, PTL DEF Spec, ScoreNeverRises

-----------------------------------------------------------------------------
(* EntityMatcher *)

\* More than one.
LEMMA TwoOfThem ==
    ASSUME NEW S, IsFiniteSet(S)
    PROVE  Cardinality(S) >= 2 <=> \E a \in S : \E b \in S : a # b
<1>1. /\ Cardinality(S) \in Nat
      /\ Cardinality(S) = 0 <=> S = {}
      /\ Cardinality(S) = 1 <=> \E x : S = {x}
  BY FS_CardinalityType, FS_EmptySet, FS_Singleton
<1>2. (\E a \in S : \E b \in S : a # b) <=> S # {} /\ ~ \E x : S = {x}
  OBVIOUS
<1> QED
  BY ONLY <1>1, <1>2, SMT

LEMMA FirstIs ==
    ASSUME NEW T, IsFiniteSet(T), T \subseteq Nat, T # {}
    PROVE  First(T) \in T /\ \A j \in T : First(T) <= j
<1>1. Min(T) \in T /\ \A j \in T : Min(T) <= j
  BY Extremes
<1> QED
  BY <1>1 DEF First

LEMMA TheTables ==
    ASSUME tables \in Estates
    PROVE  /\ Len(tables) \in Nat /\ IsFiniteSet(Tables) /\ Tables \subseteq Nat
           /\ \A i \in Tables : IsFiniteSet(FieldSet(i))
<1>1. Len(tables) \in Nat /\ \A i \in 1..Len(tables) : IsFiniteSet(tables[i].fields)
  BY MatchAssumption
<1> QED
  BY <1>1, FS_Interval DEF Tables, FieldSet

LEMMA SomeTables ==
    ASSUME tables \in Estates, NEW T \in SUBSET Tables
    PROVE  IsFiniteSet(T) /\ T \subseteq Nat
BY TheTables, FS_Subset

LEMMA FirstPer ==
    ASSUME tables \in Estates, NEW T \in SUBSET Tables
    PROVE  /\ FirstPerSystem(T) \subseteq T
           /\ \A i, j \in FirstPerSystem(T) : System(i) = System(j) => i = j
           /\ \A i \in T : \E j \in FirstPerSystem(T) : System(j) = System(i)
<1>1. T \subseteq Nat
  BY SomeTables
<1>2. ASSUME NEW i \in FirstPerSystem(T), NEW j \in FirstPerSystem(T), System(i) = System(j)
      PROVE  i = j
  <2>1. i \in T /\ j \in T /\ i <= j /\ j <= i
    BY <1>2 DEF FirstPerSystem
  <2> QED
    BY <1>1, <2>1
<1>3. ASSUME NEW i \in T
      PROVE  \E j \in FirstPerSystem(T) : System(j) = System(i)
  <2> DEFINE U == {j \in T : System(j) = System(i)}
  <2>1. U \in SUBSET Tables /\ U # {}
    OBVIOUS
  <2>2. First(U) \in U /\ \A j \in U : First(U) <= j
    <3> HIDE DEF U
    <3> QED
      BY <2>1, SomeTables, FirstIs
  <2> QED
    BY <2>2 DEF FirstPerSystem
<1> QED
  BY <1>2, <1>3 DEF FirstPerSystem

-----------------------------------------------------------------------------
(* Scores *)

LEMMA ScoresAre ==
    ASSUME NEW p \in Nat, NEW t \in Nat
    PROVE  Scored(p, t) \in Int
<1>1. Whole * p \in Nat
  BY DEF Whole
<1> QED
  BY <1>1 DEF Scored

LEMMA CoverCount ==
    ASSUME NEW F, NEW G, IsFiniteSet(F)
    PROVE  Cardinality(Covered(F, G)) \in Nat
<1>1. Covered(F, G) \in SUBSET F
  BY DEF Covered
<1> QED
  BY <1>1, FS_Subset, FS_CardinalityType

LEMMA DeclaredScores ==
    ASSUME NEW F, IsFiniteSet(F), NEW i
    PROVE  DeclaredScore(F, i) \in Int
<1>1. Cardinality(Covered(F, FieldSet(i))) \in Nat /\ Cardinality(F) \in Nat
  BY CoverCount, FS_CardinalityType
<1> QED
  BY <1>1, ScoresAre DEF DeclaredScore

LEMMA PairScores ==
    ASSUME tables \in Estates, NEW i \in Tables, NEW j \in Tables
    PROVE  PairScore(i, j) \in Int /\ PairScore(i, j) = PairScore(j, i)
<1> DEFINE F == FieldSet(i)
           G == FieldSet(j)
           a == Cardinality(Covered(F, G))
           b == Cardinality(Covered(G, F))
           m == Cardinality(F)
           n == Cardinality(G)
<1>1. IsFiniteSet(F) /\ IsFiniteSet(G)
  BY TheTables
<1>2. a \in Nat /\ b \in Nat /\ m \in Nat /\ n \in Nat
  BY <1>1, CoverCount, FS_CardinalityType
<1>3. /\ PairScore(i, j) = IF F = {} \/ G = {} THEN 0 ELSE Scored(a + b, m + n)
      /\ PairScore(j, i) = IF F = {} \/ G = {} THEN 0 ELSE Scored(b + a, n + m)
  BY DEF PairScore
<1> HIDE DEF F, G, a, b, m, n
<1>4. a + b \in Nat /\ m + n \in Nat /\ b + a = a + b /\ n + m = m + n
  BY <1>2
<1>5. Scored(a + b, m + n) \in Int
  BY <1>4, ScoresAre
<1> QED
  BY <1>3, <1>4, <1>5

LEMMA PairsBothWays ==
    ASSUME tables \in Estates, NEW i \in Tables, NEW j \in Tables, Paired(i, j)
    PROVE  Paired(j, i)
BY PairScores DEF Paired, ShareField

-----------------------------------------------------------------------------
(* Methods *)

Methods == {"exact", "declared", "vocabulary", "field_overlap"}

LEMMA Strengths ==
    /\ DOMAIN Strength = Methods
    /\ Strength["exact"] = 4 /\ Strength["declared"] = 3
    /\ Strength["vocabulary"] = 2 /\ Strength["field_overlap"] = 1
BY DEF Strength, Methods

LEMMA TheWeakest ==
    ASSUME NEW M, M \subseteq Methods, M # {}
    PROVE  Weakest(M) \in M /\ \A n \in M : Strength[Weakest(M)] <= Strength[n]
<1>1. \E m \in M : \A n \in M : Strength[m] <= Strength[n]
  <2>1. CASE "field_overlap" \in M
    BY <2>1, Strengths DEF Methods
  <2>2. CASE "field_overlap" \notin M /\ "vocabulary" \in M
    BY <2>2, Strengths DEF Methods
  <2>3. CASE M \cap {"field_overlap", "vocabulary"} = {} /\ "declared" \in M
    BY <2>3, Strengths DEF Methods
  <2>4. CASE M \cap {"field_overlap", "vocabulary", "declared"} = {}
    <3>1. \A n \in M : n = "exact"
      BY <2>4 DEF Methods
    <3> QED
      BY <3>1, Strengths
  <2> QED
    BY <2>1, <2>2, <2>3, <2>4
<1> QED
  BY <1>1 DEF Weakest

\* Only exact links make an exact group.
LEMMA WeakestExact ==
    ASSUME NEW M, M \subseteq Methods, M # {}, Weakest(M) = "exact"
    PROVE  M = {"exact"}
<1>1. \A n \in M : 4 <= Strength[n]
  BY TheWeakest, Strengths
<1>2. ASSUME NEW n \in M
      PROVE  n = "exact"
  <2>1. n \in Methods /\ 4 <= Strength[n]
    BY <1>1
  <2> QED
    BY <2>1, Strengths DEF Methods
<1> QED
  BY <1>2

-----------------------------------------------------------------------------
(* Groups *)

\* What is true of each group.
Shaped(x) ==
    /\ x = [name |-> x.name, tables |-> x.tables, method |-> x.method, links |-> x.links]
    /\ x.tables \subseteq Tables
    /\ x.method \in Methods
    /\ x.method = "field_overlap" => DOMAIN x.links = {}
    /\ x.method # "field_overlap" => DOMAIN x.links = x.tables
    /\ \A i \in DOMAIN x.links : x.links[i] \in Methods \ {"field_overlap"}

\* One table of a system, and two of them at least.
OneOfEach(T) == \A i, j \in T : System(i) = System(j) => i = j

TwoSystems(x) == Cardinality(x.tables) >= 2 /\ OneOfEach(x.tables)

Labelled(x) ==
    /\ \A i \in DOMAIN x.links : Strength[x.method] <= Strength[x.links[i]] /\ LinkedAs(x, i)
    /\ x.method = "exact" => \A i, j \in x.tables : Name(i) = Name(j)
    /\ x.method = "field_overlap" =>
          \A i \in x.tables : \E j \in x.tables \ {i} : Paired(i, j)

Good(x) == Shaped(x) /\ TwoSystems(x) /\ Labelled(x)

\* The method follows from the links.
Derived(x) == x.method = "field_overlap" \/ x.method = Weakest(LinkMethods(x.links))

LEMMA GroupLinks ==
    ASSUME NEW x, Shaped(x), x.method # "field_overlap", x.tables # {}
    PROVE  LinkMethods(x.links) \subseteq Methods \ {"field_overlap"} /\ LinkMethods(x.links) # {}
BY DEF Shaped, LinkMethods

LEMMA NonEmpty ==
    ASSUME tables \in Estates, NEW x, Shaped(x), TwoSystems(x)
    PROVE  x.tables # {} /\ IsFiniteSet(x.tables)
<1>1. IsFiniteSet(x.tables)
  BY SomeTables DEF Shaped
<1> QED
  BY <1>1, FS_EmptySet DEF TwoSystems

\* The groups that the passes start.
LEMMA NewIs ==
    ASSUME NEW n, NEW T \in SUBSET Tables, NEW m \in Methods,
           T # {}
    PROVE  /\ Shaped(NewGroup(n, T, m)) /\ Derived(NewGroup(n, T, m))
<1> DEFINE x == NewGroup(n, T, m)
<1>1. x = [name |-> n, tables |-> T, method |-> m,
           links |-> [i \in IF m = "field_overlap" THEN {} ELSE T |-> m]]
  BY DEF NewGroup
<1>2. /\ x.name = n /\ x.tables = T /\ x.method = m
      /\ x.links = [i \in IF m = "field_overlap" THEN {} ELSE T |-> m]
  BY <1>1
<1> HIDE DEF x
<1>3. Shaped(x)
  BY <1>1, <1>2 DEF Shaped, Methods
<1>4. Derived(x)
  <2>1. CASE m = "field_overlap"
    BY <1>2, <2>1 DEF Derived
  <2>2. CASE m # "field_overlap"
    <3>1. LinkMethods(x.links) = {m}
      BY <1>2, <2>2 DEF LinkMethods
    <3>2. Weakest({m}) = m
      <4>1. Weakest({m}) \in {m}
        BY TheWeakest
      <4> QED
        BY <4>1
    <3> QED
      BY <1>2, <3>1, <3>2 DEF Derived
  <2> QED
    BY <2>1, <2>2
<1> QED
  BY <1>3, <1>4 DEF x

LEMMA NewTwo ==
    ASSUME NEW x, IsFiniteSet(x.tables), OneOfEach(x.tables),
           \E a \in x.tables : \E b \in x.tables : a # b
    PROVE  TwoSystems(x)
BY TwoOfThem DEF TwoSystems

LEMMA NewExact ==
    ASSUME tables \in Estates, NEW n, NEW T \in SUBSET Tables, OneOfEach(T),
           \E a \in T : \E b \in T : a # b,
           \A i, j \in T : Name(i) = Name(j)
    PROVE  Good(NewGroup(n, T, "exact"))
<1> DEFINE x == NewGroup(n, T, "exact")
<1>1. /\ Shaped(x) /\ x.tables = T /\ x.method = "exact"
      /\ x.links = [i \in T |-> "exact"]
  <2>1. T # {} /\ "exact" \in Methods
    BY DEF Methods
  <2>2. Shaped(x)
    BY <2>1, NewIs
  <2> QED
    BY <2>2 DEF NewGroup
<1> HIDE DEF x
<1>2. TwoSystems(x)
  BY <1>1, SomeTables, NewTwo
<1>3. ASSUME NEW i \in DOMAIN x.links
      PROVE  Strength[x.method] <= Strength[x.links[i]] /\ LinkedAs(x, i)
  <2>1. i \in T /\ x.links[i] = "exact"
    BY <1>1
  <2>2. PICK j \in T : j # i
    BY <2>1
  <2>3. j \in DOMAIN x.links \ {i} /\ x.links[j] = "exact" /\ Name(j) = Name(i)
    BY <1>1, <2>1, <2>2
  <2>4. LinkedAs(x, i)
    BY <2>1, <2>3 DEF LinkedAs
  <2> QED
    BY <1>1, <2>1, <2>4, Strengths
<1>4. Labelled(x)
  BY <1>1, <1>3 DEF Labelled
<1> QED
  BY <1>1, <1>2, <1>4 DEF Good, x

LEMMA NewDeclared ==
    ASSUME tables \in Estates, NEW n, NEW T \in SUBSET Tables, OneOfEach(T),
           \E a \in T : \E b \in T : a # b,
           NEW d \in 1..Len(declared),
           \A i \in T : DeclaredScore(declared[d].fields, i) >= GroupThreshold
    PROVE  Good(NewGroup(n, T, "declared"))
<1> DEFINE x == NewGroup(n, T, "declared")
<1>1. /\ Shaped(x) /\ x.tables = T /\ x.method = "declared"
      /\ x.links = [i \in T |-> "declared"]
  <2>1. T # {} /\ "declared" \in Methods
    BY DEF Methods
  <2>2. Shaped(x)
    BY <2>1, NewIs
  <2> QED
    BY <2>2 DEF NewGroup
<1> HIDE DEF x
<1>2. TwoSystems(x)
  BY <1>1, SomeTables, NewTwo
<1>3. \A i \in DOMAIN x.links : Strength[x.method] <= Strength[x.links[i]] /\ LinkedAs(x, i)
  BY <1>1, Strengths DEF LinkedAs
<1>4. Labelled(x)
  BY <1>1, <1>3 DEF Labelled
<1> QED
  BY <1>1, <1>2, <1>4 DEF Good, x

LEMMA NewVocabulary ==
    ASSUME tables \in Estates, NEW T \in SUBSET Tables, OneOfEach(T),
           \E a \in T : \E b \in T : a # b,
           NEW v \in 1..Len(Vocabulary),
           \A i \in T : Name(i) \in Vocabulary[v].synonyms
    PROVE  Good(NewGroup(Vocabulary[v].name, T, "vocabulary"))
<1> DEFINE x == NewGroup(Vocabulary[v].name, T, "vocabulary")
<1>1. /\ Shaped(x) /\ x.tables = T /\ x.method = "vocabulary" /\ x.name = Vocabulary[v].name
      /\ x.links = [i \in T |-> "vocabulary"]
  <2>1. T # {} /\ "vocabulary" \in Methods
    BY DEF Methods
  <2>2. Shaped(x)
    BY <2>1, NewIs
  <2> QED
    BY <2>2 DEF NewGroup
<1> HIDE DEF x
<1>2. TwoSystems(x)
  BY <1>1, SomeTables, NewTwo
<1>3. Normal(x.name) \in Vocabulary[v].synonyms
  BY <1>1, MatchAssumption
<1>4. \A i \in DOMAIN x.links : Strength[x.method] <= Strength[x.links[i]] /\ LinkedAs(x, i)
  BY <1>1, <1>3, Strengths DEF LinkedAs
<1>5. Labelled(x)
  BY <1>1, <1>4 DEF Labelled
<1> QED
  BY <1>1, <1>2, <1>5 DEF Good, x

LEMMA NewOverlap ==
    ASSUME tables \in Estates, NEW n, NEW T \in SUBSET Tables, OneOfEach(T),
           \E a \in T : \E b \in T : a # b,
           \A i \in T : \E j \in T \ {i} : Paired(i, j)
    PROVE  Good(NewGroup(n, T, "field_overlap"))
<1> DEFINE x == NewGroup(n, T, "field_overlap")
<1>1. Shaped(x) /\ x.tables = T /\ x.method = "field_overlap"
  <2>1. T # {} /\ "field_overlap" \in Methods
    BY DEF Methods
  <2>2. Shaped(x)
    BY <2>1, NewIs
  <2> QED
    BY <2>2 DEF NewGroup
<1> HIDE DEF x
<1>2. TwoSystems(x)
  BY <1>1, SomeTables, NewTwo
<1>3. Labelled(x)
  BY <1>1 DEF Labelled, Shaped
<1> QED
  BY <1>1, <1>2, <1>3 DEF Good, x

-----------------------------------------------------------------------------
(* Groups that grow *)

\* What note_link may say of the tables that join.
TrueOf(m, x, i) ==
    \/ /\ m = "declared"
       /\ \E d \in 1..Len(declared) : DeclaredScore(declared[d].fields, i) >= GroupThreshold
    \/ /\ m = "vocabulary"
       /\ \E v \in 1..Len(Vocabulary) : {Name(i), Normal(x.name)} \subseteq Vocabulary[v].synonyms

LEMMA AttachGrows ==
    ASSUME tables \in Estates, NEW x, Good(x), x.method # "field_overlap",
           NEW T \in SUBSET Tables, OneOfEach(T),
           \A i \in T : System(i) \notin SystemsOf(x.tables),
           NEW m, \A i \in T : TrueOf(m, x, i)
    PROVE  /\ Good(Attach(x, T, m))
           /\ Attach(x, T, m).tables = x.tables \cup T /\ Attach(x, T, m).name = x.name
           /\ Attach(x, T, m).method # "field_overlap"
           /\ Derived(x) => Derived(Attach(x, T, m))
<1>1. CASE T = {}
  BY <1>1 DEF Attach
<1>2. CASE T # {}
  <2> DEFINE y == Attach(x, T, m)
             L == [i \in DOMAIN x.links \cup T |-> IF i \in T THEN m ELSE x.links[i]]
  <2>1. y = [name |-> x.name, tables |-> x.tables \cup T,
             method |-> Weakest(LinkMethods(L)), links |-> L]
    BY <1>2 DEF Attach
  <2>2. /\ y.name = x.name /\ y.tables = x.tables \cup T
        /\ y.method = Weakest(LinkMethods(L)) /\ y.links = L
    BY <2>1
  <2> HIDE DEF y
  <2>3. /\ Shaped(x) /\ TwoSystems(x) /\ Labelled(x)
        /\ DOMAIN x.links = x.tables /\ x.tables \subseteq Tables
        /\ \A i \in x.tables : x.links[i] \in Methods \ {"field_overlap"}
    BY DEF Good, Shaped
  <2>4. m \in {"declared", "vocabulary"}
    BY <1>2 DEF TrueOf
  <2>5. /\ DOMAIN L = x.tables \cup T
        /\ \A i \in T : L[i] = m
        /\ \A i \in x.tables : i \notin T /\ L[i] = x.links[i]
    <3>1. \A i \in x.tables : System(i) \in SystemsOf(x.tables)
      BY DEF SystemsOf
    <3> QED
      BY <2>3, <3>1
  <2> HIDE DEF L
  <2>6. LinkMethods(L) \subseteq Methods \ {"field_overlap"} /\ m \in LinkMethods(L)
    BY <1>2, <2>3, <2>4, <2>5 DEF LinkMethods, Methods
  <2>7. /\ y.method \in LinkMethods(L)
        /\ \A n \in LinkMethods(L) : Strength[y.method] <= Strength[n]
    BY <2>2, <2>6, TheWeakest
  <2>8. y.method # "exact"
    <3>1. ASSUME y.method = "exact"
          PROVE  LinkMethods(L) = {"exact"}
      BY <2>2, <2>6, <3>1, WeakestExact
    <3> QED
      BY <2>4, <2>6, <3>1
  <2>9. Shaped(y)
    BY <2>1, <2>2, <2>3, <2>4, <2>5, <2>6, <2>7 DEF Shaped, Methods
  <2>10. TwoSystems(y)
    <3>1. OneOfEach(y.tables)
      BY <2>2, <2>3 DEF OneOfEach, TwoSystems, SystemsOf
    <3>2. IsFiniteSet(x.tables) /\ IsFiniteSet(y.tables)
      BY <2>3, <2>9, SomeTables DEF Shaped
    <3>3. \E a \in x.tables : \E b \in x.tables : a # b
      BY <2>3, <3>2, TwoOfThem DEF TwoSystems
    <3>4. \E a \in y.tables : \E b \in y.tables : a # b
      BY <2>2, <3>3
    <3> QED
      BY <3>1, <3>2, <3>4, NewTwo
  <2>11. ASSUME NEW i \in DOMAIN L
         PROVE  LinkedAs(y, i)
    <3>1. CASE i \in T
      <4>1. L[i] = m /\ TrueOf(m, x, i)
        BY <2>5, <3>1
      <4> QED
        BY <2>2, <2>4, <4>1 DEF LinkedAs, TrueOf
    <3>2. CASE i \notin T
      <4>1. i \in x.tables /\ L[i] = x.links[i] /\ LinkedAs(x, i)
        BY <2>3, <2>5, <3>2 DEF Labelled
      <4>2. ASSUME L[i] = "exact"
            PROVE  \E j \in DOMAIN L \ {i} : L[j] = "exact" /\ Name(j) = Name(i)
        <5>1. PICK j \in DOMAIN x.links \ {i} : x.links[j] = "exact" /\ Name(j) = Name(i)
          BY <4>1, <4>2 DEF LinkedAs
        <5> QED
          BY <2>3, <2>5, <5>1
      <4> QED
        BY <2>2, <4>1, <4>2 DEF LinkedAs
    <3> QED
      BY <3>1, <3>2
  <2>12. Labelled(y)
    <3>1. \A i \in DOMAIN y.links : Strength[y.method] <= Strength[y.links[i]]
      BY <2>2, <2>7 DEF LinkMethods
    <3> QED
      BY <2>2, <2>6, <2>7, <2>8, <2>11, <3>1 DEF Labelled
  <2>13. Good(y) /\ y.method # "field_overlap" /\ Derived(y)
    BY <2>2, <2>6, <2>7, <2>9, <2>10, <2>12 DEF Good, Derived
  <2> QED
    BY <2>2, <2>13 DEF y
<1> QED
  BY <1>1, <1>2

LEMMA SweepGrows ==
    ASSUME tables \in Estates, NEW x, Good(x), x.method = "field_overlap", NEW i \in Tables,
           System(i) \notin SystemsOf(x.tables), \E j \in x.tables : Paired(i, j)
    PROVE  /\ Good([x EXCEPT !.tables = @ \cup {i}])
           /\ [x EXCEPT !.tables = @ \cup {i}].tables = x.tables \cup {i}
           /\ [x EXCEPT !.tables = @ \cup {i}].name = x.name
           /\ [x EXCEPT !.tables = @ \cup {i}].method = "field_overlap"
<1> DEFINE y == [x EXCEPT !.tables = @ \cup {i}]
<1>1. Shaped(x) /\ TwoSystems(x) /\ Labelled(x) /\ x.tables \subseteq Tables
  BY DEF Good, Shaped
<1>2. y = [name |-> x.name, tables |-> x.tables \cup {i}, method |-> x.method, links |-> x.links]
  BY <1>1 DEF Shaped
<1>3. /\ y.name = x.name /\ y.tables = x.tables \cup {i} /\ y.method = "field_overlap"
      /\ y.links = x.links
  BY <1>2
<1> HIDE DEF y
<1>4. Shaped(y)
  BY <1>1, <1>2, <1>3 DEF Shaped
<1>5. i \notin x.tables
  BY DEF SystemsOf
<1>6. TwoSystems(y)
  <2>1. OneOfEach(y.tables)
    BY <1>1, <1>3 DEF OneOfEach, TwoSystems, SystemsOf
  <2>2. IsFiniteSet(x.tables) /\ IsFiniteSet(y.tables)
    BY <1>1, <1>4, SomeTables DEF Shaped
  <2>3. \E a \in x.tables : \E b \in x.tables : a # b
    BY <1>1, <2>2, TwoOfThem DEF TwoSystems
  <2>4. \E a \in y.tables : \E b \in y.tables : a # b
    BY <1>3, <2>3
  <2> QED
    BY <2>1, <2>2, <2>4, NewTwo
<1>7. Labelled(y)
  <2>1. DOMAIN y.links = {}
    BY <1>3, <1>4 DEF Shaped
  <2>2. ASSUME NEW k \in y.tables
        PROVE  \E j \in y.tables \ {k} : Paired(k, j)
    <3>1. CASE k = i
      BY <1>3, <1>5, <3>1
    <3>2. CASE k # i
      BY <1>1, <1>3, <3>2 DEF Labelled
    <3> QED
      BY <3>1, <3>2
  <2> QED
    BY <1>3, <2>1, <2>2 DEF Labelled
<1> QED
  BY <1>3, <1>4, <1>6, <1>7 DEF Good, y

\* What the first of some groups takes in, itself included.
TakesIn(G, T) ==
    \A g \in G : g \in T <=> SystemsOf(groups[g].tables) \cap SystemsIn({h \in T : h < g}) = {}

LEMMA SomethingIsTaken ==
    ASSUME NEW G, IsFiniteSet(G), G \subseteq Nat
    PROVE  \E T \in SUBSET G : TakesIn(G, T)
<1> DEFINE Bad == {U \in SUBSET G : ~ \E T \in SUBSET U : TakesIn(U, T)}
<1>1. ASSUME Bad # {}
      PROVE  FALSE
  <2>1. PICK U \in Bad : \A V \in Bad : V \subseteq U => V = U
    <3>1. Bad \subseteq SUBSET G
      OBVIOUS
    <3> HIDE DEF Bad
    <3> QED
      BY ONLY IsFiniteSet(G), <1>1, <3>1, SmallestSet
  <2>2. U \subseteq Nat /\ IsFiniteSet(U)
    BY FS_Subset
  <2>3. U # {}
    BY DEF TakesIn
  <2> DEFINE m == Max(U)
             W == U \ {m}
  <2>4. m \in U /\ m \in Nat /\ \A g \in W : g < m /\ g \in Nat
    <3>1. m \in U /\ \A g \in U : m >= g
      BY <2>2, <2>3, Extremes
    <3> HIDE DEF m
    <3> QED
      BY <2>2, <3>1
  <2> HIDE DEF m
  <2>5. PICK T \in SUBSET W : TakesIn(W, T)
    <3>1. W \in SUBSET G /\ W \subseteq U /\ W # U
      BY <2>4
    <3>2. W \notin Bad
      BY <2>1, <3>1
    <3> QED
      BY <3>1, <3>2
  <2> DEFINE R == IF SystemsOf(groups[m].tables) \cap SystemsIn({h \in T : h < m}) = {}
                  THEN T \cup {m} ELSE T
  <2>6. ASSUME NEW g \in W
        PROVE  {h \in R : h < g} = {h \in T : h < g} /\ (g \in R <=> g \in T)
    BY <2>4
  <2>7. {h \in R : h < m} = {h \in T : h < m}
    BY <2>4
  <2>8. m \in R <=> SystemsOf(groups[m].tables) \cap SystemsIn({h \in T : h < m}) = {}
    BY <2>4
  <2>9. R \in SUBSET U
    BY <2>4
  <2> HIDE DEF R
  <2>10. TakesIn(U, R)
    BY <2>5, <2>6, <2>7, <2>8 DEF TakesIn
  <2> QED
    BY <2>1, <2>9, <2>10
<1> QED
  BY <1>1

LEMMA AbsorbedAre ==
    ASSUME NEW G, IsFiniteSet(G), G \subseteq Nat, G # {}
    PROVE  /\ First(G) \in G /\ Absorbed(G) \subseteq G \ {First(G)}
           /\ \A h, k \in Absorbed(G) \cup {First(G)} :
                 h # k => SystemsOf(groups[h].tables) \cap SystemsOf(groups[k].tables) = {}
<1> DEFINE T == CHOOSE S \in SUBSET G : TakesIn(G, S)
<1>1. T \in SUBSET G /\ TakesIn(G, T)
  BY SomethingIsTaken
<1>2. Absorbed(G) = T \ {First(G)}
  BY DEF Absorbed, TakesIn
<1> HIDE DEF T
<1>3. First(G) \in G /\ \A g \in G : First(G) <= g
  BY FirstIs
<1>4. First(G) \in T
  <2>1. {h \in T : h < First(G)} = {}
    <3>1. First(G) \in Nat /\ \A h \in T : h \in Nat /\ First(G) <= h
      BY <1>1, <1>3
    <3> QED
      BY <3>1
  <2>2. SystemsIn({}) = {}
    BY DEF SystemsIn, SystemsOf
  <2> QED
    BY <1>1, <1>3, <2>1, <2>2 DEF TakesIn
<1>5. ASSUME NEW h \in T, NEW k \in T, h < k
      PROVE  SystemsOf(groups[h].tables) \cap SystemsOf(groups[k].tables) = {}
  <2>1. SystemsOf(groups[k].tables) \cap SystemsIn({j \in T : j < k}) = {}
    BY <1>1 DEF TakesIn
  <2>2. SystemsOf(groups[h].tables) \subseteq SystemsIn({j \in T : j < k})
    BY <1>5 DEF SystemsIn, SystemsOf
  <2> QED
    BY <2>1, <2>2
<1>6. ASSUME NEW h \in T, NEW k \in T, h # k
      PROVE  SystemsOf(groups[h].tables) \cap SystemsOf(groups[k].tables) = {}
  <2>1. h < k \/ k < h
    BY <1>1, <1>6
  <2> QED
    BY <1>5, <2>1
<1> QED
  BY <1>1, <1>2, <1>3, <1>4, <1>6

\* Groups of one vocabulary entry become one.
LEMMA MergedGrows ==
    ASSUME tables \in Estates, NEW g, NEW taken, g \notin taken,
           \A h \in taken \cup {g} : Good(groups[h]) /\ groups[h].method # "field_overlap",
           \A h, k \in taken \cup {g} :
              h # k => SystemsOf(groups[h].tables) \cap SystemsOf(groups[k].tables) = {},
           NEW v \in 1..Len(Vocabulary),
           \A h \in taken \cup {g} : groups[h].name \in Vocabulary[v].synonyms,
           Derived(groups[g])
    PROVE  /\ Good(Merged(g, taken))
           /\ Merged(g, taken).tables = UNION {groups[h].tables : h \in taken \cup {g}}
           /\ Merged(g, taken).name = groups[g].name
           /\ Merged(g, taken).method # "field_overlap"
<1> DEFINE all == taken \cup {g}
           T == UNION {groups[h].tables : h \in all}
           L == [i \in UNION {DOMAIN groups[h].links : h \in all} |->
                    groups[CHOOSE h \in all : i \in DOMAIN groups[h].links].links[i]]
           y == Merged(g, taken)
<1>1. y = [name |-> groups[g].name, tables |-> T,
           method |-> MergedMethod(L, taken # {}), links |-> L]
  BY DEF Merged
<1>2. /\ y.name = groups[g].name /\ y.tables = T
      /\ y.method = MergedMethod(L, taken # {}) /\ y.links = L
  BY <1>1
<1> HIDE DEF y
<1>3. ASSUME NEW h \in all
      PROVE  /\ Shaped(groups[h]) /\ TwoSystems(groups[h]) /\ Labelled(groups[h])
             /\ DOMAIN groups[h].links = groups[h].tables /\ groups[h].tables \subseteq Tables
             /\ \A i \in groups[h].tables : groups[h].links[i] \in Methods \ {"field_overlap"}
  <2>1. Good(groups[h]) /\ groups[h].method # "field_overlap"
    OBVIOUS
  <2> QED
    BY <2>1 DEF Good, Shaped
<1>4. ASSUME NEW h \in all, NEW k \in all, NEW i \in groups[h].tables, NEW j \in groups[k].tables,
             System(i) = System(j)
      PROVE  h = k
  <2>1. System(i) \in SystemsOf(groups[h].tables) /\ System(i) \in SystemsOf(groups[k].tables)
    BY <1>4 DEF SystemsOf
  <2>2. h # k => SystemsOf(groups[h].tables) \cap SystemsOf(groups[k].tables) = {}
    OBVIOUS
  <2> QED
    BY <2>1, <2>2
<1>5. DOMAIN L = T
  BY <1>3
<1>6. ASSUME NEW h \in all, NEW i \in groups[h].tables
      PROVE  i \in T /\ L[i] = groups[h].links[i]
  <2>1. (CHOOSE k \in all : i \in DOMAIN groups[k].links) = h
    BY <1>3, <1>4
  <2> QED
    BY <1>5, <2>1
<1> HIDE DEF L
<1>7. ASSUME NEW i \in T
      PROVE  \E h \in all : i \in groups[h].tables
  OBVIOUS
<1> HIDE DEF T
<1>8. T \subseteq Tables /\ \A i \in T : L[i] \in Methods \ {"field_overlap"}
  BY <1>3, <1>6, <1>7
<1> DEFINE M == LinkMethods(L) \cup (IF taken # {} THEN {"vocabulary"} ELSE {})
<1>9. g \in all /\ groups[g].tables # {}
  BY <1>3, NonEmpty
<1>10. /\ LinkMethods(L) \subseteq Methods \ {"field_overlap"} /\ LinkMethods(L) # {}
       /\ \A i \in T : L[i] \in LinkMethods(L)
  BY <1>5, <1>6, <1>8, <1>9 DEF LinkMethods
<1>11. y.method = Weakest(M)
  BY <1>2 DEF MergedMethod
<1>12. M \subseteq Methods \ {"field_overlap"} /\ LinkMethods(L) \subseteq M /\ M # {}
  BY <1>10 DEF Methods
<1>13. taken # {} => "vocabulary" \in M
  OBVIOUS
<1>14. taken = {} => M = LinkMethods(L)
  OBVIOUS
<1> HIDE DEF M
<1>15. y.method \in M /\ \A n \in M : Strength[y.method] <= Strength[n]
  BY <1>11, <1>12, TheWeakest
<1>16. Shaped(y)
  BY <1>1, <1>2, <1>5, <1>8, <1>12, <1>15 DEF Shaped
<1>17. TwoSystems(y)
  <2>1. OneOfEach(T)
    BY <1>3, <1>4, <1>7 DEF OneOfEach, TwoSystems
  <2>2. IsFiniteSet(groups[g].tables) /\ IsFiniteSet(T)
    BY <1>3, <1>8, <1>9, SomeTables
  <2>3. \E a \in groups[g].tables : \E b \in groups[g].tables : a # b
    BY <1>3, <1>9, <2>2, TwoOfThem DEF TwoSystems
  <2>4. \E a \in T : \E b \in T : a # b
    BY <1>6, <1>9, <2>3
  <2> QED
    BY <1>2, <2>1, <2>2, <2>4, NewTwo
<1>18. ASSUME NEW i \in T
       PROVE  LinkedAs(y, i)
  <2>1. PICK h \in all : i \in groups[h].tables
    BY <1>7
  <2>2. L[i] = groups[h].links[i] /\ LinkedAs(groups[h], i)
    BY <1>3, <1>6, <2>1 DEF Labelled
  <2>3. ASSUME L[i] = "exact"
        PROVE  \E j \in T \ {i} : L[j] = "exact" /\ Name(j) = Name(i)
    <3>1. PICK j \in groups[h].tables \ {i} : groups[h].links[j] = "exact" /\ Name(j) = Name(i)
      BY <1>3, <2>2, <2>3 DEF LinkedAs
    <3> QED
      BY <1>6, <3>1
  <2>4. ASSUME L[i] = "vocabulary"
        PROVE  {Name(i), Normal(y.name)} \subseteq Vocabulary[v].synonyms
    <3>1. PICK w \in 1..Len(Vocabulary) :
             {Name(i), Normal(groups[h].name)} \subseteq Vocabulary[w].synonyms
      BY <2>2, <2>4 DEF LinkedAs
    <3>2. /\ Normal(groups[h].name) \in Vocabulary[v].synonyms
          /\ Normal(groups[g].name) \in Vocabulary[v].synonyms
      BY <1>9, MatchAssumption
    <3>3. w = v
      BY <3>1, <3>2, MatchAssumption
    <3> QED
      BY <1>2, <3>1, <3>2, <3>3
  <2> QED
    BY <1>2, <1>5, <2>2, <2>3, <2>4 DEF LinkedAs
<1>19. ASSUME y.method = "exact"
       PROVE  \A i, j \in y.tables : Name(i) = Name(j)
  <2>1. M = {"exact"}
    BY <1>11, <1>12, <1>19, WeakestExact
  <2>2. taken = {}
    BY <1>13, <2>1
  <2>3. T = groups[g].tables
    BY <2>2 DEF T
  <2>4. LinkMethods(L) = LinkMethods(groups[g].links)
    BY <1>3, <1>5, <1>6, <1>9, <2>3 DEF LinkMethods
  <2>5. groups[g].method = "exact"
    BY <1>9, <1>14, <1>11, <1>19, <2>2, <2>4 DEF Derived
  <2> QED
    BY <1>2, <1>3, <1>9, <2>3, <2>5 DEF Labelled
<1>20. Labelled(y)
  <2>1. \A i \in T : Strength[y.method] <= Strength[L[i]]
    BY <1>10, <1>12, <1>15
  <2>2. y.method # "field_overlap"
    BY <1>12, <1>15
  <2> QED
    BY <1>2, <1>5, <1>18, <1>19, <2>1, <2>2 DEF Labelled
<1> QED
  BY <1>2, <1>12, <1>15, <1>16, <1>17, <1>20 DEF Good, T, y

-----------------------------------------------------------------------------
(* All groups *)

Places == DOMAIN groups \subseteq Nat /\ IsFiniteSet(DOMAIN groups)
Disjoint == \A g, h \in DOMAIN groups : g # h => groups[g].tables \cap groups[h].tables = {}
AllGood == \A g \in DOMAIN groups : Good(groups[g])

\* What the input says of tables does not change.
LEMMA SameInput ==
    ASSUME UNCHANGED input
    PROVE  /\ Tables' = Tables
           /\ \A i : System(i)' = System(i) /\ Name(i)' = Name(i) /\ FieldSet(i)' = FieldSet(i)
           /\ \A F, i : DeclaredScore(F, i)' = DeclaredScore(F, i)
           /\ \A i, j : Paired(i, j)' = Paired(i, j) /\ PairScore(i, j)' = PairScore(i, j)
<1>1. Tables' = Tables /\ \A i : System(i)' = System(i) /\ Name(i)' = Name(i)
  BY DEF input, Tables, System, Name
<1>2. \A i : FieldSet(i)' = FieldSet(i)
  BY DEF input, FieldSet
<1>3. \A F, i : DeclaredScore(F, i)' = DeclaredScore(F, i)
  BY <1>2 DEF DeclaredScore
<1>4. \A i, j : PairScore(i, j)' = PairScore(i, j)
  BY <1>2 DEF PairScore
<1>5. \A i, j : Paired(i, j)' = Paired(i, j)
  BY <1>2, <1>4 DEF Paired, ShareField
<1> QED
  BY <1>1, <1>2, <1>3, <1>4, <1>5

LEMMA StaysGood ==
    ASSUME UNCHANGED input, NEW x, Good(x)
    PROVE  Good(x)'
<1>1. Shaped(x)'
  BY SameInput DEF Good, Shaped
<1>2. TwoSystems(x)'
  BY SameInput DEF Good, TwoSystems, OneOfEach
<1>3. ASSUME NEW i \in DOMAIN x.links
      PROVE  Strength[x.method] <= Strength[x.links[i]] /\ LinkedAs(x, i)'
  <2>1. Strength[x.method] <= Strength[x.links[i]] /\ LinkedAs(x, i)
    BY DEF Good, Labelled
  <2>2. declared' = declared
    BY DEF input
  <2>3. LinkedAs(x, i)'
    BY <2>1, <2>2, SameInput DEF LinkedAs
  <2> QED
    BY <2>1, <2>3
<1>4. x.method = "exact" => \A i, j \in x.tables : Name(i)' = Name(j)'
  BY SameInput DEF Good, Labelled
<1>5. x.method = "field_overlap" => \A i \in x.tables : \E j \in x.tables \ {i} : Paired(i, j)'
  BY SameInput DEF Good, Labelled
<1> QED
  BY <1>1, <1>2, <1>3, <1>4, <1>5 DEF Good, Labelled

LEMMA PlaceIsNew ==
    ASSUME Places
    PROVE  NewPlace \in Nat /\ NewPlace \notin DOMAIN groups
<1> DEFINE S == DOMAIN groups \cup {0}
<1>1. IsFiniteSet(S) /\ S \subseteq Nat /\ S # {}
  BY FS_AddElement DEF Places
<1>2. Max(S) \in S /\ \A x \in S : Max(S) >= x
  BY <1>1, Extremes
<1>3. NewPlace = Max(S) + 1
  BY DEF NewPlace
<1>4. DOMAIN groups \subseteq S
  OBVIOUS
<1> HIDE DEF S
<1> DEFINE m == Max(S)
<1>5. m \in Nat /\ \A x \in S : m >= x
  BY <1>1, <1>2
<1>6. NewPlace = m + 1
  BY <1>3
<1> HIDE DEF m
<1>7. m + 1 \in Nat /\ m + 1 \notin S
  BY <1>5
<1> QED
  BY <1>4, <1>6, <1>7

LEMMA OneMore ==
    ASSUME UNCHANGED input, Places, Disjoint, AllGood,
           NEW x, Good(x), x.tables \cap Grouped = {}, groups' = With(x)
    PROVE  /\ Places' /\ Disjoint' /\ AllGood' /\ Grouped' = Grouped \cup x.tables
           /\ \A g \in DOMAIN groups' : groups'[g] = x \/ (g \in DOMAIN groups /\ groups'[g] = groups[g])
<1>1. NewPlace \in Nat /\ NewPlace \notin DOMAIN groups
  BY PlaceIsNew
<1> DEFINE p == NewPlace
<1>2. /\ DOMAIN groups' = DOMAIN groups \cup {p}
      /\ groups'[p] = x
      /\ \A g \in DOMAIN groups : groups'[g] = groups[g]
  BY <1>1 DEF With
<1> HIDE DEF p
<1>3. Places'
  BY <1>1, <1>2, FS_AddElement DEF Places, p
<1>4. \A g \in DOMAIN groups : x.tables \cap groups[g].tables = {}
  BY DEF Grouped
<1>5. Disjoint'
  BY <1>1, <1>2, <1>4 DEF Disjoint
<1>6. AllGood'
  BY <1>2, StaysGood DEF AllGood
<1>7. Grouped' = Grouped \cup x.tables
  BY <1>2 DEF Grouped
<1>8. \A g \in DOMAIN groups' : groups'[g] = x \/ (g \in DOMAIN groups /\ groups'[g] = groups[g])
  <2>1. \A g \in DOMAIN groups' : g = p \/ g \in DOMAIN groups
    BY <1>2
  <2> QED
    BY <1>2, <2>1
<1> QED
  BY <1>3, <1>5, <1>6, <1>7, <1>8

LEMMA OneGrows ==
    ASSUME UNCHANGED input, Places, Disjoint, AllGood,
           NEW g \in DOMAIN groups, NEW taken, g \notin taken, taken \subseteq DOMAIN groups,
           NEW N, N \cap Grouped = {}, NEW y, Good(y),
           y.tables = (UNION {groups[h].tables : h \in taken \cup {g}}) \cup N,
           DOMAIN groups' = DOMAIN groups \ taken,
           groups'[g] = y, \A h \in DOMAIN groups' : h # g => groups'[h] = groups[h]
    PROVE  Places' /\ Disjoint' /\ AllGood' /\ Grouped' = Grouped \cup N
<1>0. \A i : i \in y.tables <=> i \in N \/ \E h \in taken \cup {g} : i \in groups[h].tables
  <2> DEFINE U == UNION {groups[h].tables : h \in taken \cup {g}}
  <2>1. \A i : i \in U <=> \E h \in taken \cup {g} : i \in groups[h].tables
    BY ONLY TRUE
  <2>2. y.tables = U \cup N
    OBVIOUS
  <2> HIDE DEF U
  <2> QED
    BY ONLY <2>1, <2>2
<1>1. Places'
  <2>1. (DOMAIN groups') \in SUBSET DOMAIN groups
    OBVIOUS
  <2> QED
    BY <2>1, FS_Subset DEF Places
<1>2. ASSUME NEW h \in DOMAIN groups', h # g
      PROVE  y.tables \cap groups'[h].tables = {}
  <2>1. h \in DOMAIN groups /\ h \notin taken /\ groups'[h] = groups[h]
    BY <1>2
  <2>2. N \cap groups[h].tables = {}
    BY <2>1 DEF Grouped
  <2>3. \A k \in taken \cup {g} : groups[k].tables \cap groups[h].tables = {}
    BY <1>2, <2>1 DEF Disjoint
  <2> QED
    BY <1>0, <2>1, <2>2, <2>3
<1>3. Disjoint'
  <2>1. ASSUME NEW h \in DOMAIN groups', NEW k \in DOMAIN groups', h # k
        PROVE  groups'[h].tables \cap groups'[k].tables = {}
    <3>1. CASE h = g
      BY <1>2, <2>1, <3>1
    <3>2. CASE k = g
      BY <1>2, <2>1, <3>2
    <3>3. CASE h # g /\ k # g
      <4>1. h \in DOMAIN groups /\ k \in DOMAIN groups
        OBVIOUS
      <4> QED
        BY <2>1, <3>3, <4>1 DEF Disjoint
    <3> QED
      BY <3>1, <3>2, <3>3
  <2> QED
    BY <2>1 DEF Disjoint
<1>4. AllGood'
  <2>1. ASSUME NEW h \in DOMAIN groups'
        PROVE  Good(groups'[h])
    BY DEF AllGood
  <2>2. ASSUME NEW h \in DOMAIN groups'
        PROVE  (\A x : x = groups'[h] => Good(x)')
    BY <2>1, StaysGood
  <2> QED
    BY <2>2 DEF AllGood
<1>5. Grouped' = Grouped \cup N
  <2>1. g \in DOMAIN groups'
    OBVIOUS
  <2>2. Grouped' = UNION {groups'[h].tables : h \in DOMAIN groups'}
    BY DEF Grouped
  <2>3. ASSUME NEW i
        PROVE  i \in Grouped' <=> i \in Grouped \/ i \in N
    <3>1. i \in Grouped <=> \E h \in DOMAIN groups : i \in groups[h].tables
      BY DEF Grouped
    <3>2. i \in Grouped' <=> \E h \in DOMAIN groups' : i \in groups'[h].tables
      BY <2>2
    <3>3. CASE i \in y.tables
      BY <1>0, <2>1, <3>1, <3>2, <3>3
    <3>4. CASE i \notin y.tables
      <4>1. i \notin N /\ \A h \in taken \cup {g} : i \notin groups[h].tables
        BY <1>0, <3>4
      <4>2. \A h \in DOMAIN groups' : h # g => h \in DOMAIN groups /\ groups'[h] = groups[h]
        OBVIOUS
      <4>3. \A h \in DOMAIN groups : h \notin taken => h \in DOMAIN groups'
        OBVIOUS
      <4> QED
        BY <3>1, <3>2, <3>4, <4>1, <4>2, <4>3
    <3> QED
      BY <3>3, <3>4
  <2> QED
    BY <2>3
<1> QED
  BY <1>1, <1>3, <1>4, <1>5

-----------------------------------------------------------------------------
(* The invariant *)

\* The variables' types.
Typed ==
    /\ tables \in Estates /\ declared \in DeclaredLists
    /\ pass \in Passes /\ at \in Nat /\ at >= 1
    /\ assigned \subseteq Tables /\ used \subseteq Tables

\* The passes' records say which tables have a group.
Bookkept == Grouped = assigned \cup used /\ assigned \cap used = {}

\* The vocabulary pass has not come to the entry that knows the group's name.
Fresh(g) == pass = "vocabulary" =>
                \A v \in 1..Len(Vocabulary) : v < at => groups[g].name \notin Vocabulary[v].synonyms

\* The first three passes start no field-overlap group; until two groups become
\* one, a group's method follows from its links.
Linked == pass \in {"exact", "declared", "vocabulary"} =>
              /\ used = {}
              /\ \A g \in DOMAIN groups : /\ groups[g].method # "field_overlap"
                                          /\ Fresh(g) => Derived(groups[g])

\* The exact pass comes to a name once, where it occurs first.
ExactSoFar == pass = "exact" => \A i \in assigned : \E j \in Tables : j < at /\ Name(j) = Name(i)

\* The anchors that have no group found no partner, and later ones have less.
Tried == pass \in {"pairs", "sweep", "done"} /\ ~capped =>
             \A i \in Unassigned \ used : (pass = "pairs" => i < at) => Partners(i) = {}

\* The inductive invariant of the four passes.
MInv == /\ Typed /\ Places /\ Disjoint /\ AllGood /\ Bookkept
        /\ Linked /\ ExactSoFar /\ Tried

LEMMA NothingNew ==
    ASSUME UNCHANGED <<input, groups>>, Places, Disjoint, AllGood
    PROVE  Places' /\ Disjoint' /\ AllGood' /\ Grouped' = Grouped
<1>1. Places' /\ Disjoint' /\ Grouped' = Grouped
  BY DEF Places, Disjoint, Grouped
<1>2. UNCHANGED input
  OBVIOUS
<1>3. AllGood'
  BY <1>2, StaysGood DEF AllGood
<1> QED
  BY <1>1, <1>3

LEMMA MInvInit == MatchInit => MInv
<1> SUFFICES ASSUME MatchInit
             PROVE  MInv
  OBVIOUS
<1>1. /\ tables \in Estates /\ declared \in DeclaredLists
      /\ pass = "exact" /\ at = 1 /\ assigned = {} /\ used = {}
      /\ DOMAIN groups = {}
  BY DEF MatchInit
<1>2. Typed
  BY <1>1 DEF Typed, Passes
<1>3. Places /\ Disjoint /\ AllGood /\ Bookkept
  BY <1>1, FS_EmptySet DEF Places, Disjoint, AllGood, Bookkept, Grouped
<1>4. Linked /\ ExactSoFar /\ Tried
  BY <1>1 DEF Linked, ExactSoFar, Tried
<1> QED
  BY <1>2, <1>3, <1>4 DEF MInv

\* Tables of two systems or more are two tables or more.
LEMMA TwoInSystems ==
    ASSUME tables \in Estates, NEW T \in SUBSET Tables, Cardinality(SystemsOf(T)) >= 2
    PROVE  \E a \in FirstPerSystem(T) : \E b \in FirstPerSystem(T) : a # b
<1> DEFINE f == [i \in T |-> System(i)]
<1>1. IsFiniteSet(T)
  BY SomeTables
<1>2. SystemsOf(T) = {f[i] : i \in T}
  BY DEF SystemsOf
<1> HIDE DEF f
<1>3. IsFiniteSet(SystemsOf(T))
  BY <1>1, <1>2, ImageFinite
<1>4. PICK s \in SystemsOf(T), t \in SystemsOf(T) : s # t
  BY <1>3, TwoOfThem
<1>5. PICK i \in T, j \in T : System(i) # System(j)
  BY <1>4 DEF SystemsOf
<1>6. PICK a \in FirstPerSystem(T) : System(a) = System(i)
  BY FirstPer
<1>7. PICK b \in FirstPerSystem(T) : System(b) = System(j)
  BY FirstPer
<1> QED
  BY <1>5, <1>6, <1>7

LEMMA ExactNameStep ==
    ASSUME MInv, ExactName
    PROVE  MInv'
<1>1. /\ pass = "exact" /\ at \in Tables /\ pass' = "exact" /\ at' = at + 1
      /\ UNCHANGED <<input, used, capped>>
  BY DEF ExactName, GoOn
<1>2. /\ tables \in Estates /\ declared \in DeclaredLists /\ at \in Nat /\ at >= 1
      /\ assigned \subseteq Tables /\ used = {}
      /\ Places /\ Disjoint /\ AllGood /\ Grouped = assigned
  BY <1>1 DEF MInv, Typed, Linked, Bookkept
<1>3. /\ tables' \in Estates /\ declared' \in DeclaredLists /\ pass' \in Passes
      /\ at' \in Nat /\ at' >= 1 /\ used' = {} /\ Tables' = Tables
      /\ \A i : Name(i)' = Name(i)
  BY <1>1, <1>2, SameInput DEF input, Passes
<1>4. Tried'
  BY <1>1 DEF Tried
<1>5. \A g \in DOMAIN groups : groups[g].method # "field_overlap" /\ Derived(groups[g])
  BY <1>1 DEF MInv, Linked, Fresh
<1>6. \A i \in assigned : \E j \in Tables : j < at /\ Name(j) = Name(i)
  BY <1>1 DEF MInv, ExactSoFar
<1>7. CASE UNCHANGED <<groups, assigned>>
  <2>1. Places' /\ Disjoint' /\ AllGood' /\ Grouped' = Grouped
    BY <1>1, <1>2, <1>7, NothingNew
  <2>2. Typed' /\ Bookkept'
    BY <1>2, <1>3, <1>7, <2>1 DEF Typed, Bookkept
  <2>3. Linked'
    BY <1>1, <1>3, <1>5, <1>7 DEF Linked
  <2>4. ExactSoFar'
    <3>1. \A i \in assigned : \E j \in Tables : j < at + 1 /\ Name(j) = Name(i)
      BY <1>2, <1>6, TheTables
    <3> QED
      BY <1>1, <1>3, <1>7, <3>1 DEF ExactSoFar
  <2> QED
    BY <1>4, <2>1, <2>2, <2>3, <2>4 DEF MInv
<1> DEFINE S == SameName(at)
           T == FirstPerSystem(S)
           x == NewGroup(Name(at), T, "exact")
<1>8. CASE /\ at = First(S) /\ Cardinality(SystemsOf(S)) >= 2
           /\ groups' = With(x) /\ assigned' = assigned \cup T
  <2>1. S \in SUBSET Tables /\ \A i \in S : Name(i) = Name(at)
    BY DEF SameName
  <2>2. T \subseteq S /\ OneOfEach(T)
    BY <1>2, <2>1, FirstPer DEF OneOfEach
  <2>3. \E a \in T : \E b \in T : a # b
    BY <1>2, <1>8, <2>1, TwoInSystems
  <2>4. T \in SUBSET Tables /\ \A i, j \in T : Name(i) = Name(j)
    BY <2>1, <2>2
  <2>5. T \cap assigned = {}
    <3>1. ASSUME NEW i \in T, i \in assigned
          PROVE  FALSE
      <4>1. PICK j \in Tables : j < at /\ Name(j) = Name(i)
        BY <1>6, <3>1
      <4>2. j \in S
        BY <2>1, <2>2, <4>1 DEF SameName
      <4>3. at \in S
        BY <1>1 DEF SameName
      <4>4. \A k \in S : at <= k
        BY <1>2, <1>8, <2>1, <4>3, SomeTables, FirstIs
      <4>5. j \in Nat /\ at <= j
        BY <1>2, <4>2, <4>4, TheTables
      <4> QED
        BY <1>2, <4>1, <4>5
    <3> QED
      BY <3>1
  <2>6. Good(x)
    <3> HIDE DEF T
    <3> QED
      BY <1>2, <2>3, <2>2, <2>4, NewExact
  <2>7. x.tables = T /\ x.method = "exact"
    BY DEF NewGroup
  <2>8. Derived(x)
    <3>1. T # {} /\ "exact" \in Methods
      BY <2>3 DEF Methods
    <3> HIDE DEF T
    <3> QED
      BY <2>4, <3>1, NewIs
  <2> HIDE DEF x, T, S
  <2>9. /\ Places' /\ Disjoint' /\ AllGood' /\ Grouped' = Grouped \cup T
        /\ \A g \in DOMAIN groups' : groups'[g] = x \/ (g \in DOMAIN groups /\ groups'[g] = groups[g])
    <3>1. x.tables \cap Grouped = {} /\ groups' = With(x) /\ UNCHANGED input
      BY <1>1, <1>2, <1>8, <2>5, <2>7
    <3> QED
      BY <1>2, <2>6, <2>7, <3>1, OneMore
  <2>10. Typed' /\ Bookkept'
    BY <1>2, <1>3, <1>8, <2>4, <2>9 DEF Typed, Bookkept
  <2>11. Linked'
    BY <1>1, <1>3, <1>5, <2>7, <2>8, <2>9 DEF Linked
  <2>12. ExactSoFar'
    <3>1. \A i \in assigned : \E j \in Tables : j < at + 1 /\ Name(j) = Name(i)
      BY <1>2, <1>6, TheTables
    <3>2. \A i \in T : at < at + 1 /\ Name(at) = Name(i)
      BY <1>2, <2>1, <2>2
    <3> QED
      BY <1>1, <1>3, <1>8, <3>1, <3>2 DEF ExactSoFar
  <2> QED
    BY <1>4, <2>9, <2>10, <2>11, <2>12 DEF MInv
<1>9. \/ UNCHANGED <<groups, assigned>>
      \/ /\ at = First(S) /\ Cardinality(SystemsOf(S)) >= 2
         /\ groups' = With(x) /\ assigned' = assigned \cup T
  BY DEF ExactName
<1> QED
  BY <1>7, <1>8, <1>9

LEMMA FirstDoneSteps ==
    ASSUME MInv, ExactDone \/ DeclaredDone
    PROVE  MInv'
<1>1. /\ \/ pass = "exact" /\ pass' = "declared"
         \/ pass = "declared" /\ pass' = "vocabulary"
      /\ at' = 1 /\ UNCHANGED <<input, groups, assigned, used, capped>>
  BY DEF ExactDone, DeclaredDone, GoOn
<1>2. Places' /\ Disjoint' /\ AllGood' /\ Grouped' = Grouped
  BY <1>1, NothingNew DEF MInv
<1>3. Typed' /\ Bookkept'
  BY <1>1, <1>2, SameInput DEF MInv, Typed, Bookkept, Passes, input
<1>4. \A v \in 1..Len(Vocabulary) : ~(v < 1)
  OBVIOUS
<1>5. Linked'
  BY <1>1, <1>4 DEF MInv, Linked, Fresh
<1>6. ExactSoFar' /\ Tried'
  BY <1>1 DEF ExactSoFar, Tried
<1> QED
  BY <1>2, <1>3, <1>5, <1>6 DEF MInv

\* One table of a system is best.
LEMMA BestAre ==
    ASSUME tables \in Estates, NEW F, IsFiniteSet(F)
    PROVE  /\ BestPerSystem(F) \subseteq Unassigned /\ OneOfEach(BestPerSystem(F))
           /\ \A i \in BestPerSystem(F) : DeclaredScore(F, i) >= GroupThreshold
<1>1. ASSUME NEW i \in BestPerSystem(F), NEW j \in BestPerSystem(F), System(i) = System(j), i # j
      PROVE  FALSE
  <2>1. /\ i \in Unassigned /\ j \in Unassigned
        /\ \/ DeclaredScore(F, j) < DeclaredScore(F, i)
           \/ DeclaredScore(F, j) = DeclaredScore(F, i) /\ i < j
        /\ \/ DeclaredScore(F, i) < DeclaredScore(F, j)
           \/ DeclaredScore(F, i) = DeclaredScore(F, j) /\ j < i
    BY <1>1 DEF BestPerSystem
  <2>2. i \in Nat /\ j \in Nat
    BY <2>1, TheTables DEF Unassigned
  <2> DEFINE s == DeclaredScore(F, i)
             t == DeclaredScore(F, j)
  <2>3. s \in Int /\ t \in Int
    BY DeclaredScores
  <2>4. (t < s \/ (t = s /\ i < j)) /\ (s < t \/ (s = t /\ j < i))
    BY <2>1
  <2> HIDE DEF s, t
  <2> QED
    BY <2>2, <2>3, <2>4
<1>2. OneOfEach(BestPerSystem(F))
  BY <1>1 DEF OneOfEach
<1> QED
  BY <1>2 DEF BestPerSystem

LEMMA NewToIs ==
    ASSUME NEW x, NEW T, OneOfEach(T)
    PROVE  /\ NewTo(x, T) \subseteq T /\ OneOfEach(NewTo(x, T))
           /\ \A i \in NewTo(x, T) : System(i) \notin SystemsOf(x.tables)
BY DEF NewTo, OneOfEach

LEMMA DeclaredEntityStep ==
    ASSUME MInv, DeclaredEntity
    PROVE  MInv'
<1> DEFINE entity == declared[at]
           chosen == BestPerSystem(entity.fields)
           there == GroupsOf(entity)
           g == First(there)
           new == NewTo(groups[g], chosen)
           x == NewGroup(DeclaredName(entity), chosen, "declared")
           y == Attach(groups[g], new, "declared")
<1>1. /\ pass = "declared" /\ at \in 1..Len(declared) /\ pass' = "declared" /\ at' = at + 1
      /\ UNCHANGED <<input, used, capped>>
  BY DEF DeclaredEntity, GoOn
<1>2. /\ tables \in Estates /\ declared \in DeclaredLists /\ at \in Nat /\ at >= 1
      /\ assigned \subseteq Tables /\ used = {}
      /\ Places /\ Disjoint /\ AllGood /\ Grouped = assigned
  BY <1>1 DEF MInv, Typed, Linked, Bookkept
<1>3. /\ tables' \in Estates /\ declared' \in DeclaredLists /\ pass' \in Passes
      /\ at' \in Nat /\ at' >= 1 /\ used' = {} /\ Tables' = Tables
  BY <1>1, <1>2, SameInput DEF input, Passes
<1>4. Tried' /\ ExactSoFar'
  BY <1>1 DEF Tried, ExactSoFar
<1>5. \A h \in DOMAIN groups : groups[h].method # "field_overlap" /\ Derived(groups[h])
  BY <1>1 DEF MInv, Linked, Fresh
<1>6. /\ there # {} => groups' = [groups EXCEPT ![g] = y] /\ assigned' = assigned \cup new
      /\ there = {} => \/ /\ Cardinality(chosen) >= 2
                          /\ groups' = With(x) /\ assigned' = assigned \cup chosen
                       \/ UNCHANGED <<groups, assigned>>
  BY DEF DeclaredEntity
<1>7. /\ chosen \subseteq Unassigned /\ OneOfEach(chosen)
      /\ \A i \in chosen : DeclaredScore(entity.fields, i) >= GroupThreshold
  <2>1. IsFiniteSet(declared[at].fields)
    BY <1>1, <1>2, MatchAssumption
  <2> QED
    BY <1>2, <2>1, BestAre
<1>8. there \subseteq DOMAIN groups
  BY DEF GroupsOf, Named
<1>9. /\ new \subseteq chosen /\ OneOfEach(new)
      /\ \A i \in new : System(i) \notin SystemsOf(groups[g].tables)
  BY <1>7, NewToIs
<1>10. x.tables = chosen /\ x.method = "declared"
  BY DEF NewGroup
<1> HIDE DEF chosen, there, g, new, x, y
<1>11. chosen \subseteq Tables /\ chosen \cap Grouped = {}
  BY <1>2, <1>7 DEF Unassigned
<1>12. CASE UNCHANGED <<groups, assigned>>
  <2>1. Places' /\ Disjoint' /\ AllGood' /\ Grouped' = Grouped
    BY <1>1, <1>2, <1>12, NothingNew
  <2>2. Typed' /\ Bookkept'
    BY <1>2, <1>3, <1>12, <2>1 DEF Typed, Bookkept
  <2>3. Linked'
    BY <1>1, <1>3, <1>5, <1>12 DEF Linked
  <2> QED
    BY <1>4, <2>1, <2>2, <2>3 DEF MInv
<1>13. CASE there # {}
  <2>1. g \in DOMAIN groups
    <3>1. IsFiniteSet(there) /\ there \subseteq Nat
      BY <1>2, <1>8, FS_Subset DEF Places
    <3>2. g \in there
      BY <1>13, <3>1, FirstIs DEF g
    <3> QED
      BY <1>8, <3>2
  <2>2. Good(groups[g]) /\ groups[g].method # "field_overlap" /\ Derived(groups[g])
    BY <1>2, <1>5, <2>1 DEF AllGood
  <2>3. \A i \in new : TrueOf("declared", groups[g], i)
    BY <1>1, <1>7, <1>9 DEF TrueOf
  <2>4. new \in SUBSET Tables /\ new \cap Grouped = {}
    BY <1>9, <1>11
  <2>5. Good(y) /\ y.tables = groups[g].tables \cup new /\ y.method # "field_overlap" /\ Derived(y)
    BY <1>2, <1>9, <2>2, <2>3, <2>4, AttachGrows DEF y
  <2>6. /\ DOMAIN groups' = DOMAIN groups \ {} /\ groups'[g] = y
        /\ \A h \in DOMAIN groups' : h # g => groups'[h] = groups[h]
        /\ assigned' = assigned \cup new
    BY <1>6, <1>13, <2>1
  <2>7. y.tables = (UNION {groups[h].tables : h \in {} \cup {g}}) \cup new
    BY <2>5
  <2>8. Places' /\ Disjoint' /\ AllGood' /\ Grouped' = Grouped \cup new
    <3>1. UNCHANGED input
      BY <1>1
    <3>2. PICK taken : taken = {}
      OBVIOUS
    <3>3. /\ g \notin taken /\ taken \subseteq DOMAIN groups
          /\ y.tables = (UNION {groups[h].tables : h \in taken \cup {g}}) \cup new
          /\ DOMAIN groups' = DOMAIN groups \ taken
      BY <2>6, <2>7, <3>2
    <3> QED
      BY <1>2, <2>1, <2>4, <2>5, <2>6, <3>1, <3>3, OneGrows
  <2>9. Typed' /\ Bookkept'
    BY <1>2, <1>3, <2>4, <2>6, <2>8 DEF Typed, Bookkept
  <2>10. \A h \in DOMAIN groups' : groups'[h].method # "field_overlap" /\ Derived(groups'[h])
    BY <1>5, <2>5, <2>6
  <2>11. Linked'
    BY <1>3, <2>10 DEF Linked
  <2> QED
    BY <1>4, <2>8, <2>9, <2>11 DEF MInv
<1>14. CASE /\ Cardinality(chosen) >= 2 /\ groups' = With(x)
            /\ assigned' = assigned \cup chosen
  <2>1. \E a \in chosen : \E b \in chosen : a # b
    BY <1>2, <1>11, <1>14, SomeTables, TwoOfThem
  <2>2. Good(x)
    BY <1>1, <1>2, <1>7, <1>11, <2>1, NewDeclared DEF x
  <2>3. Derived(x)
    <3>1. chosen # {} /\ "declared" \in Methods
      BY <2>1 DEF Methods
    <3> QED
      BY <1>11, <3>1, NewIs DEF x
  <2>4. /\ Places' /\ Disjoint' /\ AllGood' /\ Grouped' = Grouped \cup chosen
        /\ \A h \in DOMAIN groups' : groups'[h] = x \/ (h \in DOMAIN groups /\ groups'[h] = groups[h])
    <3>1. x.tables \cap Grouped = {} /\ groups' = With(x) /\ UNCHANGED input
      BY <1>1, <1>10, <1>11, <1>14
    <3> QED
      BY <1>2, <1>10, <2>2, <3>1, OneMore
  <2>5. Typed' /\ Bookkept'
    BY <1>2, <1>3, <1>11, <1>14, <2>4 DEF Typed, Bookkept
  <2>6. Linked'
    BY <1>1, <1>3, <1>5, <1>10, <2>3, <2>4 DEF Linked
  <2> QED
    BY <1>4, <2>4, <2>5, <2>6 DEF MInv
<1> QED
  BY <1>6, <1>12, <1>13, <1>14

LEMMA KnownAre ==
    ASSUME tables \in Estates, NEW v
    PROVE  /\ Known(v) \subseteq Unassigned /\ OneOfEach(Known(v))
           /\ \A i \in Known(v) : Name(i) \in Vocabulary[v].synonyms
           /\ \A i \in Unassigned : Name(i) \in Vocabulary[v].synonyms
                                       => \E j \in Known(v) : System(j) = System(i)
<1> DEFINE T == {i \in Unassigned : Name(i) \in Vocabulary[v].synonyms}
<1>1. T \in SUBSET Tables /\ T \subseteq Unassigned
  BY DEF Unassigned
<1>2. Known(v) = FirstPerSystem(T)
  BY DEF Known
<1>3. \A i : i \in T <=> i \in Unassigned /\ Name(i) \in Vocabulary[v].synonyms
  OBVIOUS
<1> HIDE DEF T
<1>4. /\ FirstPerSystem(T) \subseteq T
      /\ \A i, j \in FirstPerSystem(T) : System(i) = System(j) => i = j
      /\ \A i \in T : \E j \in FirstPerSystem(T) : System(j) = System(i)
  BY <1>1, FirstPer
<1> QED
  BY <1>2, <1>3, <1>4 DEF OneOfEach

\* What the vocabulary's entry makes of the groups it knows.
LEMMA EntryGrows ==
    ASSUME MInv, pass = "vocabulary", at \in 1..Len(Vocabulary),
           NEW there, there = CompatibleGroups(at), there # {}
    PROVE  LET g == First(there)
               taken == Absorbed(there)
               grown == Merged(g, taken)
               new == NewTo(grown, Known(at))
               y == Attach(grown, new, "vocabulary")
           IN  /\ g \in there /\ g \notin taken /\ taken \subseteq there
               /\ Good(y) /\ y.name = groups[g].name /\ y.method # "field_overlap"
               /\ y.tables = (UNION {groups[h].tables : h \in taken \cup {g}}) \cup new
               /\ new \subseteq Known(at)
               /\ \A i \in Known(at) : System(i) \in SystemsOf(y.tables)
<1> DEFINE g == First(there)
           taken == Absorbed(there)
           grown == Merged(g, taken)
           new == NewTo(grown, Known(at))
           y == Attach(grown, new, "vocabulary")
           known == Vocabulary[at].synonyms
<1>1. /\ tables \in Estates /\ Places /\ Disjoint /\ AllGood
      /\ \A h \in DOMAIN groups : /\ groups[h].method # "field_overlap"
                                  /\ Fresh(h) => Derived(groups[h])
  BY DEF MInv, Typed, Linked
<1>2. /\ there \subseteq DOMAIN groups
      /\ \A h \in there : groups[h].name \in known
  BY DEF CompatibleGroups, Named
<1>3. IsFiniteSet(there) /\ there \subseteq Nat
  BY <1>1, <1>2, FS_Subset DEF Places
<1>4. /\ g \in there /\ taken \subseteq there \ {g}
      /\ \A h, k \in taken \cup {g} :
            h # k => SystemsOf(groups[h].tables) \cap SystemsOf(groups[k].tables) = {}
  BY <1>3, AbsorbedAre
<1> HIDE DEF g, taken
<1>5. \A h \in taken \cup {g} : h \in there /\ h \in DOMAIN groups
  BY <1>2, <1>4
<1>6. \A h \in taken \cup {g} : /\ Good(groups[h]) /\ groups[h].method # "field_overlap"
                                /\ groups[h].name \in known
  BY <1>1, <1>2, <1>5 DEF AllGood
<1>7. Derived(groups[g])
  <2>1. groups[g].name \in known /\ g \in DOMAIN groups
    BY <1>5, <1>6
  <2>2. ASSUME NEW v \in 1..Len(Vocabulary), v < at
        PROVE  groups[g].name \notin Vocabulary[v].synonyms
    <3>1. Vocabulary[v].synonyms \cap known = {}
      BY <2>2, MatchAssumption
    <3> QED
      BY <2>1, <3>1
  <2>3. Fresh(g)
    BY <2>2 DEF Fresh
  <2> QED
    BY <1>1, <2>1, <2>3
<1>8. /\ Good(grown)
      /\ grown.tables = UNION {groups[h].tables : h \in taken \cup {g}}
      /\ grown.name = groups[g].name /\ grown.method # "field_overlap"
  <2>1. g \notin taken
    BY <1>4
  <2> QED
    BY <1>1, <1>4, <1>6, <1>7, <2>1, MergedGrows
<1> HIDE DEF grown
<1>9. /\ new \subseteq Known(at) /\ OneOfEach(new)
      /\ \A i \in new : System(i) \notin SystemsOf(grown.tables)
  BY <1>1, KnownAre, NewToIs
<1>10. \A i \in Known(at) : i \in new \/ System(i) \in SystemsOf(grown.tables)
  BY DEF NewTo
<1> HIDE DEF new
<1>11. \A i \in new : TrueOf("vocabulary", grown, i)
  <2>1. grown.name \in known
    BY <1>6, <1>8
  <2>2. Normal(grown.name) \in known
    BY <2>1, MatchAssumption
  <2>3. \A i \in new : Name(i) \in known
    BY <1>1, <1>9, KnownAre
  <2> QED
    BY <2>2, <2>3 DEF TrueOf
<1>12. new \in SUBSET Tables
  BY <1>1, <1>9, KnownAre DEF Unassigned
<1>13. /\ Good(y) /\ y.tables = grown.tables \cup new /\ y.name = grown.name
       /\ y.method # "field_overlap"
  BY <1>1, <1>8, <1>9, <1>11, <1>12, AttachGrows
<1> HIDE DEF y
<1>14. \A i \in Known(at) : System(i) \in SystemsOf(y.tables)
  BY <1>10, <1>13 DEF SystemsOf
<1> QED
  BY <1>4, <1>8, <1>9, <1>13, <1>14 DEF g, taken, grown, new, y

LEMMA VocabularyEntryStep ==
    ASSUME MInv, VocabularyEntry
    PROVE  MInv'
<1> DEFINE chosen == Known(at)
           there == CompatibleGroups(at)
           g == First(there)
           taken == Absorbed(there)
           grown == Merged(g, taken)
           new == NewTo(grown, chosen)
           x == NewGroup(Vocabulary[at].name, chosen, "vocabulary")
           y == Attach(grown, new, "vocabulary")
<1>1. /\ pass = "vocabulary" /\ at \in 1..Len(Vocabulary) /\ pass' = "vocabulary" /\ at' = at + 1
      /\ UNCHANGED <<input, used, capped>>
  BY DEF VocabularyEntry, GoOn
<1>2. /\ tables \in Estates /\ declared \in DeclaredLists /\ at \in Nat /\ at >= 1
      /\ assigned \subseteq Tables /\ used = {}
      /\ Places /\ Disjoint /\ AllGood /\ Grouped = assigned
  BY <1>1 DEF MInv, Typed, Linked, Bookkept
<1>3. /\ tables' \in Estates /\ declared' \in DeclaredLists /\ pass' \in Passes
      /\ at' \in Nat /\ at' >= 1 /\ used' = {} /\ Tables' = Tables
  BY <1>1, <1>2, SameInput DEF input, Passes
<1>4. Tried' /\ ExactSoFar'
  BY <1>1 DEF Tried, ExactSoFar
<1>5. \A h \in DOMAIN groups : /\ groups[h].method # "field_overlap"
                               /\ Fresh(h) => Derived(groups[h])
  BY <1>1 DEF MInv, Linked
<1>6. /\ there # {} => /\ groups' = [h \in DOMAIN groups \ taken |->
                                        IF h = g THEN y ELSE groups[h]]
                       /\ assigned' = assigned \cup new
      /\ there = {} => \/ /\ Cardinality(chosen) >= 2
                          /\ groups' = With(x) /\ assigned' = assigned \cup chosen
                       \/ UNCHANGED <<groups, assigned>>
  BY DEF VocabularyEntry
<1>7. /\ chosen \subseteq Unassigned /\ OneOfEach(chosen)
      /\ \A i \in chosen : Name(i) \in Vocabulary[at].synonyms
  BY <1>2, KnownAre
<1>8. x.tables = chosen /\ x.method = "vocabulary"
  BY DEF NewGroup
<1>9. there # {} =>
        /\ g \in there /\ g \notin taken /\ taken \subseteq there
        /\ Good(y) /\ y.name = groups[g].name /\ y.method # "field_overlap"
        /\ y.tables = (UNION {groups[h].tables : h \in taken \cup {g}}) \cup new
        /\ new \subseteq chosen
  BY <1>1, EntryGrows
<1>10. \A h \in there : h \in DOMAIN groups /\ groups[h].name \in Vocabulary[at].synonyms
  BY DEF CompatibleGroups, Named
<1>11. \A h \in DOMAIN groups :
           h \in DOMAIN groups' /\ groups'[h] = groups[h] /\ Fresh(h)' => Fresh(h)
  <2>1. \A v \in 1..Len(Vocabulary) : v < at => v < at + 1
    BY <1>2
  <2> QED
    BY <1>1, <2>1 DEF Fresh
<1> HIDE DEF chosen, there, g, taken, grown, new, x, y
<1>12. chosen \subseteq Tables /\ chosen \cap Grouped = {}
  BY <1>2, <1>7 DEF Unassigned
<1>13. CASE UNCHANGED <<groups, assigned>>
  <2>1. Places' /\ Disjoint' /\ AllGood' /\ Grouped' = Grouped
    BY <1>1, <1>2, <1>13, NothingNew
  <2>2. Typed' /\ Bookkept'
    BY <1>2, <1>3, <1>13, <2>1 DEF Typed, Bookkept
  <2>3. Linked'
    BY <1>3, <1>5, <1>11, <1>13 DEF Linked
  <2> QED
    BY <1>4, <2>1, <2>2, <2>3 DEF MInv
<1>14. CASE there # {}
  <2>1. /\ g \in DOMAIN groups /\ g \notin taken /\ taken \subseteq DOMAIN groups
        /\ Good(y) /\ y.name = groups[g].name /\ y.method # "field_overlap"
        /\ groups[g].name \in Vocabulary[at].synonyms
        /\ y.tables = (UNION {groups[h].tables : h \in taken \cup {g}}) \cup new
        /\ new \subseteq Tables /\ new \cap Grouped = {}
    BY <1>9, <1>10, <1>12, <1>14
  <2>2. /\ DOMAIN groups' = DOMAIN groups \ taken /\ groups'[g] = y
        /\ \A h \in DOMAIN groups' : h # g => h \in DOMAIN groups /\ groups'[h] = groups[h]
        /\ assigned' = assigned \cup new
    BY <1>6, <1>14, <2>1
  <2>3. Places' /\ Disjoint' /\ AllGood' /\ Grouped' = Grouped \cup new
    <3>1. UNCHANGED input /\ \A h \in DOMAIN groups' : h # g => groups'[h] = groups[h]
      BY <1>1, <2>2
    <3> QED
      BY <1>2, <2>1, <2>2, <3>1, OneGrows
  <2>4. Typed' /\ Bookkept'
    BY <1>2, <1>3, <2>1, <2>2, <2>3 DEF Typed, Bookkept
  <2>5. ASSUME NEW h, h = g
        PROVE  ~Fresh(h)'
    <3>1. groups'[h].name \in Vocabulary[at].synonyms /\ at < at'
      BY <1>1, <1>2, <2>1, <2>2, <2>5
    <3> QED
      BY <1>1, <3>1 DEF Fresh
  <2>6. ASSUME NEW h \in DOMAIN groups'
        PROVE  groups'[h].method # "field_overlap" /\ (Fresh(h)' => Derived(groups'[h]))
    <3>1. CASE h = g
      BY <2>1, <2>2, <2>5, <3>1
    <3>2. CASE h # g
      BY <1>5, <1>11, <2>2, <3>2
    <3> QED
      BY <3>1, <3>2
  <2>7. Linked'
    BY <1>3, <2>6 DEF Linked
  <2> QED
    BY <1>4, <2>3, <2>4, <2>7 DEF MInv
<1>15. CASE /\ Cardinality(chosen) >= 2 /\ groups' = With(x)
            /\ assigned' = assigned \cup chosen
  <2>1. \E a \in chosen : \E b \in chosen : a # b
    BY <1>2, <1>12, <1>15, SomeTables, TwoOfThem
  <2>2. Good(x)
    BY <1>1, <1>2, <1>7, <1>12, <2>1, NewVocabulary DEF x
  <2>3. Derived(x)
    <3>1. chosen # {} /\ "vocabulary" \in Methods
      BY <2>1 DEF Methods
    <3> QED
      BY <1>12, <3>1, NewIs DEF x
  <2>4. /\ Places' /\ Disjoint' /\ AllGood' /\ Grouped' = Grouped \cup chosen
        /\ \A h \in DOMAIN groups' : groups'[h] = x \/ (h \in DOMAIN groups /\ groups'[h] = groups[h])
    <3>1. x.tables \cap Grouped = {} /\ groups' = With(x) /\ UNCHANGED input
      BY <1>1, <1>8, <1>12, <1>15
    <3> QED
      BY <1>2, <1>8, <2>2, <3>1, OneMore
  <2>5. Typed' /\ Bookkept'
    BY <1>2, <1>3, <1>12, <1>15, <2>4 DEF Typed, Bookkept
  <2>6. Linked'
    BY <1>3, <1>5, <1>8, <1>11, <2>3, <2>4 DEF Linked
  <2> QED
    BY <1>4, <2>4, <2>5, <2>6 DEF MInv
<1> QED
  BY <1>6, <1>13, <1>14, <1>15

LEMMA VocabularyDoneStep ==
    ASSUME MInv, VocabularyDone
    PROVE  MInv'
<1>1. /\ pass = "vocabulary" /\ at' = 1 /\ UNCHANGED <<input, groups, assigned, used>>
      /\ \/ pass' = "done" /\ capped' = TRUE
         \/ pass' = "pairs"
  BY DEF VocabularyDone, GoOn
<1>2. Places' /\ Disjoint' /\ AllGood' /\ Grouped' = Grouped
  BY <1>1, NothingNew DEF MInv
<1>3. Typed' /\ Bookkept'
  BY <1>1, <1>2, SameInput DEF MInv, Typed, Bookkept, Passes, input
<1>4. Linked' /\ ExactSoFar'
  BY <1>1 DEF Linked, ExactSoFar
<1>5. Tried'
  <2>1. \A i \in Tables : ~(i < 1)
    BY DEF Tables
  <2>2. Tables' = Tables
    BY <1>1, SameInput
  <2>3. Unassigned' \subseteq Tables
    BY <2>2 DEF Unassigned
  <2> QED
    BY <1>1, <2>1, <2>3 DEF Tried
<1> QED
  BY <1>2, <1>3, <1>4, <1>5 DEF MInv

-----------------------------------------------------------------------------
(* The passes over fields *)

LEMMA PartnersShrink ==
    ASSUME UNCHANGED <<input, assigned>>, used \subseteq used'
    PROVE  Unassigned' = Unassigned /\ \A i : Partners(i)' \subseteq Partners(i)
<1>1. Unassigned' = Unassigned
  BY SameInput DEF Unassigned
<1>2. \A i, j : System(i)' = System(i) /\ Paired(i, j)' = Paired(i, j)
  BY SameInput
<1> QED
  BY <1>1, <1>2 DEF Partners

LEMMA AnchorStep ==
    ASSUME MInv, Anchor
    PROVE  MInv'
<1> DEFINE P == FirstPerSystem(Partners(at))
           T == {at} \cup P
           x == NewGroup(Name(at), T, "field_overlap")
<1>1. /\ pass = "pairs" /\ at \in Tables /\ pass' = "pairs" /\ at' = at + 1
      /\ UNCHANGED <<input, assigned, capped>>
      /\ \/ /\ at \in Unassigned \ used /\ Partners(at) # {}
            /\ groups' = With(x) /\ used' = used \cup T
         \/ /\ ~(at \in Unassigned \ used /\ Partners(at) # {})
            /\ UNCHANGED <<groups, used>>
  BY DEF Anchor, GoOn, Marked
<1>2. /\ tables \in Estates /\ declared \in DeclaredLists /\ at \in Nat /\ at >= 1
      /\ assigned \subseteq Tables /\ used \subseteq Tables
      /\ Places /\ Disjoint /\ AllGood /\ Grouped = assigned \cup used /\ assigned \cap used = {}
  BY DEF MInv, Typed, Bookkept
<1>3. /\ tables' \in Estates /\ declared' \in DeclaredLists /\ pass' \in Passes
      /\ at' \in Nat /\ at' >= 1 /\ Tables' = Tables /\ UNCHANGED input
  BY <1>1, <1>2, SameInput DEF input, Passes
<1>4. Linked' /\ ExactSoFar'
  BY <1>1 DEF Linked, ExactSoFar
<1>5. ~capped => \A i \in Unassigned \ used : i < at => Partners(i) = {}
  BY <1>1 DEF MInv, Tried
<1>6. /\ used \subseteq used'
      /\ \A i \in Unassigned \ used' : i < at + 1 => i < at \/ Partners(i) = {}
  <2>1. \A i \in Unassigned : i < at + 1 => i < at \/ i = at
    BY <1>2, TheTables DEF Unassigned
  <2> QED
    BY <1>1, <2>1
<1>7. Tried'
  <2>1. Unassigned' = Unassigned /\ \A i : Partners(i)' \subseteq Partners(i)
    BY <1>1, <1>6, PartnersShrink
  <2> QED
    BY <1>1, <1>5, <1>6, <2>1 DEF Tried
<1>8. CASE UNCHANGED <<groups, used>>
  <2>1. Places' /\ Disjoint' /\ AllGood' /\ Grouped' = Grouped
    BY <1>2, <1>3, <1>8, NothingNew
  <2>2. Typed' /\ Bookkept'
    BY <1>1, <1>2, <1>3, <1>8, <2>1 DEF Typed, Bookkept
  <2> QED
    BY <1>4, <1>7, <2>1, <2>2 DEF MInv
<1>9. CASE /\ at \in Unassigned \ used /\ Partners(at) # {}
           /\ groups' = With(x) /\ used' = used \cup T
  <2>1. /\ Partners(at) \in SUBSET Tables
        /\ Partners(at) \subseteq Unassigned \ used
        /\ \A j \in Partners(at) : System(j) # System(at) /\ Paired(at, j)
    BY DEF Partners, Unassigned
  <2>2. P \subseteq Partners(at) /\ OneOfEach(P) /\ P # {}
    BY <1>2, <1>9, <2>1, FirstPer DEF OneOfEach
  <2> HIDE DEF P
  <2>3. T \in SUBSET Tables /\ T \cap Grouped = {} /\ T \cap assigned = {} /\ at \notin P
    BY <1>1, <1>2, <1>9, <2>1, <2>2 DEF Unassigned
  <2>4. OneOfEach(T)
    BY <2>1, <2>2 DEF OneOfEach
  <2>5. \A i \in T : \E j \in T \ {i} : Paired(i, j)
    <3>1. PICK j \in P : j # at /\ Paired(at, j)
      BY <2>1, <2>2, <2>3
    <3>2. ASSUME NEW i \in P
          PROVE  Paired(i, at)
      BY <1>1, <1>2, <2>1, <2>2, PairsBothWays
    <3> QED
      BY <2>3, <3>1, <3>2
  <2>6. \E a \in T : \E b \in T : a # b
    BY <2>2, <2>3
  <2>7. x.tables = T
    BY DEF NewGroup
  <2> HIDE DEF T
  <2>8. Good(x)
    BY <1>2, <2>3, <2>4, <2>5, <2>6, NewOverlap
  <2> HIDE DEF x
  <2>9. Places' /\ Disjoint' /\ AllGood' /\ Grouped' = Grouped \cup T
    <3>1. x.tables \cap Grouped = {} /\ groups' = With(x)
      BY <1>9, <2>3, <2>7
    <3> QED
      BY <1>2, <1>3, <2>7, <2>8, <3>1, OneMore
  <2>10. Typed' /\ Bookkept'
    BY <1>1, <1>2, <1>3, <1>9, <2>3, <2>9 DEF Typed, Bookkept
  <2> QED
    BY <1>4, <1>7, <2>9, <2>10 DEF MInv
<1> QED
  BY <1>1, <1>8, <1>9

LEMMA LastDoneSteps ==
    ASSUME MInv, PairsDone \/ SweepDone
    PROVE  MInv'
<1>1. /\ \/ pass = "pairs" /\ at \notin Tables /\ pass' = "sweep"
         \/ pass = "sweep" /\ pass' = "done"
      /\ at' = 1 /\ UNCHANGED <<input, groups, assigned, used, capped>>
  BY DEF PairsDone, SweepDone, GoOn
<1>2. Places' /\ Disjoint' /\ AllGood' /\ Grouped' = Grouped
  BY <1>1, NothingNew DEF MInv
<1>3. Typed' /\ Bookkept'
  BY <1>1, <1>2, SameInput DEF MInv, Typed, Bookkept, Passes, input
<1>4. Linked' /\ ExactSoFar'
  BY <1>1 DEF Linked, ExactSoFar
<1>5. Tried'
  <2>1. Unassigned' = Unassigned /\ \A i : Partners(i)' \subseteq Partners(i)
    BY <1>1, PartnersShrink
  <2>2. at \notin Tables => \A i \in Unassigned : i < at
    <3>1. at \in Nat /\ at >= 1 /\ Len(tables) \in Nat
      BY TheTables DEF MInv, Typed
    <3> QED
      BY <3>1 DEF Unassigned, Tables
  <2>3. ~capped => \A i \in Unassigned \ used : Partners(i) = {}
    BY <1>1, <2>2 DEF MInv, Tried
  <2> QED
    BY <1>1, <2>1, <2>3 DEF Tried
<1> QED
  BY <1>2, <1>3, <1>4, <1>5 DEF MInv

\* A finite set has a member of the highest score.
LEMMA Greatest ==
    ASSUME NEW S, IsFiniteSet(S), S # {}, NEW f, \A x \in S : f[x] \in Int
    PROVE  \E x \in S : \A y \in S : f[y] <= f[x]
<1> DEFINE Bad == {U \in SUBSET S : U # {} /\ ~ \E x \in U : \A y \in U : f[y] <= f[x]}
<1>1. ASSUME Bad # {}
      PROVE  FALSE
  <2>1. PICK U \in Bad : \A V \in Bad : V \subseteq U => V = U
    <3>1. Bad \subseteq SUBSET S
      OBVIOUS
    <3> HIDE DEF Bad
    <3> QED
      BY ONLY IsFiniteSet(S), <1>1, <3>1, SmallestSet
  <2>2. PICK a \in U : TRUE
    OBVIOUS
  <2> DEFINE W == U \ {a}
  <2>3. W \in SUBSET S /\ W \subseteq U /\ W # U /\ a \in S
    BY <2>2
  <2>4. W \notin Bad
    BY <2>1, <2>3
  <2>5. CASE W = {}
    <3>1. U = {a}
      BY <2>2, <2>5
    <3> QED
      BY <2>3, <3>1
  <2>6. CASE W # {}
    <3>1. PICK x \in W : \A y \in W : f[y] <= f[x]
      BY <2>3, <2>4, <2>6
    <3>2. f[x] \in Int /\ f[a] \in Int /\ \A y \in W : f[y] \in Int
      BY <2>3
    <3>3. \A y \in U : y = a \/ y \in W
      OBVIOUS
    <3>4. CASE f[a] <= f[x]
      BY <3>1, <3>3, <3>4
    <3>5. CASE f[x] < f[a]
      BY <2>2, <3>1, <3>2, <3>3, <3>5
    <3> QED
      BY <3>2, <3>4, <3>5
  <2> QED
    BY <2>5, <2>6
<1> QED
  BY <1>1

LEMMA FitIs ==
    ASSUME tables \in Estates, NEW i \in Tables, NEW g, groups[g].tables \subseteq Tables
    PROVE  /\ Fit(i, g) \in Int
           /\ Fit(i, g) >= PairThreshold => \E j \in groups[g].tables : Paired(i, j)
<1> DEFINE near == {j \in groups[g].tables : ShareField(i, j)}
           f == [j \in near |-> PairScore(i, j)]
<1>1. near \in SUBSET Tables /\ \A j \in near : j \in groups[g].tables /\ ShareField(i, j)
  OBVIOUS
<1>2. Fit(i, g) = IF near = {} THEN 0
                  ELSE CHOOSE s \in {PairScore(i, j) : j \in near} : \A j \in near : PairScore(i, j) <= s
  BY DEF Fit
<1>3. \A j \in near : f[j] = PairScore(i, j)
  OBVIOUS
<1> HIDE DEF near, f
<1>4. \A j \in near : PairScore(i, j) \in Int
  BY <1>1, PairScores
<1>5. CASE near = {}
  BY <1>2, <1>5 DEF PairThreshold, Whole
<1>6. CASE near # {}
  <2>1. IsFiniteSet(near)
    BY <1>1, SomeTables
  <2>2. PICK k \in near : \A j \in near : f[j] <= f[k]
    BY <1>3, <1>4, <1>6, <2>1, Greatest
  <2>3. PairScore(i, k) \in {PairScore(i, j) : j \in near} /\ \A j \in near : PairScore(i, j) <= PairScore(i, k)
    BY <1>3, <2>2
  <2>4. Fit(i, g) \in {PairScore(i, j) : j \in near}
    BY <1>2, <1>6, <2>3
  <2>5. PICK j \in near : Fit(i, g) = PairScore(i, j)
    BY <2>4
  <2> QED
    BY <1>1, <1>4, <2>5 DEF Paired
<1> QED
  BY <1>5, <1>6

\* The sweep's table joins the first of the groups that it fits best.
LEMMA BestOpen ==
    ASSUME MInv, at \in Tables, Open(at) # {}
    PROVE  First({g \in Open(at) : \A h \in Open(at) : Fit(at, h) <= Fit(at, g)}) \in Open(at)
<1> DEFINE best == {g \in Open(at) : \A h \in Open(at) : Fit(at, h) <= Fit(at, g)}
           f == [h \in Open(at) |-> Fit(at, h)]
<1>1. tables \in Estates /\ Places /\ \A h \in DOMAIN groups : groups[h].tables \subseteq Tables
  BY DEF MInv, Typed, AllGood, Good, Shaped
<1>2. Open(at) \in SUBSET DOMAIN groups
  BY DEF Open
<1>3. IsFiniteSet(Open(at)) /\ Open(at) \subseteq Nat
  BY <1>1, <1>2, FS_Subset DEF Places
<1>4. \A h \in Open(at) : f[h] = Fit(at, h) /\ Fit(at, h) \in Int
  BY <1>1, <1>2, FitIs
<1> HIDE DEF f
<1>5. \E h \in Open(at) : \A k \in Open(at) : f[k] <= f[h]
  BY <1>3, <1>4, Greatest
<1>6. best # {} /\ best \in SUBSET Open(at)
  BY <1>4, <1>5
<1> HIDE DEF best
<1>7. IsFiniteSet(best) /\ best \subseteq Nat
  BY <1>3, <1>6, FS_Subset
<1>8. First(best) \in best
  BY <1>6, <1>7, FirstIs
<1> QED
  BY <1>6, <1>8 DEF best

LEMMA SweepStep ==
    ASSUME MInv, Sweep
    PROVE  MInv'
<1> DEFINE best == {g \in Open(at) : \A h \in Open(at) : Fit(at, h) <= Fit(at, g)}
           g == First(best)
           y == [groups[g] EXCEPT !.tables = @ \cup {at}]
<1>1. /\ pass = "sweep" /\ at \in Tables /\ pass' = "sweep" /\ at' = at + 1
      /\ UNCHANGED <<input, assigned, capped>>
      /\ \/ /\ at \in Unassigned \ used /\ Open(at) # {}
            /\ groups' = [groups EXCEPT ![g] = y] /\ used' = used \cup {at}
         \/ UNCHANGED <<groups, used>>
  BY DEF Sweep, GoOn
<1>2. /\ tables \in Estates /\ declared \in DeclaredLists /\ at \in Nat /\ at >= 1
      /\ assigned \subseteq Tables /\ used \subseteq Tables
      /\ Places /\ Disjoint /\ AllGood /\ Grouped = assigned \cup used /\ assigned \cap used = {}
  BY DEF MInv, Typed, Bookkept
<1>3. /\ tables' \in Estates /\ declared' \in DeclaredLists /\ pass' \in Passes
      /\ at' \in Nat /\ at' >= 1 /\ Tables' = Tables /\ UNCHANGED input
  BY <1>1, <1>2, SameInput DEF input, Passes
<1>4. Linked' /\ ExactSoFar'
  BY <1>1 DEF Linked, ExactSoFar
<1>5. Tried'
  <2>1. used \subseteq used'
    BY <1>1
  <2>2. Unassigned' = Unassigned /\ \A i : Partners(i)' \subseteq Partners(i)
    BY <1>1, <2>1, PartnersShrink
  <2>3. ~capped => \A i \in Unassigned \ used : Partners(i) = {}
    BY <1>1 DEF MInv, Tried
  <2> QED
    BY <1>1, <2>1, <2>2, <2>3 DEF Tried
<1>6. CASE UNCHANGED <<groups, used>>
  <2>1. Places' /\ Disjoint' /\ AllGood' /\ Grouped' = Grouped
    BY <1>2, <1>3, <1>6, NothingNew
  <2>2. Typed' /\ Bookkept'
    BY <1>1, <1>2, <1>3, <1>6, <2>1 DEF Typed, Bookkept
  <2> QED
    BY <1>4, <1>5, <2>1, <2>2 DEF MInv
<1>7. CASE /\ at \in Unassigned \ used /\ Open(at) # {}
           /\ groups' = [groups EXCEPT ![g] = y] /\ used' = used \cup {at}
  <2>4. g \in Open(at)
    BY <1>1, <1>7, BestOpen
  <2> HIDE DEF g, best
  <2>5. /\ g \in DOMAIN groups /\ groups[g].method = "field_overlap"
        /\ System(at) \notin SystemsOf(groups[g].tables)
        /\ Fit(at, g) >= PairThreshold
    BY <2>4 DEF Open
  <2>6. Good(groups[g]) /\ groups[g].tables \subseteq Tables
    BY <1>2, <2>5 DEF AllGood, Good, Shaped
  <2>7. \E j \in groups[g].tables : Paired(at, j)
    BY <1>1, <1>2, <2>5, <2>6, FitIs
  <2>8. Good(y) /\ y.tables = groups[g].tables \cup {at}
    BY <1>1, <1>2, <2>5, <2>6, <2>7, SweepGrows
  <2> HIDE DEF y
  <2>9. /\ DOMAIN groups' = DOMAIN groups /\ groups'[g] = y
        /\ \A h \in DOMAIN groups' : h # g => groups'[h] = groups[h]
    BY <1>7, <2>5
  <2>10. {at} \cap Grouped = {} /\ at \notin assigned
    BY <1>2, <1>7 DEF Unassigned
  <2>11. Places' /\ Disjoint' /\ AllGood' /\ Grouped' = Grouped \cup {at}
    <3>1. PICK taken : taken = {}
      OBVIOUS
    <3>2. /\ g \notin taken /\ taken \subseteq DOMAIN groups
          /\ y.tables = (UNION {groups[h].tables : h \in taken \cup {g}}) \cup {at}
          /\ DOMAIN groups' = DOMAIN groups \ taken
      BY <2>8, <2>9, <3>1
    <3> QED
      BY <1>2, <1>3, <2>5, <2>8, <2>9, <2>10, <3>2, OneGrows
  <2>12. Typed' /\ Bookkept'
    BY <1>1, <1>2, <1>3, <1>7, <2>10, <2>11 DEF Typed, Bookkept
  <2> QED
    BY <1>4, <1>5, <2>11, <2>12 DEF MInv
<1> QED
  BY <1>1, <1>6, <1>7

LEMMA MInvNext == MInv /\ [MatchNext]_matchVars => MInv'
<1> SUFFICES ASSUME MInv, [MatchNext]_matchVars
             PROVE  MInv'
  OBVIOUS
<1>1. CASE UNCHANGED matchVars
  <2>1. UNCHANGED <<input, groups, pass, at, assigned, used, capped>>
    BY <1>1 DEF matchVars, input
  <2>2. Places' /\ Disjoint' /\ AllGood' /\ Grouped' = Grouped
    BY <2>1, NothingNew DEF MInv
  <2>3. Typed' /\ Bookkept'
    BY <2>1, <2>2, SameInput DEF MInv, Typed, Bookkept, input
  <2>4. Linked'
    BY <2>1 DEF MInv, Linked, Fresh
  <2>5. ExactSoFar'
    BY <2>1, SameInput DEF MInv, ExactSoFar
  <2>6. Tried'
    <3>1. Unassigned' = Unassigned /\ \A i : Partners(i)' \subseteq Partners(i)
      BY <2>1, PartnersShrink
    <3> QED
      BY <2>1, <3>1 DEF MInv, Tried
  <2> QED
    BY <2>2, <2>3, <2>4, <2>5, <2>6 DEF MInv
<1> QED
  BY <1>1, ExactNameStep, FirstDoneSteps, DeclaredEntityStep, VocabularyEntryStep,
     VocabularyDoneStep, AnchorStep, LastDoneSteps, SweepStep DEF MatchNext

LEMMA Matched == MatchSpec => []MInv
BY MInvInit, MInvNext, PTL DEF MatchSpec

LEMMA SoundHolds == MInv => GroupsAreSound
<1> SUFFICES ASSUME MInv
             PROVE  GroupsAreSound
  OBVIOUS
<1>1. \A g \in DOMAIN groups : TwoSystems(groups[g])
  BY DEF MInv, AllGood, Good
<1> QED
  BY <1>1 DEF MInv, GroupsAreSound, Disjoint, Bookkept, TwoSystems, OneOfEach

LEMMA LabelsHold == MInv => MethodTellsHow
BY DEF MInv, AllGood, Good, Labelled, MethodTellsHow

LEMMA PairsHold == MInv => NoPairLeftBehind
<1> SUFFICES ASSUME MInv, pass = "done", ~capped, NEW i \in Tables \ Grouped, NEW j \in Tables \ Grouped,
                    System(i) # System(j), Paired(i, j)
             PROVE  FALSE
  BY DEF NoPairLeftBehind
<1>1. i \in Unassigned \ used /\ j \in Unassigned \ used /\ tables \in Estates
  BY DEF MInv, Typed, Bookkept, Unassigned
<1>2. Partners(i) = {} /\ Partners(j) = {}
  BY <1>1 DEF MInv, Tried
<1>3. Paired(j, i)
  BY <1>1, PairsBothWays DEF Unassigned
<1>4. i \in Nat /\ j \in Nat /\ i # j
  BY <1>1, TheTables
<1>5. CASE i < j
  BY <1>1, <1>2, <1>5 DEF Partners
<1>6. CASE j < i
  BY <1>1, <1>2, <1>3, <1>6 DEF Partners
<1> QED
  BY <1>4, <1>5, <1>6

-----------------------------------------------------------------------------
(* Tables the vocabulary knows *)

\* A group that normalizing makes known to an entry is known to it as it stands.
NamesKnown == \A g \in DOMAIN groups : \A v \in 1..Len(Vocabulary) :
                  Normal(groups[g].name) \in Vocabulary[v].synonyms
                      => groups[g].name \in Vocabulary[v].synonyms

\* The vocabulary pass has come to the entry.
Heard(v) == pass \in {"pairs", "sweep", "done"} \/ (pass = "vocabulary" /\ v < at)

\* The entry's tables are in its groups, as far as its systems have one there.
Included(v) == About(v) # {} =>
                   \A i \in Unassigned : Name(i) \in Vocabulary[v].synonyms =>
                       \E g \in About(v) : System(i) \in SystemsOf(groups[g].tables)

\* What later entries and passes keep of the entries heard.
KInv == NamesKnown /\ \A v \in 1..Len(Vocabulary) : Heard(v) => Included(v)

\* The groups of an entry are left alone.
LEMMA StaysIncluded ==
    ASSUME UNCHANGED input, assigned \subseteq assigned', NEW v, Included(v),
           \A g \in About(v) : g \in DOMAIN groups' /\ groups'[g] = groups[g],
           \A g \in DOMAIN groups' :
               \/ g \in DOMAIN groups /\ groups'[g] = groups[g]
               \/ groups'[g].method = "field_overlap"
               \/ Normal(groups'[g].name) \notin Vocabulary[v].synonyms
    PROVE  Included(v)'
<1>1. About(v)' = About(v)
  BY DEF About
<1>2. Unassigned' \subseteq Unassigned
  BY SameInput DEF Unassigned
<1>4. \A i : Name(i)' = Name(i) /\ System(i)' = System(i)
  BY SameInput
<1>5. ASSUME About(v)' # {}, NEW i \in Unassigned', Name(i)' \in Vocabulary[v].synonyms
      PROVE  \E g \in About(v)' : System(i)' \in SystemsOf(groups[g].tables)'
  <2>1. PICK g \in About(v) : System(i) \in SystemsOf(groups[g].tables)
    BY <1>1, <1>2, <1>4, <1>5 DEF Included
  <2>2. groups'[g] = groups[g]
    BY <2>1
  <2>3. SystemsOf(groups[g].tables)' = SystemsOf(groups[g].tables)
    BY <1>4, <2>2 DEF SystemsOf
  <2> QED
    BY <1>1, <1>4, <2>1, <2>3
<1> QED
  BY <1>5 DEF Included

LEMMA KInvInit == MatchInit => KInv
BY DEF MatchInit, KInv, NamesKnown, Heard

\* The names that groups are given.
LEMMA NewNames ==
    ASSUME KnownNames, MInv, NEW n,
           \/ \E i \in Tables : n = Name(i)
           \/ \E d \in 1..Len(declared) : n = DeclaredName(declared[d])
           \/ \E v \in 1..Len(Vocabulary) : n = Vocabulary[v].name,
           NEW v \in 1..Len(Vocabulary), Normal(n) \in Vocabulary[v].synonyms
    PROVE  n \in Vocabulary[v].synonyms
<1>1. tables \in Estates /\ declared \in DeclaredLists
  BY DEF MInv, Typed
<1>2. CASE \E i \in Tables : n = Name(i)
  BY <1>1, <1>2 DEF KnownNames, Tables, Name
<1>3. CASE \E d \in 1..Len(declared) : n = DeclaredName(declared[d])
  BY <1>1, <1>3 DEF KnownNames, DeclaredName
<1>4. CASE \E w \in 1..Len(Vocabulary) : n = Vocabulary[w].name
  <2>1. PICK w \in 1..Len(Vocabulary) : n = Vocabulary[w].name
    BY <1>4
  <2>2. Normal(n) = n
    BY <2>1, MatchAssumption
  <2> QED
    BY <2>2
<1> QED
  BY <1>2, <1>3, <1>4

\* Every group is an old one, grown or not, or has a new name.
LEMMA NamesStay ==
    ASSUME KnownNames, MInv, NamesKnown,
           \A g \in DOMAIN groups' :
               \/ \E h \in DOMAIN groups : groups'[g].name = groups[h].name
               \/ \E i \in Tables : groups'[g].name = Name(i)
               \/ \E d \in 1..Len(declared) : groups'[g].name = DeclaredName(declared[d])
               \/ \E v \in 1..Len(Vocabulary) : groups'[g].name = Vocabulary[v].name
    PROVE  NamesKnown'
<1> SUFFICES ASSUME NEW g \in DOMAIN groups', NEW v \in 1..Len(Vocabulary),
                    Normal(groups'[g].name) \in Vocabulary[v].synonyms
             PROVE  groups'[g].name \in Vocabulary[v].synonyms
  BY DEF NamesKnown
<1>1. CASE \E h \in DOMAIN groups : groups'[g].name = groups[h].name
  BY <1>1 DEF NamesKnown
<1>2. PICK n : n = groups'[g].name
  OBVIOUS
<1>3. CASE \/ \E i \in Tables : n = Name(i)
           \/ \E d \in 1..Len(declared) : n = DeclaredName(declared[d])
           \/ \E w \in 1..Len(Vocabulary) : n = Vocabulary[w].name
  BY <1>2, <1>3, NewNames
<1> QED
  BY <1>1, <1>2, <1>3

LEMMA AddedIs ==
    ASSUME Places, NEW x, groups' = With(x)
    PROVE  /\ DOMAIN groups' = DOMAIN groups \cup {NewPlace} /\ groups'[NewPlace] = x
           /\ \A g \in DOMAIN groups : g # NewPlace /\ groups'[g] = groups[g]
<1>1. NewPlace \notin DOMAIN groups
  BY PlaceIsNew
<1> QED
  BY <1>1 DEF With

LEMMA QuietSteps ==
    ASSUME KnownNames, MInv, KInv,
           ExactDone \/ DeclaredDone \/ VocabularyDone \/ PairsDone \/ SweepDone \/ UNCHANGED matchVars
    PROVE  KInv'
<1>1. /\ UNCHANGED <<input, groups, assigned>>
      /\ \A v \in 1..Len(Vocabulary) : Heard(v)' => Heard(v)
  <2>1. CASE ExactDone \/ DeclaredDone
    <3>1. \A v \in 1..Len(Vocabulary) : ~(v < 1)
      OBVIOUS
    <3> QED
      BY <2>1, <3>1 DEF ExactDone, DeclaredDone, GoOn, Heard
  <2>2. CASE VocabularyDone
    <3>1. /\ pass = "vocabulary" /\ at \notin 1..Len(Vocabulary) /\ UNCHANGED <<input, groups, assigned>>
          /\ pass' \in {"done", "pairs"}
      BY <2>2 DEF VocabularyDone, GoOn
    <3>2. \A v \in 1..Len(Vocabulary) : v < at
      <4>1. at \in Nat /\ at >= 1 /\ Len(Vocabulary) \in Nat
        BY MatchAssumption DEF MInv, Typed
      <4> QED
        BY <3>1, <4>1
    <3> QED
      BY <3>1, <3>2 DEF Heard
  <2>3. CASE PairsDone \/ SweepDone
    BY <2>3 DEF PairsDone, SweepDone, GoOn, Heard
  <2>4. CASE UNCHANGED matchVars
    BY <2>4 DEF matchVars, input, Heard
  <2> QED
    BY <2>1, <2>2, <2>3, <2>4
<1>2. NamesKnown'
  BY <1>1 DEF KInv, NamesKnown
<1>3. ASSUME NEW v \in 1..Len(Vocabulary), Heard(v)'
      PROVE  Included(v)'
  <2>1. Included(v)
    BY <1>1, <1>3 DEF KInv
  <2>2. \A g \in About(v) : g \in DOMAIN groups'
    BY <1>1 DEF About
  <2> QED
    BY <1>1, <2>1, <2>2, StaysIncluded
<1> QED
  BY <1>2, <1>3 DEF KInv

LEMMA EarlySteps ==
    ASSUME KnownNames, MInv, KInv, ExactName \/ DeclaredEntity
    PROVE  KInv'
<1>1. \A v : ~Heard(v)'
  BY DEF ExactName, DeclaredEntity, GoOn, Heard
<1>2. ASSUME NEW n, NEW T, NEW m, groups' = With(NewGroup(n, T, m)),
             \/ \E i \in Tables : n = Name(i)
             \/ \E d \in 1..Len(declared) : n = DeclaredName(declared[d])
      PROVE  NamesKnown'
  <2> DEFINE x == NewGroup(n, T, m)
  <2>1. x.name = n
    BY DEF NewGroup
  <2> HIDE DEF x
  <2>2. /\ DOMAIN groups' = DOMAIN groups \cup {NewPlace} /\ groups'[NewPlace] = x
        /\ \A g \in DOMAIN groups : g # NewPlace /\ groups'[g] = groups[g]
    BY <1>2, AddedIs DEF MInv, x
  <2>3. \A g \in DOMAIN groups' : g = NewPlace \/ g \in DOMAIN groups
    BY <2>2
  <2>4. \A g \in DOMAIN groups' : \/ groups'[g].name = n
                                  \/ \E h \in DOMAIN groups : groups'[g].name = groups[h].name
    BY <2>1, <2>2, <2>3
  <2> QED
    BY <1>2, <2>4, NamesStay DEF KInv
<1>3. CASE UNCHANGED groups
  BY <1>1, <1>3 DEF KInv, NamesKnown
<1>4. CASE ExactName
  <2>1. at \in Tables /\ (groups' = groups \/
                          groups' = With(NewGroup(Name(at), FirstPerSystem(SameName(at)), "exact")))
    BY <1>4 DEF ExactName
  <2> QED
    BY <1>1, <1>2, <1>3, <2>1 DEF KInv
<1>5. CASE DeclaredEntity
  <2> DEFINE entity == declared[at]
             chosen == BestPerSystem(entity.fields)
             there == GroupsOf(entity)
             g == First(there)
             new == NewTo(groups[g], chosen)
             y == Attach(groups[g], new, "declared")
             x == NewGroup(DeclaredName(entity), chosen, "declared")
  <2>1. /\ at \in 1..Len(declared)
        /\ \/ groups' = [groups EXCEPT ![g] = y]
           \/ groups' = With(x)
           \/ groups' = groups
    BY <1>5 DEF DeclaredEntity
  <2>2. y.name = groups[g].name
    BY DEF Attach
  <2> HIDE DEF y
  <2>3. CASE groups' = [groups EXCEPT ![g] = y]
    <3>1. \A h \in DOMAIN groups' : h \in DOMAIN groups /\ groups'[h].name = groups[h].name
      <4> HIDE DEF g
      <4> QED
        BY <2>2, <2>3
    <3>2. NamesKnown'
      BY <3>1 DEF KInv, NamesKnown
    <3> QED
      BY <1>1, <3>2 DEF KInv
  <2>4. CASE groups' = With(x)
    BY <1>1, <1>2, <2>1, <2>4 DEF KInv
  <2> QED
    BY <1>1, <1>3, <2>1, <2>3, <2>4 DEF KInv
<1> QED
  BY <1>4, <1>5


\* A group of an entry that has a table of each system the entry knows one of.
LEMMA KnownIncluded ==
    ASSUME UNCHANGED input, assigned \subseteq assigned', tables \in Estates,
           NEW v \in 1..Len(Vocabulary), NEW g \in DOMAIN groups', NEW y, groups'[g] = y,
           y.name \in Vocabulary[v].synonyms, y.method # "field_overlap",
           \A j \in Known(v) : System(j) \in SystemsOf(y.tables)
    PROVE  Included(v)'
<1>1. Normal(y.name) \in Vocabulary[v].synonyms
  BY MatchAssumption
<1>2. g \in About(v)'
  BY <1>1 DEF About
<1>3. Unassigned' \subseteq Unassigned /\ \A i : Name(i)' = Name(i) /\ System(i)' = System(i)
  BY SameInput DEF Unassigned
<1>4. SystemsOf(groups[g].tables)' = SystemsOf(y.tables)
  BY <1>3 DEF SystemsOf
<1>5. ASSUME NEW i \in Unassigned', Name(i)' \in Vocabulary[v].synonyms
      PROVE  System(i)' \in SystemsOf(groups[g].tables)'
  <2>1. PICK j \in Known(v) : System(j) = System(i)
    BY <1>3, <1>5, KnownAre
  <2> QED
    BY <1>3, <1>4, <2>1
<1> QED
  BY <1>2, <1>5 DEF Included

LEMMA VocabularyEntryKnows ==
    ASSUME KnownNames, MInv, KInv, VocabularyEntry
    PROVE  KInv'
<1> DEFINE chosen == Known(at)
           there == CompatibleGroups(at)
           g == First(there)
           taken == Absorbed(there)
           grown == Merged(g, taken)
           new == NewTo(grown, chosen)
           x == NewGroup(Vocabulary[at].name, chosen, "vocabulary")
           y == Attach(grown, new, "vocabulary")
           known == Vocabulary[at].synonyms
<1>1. /\ pass = "vocabulary" /\ at \in 1..Len(Vocabulary) /\ pass' = "vocabulary" /\ at' = at + 1
      /\ UNCHANGED input
  BY DEF VocabularyEntry, GoOn
<1>2. tables \in Estates /\ Places
  BY DEF MInv, Typed
<1>3. /\ there # {} => /\ groups' = [h \in DOMAIN groups \ taken |->
                                        IF h = g THEN y ELSE groups[h]]
                       /\ assigned' = assigned \cup new
      /\ there = {} => \/ groups' = With(x) /\ assigned' = assigned \cup chosen
                       \/ UNCHANGED <<groups, assigned>>
  BY DEF VocabularyEntry
<1>4. there # {} =>
        /\ g \in there /\ g \notin taken /\ taken \subseteq there
        /\ y.name = groups[g].name /\ y.method # "field_overlap"
        /\ \A i \in chosen : System(i) \in SystemsOf(y.tables)
  BY <1>1, EntryGrows
<1>5. \A h : h \in there <=> h \in DOMAIN groups /\ groups[h].name \in known
  BY DEF CompatibleGroups, Named
<1>6. x.name = Vocabulary[at].name /\ x.tables = chosen /\ x.method = "vocabulary"
  BY DEF NewGroup
<1>7. x.name \in known /\ Normal(x.name) \in known
  BY <1>1, <1>6, MatchAssumption
<1>8. \A i \in chosen : System(i) \in SystemsOf(x.tables)
  BY <1>6 DEF SystemsOf
<1>9. /\ NamesKnown /\ assigned \subseteq assigned'
      /\ \A v \in 1..Len(Vocabulary) : Heard(v) => Included(v)
  BY <1>3 DEF KInv
<1>10. ASSUME NEW v \in 1..Len(Vocabulary), Heard(v)', v # at
       PROVE  Included(v) /\ Vocabulary[v].synonyms \cap known = {}
  <2>1. v < at + 1 /\ at \in Nat
    BY <1>1, <1>10 DEF Heard
  <2>2. Heard(v)
    BY <1>1, <1>10, <2>1 DEF Heard
  <2> QED
    BY <1>1, <1>9, <1>10, <2>2, MatchAssumption
<1>11. \A v \in 1..Len(Vocabulary) : \A h \in About(v) :
           h \in DOMAIN groups /\ groups[h].name \in Vocabulary[v].synonyms
  BY <1>9 DEF About, NamesKnown
<1> HIDE DEF chosen, there, g, taken, grown, new, x, y
<1>12. PICK w \in 1..Len(Vocabulary) : w = at
  BY <1>1
<1>13. CASE there = {} /\ UNCHANGED <<groups, assigned>>
  <2>1. NamesKnown'
    BY <1>9, <1>13 DEF NamesKnown
  <2>2. About(w)' = {}
    BY <1>1, <1>5, <1>11, <1>13, <1>12 DEF About
  <2>3. Included(w)'
    BY <2>2 DEF Included
  <2>4. ASSUME NEW v \in 1..Len(Vocabulary), Heard(v)', v # at
        PROVE  Included(v)'
    <3>1. Included(v) /\ \A h \in About(v) : h \in DOMAIN groups'
      BY <1>10, <1>11, <1>13, <2>4
    <3> QED
      BY <1>1, <1>13, <3>1, StaysIncluded
  <2> QED
    BY <1>12, <2>1, <2>3, <2>4 DEF KInv
<1>14. CASE there = {} /\ groups' = With(x)
  <2>1. /\ DOMAIN groups' = DOMAIN groups \cup {NewPlace} /\ groups'[NewPlace] = x
        /\ \A h \in DOMAIN groups : h # NewPlace /\ groups'[h] = groups[h]
    BY <1>2, <1>14, AddedIs
  <2>2. \A h \in DOMAIN groups' : h = NewPlace \/ h \in DOMAIN groups
    BY <2>1
  <2>3. NamesKnown'
    <3>1. \A h \in DOMAIN groups' : \/ groups'[h].name = Vocabulary[at].name
                                    \/ \E k \in DOMAIN groups : groups'[h].name = groups[k].name
      BY <1>6, <2>1, <2>2
    <3> QED
      BY <1>1, <1>9, <3>1, NamesStay
  <2>4. Included(w)'
    <3>1. NewPlace \in DOMAIN groups' /\ groups'[NewPlace] = x /\ x.method # "field_overlap"
      BY <1>6, <2>1
    <3>2. \A i \in Known(at) : System(i) \in SystemsOf(x.tables)
      BY <1>8 DEF chosen
    <3> QED
      BY <1>1, <1>2, <1>7, <1>9, <1>12, <3>1, <3>2, KnownIncluded
  <2>5. ASSUME NEW v \in 1..Len(Vocabulary), Heard(v)', v # at
        PROVE  Included(v)'
    <3>1. Included(v) /\ Normal(x.name) \notin Vocabulary[v].synonyms
      BY <1>7, <1>10, <2>5
    <3>2. \A h \in About(v) : h \in DOMAIN groups' /\ groups'[h] = groups[h]
      BY <1>11, <2>1
    <3>3. \A h \in DOMAIN groups' : \/ h \in DOMAIN groups /\ groups'[h] = groups[h]
                                    \/ Normal(groups'[h].name) \notin Vocabulary[v].synonyms
      BY <2>1, <2>2, <3>1
    <3> QED
      BY <1>1, <1>9, <3>1, <3>2, <3>3, StaysIncluded
  <2> QED
    BY <1>12, <2>3, <2>4, <2>5 DEF KInv
<1>15. CASE there # {}
  <2>1. /\ g \in DOMAIN groups /\ g \notin taken /\ taken \subseteq there
        /\ groups[g].name \in known /\ y.name = groups[g].name /\ y.method # "field_overlap"
        /\ \A i \in chosen : System(i) \in SystemsOf(y.tables)
    BY <1>4, <1>5, <1>15
  <2>2. /\ DOMAIN groups' = DOMAIN groups \ taken /\ groups'[g] = y /\ g \in DOMAIN groups'
        /\ \A h \in DOMAIN groups' : h # g => h \in DOMAIN groups /\ groups'[h] = groups[h]
    BY <1>3, <1>15, <2>1
  <2>3. NamesKnown'
    <3>1. \A h \in DOMAIN groups' : \E k \in DOMAIN groups : groups'[h].name = groups[k].name
      BY <2>1, <2>2
    <3> QED
      BY <1>9, <3>1, NamesStay
  <2>4. Included(w)'
    <3>1. y.name \in known /\ \A i \in Known(at) : System(i) \in SystemsOf(y.tables)
      BY <2>1 DEF chosen
    <3> QED
      BY <1>1, <1>2, <1>9, <1>12, <2>1, <2>2, <3>1, KnownIncluded
  <2>5. ASSUME NEW v \in 1..Len(Vocabulary), Heard(v)', v # at
        PROVE  Included(v)'
    <3>1. /\ Included(v) /\ Vocabulary[v].synonyms \cap known = {}
          /\ \A h \in About(v) : h \in DOMAIN groups /\ groups[h].name \in Vocabulary[v].synonyms
      BY <1>10, <1>11, <2>5
    <3>2. \A h \in About(v) : h # g /\ h \notin taken
      BY <1>5, <2>1, <3>1
    <3>3. \A h \in About(v) : h \in DOMAIN groups' /\ groups'[h] = groups[h]
      BY <2>2, <3>1, <3>2
    <3>4. Normal(y.name) \in known
      BY <1>1, <2>1, MatchAssumption
    <3>5. \A h \in DOMAIN groups' : \/ h \in DOMAIN groups /\ groups'[h] = groups[h]
                                    \/ Normal(groups'[h].name) \notin Vocabulary[v].synonyms
      BY <2>2, <3>1, <3>4
    <3> QED
      BY <1>1, <1>9, <3>1, <3>3, <3>5, StaysIncluded
  <2> QED
    BY <1>12, <2>3, <2>4, <2>5 DEF KInv
<1> QED
  BY <1>3, <1>13, <1>14, <1>15

LEMMA AnchorKnows ==
    ASSUME KnownNames, MInv, KInv, Anchor
    PROVE  KInv'
<1> DEFINE x == NewGroup(Name(at), {at} \cup FirstPerSystem(Partners(at)), "field_overlap")
<1>1. /\ pass = "pairs" /\ pass' = "pairs" /\ at \in Tables /\ UNCHANGED <<input, assigned>>
      /\ groups' = With(x) \/ groups' = groups
  BY DEF Anchor, GoOn
<1>2. /\ NamesKnown /\ Places
      /\ \A v \in 1..Len(Vocabulary) : /\ Included(v)
                                       /\ \A h \in About(v) : h \in DOMAIN groups
  BY <1>1 DEF KInv, MInv, Heard, About
<1>3. x.name = Name(at) /\ x.method = "field_overlap"
  BY DEF NewGroup
<1> HIDE DEF x
<1>4. /\ NamesKnown'
      /\ \A h \in DOMAIN groups : h \in DOMAIN groups' /\ groups'[h] = groups[h]
      /\ \A h \in DOMAIN groups' : \/ h \in DOMAIN groups /\ groups'[h] = groups[h]
                                   \/ groups'[h].method = "field_overlap"
  <2>1. CASE groups' = groups
    BY <1>2, <2>1 DEF NamesKnown
  <2>2. CASE groups' = With(x)
    <3>1. /\ DOMAIN groups' = DOMAIN groups \cup {NewPlace} /\ groups'[NewPlace] = x
          /\ \A h \in DOMAIN groups : h # NewPlace /\ groups'[h] = groups[h]
      BY <1>2, <2>2, AddedIs
    <3>2. \A h \in DOMAIN groups' : h = NewPlace \/ h \in DOMAIN groups
      BY <3>1
    <3>3. \A h \in DOMAIN groups' : \/ groups'[h].name = Name(at)
                                    \/ \E k \in DOMAIN groups : groups'[h].name = groups[k].name
      BY <1>3, <3>1, <3>2
    <3>4. NamesKnown'
      BY <1>1, <1>2, <3>3, NamesStay
    <3> QED
      BY <1>3, <3>1, <3>2, <3>4
  <2> QED
    BY <1>1, <2>1, <2>2
<1>5. ASSUME NEW v \in 1..Len(Vocabulary)
      PROVE  Included(v)'
  <2>1. Included(v) /\ \A h \in About(v) : h \in DOMAIN groups' /\ groups'[h] = groups[h]
    BY <1>2, <1>4
  <2> QED
    BY <1>1, <1>4, <2>1, StaysIncluded
<1> QED
  BY <1>4, <1>5 DEF KInv

LEMMA SweepKnows ==
    ASSUME KnownNames, MInv, KInv, Sweep
    PROVE  KInv'
<1> DEFINE g == First({h \in Open(at) : \A k \in Open(at) : Fit(at, k) <= Fit(at, h)})
           y == [groups[g] EXCEPT !.tables = @ \cup {at}]
<1>1. /\ pass = "sweep" /\ pass' = "sweep" /\ UNCHANGED <<input, assigned>>
      /\ \/ Open(at) # {} /\ at \in Tables /\ groups' = [groups EXCEPT ![g] = y]
         \/ groups' = groups
  BY DEF Sweep, GoOn
<1>2. /\ NamesKnown /\ Places
      /\ \A v \in 1..Len(Vocabulary) : /\ Included(v)
                                       /\ \A h \in About(v) : h \in DOMAIN groups /\ groups[h].method # "field_overlap"
  BY <1>1 DEF KInv, MInv, Heard, About
<1>3. Open(at) # {} /\ at \in Tables => g \in DOMAIN groups /\ groups[g].method = "field_overlap"
  BY BestOpen DEF Open
<1>4. \/ groups' = groups
      \/ /\ g \in DOMAIN groups /\ groups[g].method = "field_overlap"
         /\ groups' = [groups EXCEPT ![g] = y]
  BY <1>1, <1>3
<1>5. \A h \in DOMAIN groups' : /\ h \in DOMAIN groups
                                /\ groups'[h].name = groups[h].name
                                /\ \/ groups'[h] = groups[h]
                                   \/ groups[h].method = "field_overlap" /\ groups'[h].method = "field_overlap"
  <2> HIDE DEF g
  <2>1. g \in DOMAIN groups => y.name = groups[g].name /\ y.method = groups[g].method
    BY DEF MInv, AllGood, Good, Shaped
  <2> HIDE DEF y
  <2> QED
    BY <1>4, <2>1
<1> HIDE DEF g, y
<1>6. DOMAIN groups' = DOMAIN groups
  BY <1>4
<1>7. NamesKnown'
  BY <1>2, <1>5 DEF NamesKnown
<1>8. ASSUME NEW v \in 1..Len(Vocabulary)
      PROVE  Included(v)'
  <2>1. /\ Included(v) /\ \A h \in About(v) : h \in DOMAIN groups' /\ groups'[h] = groups[h]
    BY <1>2, <1>5, <1>6
  <2>2. \A h \in DOMAIN groups' : \/ h \in DOMAIN groups /\ groups'[h] = groups[h]
                                  \/ groups'[h].method = "field_overlap"
    BY <1>5
  <2> QED
    BY <1>1, <2>1, <2>2, StaysIncluded
<1> QED
  BY <1>7, <1>8 DEF KInv

LEMMA KInvNext == KnownNames /\ MInv /\ KInv /\ [MatchNext]_matchVars => KInv'
BY QuietSteps, EarlySteps, VocabularyEntryKnows, AnchorKnows, SweepKnows DEF MatchNext

LEMMA NoneExcluded == KInv => NoKnownTableExcluded
BY DEF KInv, NoKnownTableExcluded, Included, Heard

-----------------------------------------------------------------------------
(* What build_entity_groups returns *)

\* At every moment a table is in one group at most, a group has one table of a
\* system and of two systems or more, and a pass looks again exactly at what the
\* passes before it left without a group: whatever the tables, their fields, the
\* declared entities and the vocabulary.
THEOREM GroupsSound == MatchSpec => []GroupsAreSound
<1>1. MInv => GroupsAreSound
  BY SoundHolds
<1> QED
  BY <1>1, Matched, PTL

\* A group's method is no stronger than any of its links, also when two groups were
\* made one; each link was made the way its label says; an exact group has one name.
THEOREM MethodsTellHow == MatchSpec => []MethodTellsHow
<1>1. MInv => MethodTellsHow
  BY LabelsHold
<1> QED
  BY <1>1, Matched, PTL

\* No two tables without a group pair with each other when the matcher returns,
\* unless it says that the last pass was capped.
THEOREM NoPairIsLeft == MatchSpec => []NoPairLeftBehind
<1>1. MInv => NoPairLeftBehind
  BY PairsHold
<1> QED
  BY <1>1, Matched, PTL

\* When every name that normalizes to one the vocabulary knows is itself one, no
\* known table is left out of the groups of its entity: later entries of the
\* vocabulary and the later passes keep what an entry brought together.
THEOREM KnownTablesIncluded == ASSUME KnownNames
                               PROVE  MatchSpec => []NoKnownTableExcluded
<1>1. MatchInit => KInv
  BY KInvInit
<1>2. MInv /\ KInv /\ [MatchNext]_matchVars => KInv'
  BY KInvNext
<1>3. KInv => NoKnownTableExcluded
  BY NoneExcluded
<1> QED
  BY <1>1, <1>2, <1>3, Matched, PTL DEF MatchSpec
===============================================================================
