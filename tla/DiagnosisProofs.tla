--------------------------- MODULE DiagnosisProofs ---------------------------
(***************************************************************************)
(* Theorems about Readiness, for any weights and findings, and about       *)
(* Diagnosis, for any estate: a sequence of systems with any tables.       *)
(*                                                                         *)
(* Monotonicity is the thread.  A finding more makes a penalty grow, the   *)
(* score fall and the verdict no better.  On an estate a system more adds  *)
(* many findings at once, and takes none away as long as the matcher still *)
(* puts every earlier pair of tables together.  What a GO may hide and     *)
(* what the plan explains is arithmetic about the default weights, and is  *)
(* stated for those.                                                       *)
(***************************************************************************)
EXTENDS Diagnosis, TLAPS, FiniteSetTheorems

\* A product is monotonic in a factor.
LEMMA ProductMonotonic ==
    ASSUME NEW w \in Nat, NEW a \in Int, NEW b \in Int, a <= b
    PROVE  a * w <= b * w
<1> DEFINE d == b - a
<1>1. d \in Nat /\ b = a + d
  BY SMT
<1>2. d * w \in Nat
  BY <1>1, SMT
<1>3. b * w = a * w + d * w
  BY <1>1, SMT
<1>4. a * w \in Int /\ b * w \in Int
  BY SMT
<1> QED
  BY <1>2, <1>3, <1>4, SMT

\* The products of the weighted sum are integers.
LEMMA ProductInt ==
    ASSUME NEW w \in Nat, NEW a \in Int
    PROVE  a * w \in Int
BY SMT

LEMMA ProductBounded ==
    ASSUME NEW w \in Nat, NEW a \in 0..100
    PROVE  a * w \in 0..(100 * w)
<1>1. a \in Int /\ 0 <= a /\ a <= 100
  OBVIOUS
<1>2. 0 * w <= a * w /\ a * w <= 100 * w
  BY <1>1, ProductMonotonic
<1>3. a * w \in Int /\ 0 * w = 0
  BY <1>1, ProductInt
<1> QED
  BY <1>2, <1>3

\* The score of a category is within 0 and 100 and falls as its penalty grows.
LEMMA ScoreBounded ==
    ASSUME NEW p \in Nat
    PROVE  Score(p) \in 0..100
BY DEF Score

LEMMA ScoreMonotonic ==
    ASSUME NEW p \in Nat, NEW q \in Nat, p <= q
    PROVE  Score(q) <= Score(p)
BY DEF Score

\* The weighted sum of five scores, for the proofs about Overall.
Sum(s, p, m, d, x) ==
    s * Weight["schema"] + p * Weight["pipeline"] + m * Weight["middleware"]
      + d * Weight["dataQuality"] + x * Weight["security"]

LEMMA WeightsAreNat ==
    /\ Weight["schema"] \in Nat /\ Weight["pipeline"] \in Nat
    /\ Weight["middleware"] \in Nat /\ Weight["dataQuality"] \in Nat
    /\ Weight["security"] \in Nat
BY WeightAssumption DEF Categories

\* Scores that all fall let the sum fall.
LEMMA SumMonotonic ==
    ASSUME NEW s \in Int, NEW p \in Int, NEW m \in Int, NEW d \in Int, NEW x \in Int,
           NEW s2 \in Int, NEW p2 \in Int, NEW m2 \in Int, NEW d2 \in Int, NEW x2 \in Int,
           s2 <= s, p2 <= p, m2 <= m, d2 <= d, x2 <= x
    PROVE  Sum(s2, p2, m2, d2, x2) <= Sum(s, p, m, d, x)
<1>1. /\ s2 * Weight["schema"] <= s * Weight["schema"]
      /\ p2 * Weight["pipeline"] <= p * Weight["pipeline"]
      /\ m2 * Weight["middleware"] <= m * Weight["middleware"]
      /\ d2 * Weight["dataQuality"] <= d * Weight["dataQuality"]
      /\ x2 * Weight["security"] <= x * Weight["security"]
  BY WeightsAreNat, ProductMonotonic
<1>2. /\ s2 * Weight["schema"] \in Int /\ s * Weight["schema"] \in Int
      /\ p2 * Weight["pipeline"] \in Int /\ p * Weight["pipeline"] \in Int
      /\ m2 * Weight["middleware"] \in Int /\ m * Weight["middleware"] \in Int
      /\ d2 * Weight["dataQuality"] \in Int /\ d * Weight["dataQuality"] \in Int
      /\ x2 * Weight["security"] \in Int /\ x * Weight["security"] \in Int
  BY WeightsAreNat, ProductInt
<1> QED
  BY <1>1, <1>2 DEF Sum

-----------------------------------------------------------------------------
(***************************************************************************)
(* The penalties are natural numbers, and grow with the findings.          *)
(***************************************************************************)

LEMMA PenaltiesAreNat ==
    ASSUME TypeOK
    PROVE  /\ SchemaPenalty \in Nat /\ PipelinePenalty \in Nat
           /\ MiddlewarePenalty \in Nat /\ DataQualityPenalty \in Nat
           /\ SecurityPenalty \in Nat
<1>1. \A k \in Kinds : findings[k] \in Nat
  BY DEF TypeOK
<1> QED
  BY <1>1 DEF Kinds, N, SchemaPenalty, Inconsistencies, PipelinePenalty,
     MiddlewarePenalty, Blocking, CriticalGaps, Gaps, DataQualityPenalty,
     FailedChecks, SecurityPenalty

LEMMA ScoresInRange ==
    ASSUME TypeOK
    PROVE  /\ SchemaScore \in 0..100 /\ PipelineScore \in 0..100
           /\ MiddlewareScore \in 0..100 /\ DataQualityScore \in 0..100
           /\ SecurityScore \in 0..100
BY PenaltiesAreNat, ScoreBounded DEF SchemaScore, PipelineScore, MiddlewareScore,
   DataQualityScore, SecurityScore

LEMMA OverallIsSum ==
    Overall = Sum(SchemaScore, PipelineScore, MiddlewareScore, DataQualityScore,
                  SecurityScore)
BY DEF Overall, Sum

LEMMA OverallInt ==
    ASSUME TypeOK
    PROVE  Overall \in Int
<1>1. /\ SchemaScore * Weight["schema"] \in Int
      /\ PipelineScore * Weight["pipeline"] \in Int
      /\ MiddlewareScore * Weight["middleware"] \in Int
      /\ DataQualityScore * Weight["dataQuality"] \in Int
      /\ SecurityScore * Weight["security"] \in Int
  BY SMTT(30), ScoresInRange, WeightsAreNat, ProductInt
<1> QED
  BY <1>1 DEF Overall

\* Every weighted score lies between 0 and the weight's share of 100.
LEMMA OverallBounded ==
    ASSUME TypeOK
    PROVE  ScoreInRange
<1> DEFINE ws == Weight["schema"]
           wp == Weight["pipeline"]
           wm == Weight["middleware"]
           wd == Weight["dataQuality"]
           wx == Weight["security"]
<1>1. ws \in Nat /\ wp \in Nat /\ wm \in Nat /\ wd \in Nat /\ wx \in Nat
  BY WeightsAreNat
<1>2. ws + wp + wm + wd + wx = 100
  BY WeightAssumption
<1>3. /\ SchemaScore * ws \in 0..(100 * ws) /\ PipelineScore * wp \in 0..(100 * wp)
      /\ MiddlewareScore * wm \in 0..(100 * wm)
      /\ DataQualityScore * wd \in 0..(100 * wd)
      /\ SecurityScore * wx \in 0..(100 * wx)
  BY <1>1, ScoresInRange, ProductBounded
<1>4. Overall = SchemaScore * ws + PipelineScore * wp + MiddlewareScore * wm
                + DataQualityScore * wd + SecurityScore * wx
  BY DEF Overall
<1> DEFINE s == SchemaScore * ws
           p == PipelineScore * wp
           m == MiddlewareScore * wm
           d == DataQualityScore * wd
           x == SecurityScore * wx
<1>5. /\ s \in 0..(100 * ws) /\ p \in 0..(100 * wp) /\ m \in 0..(100 * wm)
      /\ d \in 0..(100 * wd) /\ x \in 0..(100 * wx)
      /\ Overall = s + p + m + d + x
  BY <1>3, <1>4
<1> HIDE DEF s, p, m, d, x, ws, wp, wm, wd, wx
<1> QED
  BY <1>1, <1>2, <1>5 DEF ScoreInRange

LEMMA PenaltiesGrow ==
    ASSUME TypeOK, NEW kind \in Found, Find(kind)
    PROVE  /\ SchemaPenalty' \in Nat /\ SchemaPenalty <= SchemaPenalty'
           /\ PipelinePenalty' \in Nat /\ PipelinePenalty <= PipelinePenalty'
           /\ MiddlewarePenalty' \in Nat /\ MiddlewarePenalty <= MiddlewarePenalty'
           /\ DataQualityPenalty' \in Nat
           /\ DataQualityPenalty <= DataQualityPenalty'
           /\ SecurityPenalty' \in Nat /\ SecurityPenalty <= SecurityPenalty'
<1>1. \A k \in Kinds : findings[k] \in Nat /\ findings'[k] \in Nat
                         /\ findings[k] <= findings'[k]
  BY BoundAssumption DEF TypeOK, Find
<1> QED
  BY <1>1 DEF Kinds, N, SchemaPenalty, Inconsistencies, PipelinePenalty,
     MiddlewarePenalty, Blocking, CriticalGaps, Gaps, DataQualityPenalty,
     FailedChecks, SecurityPenalty

-----------------------------------------------------------------------------
(***************************************************************************)
(* The theorems.                                                           *)
(***************************************************************************)

LEMMA TypeStep ==
    ASSUME TypeOK, [Next]_findings
    PROVE  TypeOK'
<1>1. CASE UNCHANGED findings
  BY <1>1 DEF TypeOK
<1>2. ASSUME NEW kind \in Found, Find(kind)
      PROVE  TypeOK'
  BY <1>2, BoundAssumption DEF TypeOK, Find
<1> QED
  BY <1>1, <1>2 DEF Next

\* The findings stay counts of the kinds the calculator tells apart.
THEOREM TypeCorrect == Spec => []TypeOK
<1>1. Init => TypeOK
  BY DEF Init, TypeOK
<1>2. TypeOK /\ [Next]_findings => TypeOK'
  BY TypeStep
<1> QED
  BY <1>1, <1>2, PTL DEF Spec

\* The overall score lies between 0 and 100 whatever is found.
THEOREM ScoreStaysInRange == Spec => []ScoreInRange
<1>1. TypeOK => ScoreInRange
  BY OverallBounded
<1> QED
  BY <1>1, TypeCorrect, PTL

\* Penalties that all grow lower the score, or leave it where it is.
LEMMA WorseScore ==
    ASSUME TypeOK, TypeOK',
           SchemaPenalty <= SchemaPenalty', PipelinePenalty <= PipelinePenalty',
           MiddlewarePenalty <= MiddlewarePenalty',
           DataQualityPenalty <= DataQualityPenalty', SecurityPenalty <= SecurityPenalty'
    PROVE  Overall' <= Overall /\ Overall \in Int /\ Overall' \in Int
<1>1. /\ SchemaPenalty' \in Nat /\ PipelinePenalty' \in Nat /\ MiddlewarePenalty' \in Nat
      /\ DataQualityPenalty' \in Nat /\ SecurityPenalty' \in Nat
  <2>1. (TypeOK => /\ SchemaPenalty \in Nat /\ PipelinePenalty \in Nat
                   /\ MiddlewarePenalty \in Nat /\ DataQualityPenalty \in Nat
                   /\ SecurityPenalty \in Nat)'
    BY PenaltiesAreNat, PTL
  <2> QED
    BY <2>1
<1>2. /\ SchemaScore' <= SchemaScore /\ PipelineScore' <= PipelineScore
      /\ MiddlewareScore' <= MiddlewareScore
      /\ DataQualityScore' <= DataQualityScore
      /\ SecurityScore' <= SecurityScore
  <2>1. /\ Score(SchemaPenalty') <= Score(SchemaPenalty)
        /\ Score(PipelinePenalty') <= Score(PipelinePenalty)
        /\ Score(MiddlewarePenalty') <= Score(MiddlewarePenalty)
        /\ Score(DataQualityPenalty') <= Score(DataQualityPenalty)
        /\ Score(SecurityPenalty') <= Score(SecurityPenalty)
    BY <1>1, PenaltiesAreNat, ScoreMonotonic
  <2> QED
    BY <2>1 DEF SchemaScore, PipelineScore, MiddlewareScore, DataQualityScore,
       SecurityScore, Score
<1>3. /\ SchemaScore' \in Int /\ PipelineScore' \in Int /\ MiddlewareScore' \in Int
      /\ DataQualityScore' \in Int /\ SecurityScore' \in Int
  BY <1>1 DEF SchemaScore, PipelineScore, MiddlewareScore, DataQualityScore,
     SecurityScore, Score
<1>4. /\ SchemaScore \in Int /\ PipelineScore \in Int /\ MiddlewareScore \in Int
      /\ DataQualityScore \in Int /\ SecurityScore \in Int
  BY ScoresInRange
<1>5. Sum(SchemaScore', PipelineScore', MiddlewareScore', DataQualityScore', SecurityScore')
        <= Sum(SchemaScore, PipelineScore, MiddlewareScore, DataQualityScore, SecurityScore)
  BY <1>2, <1>3, <1>4, SumMonotonic
<1>6. Overall' = Sum(SchemaScore', PipelineScore', MiddlewareScore', DataQualityScore',
                     SecurityScore')
  BY DEF Overall, Sum
<1>7. (TypeOK => Overall \in Int)'
  BY OverallInt, PTL
<1> QED
  BY <1>5, <1>6, <1>7, OverallIsSum, OverallInt

\* Any finding leaves the overall score where it is or lowers it.
LEMMA ScoreStep ==
    ASSUME TypeOK, [Next]_findings
    PROVE  Overall' <= Overall
<1>1. CASE UNCHANGED findings
  <2>1. Overall' = Overall
    BY <1>1 DEF Overall, SchemaScore, PipelineScore, MiddlewareScore,
       DataQualityScore, SecurityScore, SchemaPenalty, Inconsistencies,
       PipelinePenalty, MiddlewarePenalty, Blocking, CriticalGaps, Gaps,
       DataQualityPenalty, FailedChecks, SecurityPenalty, N
  <2> QED
    BY <2>1, OverallInt
<1>2. ASSUME NEW kind \in Found, Find(kind)
      PROVE  Overall' <= Overall
  BY <1>2, TypeStep, PenaltiesGrow, WorseScore
<1> QED
  BY <1>1, <1>2 DEF Next

\* No finding raises the overall score.
THEOREM ScoreOnlyFalls == Spec => ScoreNeverRises
<1>1. TypeOK /\ [Next]_findings => [Overall' <= Overall]_findings
  BY ScoreStep
<1> QED
  BY <1>1, TypeCorrect, PTL DEF Spec, ScoreNeverRises

-----------------------------------------------------------------------------
\* A lower score is graded no better.
LEMMA GradeMonotonic ==
    ASSUME NEW a \in Int, NEW b \in Int, a <= b
    PROVE  Rank(Grade(a)) <= Rank(Grade(b))
BY DEF Grade, Rank

\* A verdict that improves although the score does not, and the blocking gaps only
\* come, does so at the first blocking gap, on a score that fails.
LEMMA BetterVerdict ==
    ASSUME Overall' <= Overall, Overall \in Int, Overall' \in Int,
           Blocking \in Nat, Blocking' \in Nat, Blocking <= Blocking',
           Rank(Verdict') > Rank(Verdict)
    PROVE  Verdict = "NOT_READY" /\ Blocking = 0 /\ Blocking' = 1
<1>1. Rank(Grade(Overall')) <= Rank(Grade(Overall))
  BY GradeMonotonic
<1>2. Verdict' = IF Blocking' >= 2 THEN "NOT_READY"
                 ELSE IF Blocking' = 1 THEN "NOT_YET" ELSE Grade(Overall')
  BY DEF Verdict, Grade
<1>3. Grade(Overall) \in {"GO", "NOT_YET", "NOT_READY"}
  BY DEF Grade
<1>4. /\ Rank("GO") = 2 /\ Rank("NOT_YET") = 1 /\ Rank("NOT_READY") = 0
  BY DEF Rank
<1>5. CASE Blocking' = 0
  <2>1. Verdict = Grade(Overall)
    BY <1>5 DEF Verdict
  <2>2. Verdict' = Grade(Overall')
    BY <1>2, <1>5
  <2> QED
    BY <1>1, <2>1, <2>2 DEF Rank
<1>6. CASE Blocking' >= 1 /\ Blocking = 0
  <2>1. Verdict = Grade(Overall)
    BY <1>6 DEF Verdict
  <2> QED
    BY <1>2, <1>3, <1>4, <1>6, <2>1
<1>7. CASE Blocking' >= 1 /\ Blocking >= 1
  BY <1>2, <1>4, <1>7 DEF Verdict
<1> QED
  BY <1>5, <1>6, <1>7

LEMMA VerdictStep ==
    ASSUME TypeOK, [Next]_findings, Rank(Verdict') > Rank(Verdict)
    PROVE  Verdict = "NOT_READY" /\ Blocking = 0 /\ Blocking' = 1
<1>1. CASE UNCHANGED findings
  <2>1. Verdict' = Verdict
    BY <1>1 DEF Verdict, Grade, Overall, SchemaScore, PipelineScore, MiddlewareScore,
       DataQualityScore, SecurityScore, SchemaPenalty, Inconsistencies,
       PipelinePenalty, MiddlewarePenalty, Blocking, CriticalGaps, Gaps,
       DataQualityPenalty, FailedChecks, SecurityPenalty, N
  <2>2. Rank(Verdict) \in Int
    BY DEF Rank
  <2>3. Rank(Verdict') = Rank(Verdict)
    BY <2>1
  <2> QED
    BY <2>2, <2>3
<1>2. ASSUME NEW kind \in Found, Find(kind)
      PROVE  Verdict = "NOT_READY" /\ Blocking = 0 /\ Blocking' = 1
  <2>1. Blocking \in Nat /\ Blocking' \in {Blocking, Blocking + 1}
    BY <1>2, BoundAssumption DEF TypeOK, Find, Kinds, Blocking, N
  <2>2. Overall' <= Overall /\ Overall \in Int /\ Overall' \in Int
    BY <1>2, TypeStep, PenaltiesGrow, WorseScore
  <2> QED
    BY <2>1, <2>2, BetterVerdict
<1> QED
  BY <1>1, <1>2 DEF Next

-----------------------------------------------------------------------------
(***************************************************************************)
(* Estates: what is counted is finite.                                     *)
(***************************************************************************)

Estates == Seq(Menu)

\* The values of a function on a finite set are finitely many.
LEMMA ImageFinite ==
    ASSUME NEW f, IsFiniteSet(DOMAIN f)
    PROVE  IsFiniteSet({f[x] : x \in DOMAIN f})
<1> DEFINE T == {f[x] : x \in DOMAIN f}
           g == [x \in DOMAIN f |-> f[x]]
<1>1. g \in Surjection(DOMAIN f, T)
  BY DEF Surjection
<1> QED
  BY <1>1, FS_Surjection

\* Finitely many things, each with finitely many numbers.
LEMMA PairsFinite ==
    ASSUME NEW S, IsFiniteSet(S), NEW f \in [S -> SUBSET Nat],
           \A x \in S : IsFiniteSet(f[x])
    PROVE  IsFiniteSet(UNION {{x} \X f[x] : x \in S})
<1> DEFINE g == [x \in S |-> {x} \X f[x]]
<1>1. IsFiniteSet({g[x] : x \in DOMAIN g})
  BY ImageFinite
<1>2. \A x \in S : IsFiniteSet({x} \X f[x])
  BY FS_Singleton, FS_Product
<1>3. {g[x] : x \in DOMAIN g} = {{x} \X f[x] : x \in S}
  OBVIOUS
<1>4. IsFiniteSet({{x} \X f[x] : x \in S}) /\ \A T \in {{x} \X f[x] : x \in S} : IsFiniteSet(T)
  BY <1>1, <1>2, <1>3
<1> QED
  BY <1>4, FS_UNION

\* An estate of systems from the menu, its tables grouped in some way, and the
\* inconsistencies of this grouping reported.
Diagnosed == /\ estate \in Estates
             /\ groups \in [Groups -> Seq(Tables)]
             /\ report = Reported

LEMMA EstateTables ==
    ASSUME estate \in Estates
    PROVE  /\ Size \in Nat /\ DOMAIN estate = 1..Size
           /\ \A s \in 1..Size : estate[s] \in Menu /\ estate[s].tables \in Seq(Seq(Field))
           /\ \A t \in Tables : /\ t[1] \in 1..Size /\ t[2] \in DOMAIN estate[t[1]].tables
                               /\ Fields(t) \in Seq(Field)
           /\ IsFiniteSet(Tables)
<1>1. /\ Size \in Nat /\ DOMAIN estate = 1..Size
      /\ \A s \in 1..Size : estate[s] \in Menu
  BY DEF Estates, Size
<1>2. \A s \in 1..Size : estate[s].tables \in Seq(Seq(Field))
  BY <1>1, DiagnosisAssumption
<1>3. ASSUME NEW t \in Tables
      PROVE  t[1] \in 1..Size /\ t[2] \in DOMAIN estate[t[1]].tables
  BY DEF Tables
<1>4. ASSUME NEW t \in Tables
      PROVE  Fields(t) \in Seq(Field)
  BY <1>2, <1>3 DEF Fields
<1> DEFINE places == [s \in 1..Size |-> DOMAIN estate[s].tables]
<1>5. /\ places \in [1..Size -> SUBSET Nat] /\ \A s \in 1..Size : IsFiniteSet(places[s])
      /\ Tables = UNION {{s} \X places[s] : s \in 1..Size}
  <2>1. ASSUME NEW s \in 1..Size
        PROVE  places[s] \in SUBSET Nat /\ IsFiniteSet(places[s])
    <3>1. places[s] = 1..Len(estate[s].tables) /\ Len(estate[s].tables) \in Nat
      BY <1>2
    <3>2. IsFiniteSet(1..Len(estate[s].tables)) /\ 1..Len(estate[s].tables) \subseteq Nat
      BY <3>1, FS_Interval
    <3> QED
      BY <3>1, <3>2, Zenon
  <2>2. Tables = UNION {{s} \X places[s] : s \in 1..Size}
    BY DEF Tables
  <2> QED
    BY <2>1, <2>2
<1>6. IsFiniteSet(1..Size)
  BY <1>1, FS_Interval
<1> HIDE DEF places
<1>7. IsFiniteSet(Tables)
  BY <1>5, <1>6, PairsFinite
<1> QED
  BY <1>1, <1>2, <1>3, <1>4, <1>7

LEMMA GroupsFinite ==
    ASSUME Diagnosed
    PROVE  /\ \A g \in Groups : IsFiniteSet(Members(g)) /\ Members(g) \subseteq Nat
           /\ IsFiniteSet(Analysed) /\ IsFiniteSet(Kept) /\ Kept \subseteq Analysed
           /\ Analysed \subseteq Groups
<1>1. ASSUME NEW g \in Groups
      PROVE  IsFiniteSet(Members(g)) /\ Members(g) \subseteq Nat
  <2>1. DOMAIN groups[g] = 1..Len(groups[g]) /\ Len(groups[g]) \in Nat
    BY DEF Diagnosed
  <2>2. IsFiniteSet(DOMAIN groups[g])
    BY <2>1, FS_Interval
  <2> QED
    BY <2>1, <2>2, FS_Subset DEF Members
<1>2. Analysed \in SUBSET Groups /\ Kept \in SUBSET Analysed
  BY DEF Analysed, Kept
<1>3. IsFiniteSet(Analysed) /\ IsFiniteSet(Kept)
  BY <1>2, FS_Subset, DiagnosisAssumption
<1> QED
  BY <1>1, <1>2, <1>3

LEMMA PairsOfTables ==
    ASSUME Diagnosed, NEW g \in Groups
    PROVE  PairsOf(g) \subseteq Tables \X Tables
<1>1. \A j \in Members(g) : groups[g][j] \in Tables
  BY DEF Diagnosed, Members
<1> QED
  BY <1>1 DEF PairsOf

LEMMA ComparisonsFinite ==
    ASSUME Diagnosed
    PROVE  /\ IsFiniteSet(Comparisons) /\ Comparisons \subseteq Tables \X Tables
           /\ \A c \in Comparisons : Source(c) \in Seq(Field) /\ Target(c) \in Seq(Field)
<1>1. Comparisons \in SUBSET (Tables \X Tables)
  BY GroupsFinite, PairsOfTables DEF Comparisons
<1>2. IsFiniteSet(Tables) /\ \A t \in Tables : Fields(t) \in Seq(Field)
  BY EstateTables DEF Diagnosed
<1>3. IsFiniteSet(Tables \X Tables)
  BY <1>2, FS_Product
<1>4. IsFiniteSet(Comparisons)
  BY <1>1, <1>3, FS_Subset
<1>5. ASSUME NEW c \in Comparisons
      PROVE  Source(c) \in Seq(Field) /\ Target(c) \in Seq(Field)
  <2>1. c[1] \in Tables /\ c[2] \in Tables
    BY <1>1
  <2> QED
    BY <1>2, <2>1 DEF Source, Target
<1> QED
  BY <1>1, <1>4, <1>5

\* The inconsistencies of each kind are counted in natural numbers.
LEMMA IssuesFinite ==
    ASSUME Diagnosed
    PROVE  /\ IsFiniteSet(Mismatched) /\ IsFiniteSet(Missing) /\ IsFiniteSet(Mistyped)
           /\ Critical \in Nat /\ High \in Nat /\ Medium \in Nat /\ Issues \in Nat
<1>1. IsFiniteSet(Mismatched)
  BY ComparisonsFinite, FS_Subset DEF Mismatched
<1> DEFINE lacking == [c \in Comparisons |-> Lacking(Source(c), Target(c))]
           clashing == [c \in Comparisons |-> Clashing(Source(c), Target(c))]
<1>2. ASSUME NEW c \in Comparisons
      PROVE  /\ lacking[c] \in SUBSET Nat /\ IsFiniteSet(lacking[c])
             /\ clashing[c] \in SUBSET Nat /\ IsFiniteSet(clashing[c])
  <2>1. DOMAIN Source(c) = 1..Len(Source(c)) /\ Len(Source(c)) \in Nat
    BY ComparisonsFinite
  <2>2. IsFiniteSet(DOMAIN Source(c)) /\ DOMAIN Source(c) \subseteq Nat
    BY <2>1, FS_Interval
  <2>3. lacking[c] \in SUBSET DOMAIN Source(c) /\ clashing[c] \in SUBSET DOMAIN Source(c)
    BY DEF Lacking, Clashing, Matched
  <2> HIDE DEF lacking, clashing
  <2>4. IsFiniteSet(lacking[c]) /\ IsFiniteSet(clashing[c])
    BY <2>2, <2>3, FS_Subset
  <2>5. lacking[c] \in SUBSET Nat /\ clashing[c] \in SUBSET Nat
    BY ONLY <2>2, <2>3
  <2> QED
    BY ONLY <2>4, <2>5
<1>3. lacking \in [Comparisons -> SUBSET Nat] /\ clashing \in [Comparisons -> SUBSET Nat]
  BY <1>2
<1>4. /\ IsFiniteSet(UNION {{c} \X lacking[c] : c \in Comparisons})
      /\ IsFiniteSet(UNION {{c} \X clashing[c] : c \in Comparisons})
  <2> HIDE DEF lacking, clashing
  <2>1. /\ \A c \in Comparisons : IsFiniteSet(lacking[c])
        /\ \A c \in Comparisons : IsFiniteSet(clashing[c])
    BY <1>2
  <2>2. IsFiniteSet(Comparisons)
    BY ComparisonsFinite
  <2>3. IsFiniteSet(UNION {{c} \X lacking[c] : c \in Comparisons})
    BY ONLY <1>3, <2>1, <2>2, PairsFinite
  <2>4. IsFiniteSet(UNION {{c} \X clashing[c] : c \in Comparisons})
    BY ONLY <1>3, <2>1, <2>2, PairsFinite
  <2> QED
    BY <2>3, <2>4
<1>5. /\ Missing = UNION {{c} \X lacking[c] : c \in Comparisons}
      /\ Mistyped = UNION {{c} \X clashing[c] : c \in Comparisons}
  BY DEF Missing, Mistyped
<1>6. IsFiniteSet(Missing) /\ IsFiniteSet(Mistyped)
  BY <1>4, <1>5
<1>7. Critical \in Nat /\ High \in Nat /\ Medium \in Nat
  BY <1>1, <1>6, FS_CardinalityType DEF Critical, High, Medium, Diagnosed, Reported
<1> QED
  BY <1>1, <1>6, <1>7 DEF Issues

-----------------------------------------------------------------------------
(* Estates: the gaps *)

\* The gaps of a kind, as Counted counts them.
GapsOf(kind) == Cardinality({gap \in GapsFound : GapKind(gap) = kind})

\* One thing or none.
OneIf(condition, x) == IF condition THEN {x} ELSE {}
Number(condition) == IF condition THEN 1 ELSE 0

\* Disjoint sets count together.
LEMMA TwoCount ==
    ASSUME NEW A, NEW B, IsFiniteSet(A), IsFiniteSet(B), A \cap B = {}
    PROVE  /\ IsFiniteSet(A \cup B)
           /\ Cardinality(A \cup B) = Cardinality(A) + Cardinality(B)
<1>1. Cardinality(A) \in Nat /\ Cardinality(B) \in Nat
  BY FS_CardinalityType
<1>2. Cardinality(A \cap B) = 0
  BY FS_EmptySet
<1>3. /\ IsFiniteSet(A \cup B)
      /\ Cardinality(A \cup B) = Cardinality(A) + Cardinality(B) - Cardinality(A \cap B)
  BY FS_Union
<1> QED
  BY <1>1, <1>2, <1>3

\* The rules of analyze, in numbers of gaps of each kind.
LEMMA GapCounts ==
    ASSUME Diagnosed
    PROVE  /\ GapsOf("gapBoth") = Number(Critical > 0)
           /\ GapsOf("gapCritical") = 0
           /\ GapsOf("gapBlocking") = Number(Size > 4) + Number(Issues > 3)
           /\ GapsOf("gap") = Number(Size > 2 /\ ~(Size > 4)) + Number(~(Critical > 0))
                              + Number(HasType("ERP") /\ HasType("CRM"))
<1> DEFINE gateway == Gap("api_gateway", "HIGH", FALSE)
           bigGateway == Gap("api_gateway", "HIGH", TRUE)
           etl == Gap("etl_pipeline", "HIGH", TRUE)
           needed == Gap("semantic_layer", "CRITICAL", TRUE)
           useful == Gap("semantic_layer", "HIGH", FALSE)
           rest == Gap("rest_api", "MEDIUM", FALSE)
           both == HasType("ERP") /\ HasType("CRM")
           big == Size > 4
           medium == Size > 2 /\ ~(Size > 4)
           many == Issues > 3
           critical == Critical > 0
           none == ~(Critical > 0)
<1>1. /\ GapKind(gateway) = "gap" /\ GapKind(bigGateway) = "gapBlocking"
      /\ GapKind(etl) = "gapBlocking" /\ GapKind(needed) = "gapBoth"
      /\ GapKind(useful) = "gap" /\ GapKind(rest) = "gap"
  BY DEF Gap, GapKind
<1>2. /\ bigGateway # etl /\ gateway # useful /\ gateway # rest /\ useful # rest
  BY DEF Gap
<1>3. Size \in Nat /\ Critical \in Nat /\ Issues \in Nat /\ both \in BOOLEAN
  BY EstateTables, IssuesFinite DEF HasType, Diagnosed
<1>4. GapsFound = OneIf(Size > 2 /\ ~(Size > 4), gateway) \cup OneIf(Size > 4, bigGateway)
                  \cup OneIf(Issues > 3, etl)
                  \cup OneIf(Critical > 0, needed) \cup OneIf(~(Critical > 0), useful)
                  \cup OneIf(both, rest)
  <2>1. Gateway = OneIf(Size > 2 /\ ~(Size > 4), gateway) \cup OneIf(Size > 4, bigGateway)
    <3>1. CASE Size > 4
      <4>1. Size > 2 /\ (Size > 4) = TRUE
        BY <1>3, <3>1
      <4>2. Gap("api_gateway", "HIGH", Size > 4) = bigGateway
        BY <4>1
      <4> QED
        BY <3>1, <4>1, <4>2 DEF Gateway, OneIf
    <3>2. CASE ~(Size > 4)
      <4>1. (Size > 4) = FALSE
        BY <3>2
      <4>2. Gap("api_gateway", "HIGH", Size > 4) = gateway
        BY <4>1
      <4> QED
        BY <3>2, <4>2 DEF Gateway, OneIf
    <3> QED
      BY <3>1, <3>2
  <2>2. Etl = OneIf(Issues > 3, etl)
    BY DEF Etl, OneIf
  <2>3. SemanticLayer = OneIf(Critical > 0, needed) \cup OneIf(~(Critical > 0), useful)
    BY DEF SemanticLayer, OneIf
  <2>4. RestApi = OneIf(both, rest)
    BY DEF RestApi, OneIf
  <2> QED
    BY <2>1, <2>2, <2>3, <2>4 DEF GapsFound
<1> HIDE DEF gateway, bigGateway, etl, needed, useful, rest, both, big, medium, many, critical, none
<1>5. GapsFound = OneIf(medium, gateway) \cup OneIf(big, bigGateway) \cup OneIf(many, etl)
                  \cup OneIf(critical, needed) \cup OneIf(none, useful) \cup OneIf(both, rest)
  BY <1>4 DEF big, medium, many, critical, none
<1>6. {gap \in GapsFound : GapKind(gap) = "gapBoth"} = OneIf(critical, needed)
  BY <1>1, <1>5 DEF OneIf
<1>7. {gap \in GapsFound : GapKind(gap) = "gapCritical"} = {}
  BY <1>1, <1>5 DEF OneIf
<1>8. {gap \in GapsFound : GapKind(gap) = "gapBlocking"}
          = OneIf(big, bigGateway) \cup OneIf(many, etl)
  BY <1>1, <1>5 DEF OneIf
<1>9. {gap \in GapsFound : GapKind(gap) = "gap"}
          = OneIf(medium, gateway) \cup OneIf(none, useful) \cup OneIf(both, rest)
  BY <1>1, <1>5 DEF OneIf
<1>10. /\ \A x : IsFiniteSet(OneIf(big, x)) /\ Cardinality(OneIf(big, x)) = Number(big)
       /\ \A x : IsFiniteSet(OneIf(medium, x)) /\ Cardinality(OneIf(medium, x)) = Number(medium)
       /\ \A x : IsFiniteSet(OneIf(many, x)) /\ Cardinality(OneIf(many, x)) = Number(many)
       /\ \A x : IsFiniteSet(OneIf(critical, x)) /\ Cardinality(OneIf(critical, x)) = Number(critical)
       /\ \A x : IsFiniteSet(OneIf(none, x)) /\ Cardinality(OneIf(none, x)) = Number(none)
       /\ \A x : IsFiniteSet(OneIf(both, x)) /\ Cardinality(OneIf(both, x)) = Number(both)
  BY FS_Singleton, FS_EmptySet DEF OneIf, Number
<1>11. GapsOf("gapBoth") = Number(critical) /\ GapsOf("gapCritical") = 0
  BY <1>6, <1>7, <1>10, FS_EmptySet DEF GapsOf
<1>12. GapsOf("gapBlocking") = Number(big) + Number(many)
  <2>1. OneIf(big, bigGateway) \cap OneIf(many, etl) = {}
    BY <1>2 DEF OneIf
  <2>2. /\ IsFiniteSet(OneIf(big, bigGateway)) /\ Cardinality(OneIf(big, bigGateway)) = Number(big)
        /\ IsFiniteSet(OneIf(many, etl)) /\ Cardinality(OneIf(many, etl)) = Number(many)
    BY <1>10
  <2>3. Cardinality(OneIf(big, bigGateway) \cup OneIf(many, etl))
            = Cardinality(OneIf(big, bigGateway)) + Cardinality(OneIf(many, etl))
    BY <2>1, <2>2, TwoCount
  <2> QED
    BY <1>8, <2>2, <2>3 DEF GapsOf
<1>13. GapsOf("gap") = Number(medium) + Number(none) + Number(both)
  <2> DEFINE A == OneIf(medium, gateway)
             B == OneIf(none, useful)
             C == OneIf(both, rest)
             S == A \cup B
  <2>1. A \cap B = {} /\ S \cap C = {}
    BY <1>2 DEF OneIf
  <2>2. /\ IsFiniteSet(A) /\ Cardinality(A) = Number(medium)
        /\ IsFiniteSet(B) /\ Cardinality(B) = Number(none)
        /\ IsFiniteSet(C) /\ Cardinality(C) = Number(both)
    BY <1>10
  <2>3. {gap \in GapsFound : GapKind(gap) = "gap"} = S \cup C
    BY <1>9
  <2> HIDE DEF A, B, C
  <2>4. IsFiniteSet(S) /\ Cardinality(S) = Cardinality(A) + Cardinality(B)
    BY <2>1, <2>2, TwoCount
  <2> HIDE DEF S
  <2>5. Cardinality(S \cup C) = Cardinality(S) + Cardinality(C)
    BY <2>1, <2>2, <2>4, TwoCount
  <2> QED
    BY <2>2, <2>3, <2>4, <2>5 DEF GapsOf
<1> QED
  BY <1>11, <1>12, <1>13 DEF both, big, medium, many, critical, none

-----------------------------------------------------------------------------
(* Estates: one system more *)

\* The number in its key tells a group from every namesake: all are reported.
LEMMA NothingOverwritten ==
    ASSUME Diagnosed
    PROVE  Kept = Analysed
<1> DEFINE upTo(g) == {h \in Analysed : h <= g /\ Canonical[h] = Canonical[g]}
<1>1. ASSUME NEW g \in Analysed, NEW h \in Analysed, h > g
      PROVE  Key(h) # Key(g)
  <2>1. CASE Canonical[h] # Canonical[g]
    BY <2>1 DEF Key
  <2>2. CASE Canonical[h] = Canonical[g]
    <3>1. g \in Nat /\ h \in Nat /\ \A k \in Analysed : k \in Nat
      BY GroupsFinite, DiagnosisAssumption
    <3>2. upTo(g) \in SUBSET upTo(h) /\ h \in upTo(h) /\ h \notin upTo(g)
      <4>1. \A k \in Analysed : k <= g => k <= h
        BY <1>1, <3>1
      <4>2. h <= h /\ ~(h <= g)
        BY <1>1, <3>1
      <4> QED
        BY <2>2, <4>1, <4>2
    <3>3. IsFiniteSet(upTo(h))
      BY GroupsFinite, FS_Subset
    <3>4. Cardinality(upTo(g)) # Cardinality(upTo(h))
      BY <3>2, <3>3, FS_Subset
    <3> QED
      BY <3>4 DEF Key
  <2> QED
    BY <2>1, <2>2
<1> QED
  BY <1>1 DEF Kept

\* What the matcher puts together is what is compared.
LEMMA AllCompared ==
    ASSUME Diagnosed
    PROVE  Comparisons = Together
<1>1. ASSUME NEW g \in Groups, PairsOf(g) # {}
      PROVE  g \in Kept
  <2>1. PICK j \in Members(g), k \in Members(g) : j < k
    BY <1>1 DEF PairsOf
  <2>2. IsFiniteSet(Members(g)) /\ j \in Nat /\ k \in Nat
    BY GroupsFinite
  <2>3. {j, k} \in SUBSET Members(g) /\ IsFiniteSet({j, k}) /\ Cardinality({j, k}) = 2
    <3>1. IsFiniteSet({j}) /\ Cardinality({j}) = 1 /\ k \notin {j}
      <4>1. k \notin {j}
        BY <2>1, <2>2
      <4> QED
        BY <4>1, FS_Singleton
    <3>2. IsFiniteSet({j} \cup {k}) /\ Cardinality({j} \cup {k}) = 2
      BY <3>1, FS_AddElement
    <3>3. {j} \cup {k} = {j, k}
      OBVIOUS
    <3> QED
      BY <3>2, <3>3
  <2>4. Cardinality(Members(g)) \in Nat /\ 2 <= Cardinality(Members(g))
    BY <2>2, <2>3, FS_Subset, FS_CardinalityType
  <2> QED
    BY <2>4, NothingOverwritten DEF Analysed
<1>2. Kept \subseteq Groups
  BY GroupsFinite
<1> QED
  BY <1>1, <1>2 DEF Comparisons, Together

\* After a system more all that was found is found again, where the matcher still
\* puts together what it put together before.
LEMMA FoundAgain ==
    ASSUME Diagnosed, Diagnosed', Together \subseteq Together',
           NEW system \in Menu, estate' = Append(estate, system)
    PROVE  /\ Size' = Size + 1
           /\ Critical <= Critical' /\ High <= High' /\ Medium <= Medium'
           /\ \A type : HasType(type) => HasType(type)'
           /\ \A k : Stressed(k) \in Nat /\ Stressed(k)' \in Nat /\ Stressed(k) <= Stressed(k)'
<1>1. /\ Size \in Nat /\ Size' = Size + 1
      /\ \A s \in 1..Size : s \in 1..Size' /\ estate'[s] = estate[s]
  BY DEF Diagnosed, Estates, Size
<1>2. Comparisons \subseteq Comparisons'
  <2>1. (Diagnosed => Comparisons = Together)'
    BY AllCompared, PTL
  <2> QED
    BY <2>1, AllCompared
<1>5. ASSUME NEW c \in Comparisons
      PROVE  c \in Comparisons' /\ Source(c)' = Source(c) /\ Target(c)' = Target(c)
  <2>1. c[1] \in Tables /\ c[2] \in Tables
    BY ComparisonsFinite
  <2>2. c[1][1] \in 1..Size /\ c[2][1] \in 1..Size
    BY <2>1, EstateTables DEF Diagnosed
  <2> QED
    BY <1>1, <1>2, <2>2 DEF Source, Target, Fields
<1>6. (Diagnosed => /\ IsFiniteSet(Mismatched) /\ IsFiniteSet(Missing)
                             /\ IsFiniteSet(Mistyped))'
  BY IssuesFinite, PTL
<1>7. Critical <= Critical'
  <2>1. Mismatched \in SUBSET Mismatched'
    BY <1>5 DEF Mismatched
  <2> QED
    BY <1>6, <2>1, FS_Subset DEF Critical, Diagnosed, Reported
<1>8. High <= High'
  <2>1. Missing \in SUBSET Missing'
    BY <1>5 DEF Missing
  <2> QED
    BY <1>6, <2>1, FS_Subset DEF High, Diagnosed, Reported
<1>9. Medium <= Medium'
  <2>1. Mistyped \in SUBSET Mistyped'
    BY <1>5 DEF Mistyped
  <2> QED
    BY <1>6, <2>1, FS_Subset DEF Medium, Diagnosed, Reported
<1>10. ASSUME NEW type, HasType(type)
       PROVE  HasType(type)'
  BY <1>1, <1>10 DEF HasType
<1>11. ASSUME NEW k
       PROVE  Stressed(k) \in Nat /\ Stressed(k)' \in Nat /\ Stressed(k) <= Stressed(k)'
  <2> DEFINE now == {s \in 1..Size : estate[s].stress = k}
             next == {s \in 1..Size' : estate'[s].stress = k}
  <2>1. now \in SUBSET next
    BY <1>1
  <2>2. IsFiniteSet(1..Size')
    BY <1>1, FS_Interval
  <2>3. IsFiniteSet(next)
    BY <2>2, FS_Subset
  <2>4. IsFiniteSet(now) /\ Cardinality(now) <= Cardinality(next)
    BY <2>1, <2>3, FS_Subset
  <2>5. Cardinality(now) \in Nat /\ Cardinality(next) \in Nat
    BY <2>3, <2>4, FS_CardinalityType
  <2> QED
    BY <2>4, <2>5 DEF Stressed
<1> QED
  BY <1>1, <1>7, <1>8, <1>9, <1>10, <1>11

-----------------------------------------------------------------------------
(* Estates: what the calculator makes of them *)

\* The findings of an estate are those counted in it.
LEMMA CountedFindings ==
    ASSUME Diagnosed, findings = Counted
    PROVE  /\ TypeOK
           /\ N("schemaCritical") = Critical /\ N("schemaHigh") = High
           /\ N("schemaOther") = Medium
           /\ N("systemErrors") = Stressed("systemErrors")
           /\ N("systemSlow") = Stressed("systemSlow")
           /\ N("systemBoth") = Stressed("systemBoth")
           /\ N("gapBoth") = Number(Critical > 0) /\ N("gapCritical") = 0
           /\ N("gapBlocking") = Number(Size > 4) + Number(Issues > 3)
           /\ N("gap") = Number(Size > 2 /\ ~(Size > 4)) + Number(~(Critical > 0))
                         + Number(HasType("ERP") /\ HasType("CRM"))
           /\ N("checkFailed") = 0 /\ N("checkCritical") = 0 /\ N("security") = 0
<1>1. /\ N("schemaCritical") = Critical /\ N("schemaHigh") = High
      /\ N("schemaOther") = Medium
      /\ \A k \in {"systemFine", "systemErrors", "systemSlow", "systemBoth"} : N(k) = Stressed(k)
      /\ \A k \in GapKinds : N(k) = GapsOf(k)
      /\ N("checkPassed") = 0 /\ N("checkFailed") = 0 /\ N("checkCritical") = 0
      /\ N("security") = 0
  BY DEF Counted, Kinds, Outcomes, GapKinds, GapsOf, N
<1>2. \A k : Stressed(k) \in Nat
  <2>1. IsFiniteSet(1..Size)
    BY EstateTables, FS_Interval DEF Diagnosed
  <2>2. ASSUME NEW k
        PROVE  IsFiniteSet({s \in 1..Size : estate[s].stress = k})
    BY <2>1, FS_Subset
  <2> QED
    BY <2>2, FS_CardinalityType DEF Stressed
<1>3. /\ N("gapBoth") = Number(Critical > 0) /\ N("gapCritical") = 0
      /\ N("gapBlocking") = Number(Size > 4) + Number(Issues > 3)
      /\ N("gap") = Number(Size > 2 /\ ~(Size > 4)) + Number(~(Critical > 0))
                    + Number(HasType("ERP") /\ HasType("CRM"))
  BY <1>1, GapCounts DEF GapKinds
<1>4. \A k \in GapKinds : N(k) \in Nat
  <2>1. \A c : Number(c) \in Nat
    BY DEF Number
  <2> QED
    BY <1>3, <2>1 DEF GapKinds
<1>5. \A k \in Kinds : N(k) \in Nat
  BY <1>1, <1>2, <1>4, IssuesFinite DEF Kinds, GapKinds
<1>6. TypeOK
  <2>1. DOMAIN findings = Kinds /\ findings = [k \in Kinds |-> findings[k]]
    BY DEF Counted
  <2> QED
    BY <1>5, <2>1 DEF TypeOK, N
<1> QED
  BY <1>1, <1>3, <1>6

\* The rules that fire, as numbers.
Gated     == Number(Size > 4)
Loose     == Number(Size > 2 /\ ~(Size > 4))
Harmonize == Number(Issues > 3)
Keyless   == Number(Critical > 0)
Mixed     == Number(HasType("ERP") /\ HasType("CRM"))

LEMMA RulesAreNumbers ==
    /\ Gated \in {0, 1} /\ Loose \in {0, 1} /\ Harmonize \in {0, 1}
    /\ Keyless \in {0, 1} /\ Mixed \in {0, 1}
    /\ Number(~(Critical > 0)) = 1 - Keyless
BY DEF Number, Gated, Loose, Harmonize, Keyless, Mixed

\* The penalties of an estate, by what is in it.
LEMMA EstatePenalties ==
    ASSUME Diagnosed, findings = Counted
    PROVE  /\ TypeOK
           /\ SchemaPenalty = 17 * Critical + 10 * High + 2 * Medium
           /\ PipelinePenalty = 20 * Stressed("systemErrors") + 10 * Stressed("systemSlow")
                                + 30 * Stressed("systemBoth")
           /\ MiddlewarePenalty = 5 + 40 * Keyless + 30 * Gated + 30 * Harmonize
                                  + 5 * Loose + 5 * Mixed
           /\ DataQualityPenalty = 0 /\ SecurityPenalty = 0
           /\ Blocking = Keyless + Gated + Harmonize
<1>1. Critical \in Nat /\ High \in Nat /\ Medium \in Nat
  BY IssuesFinite
<1>2. /\ N("schemaCritical") = Critical /\ N("schemaHigh") = High /\ N("schemaOther") = Medium
  BY CountedFindings
<1>3. SchemaPenalty = 17 * Critical + 10 * High + 2 * Medium
  BY <1>1, <1>2 DEF SchemaPenalty, Inconsistencies
<1>4. /\ N("systemErrors") = Stressed("systemErrors") /\ N("systemErrors") \in Nat
      /\ N("systemSlow") = Stressed("systemSlow") /\ N("systemSlow") \in Nat
      /\ N("systemBoth") = Stressed("systemBoth") /\ N("systemBoth") \in Nat
  BY CountedFindings DEF TypeOK, Kinds, N
<1>5. PipelinePenalty = 20 * Stressed("systemErrors") + 10 * Stressed("systemSlow")
                        + 30 * Stressed("systemBoth")
  BY <1>4 DEF PipelinePenalty
<1>6. /\ N("gapBoth") = Keyless /\ N("gapCritical") = 0
      /\ N("gapBlocking") = Gated + Harmonize
      /\ N("gap") = Loose + (1 - Keyless) + Mixed
  BY CountedFindings, RulesAreNumbers DEF Gated, Loose, Harmonize, Keyless, Mixed
<1>7. /\ Gated \in Nat /\ Loose \in Nat /\ Harmonize \in Nat /\ Keyless \in Nat
      /\ Mixed \in Nat
  BY RulesAreNumbers
<1>8. Blocking = Keyless + Gated + Harmonize
  BY <1>6, <1>7 DEF Blocking
<1>9. CriticalGaps = Keyless
  BY <1>6, <1>7 DEF CriticalGaps
<1>10. Gaps = 1 + Gated + Harmonize + Loose + Mixed
  BY <1>6, <1>7 DEF Gaps
<1>11. MiddlewarePenalty = 5 + 40 * Keyless + 30 * Gated + 30 * Harmonize
                           + 5 * Loose + 5 * Mixed
  BY <1>7, <1>8, <1>9, <1>10 DEF MiddlewarePenalty
<1>12. DataQualityPenalty = 0 /\ SecurityPenalty = 0
  <2>1. N("checkFailed") = 0 /\ N("checkCritical") = 0 /\ N("security") = 0
    BY CountedFindings
  <2> QED
    BY <2>1 DEF DataQualityPenalty, FailedChecks, SecurityPenalty
<1> QED
  BY <1>3, <1>5, <1>8, <1>11, <1>12, CountedFindings

\* A system more lets no rule stop firing: the gateway only becomes blocking.
LEMMA RulesKeepFiring ==
    ASSUME Diagnosed, Diagnosed', Together \subseteq Together',
           NEW system \in Menu, estate' = Append(estate, system)
    PROVE  /\ Keyless <= Keyless' /\ Harmonize <= Harmonize' /\ Mixed <= Mixed'
           /\ Gated <= Gated' /\ Gated + Loose <= Gated' + Loose'
<1>1. (Diagnosed =>
           Critical \in Nat /\ High \in Nat /\ Medium \in Nat /\ Issues \in Nat)'
  BY IssuesFinite, PTL
<1>2. /\ Critical \in Nat /\ High \in Nat /\ Medium \in Nat /\ Issues \in Nat
      /\ Critical' \in Nat /\ High' \in Nat /\ Medium' \in Nat /\ Issues' \in Nat
  BY <1>1, IssuesFinite
<1>3. Critical <= Critical' /\ High <= High' /\ Medium <= Medium'
  BY FoundAgain
<1>4. Issues <= Issues'
  <2>1. Issues = Critical + High + Medium /\ Issues' = Critical' + High' + Medium'
    BY DEF Issues
  <2> QED
    <3>1. PICK c \in Nat, h \in Nat, m \in Nat : c = Critical' /\ h = High' /\ m = Medium'
      BY <1>2, Zenon
    <3>2. /\ Critical \in Nat /\ High \in Nat /\ Medium \in Nat
          /\ Critical <= c /\ High <= h /\ Medium <= m
      BY <1>2, <1>3, <3>1, Zenon
    <3>3. Critical + High + Medium <= c + h + m
      BY ONLY <3>2, c \in Nat, h \in Nat, m \in Nat, SMT
    <3> QED
      BY <2>1, <3>1, <3>3, Zenon
<1>5. Keyless <= Keyless'
  BY <1>2, <1>3 DEF Keyless, Number
<1>6. Harmonize <= Harmonize'
  <2>1. Issues > 3 => Issues' > 3
    BY <1>2, <1>4
  <2>2. Harmonize \in {0, 1} /\ Harmonize' \in {0, 1}
    BY DEF Harmonize, Number
  <2>3. Harmonize = 1 => Harmonize' = 1
    BY <2>1 DEF Harmonize, Number
  <2> QED
    BY <2>2, <2>3
<1>7. Mixed <= Mixed'
  <2>1. HasType("ERP") /\ HasType("CRM") => HasType("ERP")' /\ HasType("CRM")'
    BY FoundAgain
  <2>2. Mixed \in {0, 1} /\ Mixed' \in {0, 1}
    BY DEF Mixed, Number
  <2>3. Mixed = 1 => Mixed' = 1
    BY <2>1 DEF Mixed, Number
  <2> QED
    BY <2>2, <2>3
<1>8. Size \in Nat /\ Size' = Size + 1
  BY EstateTables, FoundAgain DEF Diagnosed
<1>9. Gated <= Gated' /\ Gated + Loose <= Gated' + Loose'
  BY <1>8 DEF Gated, Loose, Number
<1> QED
  BY <1>5, <1>6, <1>7, <1>9

\* A system more makes no penalty smaller and no blocking gap fewer.
LEMMA EstatePenaltiesGrow ==
    ASSUME Diagnosed, Diagnosed', Together \subseteq Together',
           NEW system \in Menu, estate' = Append(estate, system),
           findings = Counted, findings' = Counted'
    PROVE  /\ TypeOK /\ TypeOK'
           /\ SchemaPenalty <= SchemaPenalty' /\ PipelinePenalty <= PipelinePenalty'
           /\ MiddlewarePenalty <= MiddlewarePenalty'
           /\ DataQualityPenalty <= DataQualityPenalty' /\ SecurityPenalty <= SecurityPenalty'
           /\ Blocking \in Nat /\ Blocking' \in Nat /\ Blocking <= Blocking'
<1>1. (Diagnosed /\ findings = Counted =>
           /\ TypeOK
           /\ SchemaPenalty = 17 * Critical + 10 * High + 2 * Medium
           /\ PipelinePenalty = 20 * Stressed("systemErrors") + 10 * Stressed("systemSlow")
                                + 30 * Stressed("systemBoth")
           /\ MiddlewarePenalty = 5 + 40 * Keyless + 30 * Gated + 30 * Harmonize
                                  + 5 * Loose + 5 * Mixed
           /\ DataQualityPenalty = 0 /\ SecurityPenalty = 0
           /\ Blocking = Keyless + Gated + Harmonize)'
  BY EstatePenalties, PTL
<1>2. /\ TypeOK'
      /\ SchemaPenalty' = 17 * Critical' + 10 * High' + 2 * Medium'
      /\ PipelinePenalty' = 20 * Stressed("systemErrors")' + 10 * Stressed("systemSlow")'
                            + 30 * Stressed("systemBoth")'
      /\ MiddlewarePenalty' = 5 + 40 * Keyless' + 30 * Gated' + 30 * Harmonize'
                              + 5 * Loose' + 5 * Mixed'
      /\ DataQualityPenalty' = 0 /\ SecurityPenalty' = 0
      /\ Blocking' = Keyless' + Gated' + Harmonize'
  BY <1>1
<1>3. SchemaPenalty <= SchemaPenalty'
  <2>1. (Diagnosed =>
             Critical \in Nat /\ High \in Nat /\ Medium \in Nat /\ Issues \in Nat)'
    BY IssuesFinite, PTL
  <2>2. /\ Critical \in Nat /\ High \in Nat /\ Medium \in Nat
        /\ Critical' \in Nat /\ High' \in Nat /\ Medium' \in Nat
        /\ Critical <= Critical' /\ High <= High' /\ Medium <= Medium'
    BY <2>1, IssuesFinite, FoundAgain
  <2>3. /\ SchemaPenalty = 17 * Critical + 10 * High + 2 * Medium
        /\ SchemaPenalty' = 17 * Critical' + 10 * High' + 2 * Medium'
    BY <1>2, EstatePenalties
  <2>4. PICK c \in Nat, h \in Nat, m \in Nat : c = Critical' /\ h = High' /\ m = Medium'
    BY ONLY <2>2, Zenon
  <2>5. /\ Critical \in Nat /\ High \in Nat /\ Medium \in Nat
        /\ Critical <= c /\ High <= h /\ Medium <= m
    BY ONLY <2>2, <2>4, Zenon
  <2>6. 17 * Critical + 10 * High + 2 * Medium <= 17 * c + 10 * h + 2 * m
    BY ONLY <2>5, c \in Nat, h \in Nat, m \in Nat, SMT
  <2> QED
    BY ONLY <2>3, <2>4, <2>6, Zenon
<1>4. PipelinePenalty <= PipelinePenalty'
  <2> DEFINE errors == Stressed("systemErrors")
             slow == Stressed("systemSlow")
             both == Stressed("systemBoth")
  <2>1. /\ errors \in Nat /\ errors' \in Nat /\ errors <= errors'
        /\ slow \in Nat /\ slow' \in Nat /\ slow <= slow'
        /\ both \in Nat /\ both' \in Nat /\ both <= both'
    BY FoundAgain
  <2>2. /\ PipelinePenalty = 20 * errors + 10 * slow + 30 * both
        /\ PipelinePenalty' = 20 * errors' + 10 * slow' + 30 * both'
    BY <1>2, EstatePenalties
  <2> HIDE DEF errors, slow, both
  <2>3. PICK e \in Nat, s \in Nat, b \in Nat : e = errors' /\ s = slow' /\ b = both'
    BY ONLY <2>1, Zenon
  <2>4. /\ errors \in Nat /\ slow \in Nat /\ both \in Nat
        /\ errors <= e /\ slow <= s /\ both <= b
    BY ONLY <2>1, <2>3, Zenon
  <2>5. 20 * errors + 10 * slow + 30 * both <= 20 * e + 10 * s + 30 * b
    BY ONLY <2>4, e \in Nat, s \in Nat, b \in Nat, SMT
  <2> QED
    BY ONLY <2>2, <2>3, <2>5, Zenon
<1>5. DataQualityPenalty <= DataQualityPenalty' /\ SecurityPenalty <= SecurityPenalty'
  BY <1>2, EstatePenalties
<1>6. /\ Gated \in Nat /\ Loose \in Nat /\ Harmonize \in Nat /\ Keyless \in Nat
      /\ Mixed \in Nat
  BY RulesAreNumbers
<1>7. (/\ Gated \in {0, 1} /\ Loose \in {0, 1} /\ Harmonize \in {0, 1}
       /\ Keyless \in {0, 1} /\ Mixed \in {0, 1}
       /\ Number(~(Critical > 0)) = 1 - Keyless)'
  BY RulesAreNumbers, PTL
<1>8. /\ Gated' \in Nat /\ Loose' \in Nat /\ Harmonize' \in Nat /\ Keyless' \in Nat
      /\ Mixed' \in Nat
  BY <1>7
<1>9. /\ MiddlewarePenalty <= MiddlewarePenalty'
      /\ Blocking \in Nat /\ Blocking' \in Nat /\ Blocking <= Blocking'
  <2>1. PICK k \in Nat : k = Keyless'
    BY <1>8
  <2>2. PICK g \in Nat : g = Gated'
    BY <1>8
  <2>3. PICK h \in Nat : h = Harmonize'
    BY <1>8
  <2>4. PICK l \in Nat : l = Loose'
    BY <1>8
  <2>5. PICK m \in Nat : m = Mixed'
    BY <1>8
  <2>6. /\ Keyless <= k /\ Harmonize <= h /\ Mixed <= m /\ Gated <= g
        /\ Gated + Loose <= g + l
    BY <2>1, <2>2, <2>3, <2>4, <2>5, RulesKeepFiring, Zenon
  <2>7. /\ 5 + 40 * Keyless + 30 * Gated + 30 * Harmonize + 5 * Loose + 5 * Mixed
             <= 5 + 40 * k + 30 * g + 30 * h + 5 * l + 5 * m
        /\ Keyless + Gated + Harmonize \in Nat /\ k + g + h \in Nat
        /\ Keyless + Gated + Harmonize <= k + g + h
    BY <1>6, <2>6
  <2>8. /\ MiddlewarePenalty' = 5 + 40 * k + 30 * g + 30 * h + 5 * l + 5 * m
        /\ Blocking' = k + g + h
    BY <1>2, <2>1, <2>2, <2>3, <2>4, <2>5, Zenon
  <2> QED
    BY <2>7, <2>8, EstatePenalties, Zenon
<1> QED
  BY <1>2, <1>3, <1>4, <1>5, <1>9, EstatePenalties

-----------------------------------------------------------------------------
(***************************************************************************)
(* Behaviours of a diagnosis: the findings of an estate are always those   *)
(* counted in it; before the first system they are any.                    *)
(***************************************************************************)

EstateInv == /\ TypeOK
             /\ Diagnosed
             /\ estate # <<>> => findings = Counted

LEMMA EstateInit ==
    ASSUME DiagnosisInit
    PROVE  EstateInv
<1>1. estate \in Estates /\ groups \in [Groups -> Seq(Tables)]
  BY DEF DiagnosisInit, Estates
<1>2. Comparisons = {}
  <2>1. \A g \in Groups : Members(g) = {}
    BY DEF DiagnosisInit, Members
  <2>2. Kept \subseteq Groups
    BY DEF Kept, Analysed
  <2> QED
    BY <2>1, <2>2 DEF Comparisons, PairsOf
<1>3. Mismatched = {} /\ Missing = {} /\ Mistyped = {}
  BY <1>2 DEF Mismatched, Missing, Mistyped
<1>4. Reported = [critical |-> 0, high |-> 0, medium |-> 0]
  BY <1>3, FS_EmptySet DEF Reported
<1> QED
  BY <1>1, <1>4 DEF DiagnosisInit, Init, EstateInv, TypeOK, Diagnosed

\* A new table put anywhere into a list of tables.
LEMMA InsertedTable ==
    ASSUME NEW S, NEW list \in Seq(S), NEW x \in S, NEW p \in 1..(Len(list) + 1)
    PROVE  InsertAt(list, p, x) \in Seq(S)
<1>1. SubSeq(list, 1, p - 1) \in Seq(S) /\ SubSeq(list, p, Len(list)) \in Seq(S)
  OBVIOUS
<1> QED
  BY <1>1 DEF InsertAt

LEMMA SystemAdded ==
    ASSUME Diagnosed, NEW system \in Menu, AddSystem(system)
    PROVE  Diagnosed'
<1>1. estate' \in Estates /\ report' = Reported'
  BY DEF AddSystem, Diagnosed, Estates
<1>2. CASE Size < MaxRegrouped
  <2>1. groups' \in Groupings'
    BY <1>2 DEF AddSystem
  <2>2. Lists' \subseteq Seq(Tables')
    <3>1. (estate \in Estates => Size \in Nat)'
      BY EstateTables, PTL
    <3>2. \A n \in 0..Size' : [1..n -> Tables'] \subseteq Seq(Tables')
      BY <1>1, <3>1
    <3> QED
      BY <3>2 DEF Lists
  <2> QED
    BY <1>1, <2>1, <2>2 DEF Groupings, Diagnosed
<1>3. CASE ~(Size < MaxRegrouped)
  <2>1. Extended(system)
    BY <1>3 DEF AddSystem
  <2>2. PICK place \in [Groups -> 1..(Size + 1)], table \in [Groups -> 0..Len(system.tables)] :
            /\ \A g \in Groups : place[g] <= (IF table[g] = 0 THEN 1 ELSE Len(groups[g]) + 1)
            /\ groups' = [g \in Groups |->
                   IF table[g] = 0 THEN groups[g]
                   ELSE InsertAt(groups[g], place[g], <<Size + 1, table[g]>>)]
    BY <2>1 DEF Extended
  <2>3. /\ Size \in Nat /\ Size' = Size + 1
        /\ \A s \in 1..Size : s \in 1..Size' /\ estate'[s] = estate[s]
        /\ Size + 1 \in 1..Size' /\ estate'[Size + 1] = system
    BY DEF Diagnosed, Estates, Size, AddSystem
  <2>4. Tables \subseteq Tables'
    BY <2>3 DEF Tables
  <2>5. \A k \in 1..Len(system.tables) : <<Size + 1, k>> \in Tables'
    <3>1. DOMAIN system.tables = 1..Len(system.tables)
      BY DiagnosisAssumption
    <3>2. {Size + 1} \X DOMAIN estate'[Size + 1].tables \subseteq Tables'
      BY <2>3 DEF Tables
    <3> QED
      BY <2>3, <3>1, <3>2
  <2>6. ASSUME NEW g \in Groups
        PROVE  groups'[g] \in Seq(Tables')
    <3>1. groups[g] \in Seq(Tables')
      BY <2>4 DEF Diagnosed
    <3>2. CASE table[g] = 0
      BY <2>2, <3>1, <3>2
    <3>3. CASE table[g] # 0
      <4>1. <<Size + 1, table[g]>> \in Tables'
        BY <2>2, <2>5, <3>3
      <4>2. place[g] \in 1..(Len(groups[g]) + 1)
        BY <2>2, <2>3, <3>1, <3>3
      <4>3. InsertAt(groups[g], place[g], <<Size + 1, table[g]>>) \in Seq(Tables')
        BY <3>1, <4>1, <4>2, InsertedTable
      <4> QED
        BY <2>2, <3>3, <4>3
    <3> QED
      BY <3>2, <3>3
  <2>7. groups' \in [Groups -> Seq(Tables')]
    BY <2>2, <2>6
  <2> QED
    BY <1>1, <2>7 DEF Diagnosed
<1> QED
  BY <1>2, <1>3

LEMMA EstateStep ==
    ASSUME EstateInv, [DiagnosisNext]_diagnosisVars
    PROVE  EstateInv'
<1>1. ASSUME UNCHANGED <<estate, groups, report>>
      PROVE  Diagnosed' /\ Counted' = Counted
  <2>1. estate' = estate /\ groups' = groups /\ report' = report
    BY <1>1
  <2>2. Reported' = Reported
    BY <2>1 DEF Reported, Mismatched, Missing, Mistyped, Comparisons, PairsOf, Source,
       Target, Kept, Key, Analysed, Members, Fields
  <2>3. Diagnosed'
    BY <2>1, <2>2 DEF EstateInv, Diagnosed, Tables, Size
  <2>4. Counted' = Counted
    BY <2>1 DEF Counted, Critical, High, Medium, Issues, Size, Stressed, GapsFound,
       Gateway, Etl, SemanticLayer, RestApi, HasType
  <2> QED
    BY <2>3, <2>4
<1>2. CASE UNCHANGED diagnosisVars
  BY <1>1, <1>2 DEF diagnosisVars, EstateInv, TypeOK
<1>3. ASSUME NEW system \in Menu, AddSystem(system)
      PROVE  EstateInv'
  <2>1. Diagnosed'
    BY <1>3, SystemAdded DEF EstateInv
  <2>2. findings' = Counted'
    BY <1>3 DEF AddSystem
  <2>3. (Diagnosed /\ findings = Counted => TypeOK)'
    BY CountedFindings, PTL
  <2> QED
    BY <2>1, <2>2, <2>3 DEF EstateInv
<1>4. ASSUME NEW kind \in Found, Given(kind)
      PROVE  EstateInv'
  <2>1. estate = <<>> /\ estate' = estate /\ Find(kind)
    BY <1>4 DEF Given
  <2>2. TypeOK'
    BY <2>1, TypeStep DEF Next, EstateInv
  <2>3. Diagnosed'
    BY <1>1, <1>4 DEF Given
  <2> QED
    BY <2>1, <2>2, <2>3 DEF EstateInv
<1> QED
  BY <1>2, <1>3, <1>4 DEF DiagnosisNext

\* The findings of an estate are those counted in it, all of them natural numbers.
THEOREM EstateCounted == DiagnosisSpec => []EstateInv
<1>1. DiagnosisInit => EstateInv
  BY EstateInit
<1>2. EstateInv /\ [DiagnosisNext]_diagnosisVars => EstateInv'
  BY EstateStep
<1> QED
  BY <1>1, <1>2, PTL DEF DiagnosisSpec

\* With nothing found the score is full.
LEMMA NothingFound ==
    ASSUME findings = [k \in Kinds |-> 0]
    PROVE  Verdict = "GO"
<1>1. \A k \in Kinds : findings[k] = 0
  OBVIOUS
<1>2. /\ SchemaPenalty = 0 /\ PipelinePenalty = 0 /\ MiddlewarePenalty = 0
      /\ DataQualityPenalty = 0 /\ SecurityPenalty = 0 /\ Blocking = 0
  BY <1>1 DEF Kinds, N, SchemaPenalty, Inconsistencies, PipelinePenalty,
     MiddlewarePenalty, Blocking, CriticalGaps, Gaps, DataQualityPenalty,
     FailedChecks, SecurityPenalty
<1>3. Score(0) = 100
  BY DEF Score
<1>4. Overall = 100 * Weight["schema"] + 100 * Weight["pipeline"]
                + 100 * Weight["middleware"] + 100 * Weight["dataQuality"]
                + 100 * Weight["security"]
  BY <1>2, <1>3 DEF Overall, SchemaScore, PipelineScore, MiddlewareScore,
     DataQualityScore, SecurityScore
<1>5. Overall = 10000
  BY <1>4, WeightsAreNat, WeightAssumption
<1> QED
  BY <1>2, <1>5 DEF Verdict, Grade

\* What an improved verdict takes where findings are given.
LEMMA GivenImprovement ==
    ASSUME EstateInv, [DiagnosisNext]_diagnosisVars, estate' = <<>>,
           Rank(Verdict') > Rank(Verdict)
    PROVE  Verdict = "NOT_READY" /\ Blocking = 0 /\ Blocking' = 1
<1>1. TypeOK
  BY DEF EstateInv
<1>2. CASE UNCHANGED diagnosisVars
  BY <1>1, <1>2, VerdictStep DEF diagnosisVars
<1>3. ASSUME NEW kind \in Found, Given(kind)
      PROVE  Verdict = "NOT_READY" /\ Blocking = 0 /\ Blocking' = 1
  BY <1>1, <1>3, VerdictStep DEF Given, Next
<1>4. ASSUME NEW system \in Menu, AddSystem(system)
      PROVE  FALSE
  <2>1. estate' = Append(estate, system) /\ estate \in Seq(Menu)
    BY <1>4 DEF AddSystem, EstateInv, Diagnosed, Estates
  <2>2. Len(Append(estate, system)) = Len(estate) + 1 /\ Len(estate) \in Nat
    BY <2>1
  <2>3. Len(Append(estate, system)) # 0 /\ Len(<<>>) = 0
    BY <2>2
  <2> QED
    BY <2>1, <2>3, Zenon
<1> QED
  BY <1>2, <1>3, <1>4 DEF DiagnosisNext

\* The first blocking gap on top of a failing score is the only finding given that
\* improves a verdict.
THEOREM VerdictOnlyFalls == DiagnosisSpec => VerdictNeverImproves
<1>1. EstateInv /\ [DiagnosisNext]_diagnosisVars
        => [estate' = <<>> /\ Rank(Verdict') > Rank(Verdict)
              => Verdict = "NOT_READY" /\ Blocking = 0 /\ Blocking' = 1]_diagnosisVars
  BY GivenImprovement
<1> QED
  BY <1>1, EstateCounted, PTL DEF DiagnosisSpec, VerdictNeverImproves

\* What an improved verdict takes where a system joins and no earlier pair parts.
LEMMA EstateImprovement ==
    ASSUME EstateInv, NEW system \in Menu, AddSystem(system), estate # <<>>,
           Together \subseteq Together', Rank(Verdict') > Rank(Verdict)
    PROVE  Verdict = "NOT_READY" /\ Blocking = 0 /\ Blocking' = 1
<1>1. /\ Diagnosed /\ Diagnosed' /\ estate' = Append(estate, system)
      /\ findings = Counted /\ findings' = Counted'
  BY SystemAdded DEF AddSystem, EstateInv
<1>2. /\ TypeOK /\ TypeOK'
      /\ SchemaPenalty <= SchemaPenalty' /\ PipelinePenalty <= PipelinePenalty'
      /\ MiddlewarePenalty <= MiddlewarePenalty'
      /\ DataQualityPenalty <= DataQualityPenalty' /\ SecurityPenalty <= SecurityPenalty'
      /\ Blocking \in Nat /\ Blocking' \in Nat /\ Blocking <= Blocking'
  BY <1>1, EstatePenaltiesGrow
<1>3. Overall' <= Overall /\ Overall \in Int /\ Overall' \in Int
  BY <1>2, WorseScore
<1> QED
  BY <1>2, <1>3, BetterVerdict

-----------------------------------------------------------------------------
(***************************************************************************)
(* Under the default weights, those of run_diagnostic.                     *)
(***************************************************************************)

LEMMA DefaultOverall ==
    ASSUME Weight = DefaultWeights, TypeOK
    PROVE  /\ Overall = 30 * SchemaScore + 25 * PipelineScore + 20 * MiddlewareScore
                        + 15 * DataQualityScore + 10 * SecurityScore
           /\ SchemaScore \in 0..100 /\ PipelineScore \in 0..100
           /\ MiddlewareScore \in 0..100 /\ DataQualityScore \in 0..100
           /\ SecurityScore \in 0..100
<1>1. /\ Weight["schema"] = 30 /\ Weight["pipeline"] = 25 /\ Weight["middleware"] = 20
      /\ Weight["dataQuality"] = 15 /\ Weight["security"] = 10
  BY DEF DefaultWeights
<1>2. /\ SchemaScore \in 0..100 /\ PipelineScore \in 0..100
      /\ MiddlewareScore \in 0..100 /\ DataQualityScore \in 0..100
      /\ SecurityScore \in 0..100
  BY ScoresInRange
<1> QED
  BY <1>1, <1>2 DEF Overall

\* No blocking gap on an estate: few systems, few inconsistencies, none CRITICAL.
LEMMA NoBlockingGap ==
    ASSUME Diagnosed, findings = Counted, Blocking = 0
    PROVE  /\ Critical = 0 /\ Issues <= 3 /\ Size <= 4
           /\ MiddlewarePenalty <= 15 /\ SchemaPenalty <= 10 * High + 2 * Medium
           /\ High \in Nat /\ Medium \in Nat /\ High + Medium <= 3
           /\ DataQualityPenalty = 0 /\ SecurityPenalty = 0
<1>1. /\ Gated \in {0, 1} /\ Loose \in {0, 1} /\ Harmonize \in {0, 1}
      /\ Keyless \in {0, 1} /\ Mixed \in {0, 1}
  BY RulesAreNumbers
<1>2. Gated = 0 /\ Harmonize = 0 /\ Keyless = 0
  BY <1>1, EstatePenalties
<1>3. Critical \in Nat /\ High \in Nat /\ Medium \in Nat /\ Size \in Nat
  BY IssuesFinite, EstateTables DEF Diagnosed
<1>4. ~(Size > 4) /\ ~(Issues > 3) /\ ~(Critical > 0)
  BY <1>2 DEF Gated, Harmonize, Keyless, Number
<1>5. Critical = 0 /\ Size <= 4
  BY <1>3, <1>4
<1>6. Issues <= 3 /\ High + Medium <= 3
  BY <1>3, <1>4, <1>5 DEF Issues
<1>7. MiddlewarePenalty <= 15
  <2>1. MiddlewarePenalty = 5 + 40 * Keyless + 30 * Gated + 30 * Harmonize
                            + 5 * Loose + 5 * Mixed
    BY EstatePenalties
  <2> QED
    BY <1>1, <1>2, <2>1
<1>8. SchemaPenalty <= 10 * High + 2 * Medium
  <2>1. SchemaPenalty = 17 * Critical + 10 * High + 2 * Medium
    BY EstatePenalties
  <2> QED
    BY <1>3, <1>5, <2>1
<1> QED
  BY <1>3, <1>5, <1>6, <1>7, <1>8, EstatePenalties

\* The score of a penalty, for its bounds.
LEMMA ScoreFloor ==
    ASSUME NEW p \in Nat, NEW n \in 0..100
    PROVE  (p <= 100 - n => Score(p) >= n) /\ (p >= 100 - n => Score(p) <= n)
BY DEF Score

LEMMA GoHidesThese ==
    ASSUME Weight = DefaultWeights, EstateInv
    PROVE  GoHides
<1> SUFFICES ASSUME Verdict = "GO"
             PROVE  /\ Blocking = 0 /\ N("schemaCritical") <= 3 /\ N("systemBoth") <= 2
                    /\ estate # <<>> => /\ Size <= 4 /\ Inconsistencies <= 3
                                         /\ N("schemaCritical") = 0
  BY DEF GoHides
<1>1. \A k \in Kinds : N(k) \in Nat
  BY DEF EstateInv, TypeOK, N
<1>2. Blocking = 0 /\ Overall >= 8000
  <2>1. Blocking \in Nat
    BY <1>1 DEF Blocking, Kinds
  <2> QED
    BY <2>1 DEF Verdict, Grade
<1>3. TypeOK
  BY DEF EstateInv
<1>4. /\ SchemaPenalty \in Nat /\ PipelinePenalty \in Nat
      /\ SchemaPenalty >= 17 * N("schemaCritical")
      /\ PipelinePenalty >= 30 * N("systemBoth")
      /\ N("schemaCritical") \in Nat /\ N("systemBoth") \in Nat
  <2>1. /\ N("schemaCritical") \in Nat /\ N("schemaHigh") \in Nat /\ N("schemaOther") \in Nat
        /\ N("systemErrors") \in Nat /\ N("systemSlow") \in Nat /\ N("systemBoth") \in Nat
    BY <1>1 DEF Kinds
  <2> QED
    BY <2>1 DEF SchemaPenalty, Inconsistencies, PipelinePenalty
<1>5. /\ Overall = 30 * SchemaScore + 25 * PipelineScore + 20 * MiddlewareScore
                    + 15 * DataQualityScore + 10 * SecurityScore
       /\ SchemaScore \in 0..100 /\ PipelineScore \in 0..100
       /\ MiddlewareScore \in 0..100 /\ DataQualityScore \in 0..100
       /\ SecurityScore \in 0..100
  BY <1>3, DefaultOverall
<1>6. N("schemaCritical") <= 3
  <2> SUFFICES ASSUME N("schemaCritical") >= 4
               PROVE  FALSE
    BY <1>4
  <2>1. SchemaPenalty >= 68
    BY <1>4
  <2>2. SchemaScore <= 32
    BY <1>4, <2>1, ScoreFloor DEF SchemaScore
  <2> QED
    BY <1>2, <1>5, <2>2
<1>7. N("systemBoth") <= 2
  <2> SUFFICES ASSUME N("systemBoth") >= 3
               PROVE  FALSE
    BY <1>4
  <2>1. PipelinePenalty >= 90
    BY <1>4
  <2>2. PipelineScore <= 10
    BY <1>4, <2>1, ScoreFloor DEF PipelineScore
  <2> QED
    BY <1>2, <1>5, <2>2
<1>8. estate # <<>> => Size <= 4 /\ Inconsistencies <= 3 /\ N("schemaCritical") = 0
  <2> SUFFICES ASSUME estate # <<>>
               PROVE  Size <= 4 /\ Inconsistencies <= 3 /\ N("schemaCritical") = 0
    OBVIOUS
  <2>1. Diagnosed /\ findings = Counted
    BY DEF EstateInv
  <2>2. Critical = 0 /\ Issues <= 3 /\ Size <= 4
    BY <1>2, <2>1, NoBlockingGap
  <2>3. Inconsistencies = Issues /\ N("schemaCritical") = Critical
    BY <2>1, CountedFindings DEF Inconsistencies, Issues
  <2> QED
    BY <2>2, <2>3
<1> QED
  BY <1>2, <1>6, <1>7, <1>8

\* Under the default weights a GO hides no blocking gap, at most three CRITICAL
\* inconsistencies and two systems both slow and failing; on an estate, however
\* large, at most four systems, three inconsistencies and none of them CRITICAL.
THEOREM GoHidesLittle ==
    ASSUME Weight = DefaultWeights
    PROVE  DiagnosisSpec => []GoHides
<1>1. EstateInv => GoHides
  BY GoHidesThese
<1> QED
  BY <1>1, EstateCounted, PTL

\* Without a blocking gap the other findings of an estate are cheap.
LEMMA NoBlockingGapScore ==
    ASSUME Weight = DefaultWeights, Diagnosed, findings = Counted, Blocking = 0
    PROVE  /\ Overall \in Int /\ Overall >= 6300
           /\ High = 0 => Overall >= 7020 + 25 * PipelineScore
<1>1. /\ High \in Nat /\ Medium \in Nat /\ High + Medium <= 3
      /\ MiddlewarePenalty <= 15 /\ SchemaPenalty <= 10 * High + 2 * Medium
      /\ DataQualityPenalty = 0 /\ SecurityPenalty = 0
  BY NoBlockingGap
<1>2. TypeOK
  BY CountedFindings
<1>3. /\ SchemaPenalty \in Nat /\ MiddlewarePenalty \in Nat
      /\ DataQualityPenalty \in Nat /\ SecurityPenalty \in Nat
  BY <1>2, PenaltiesAreNat
<1>4. MiddlewareScore >= 85 /\ DataQualityScore >= 100 /\ SecurityScore >= 100
  BY <1>1, <1>3, ScoreFloor DEF MiddlewareScore, DataQualityScore, SecurityScore
<1>5. SchemaScore >= 70
  <2>1. SchemaPenalty <= 30
    BY <1>1, <1>3
  <2> QED
    BY <1>3, <2>1, ScoreFloor DEF SchemaScore
<1>6. High = 0 => SchemaScore >= 94
  <2> SUFFICES ASSUME High = 0
               PROVE  SchemaScore >= 94
    OBVIOUS
  <2>1. SchemaPenalty <= 6
    BY <1>1, <1>3
  <2> QED
    BY <1>3, <2>1, ScoreFloor DEF SchemaScore
<1>7. /\ Overall = 30 * SchemaScore + 25 * PipelineScore + 20 * MiddlewareScore
                   + 15 * DataQualityScore + 10 * SecurityScore
      /\ SchemaScore \in 0..100 /\ PipelineScore \in 0..100
      /\ MiddlewareScore \in 0..100 /\ DataQualityScore \in 0..100
      /\ SecurityScore \in 0..100
  BY <1>2, DefaultOverall
<1>8. Overall \in Int /\ Overall >= 6300
  BY <1>4, <1>5, <1>7
<1>9. High = 0 => Overall >= 7020 + 25 * PipelineScore
  BY <1>4, <1>6, <1>7
<1> QED
  BY <1>8, <1>9

\* A plan without items leaves only the systems under stress.
LEMMA EmptyPlan ==
    ASSUME Diagnosed, findings = Counted, Plan = {}
    PROVE  Blocking = 0 /\ High = 0
<1>1. \A gap \in GapsFound : ~gap.blocking
  BY DEF Plan
<1>2. ~(Critical > 0) /\ ~(High > 0)
  BY DEF Plan
<1>3. ~(Size > 4)
  <2> SUFFICES ASSUME Size > 4
               PROVE  FALSE
    OBVIOUS
  <2>1. Size \in Nat
    BY EstateTables DEF Diagnosed
  <2>2. Size > 2
    BY <2>1
  <2>3. Gap("api_gateway", "HIGH", Size > 4) \in GapsFound
    BY <2>2 DEF GapsFound, Gateway
  <2> QED
    BY <1>1, <2>3 DEF Gap
<1>4. ~(Issues > 3)
  <2> SUFFICES ASSUME Issues > 3
               PROVE  FALSE
    OBVIOUS
  <2>1. Gap("etl_pipeline", "HIGH", TRUE) \in GapsFound
    BY DEF GapsFound, Etl
  <2> QED
    BY <1>1, <2>1 DEF Gap
<1>5. Gated = 0 /\ Harmonize = 0 /\ Keyless = 0
  BY <1>2, <1>3, <1>4 DEF Gated, Harmonize, Keyless, Number
<1>6. High = 0
  BY <1>2, IssuesFinite
<1> QED
  BY <1>5, <1>6, EstatePenalties

LEMMA PlanExplains ==
    ASSUME Weight = DefaultWeights, EstateInv
    PROVE  PlanExplainsVerdict
<1> SUFFICES ASSUME estate # <<>>, Verdict # "GO", PipelinePenalty <= 60, Plan = {}
             PROVE  FALSE
  BY DEF PlanExplainsVerdict
<1>1. Diagnosed /\ findings = Counted /\ TypeOK
  BY DEF EstateInv
<1>2. Blocking = 0 /\ High = 0
  BY <1>1, EmptyPlan
<1>3. Overall \in Int /\ Overall >= 7020 + 25 * PipelineScore
  BY <1>1, <1>2, NoBlockingGapScore
<1>4. ~(Overall >= 8000)
  BY <1>2 DEF Verdict, Grade
<1>5. PipelinePenalty \in Nat /\ PipelineScore \in 0..100
  BY <1>1, PenaltiesAreNat, ScoresInRange
<1>6. PipelineScore <= 39
  BY <1>3, <1>4, <1>5
<1> QED
  BY <1>5, <1>6 DEF PipelineScore, Score

\* Under the default weights a diagnosis that is not GO and has an empty plan is one
\* of systems that failed or were slow under stress.
THEOREM PlanExplainsItsVerdict ==
    ASSUME Weight = DefaultWeights
    PROVE  DiagnosisSpec => []PlanExplainsVerdict
<1>1. EstateInv => PlanExplainsVerdict
  BY PlanExplains
<1> QED
  BY <1>1, EstateCounted, PTL

LEMMA EstateVerdictFalls ==
    ASSUME Weight = DefaultWeights, EstateInv, [DiagnosisNext]_diagnosisVars,
           estate # <<>>, Together \subseteq Together'
    PROVE  Rank(Verdict') <= Rank(Verdict)
<1> SUFFICES ASSUME Rank(Verdict') > Rank(Verdict)
             PROVE  FALSE
  <2>1. Rank(Verdict) \in Int /\ Rank(Verdict') \in Int
    BY DEF Rank
  <2> QED
    BY <2>1
<1>1. Verdict = "NOT_READY" /\ Blocking = 0
  <2>1. CASE UNCHANGED diagnosisVars
    BY <2>1, VerdictStep DEF diagnosisVars, EstateInv
  <2>2. ASSUME NEW system \in Menu, AddSystem(system)
        PROVE  Verdict = "NOT_READY" /\ Blocking = 0
    BY <2>2, EstateImprovement
  <2>3. ASSUME NEW kind \in Found, Given(kind)
        PROVE  FALSE
    BY <2>3 DEF Given
  <2> QED
    BY <2>1, <2>2, <2>3 DEF DiagnosisNext
<1>2. Overall \in Int /\ Overall >= 6300
  BY <1>1, NoBlockingGapScore DEF EstateInv
<1> QED
  BY <1>1, <1>2 DEF Verdict, Grade

\* Under the default weights a system more improves the verdict on an estate only
\* where the regrouping no longer puts an earlier pair of tables together.
THEOREM OnlyRegroupingHelps ==
    ASSUME Weight = DefaultWeights
    PROVE  DiagnosisSpec => OnlyRegroupingImproves
<1>1. EstateInv /\ [DiagnosisNext]_diagnosisVars
        => [estate # <<>> /\ Together \subseteq Together'
              => Rank(Verdict') <= Rank(Verdict)]_diagnosisVars
  BY EstateVerdictFalls
<1> QED
  BY <1>1, EstateCounted, PTL DEF DiagnosisSpec, OnlyRegroupingImproves
=============================================================================
