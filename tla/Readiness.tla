----------------------------- MODULE Readiness ------------------------------
(***************************************************************************)
(* ReadinessCalculator of preflight/analysis/readiness_calculator.py: what *)
(* the analyses found, counted by what the calculator tells apart, and the *)
(* scores, the verdict and the colour that calculate makes of it.  The     *)
(* analyses hand their findings over as lists whose order does not matter; *)
(* the model lets the findings come one at a time, so that a step compares *)
(* the report with the report of one finding more.                         *)
(*                                                                         *)
(* Weights are in percent, so the overall score is in hundredths: 100.0 is *)
(* 10000.                                                                  *)
(***************************************************************************)
EXTENDS Integers

CONSTANTS Weight,   \* self.weights, in percent
          Found,    \* the kinds of finding that come
          MaxEach   \* bound: findings of one kind

Categories == {"schema", "pipeline", "middleware", "dataQuality", "security"}

\* DEFAULT_WEIGHTS, which run_diagnostic uses.
DefaultWeights == [schema |-> 30, pipeline |-> 25, middleware |-> 20,
                   dataQuality |-> 15, security |-> 10]

\* The kinds of finding the calculator tells apart: severity of a schema
\* inconsistency, error rate and latency of a system under stress, severity and
\* blocking flag of a middleware gap, severity and outcome of a quality check.
Kinds == {"schemaCritical", "schemaHigh", "schemaOther",
          "systemFine", "systemErrors", "systemSlow", "systemBoth",
          "gap", "gapCritical", "gapBlocking", "gapBoth",
          "checkPassed", "checkFailed", "checkCritical",
          "security"}

ASSUME WeightAssumption ==
    /\ Weight \in [Categories -> Nat]
    /\ Weight["schema"] + Weight["pipeline"] + Weight["middleware"]
         + Weight["dataQuality"] + Weight["security"] = 100

ASSUME BoundAssumption == Found \subseteq Kinds /\ MaxEach \in Nat

VARIABLE findings   \* how many findings of each kind there are

-----------------------------------------------------------------------------
(***************************************************************************)
(* The penalties.                                                          *)
(***************************************************************************)

N(kind) == findings[kind]

Inconsistencies == N("schemaCritical") + N("schemaHigh") + N("schemaOther")

SchemaPenalty == N("schemaCritical") * 15 + N("schemaHigh") * 8 + Inconsistencies * 2

PipelinePenalty == (N("systemErrors") + N("systemBoth")) * 20
                   + (N("systemSlow") + N("systemBoth")) * 10

Blocking == N("gapBlocking") + N("gapBoth")
CriticalGaps == N("gapCritical") + N("gapBoth")
Gaps == N("gap") + N("gapCritical") + N("gapBlocking") + N("gapBoth")

MiddlewarePenalty == Blocking * 25 + CriticalGaps * 15 + Gaps * 5

FailedChecks == N("checkFailed") + N("checkCritical")

DataQualityPenalty == N("checkCritical") * 20 + FailedChecks * 5

SecurityPenalty == N("security") * 10

\* max(0, 100 - penalty)
Score(penalty) == IF penalty >= 100 THEN 0 ELSE 100 - penalty

\* The five sub-scores and their weighted sum.
SchemaScore      == Score(SchemaPenalty)
PipelineScore    == Score(PipelinePenalty)
MiddlewareScore  == Score(MiddlewarePenalty)
DataQualityScore == Score(DataQualityPenalty)
SecurityScore    == Score(SecurityPenalty)

Overall == SchemaScore * Weight["schema"] + PipelineScore * Weight["pipeline"]
           + MiddlewareScore * Weight["middleware"]
           + DataQualityScore * Weight["dataQuality"]
           + SecurityScore * Weight["security"]

-----------------------------------------------------------------------------
(***************************************************************************)
(* The verdict.                                                            *)
(***************************************************************************)

Grade(score) == IF score >= 8000 THEN "GO"
                ELSE IF score >= 5000 THEN "NOT_YET" ELSE "NOT_READY"

\* Mutant: two blocking gaps no longer override a good score.
OverrideOne == IF Blocking = 1 THEN "NOT_YET" ELSE Grade(Overall)
Verdict == IF Blocking >= 2 THEN "NOT_READY"
           ELSE IF Blocking = 1 THEN "NOT_YET"
           ELSE Grade(Overall)

-----------------------------------------------------------------------------
Init == findings = [k \in Kinds |-> 0]

\* One finding more.
Find(kind) ==
    /\ findings[kind] < MaxEach
    /\ findings' = [findings EXCEPT ![kind] = @ + 1]

Next == \E kind \in Found : Find(kind)

Spec == Init /\ [][Next]_findings

-----------------------------------------------------------------------------
TypeOK == findings \in [Kinds -> Nat]

Rank(verdict) == IF verdict = "GO" THEN 2 ELSE IF verdict = "NOT_YET" THEN 1 ELSE 0

\* Whatever is found, the overall score stays within 0 and 100 when the weights
\* add up to one.
ScoreInRange == Overall \in 0..10000

\* A finding never raises the overall score.
ScoreNeverRises == [][Overall' <= Overall]_findings
=============================================================================
