------------------------------ MODULE Assessment ------------------------------
(***************************************************************************)
(* What DiagnosticService makes of a run: analyze_schemas of its           *)
(* connections, and from the analysis, ReportService.generate_report       *)
(* (core/application/services/report_service.py) with the score of         *)
(* ReadinessReport.  Bottlenecks, middleware gaps and data-quality issues  *)
(* are put into an AnalysisResults by whoever has them; they come one at a *)
(* time, like the connections.                                             *)
(***************************************************************************)
EXTENDS SchemaAnalysis

CONSTANTS Severities,   \* the severities that the other findings may have
          Efforts,      \* the estimates that a middleware gap may be given
          Priorities,   \* the priorities that a data-quality issue may be given
          MaxSize,      \* bound: connections and findings together
          MaxFindings   \* bound: findings that are not about schemas

Weight == [CRITICAL |-> 5, HIGH |-> 4, MEDIUM |-> 3, LOW |-> 2, INFO |-> 1]

Days == [TRIVIAL |-> <<0, 1>>, LOW |-> <<1, 5>>, MEDIUM |-> <<5, 21>>,
         HIGH |-> <<21, 90>>, CRITICAL |-> <<90, 180>>]
Levels == DOMAIN Days

\* An estimate is any range of days with a level; from_level gives the canonical ones.
Estimates == [min : Nat, max : Nat, level : Levels]
FromLevel(level) == [min |-> Days[level][1], max |-> Days[level][2], level |-> level]

ASSUME ReportAssumption ==
    /\ Severities \subseteq DOMAIN Weight
    /\ Efforts \subseteq Estimates /\ IsFiniteSet(Efforts)
    /\ Priorities \subseteq 1..10
    /\ MaxSize \in Nat /\ MaxFindings \in Nat

VARIABLE others   \* how often there is each of the findings that are not about schemas

vars == <<connections, others>>

Finding(category, severity, blocking, effort, priority) ==
    [category |-> category, severity |-> severity, blocking |-> blocking,
     effort |-> effort, priority |-> priority]

-----------------------------------------------------------------------------
(* The items of the remediation plan *)

SchemaPriority(severity) ==
    CASE severity = "CRITICAL" -> 10 [] severity = "HIGH" -> 8
      [] severity = "MEDIUM" -> 5 [] severity = "LOW" -> 3 [] OTHER -> 1
SchemaEffort(severity) ==
    CASE severity = "CRITICAL" -> "HIGH" [] severity = "HIGH" -> "MEDIUM"
      [] severity = "MEDIUM" -> "LOW" [] OTHER -> "TRIVIAL"

\* The map of a bottleneck and of a gap have no INFO: it gets the default.
BottleneckPriority(severity) ==
    CASE severity = "CRITICAL" -> 9 [] severity = "HIGH" -> 7
      [] severity = "LOW" -> 2 [] OTHER -> 5

\* Mutant: a blocking gap is lowered.
GapPriorityLowered(severity, blocking) ==
    LET base == CASE severity = "CRITICAL" -> 10 [] severity = "HIGH" -> 8
                  [] severity = "LOW" -> 3 [] OTHER -> 6
    IN base - (IF blocking THEN 1 ELSE 0)
GapPriority(severity, blocking) ==
    LET base == CASE severity = "CRITICAL" -> 10 [] severity = "HIGH" -> 8
                  [] severity = "LOW" -> 3 [] OTHER -> 6
    IN Min({10, base + (IF blocking THEN 1 ELSE 0)})

\* The other findings, each with what its item will be.
Bottlenecks == {Finding("pipeline", s, FALSE, FromLevel("MEDIUM"), BottleneckPriority(s)) :
                    s \in Severities}
Gaps == {Finding("middleware", s, b, e, GapPriority(s, b)) :
             s \in Severities, b \in BOOLEAN, e \in Efforts}
Issues == {Finding("data_quality", s, FALSE, FromLevel("LOW"), p) :
               s \in Severities, p \in Priorities}
Findings == Bottlenecks \cup Gaps \cup Issues

\* The items of the plan, one for every finding.
SchemaItem(i) == Finding("schema", i.severity, FALSE, FromLevel(SchemaEffort(i.severity)),
                         SchemaPriority(i.severity))
OtherItems == UNION {{[kind |-> "other", finding |-> f, nth |-> n] : n \in 1..others[f]} :
                         f \in Findings}
ItemKeys == Inconsistencies \cup OtherItems
Item(k) == IF k.kind = "other" THEN k.finding ELSE SchemaItem(k)

\* The categories in the order in which the list is filled.
ListOrder == [schema |-> 1, pipeline |-> 2, middleware |-> 3, data_quality |-> 4]

\* Where one item may be before another: by priority, then by severity, and the
\* stable sort leaves equal ones as they were listed.  Within a category the
\* analysis may list them either way.
Precedes(j, k) ==
    \/ Item(j).priority > Item(k).priority
    \/ /\ Item(j).priority = Item(k).priority
       /\ \/ Weight[Item(j).severity] > Weight[Item(k).severity]
          \/ /\ Item(j).severity = Item(k).severity
             /\ ListOrder[Item(j).category] <= ListOrder[Item(k).category]

-----------------------------------------------------------------------------
(* calculate_total_effort *)

DaysOf(k, bound) == Item(k).effort[bound]

\* int(total * 0.70): 0.70 is a little less than seven tenths.  The product is
\* rounded to the 53 bits of a double; where it should be an integer in the
\* upper quarter of its binade it falls short of it and loses a day.  The powers
\* bound what is modelled to totals below three million days.
LostDay(total) ==
    LET product == (7 * total) \div 10
    IN total % 10 = 0 /\ \E p \in {2^i : i \in 2..21} : 7 * p < 8 * product /\ product < p
\* Mutant: half of it is done in parallel.
Halved(total) == total \div 2
Discounted(total) == (total * 7) \div 10 - IF LostDay(total) THEN 1 ELSE 0

Total(bound) == Discounted(SumFunction([k \in ItemKeys |-> DaysOf(k, bound)]))

LevelOf(max) == IF max <= 1 THEN "TRIVIAL" ELSE IF max <= 5 THEN "LOW"
                ELSE IF max <= 21 THEN "MEDIUM" ELSE IF max <= 90 THEN "HIGH" ELSE "CRITICAL"
TotalLevel == IF ItemKeys = {} THEN "TRIVIAL" ELSE LevelOf(Total("max"))

-----------------------------------------------------------------------------
(* calculate_score, in hundredths *)

Penalty == [CRITICAL |-> 20, HIGH |-> 10, MEDIUM |-> 5, LOW |-> 2, INFO |-> 0]

\* What an item costs: data-quality issues are only counted.
Share == [schema |-> 30, pipeline |-> 25, middleware |-> 20]
Cost(k) == IF Item(k).category = "data_quality" THEN 3 * 15
           ELSE Penalty[Item(k).severity] * Share[Item(k).category]

Score == Max({0, 10000 - SumFunction([k \in ItemKeys |-> Cost(k)])})

-----------------------------------------------------------------------------

AssessInit == Init /\ others = [f \in Findings |-> 0]

Room == Len(connections) + Cardinality(OtherItems) < MaxSize

Entities == [Fields -> Definitions \cup {NoField}] \cup {NoEntity}

Connect(name, connected, entity) ==
    /\ AddConnection(name, connected, entity)
    /\ UNCHANGED others

Report(finding) ==
    /\ Cardinality(OtherItems) < MaxFindings
    /\ others' = [others EXCEPT ![finding] = @ + 1]
    /\ UNCHANGED connections

Next == /\ Room
        /\ \/ \E n \in Names, connected \in BOOLEAN, e \in Entities : Connect(n, connected, e)
           \/ \E f \in Findings : Report(f)

Spec == AssessInit /\ [][Next]_vars

-----------------------------------------------------------------------------

\* A blocking gap is put behind something that does not block only if that is
\* more severe, or as critical, where the cap of the priority ties them; is a
\* bottleneck or a gap of severity INFO, which has no entry in their maps and
\* takes the default priority; or is a data-quality issue.
BlockingHeldBack ==
    \A j, k \in ItemKeys :
        Item(k).blocking /\ ~Item(j).blocking /\ Precedes(j, k)
        => \/ Weight[Item(j).severity] > Weight[Item(k).severity]
           \/ Item(j).severity = "CRITICAL" /\ Item(k).severity = "CRITICAL"
           \/ Item(j).category \in {"pipeline", "middleware"} /\ Item(j).severity = "INFO"
           \/ Item(j).category = "data_quality"

Rank == [TRIVIAL |-> 1, LOW |-> 2, MEDIUM |-> 3, HIGH |-> 4, CRITICAL |-> 5]
Canonical(k) == \E level \in Levels : Item(k).effort = FromLevel(level)

\* For all its discount and its rounding, the effort of the plan is of no lower
\* level than that of any item with a canonical range of days, and at most one
\* level below that of a gap with a range of its own.
TotalCoversItems ==
    \A k \in ItemKeys : Rank[LevelOf(DaysOf(k, "max"))]
                           <= Rank[TotalLevel] + IF Canonical(k) THEN 0 ELSE 1

\* Neither a system more nor a finding more raises the score, unless the system
\* takes the place of a namesake.
ScoreNeverRises ==
    [][\/ connections' = connections
       \/ Bearers(connections'[Len(connections')].name) = {}
       => ~(Score' > Score)]_vars
=============================================================================
