------------------------------ MODULE Diagnosis ------------------------------
(***************************************************************************)
(* What run_diagnostic makes of the systems it has collected (steps 2 to 5 *)
(* of preflight/analysis/pipeline_runner.py): the matcher groups their     *)
(* tables, SchemaAnalyzer compares the tables of every group pair by pair, *)
(* MiddlewareAnalyzer derives what is missing, ReadinessCalculator judges, *)
(* and build_remediation_plan says what to do.                             *)
(*                                                                         *)
(* A behaviour adds one system after another to an estate, so that a step  *)
(* compares the report with the report of one system more.  The matcher    *)
(* (module EntityMatcher) groups the whole estate again each time: here it *)
(* may give any groups.  Or a behaviour hands the calculator findings of   *)
(* any kind, as calculate lets its callers do.                             *)
(***************************************************************************)
EXTENDS Readiness, SequencesExt

CONSTANTS Canonical,   \* the canonical names of the entity groups, in the matcher's order
          Normal,      \* field name |-> its normalized form
          Ratio,       \* how alike one normalized name is to another, in percent
          Keylike,     \* the field names that contain "id"
          Alike,       \* the sets of two different types that are compatible
          Threshold,   \* similarity_threshold, in percent
          Menu,        \* the systems that are added: type, outcome of the stress test, tables
          MaxSystems,  \* bound: systems of an estate
          MaxTables,   \* bound: tables of an estate
          MaxRegrouped \* bound: systems of an estate whose tables are grouped afresh

Groups == DOMAIN Canonical
Field == [name : DOMAIN Normal, type : UNION Alike]
Outcomes == {"systemFine", "systemErrors", "systemSlow", "systemBoth", "untested"}

ASSUME DiagnosisAssumption ==
    /\ IsFiniteSet(Groups) /\ Groups \subseteq Nat
    /\ Keylike \subseteq DOMAIN Normal
    /\ \A s \in Menu : /\ s.type \in {"ERP", "CRM", "other"}
                       /\ s.stress \in Outcomes
                       /\ s.tables \in Seq(Seq(Field))

VARIABLES estate,   \* the systems: inputs.systems, with their tables
          groups,   \* the entity groups: group.tables, in its order
          report    \* the inconsistencies reported, counted by their severity

diagnosisVars == <<findings, estate, groups, report>>

Size == Len(estate)

\* A table is a system and its place there.
Tables == UNION {{s} \X DOMAIN estate[s].tables : s \in 1..Size}
Fields(table) == estate[table[1]].tables[table[2]]

\* What build_entity_groups may return: a group lists at most one table of each
\* system, and no table is in two groups.  A name no group has lists nothing.
Lists == UNION {{list \in [1..n -> Tables] :
                    \A j, k \in 1..n : list[j][1] = list[k][1] => j = k} : n \in 0..Size}
Groupings ==
    {grouping \in [Groups -> Lists] :
        \A g, h \in Groups : g # h => Range(grouping[g]) \cap Range(grouping[h]) = {}}

-----------------------------------------------------------------------------
(* compare_entity_across_systems *)

\* The field of a table that is taken for a field: the first with the same
\* normalized name, else the first of the most alike; 0 if none is.  A field may
\* be taken more than once.
Likeness(field, other) == Ratio[Normal[field.name]][Normal[other.name]]
Match(field, table) ==
    LET same == {k \in DOMAIN table : Normal[table[k].name] = Normal[field.name]}
        near == {k \in DOMAIN table \ same : Likeness(field, table[k]) >= Threshold}
        best == {k \in near : \A l \in near : Likeness(field, table[l])
                                                  <= Likeness(field, table[k])}
    IN  IF same # {} THEN Min(same) ELSE IF near # {} THEN Min(best) ELSE 0

Compatible(t, u) == t = u \/ {t, u} \in Alike

\* What is reported of a pair of tables: missing fields, in the second only;
\* incompatible types; and once, that the matched keys have other names.
Lacking(source, target) == {k \in DOMAIN source : Match(source[k], target) = 0}
Matched(source, target) == DOMAIN source \ Lacking(source, target)
Clashing(source, target) ==
    {k \in Matched(source, target) :
        ~Compatible(source[k].type, target[Match(source[k], target)].type)}
KeyMismatch(source, target) ==
    LET matched == Matched(source, target)
        here == {source[k].name : k \in matched} \cap Keylike
        there == {target[Match(source[k], target)].name : k \in matched} \cap Keylike
    IN  here # {} /\ there # {} /\ here # there

-----------------------------------------------------------------------------
(* analyze_entity_groups; generate_inconsistency_report *)

\* A table without fields does not count.
Members(g) == {j \in DOMAIN groups[g] : Fields(groups[g][j]) # <<>>}
Analysed == {g \in Groups : Cardinality(Members(g)) >= 2}

\* Groups of one name are kept apart by a number.  Mutant: they are not.
ByName(g) == <<Canonical[g], 1>>
Key(g) == <<Canonical[g], Cardinality({h \in Analysed : h <= g /\ Canonical[h] = Canonical[g]})>>

\* A dictionary: the last group under a key is the one reported.
Kept == {g \in Analysed : \A h \in Analysed : h > g => Key(h) # Key(g)}

\* The comparisons: the pairs of tables of a group, in the order of the group.
PairsOf(g) == {<<groups[g][p[1]], groups[g][p[2]]>> :
                  p \in {q \in Members(g) \X Members(g) : q[1] < q[2]}}
Comparisons == UNION {PairsOf(g) : g \in Kept}
Source(c) == Fields(c[1])
Target(c) == Fields(c[2])

\* The inconsistencies reported: of a comparison, or of a field of its source.
Mismatched == {c \in Comparisons : KeyMismatch(Source(c), Target(c))}
Missing    == UNION {{c} \X Lacking(Source(c), Target(c)) : c \in Comparisons}
Mistyped   == UNION {{c} \X Clashing(Source(c), Target(c)) : c \in Comparisons}

Reported == [critical |-> Cardinality(Mismatched),
             high |-> Cardinality(Missing),
             medium |-> Cardinality(Mistyped)]

Critical == report.critical
High     == report.high
Medium   == report.medium
Issues   == Critical + High + Medium

-----------------------------------------------------------------------------
(* MiddlewareAnalyzer.analyze *)

Gap(type, severity, blocking) == [type |-> type, severity |-> severity, blocking |-> blocking]

HasType(type) == \E s \in 1..Size : estate[s].type = type

Gateway == IF Size > 2 THEN {Gap("api_gateway", "HIGH", Size > 4)} ELSE {}
\* Mutant: only key mismatches ask for harmonization.
EtlForKeys == IF Critical > 3 THEN {Gap("etl_pipeline", "HIGH", TRUE)} ELSE {}
Etl == IF Issues > 3 THEN {Gap("etl_pipeline", "HIGH", TRUE)} ELSE {}
SemanticLayer == {IF Critical > 0 THEN Gap("semantic_layer", "CRITICAL", TRUE)
                                  ELSE Gap("semantic_layer", "HIGH", FALSE)}
RestApi == IF HasType("ERP") /\ HasType("CRM") THEN {Gap("rest_api", "MEDIUM", FALSE)} ELSE {}

GapsFound == Gateway \cup Etl \cup SemanticLayer \cup RestApi

-----------------------------------------------------------------------------
(* The arguments of calculate *)

GapKind(gap) == IF gap.blocking
                THEN IF gap.severity = "CRITICAL" THEN "gapBoth" ELSE "gapBlocking"
                ELSE IF gap.severity = "CRITICAL" THEN "gapCritical" ELSE "gap"
GapKinds == {"gap", "gapCritical", "gapBlocking", "gapBoth"}

Stressed(outcome) == Cardinality({s \in 1..Size : estate[s].stress = outcome})

\* run_diagnostic has no quality checks and no security issues to hand over.
Counted ==
  [k \in Kinds |->
    CASE k = "schemaCritical" -> Critical
      [] k = "schemaHigh" -> High
      [] k = "schemaOther" -> Medium
      [] k \in Outcomes -> Stressed(k)
      [] k \in GapKinds -> Cardinality({gap \in GapsFound : GapKind(gap) = k})
      [] OTHER -> 0]

-----------------------------------------------------------------------------
(* build_remediation_plan *)

\* What the plan has an item for.  Mutant: high-severity issues have none.
WithoutHigh == {gap \in GapsFound : gap.blocking}
               \cup (IF Critical > 0 THEN {Gap("schema", "CRITICAL", FALSE)} ELSE {})
Plan == {gap \in GapsFound : gap.blocking}
        \cup (IF Critical > 0 THEN {Gap("schema", "CRITICAL", FALSE)} ELSE {})
        \cup (IF High > 0 THEN {Gap("schema", "HIGH", FALSE)} ELSE {})

-----------------------------------------------------------------------------

DiagnosisInit ==
    /\ Init
    /\ estate = <<>> /\ groups = [g \in Groups |-> <<>>]
    /\ report = [critical |-> 0, high |-> 0, medium |-> 0]

\* The groups keep their tables and their order; each may get one of a system more.
Extended(system) ==
    \E place \in [Groups -> 1..(Size + 1)], table \in [Groups -> 0..Len(system.tables)] :
        /\ \A g \in Groups : place[g] <= (IF table[g] = 0 THEN 1 ELSE Len(groups[g]) + 1)
        /\ \A g, h \in Groups : g # h => table[g] = 0 \/ table[g] # table[h]
        /\ groups' = [g \in Groups |->
               IF table[g] = 0 THEN groups[g]
               ELSE InsertAt(groups[g], place[g], <<Size + 1, table[g]>>)]

\* One system more, after the others, and a diagnosis of them all.  The bounds
\* leave out nothing but steps: what Extended gives step by step is every grouping.
AddSystem(system) ==
    /\ Size < MaxSystems
    /\ Cardinality(Tables) + Len(system.tables) <= MaxTables
    /\ estate # <<>> \/ findings = [k \in Kinds |-> 0]
    /\ estate' = Append(estate, system)
    /\ IF Size < MaxRegrouped THEN groups' \in Groupings' ELSE Extended(system)
    /\ report' = Reported'
    /\ findings' = Counted'

\* One finding more among those a caller of calculate has.
Given(kind) ==
    /\ estate = <<>>
    /\ Find(kind)
    /\ UNCHANGED <<estate, groups, report>>

DiagnosisNext == \/ \E system \in Menu : AddSystem(system)
                 \/ \E kind \in Found : Given(kind)

DiagnosisSpec == DiagnosisInit /\ [][DiagnosisNext]_diagnosisVars

-----------------------------------------------------------------------------

\* What a GO may hide under the default weights.  Of findings given: no blocking
\* gap, at most three CRITICAL schema inconsistencies, at most two systems both
\* slow and failing.  Of an estate, where the gaps follow from the rest: at most
\* four systems and three inconsistencies, none of them CRITICAL.
GoHides ==
    Verdict = "GO" =>
        /\ Blocking = 0 /\ N("schemaCritical") <= 3 /\ N("systemBoth") <= 2
        /\ estate # <<>> => Size <= 4 /\ Inconsistencies <= 3 /\ N("schemaCritical") = 0

\* With one exception a finding never improves the verdict: the first blocking
\* gap turns NOT_READY into NOT_YET.
VerdictNeverImproves ==
    [][estate' = <<>> /\ Rank(Verdict') > Rank(Verdict)
         => Verdict = "NOT_READY" /\ Blocking = 0 /\ Blocking' = 1]_diagnosisVars

\* The pairs of tables the matcher puts together, each in the order of its group.
Together == UNION {PairsOf(g) : g \in Groups}

\* A system more improves the verdict on an estate only where the matcher, which
\* groups all tables again, no longer puts an earlier pair together or turns it
\* round.  As long as it does not, no rule stops firing and no group's findings make
\* way for those of a namesake.
OnlyRegroupingImproves ==
    [][estate # <<>> /\ Together \subseteq Together'
         => Rank(Verdict') <= Rank(Verdict)]_diagnosisVars

\* A diagnosis that is not GO says what to remedy, unless it is for the systems
\* that failed or were slow under stress, which the plan leaves out.
PlanExplainsVerdict ==
    estate # <<>> /\ Verdict # "GO" /\ PipelinePenalty <= 60 => Plan # {}

\* "ReadinessVerdict is NOT_READY if any CRITICAL SchemaInconsistency is present,
\* regardless of the numeric score." (docs/ddd/bounded-contexts.md:289)
CriticalMeansNotReady == estate # <<>> /\ Critical > 0 => Verdict = "NOT_READY"
=============================================================================
