---------------------------- MODULE SchemaAnalysis ----------------------------
(***************************************************************************)
(* SchemaAnalysisService (core/application/services/                       *)
(* schema_analysis_service.py): how one business entity is represented in  *)
(* the systems a run is connected to, and what map_entity and              *)
(* detect_inconsistencies make of that.  Entities are analysed one after   *)
(* the other and share nothing, so there is one.                           *)
(*                                                                         *)
(* The connections of a run grow by add_connection, at its end; a step     *)
(* compares the analysis with the analysis of one system more.             *)
(***************************************************************************)
EXTENDS Integers, FiniteSets, FiniteSetsExt, Functions, Sequences

CONSTANTS Names,       \* connection names, which need not be different
          Fields,      \* field names of the entity
          Family,      \* data type |-> its group of equivalent types, or itself
          Definitions  \* what a system may say of a field: its type, and whether it is a key

Untyped == "untyped"    \* no "type" in the field's metadata
NoField == [type |-> "none", key |-> FALSE]
NoEntity == [f \in Fields |-> [type |-> "no entity", key |-> FALSE]]

ASSUME SchemaAssumption ==
    /\ IsFiniteSet(Fields)
    /\ Definitions \subseteq [type : DOMAIN Family \cup {Untyped}, key : BOOLEAN]

VARIABLE connections   \* the run's profiles: name, connected or not, the entity's fields

-----------------------------------------------------------------------------
(* analyze_schemas *)

\* The profiles that are connected and describe the entity.
Represented == {i \in DOMAIN connections :
                    connections[i].connected /\ connections[i].entity # NoEntity}

\* system_representations is a dictionary by connection name: a namesake takes
\* the place of the earlier one and its metadata win.
Systems == {connections[i].name : i \in Represented}
Bearers(s) == {i \in Represented : connections[i].name = s}
Place(s) == Min(Bearers(s))
FieldsOf(s) == connections[Max(Bearers(s))].entity

Has(s, f) == FieldsOf(s)[f] # NoField

-----------------------------------------------------------------------------
(* map_entity *)

\* _type_similarity, in percent.
Similarity(a, b) == IF Untyped \in {a, b} THEN 50
                    ELSE IF a = b THEN 100
                    ELSE IF Family[a] = Family[b] THEN 90 ELSE 20

Compatible(a, b) == Similarity(a, b) >= 90

\* Every pair of systems, each field of the earlier one.  Mutant: only fields that
\* both have.
CommonFields == {m \in Fields \X Systems \X Systems :
                     Place(m[2]) < Place(m[3]) /\ Has(m[2], m[1]) /\ Has(m[3], m[1])}
FieldMappings == {m \in Fields \X Systems \X Systems :
                      Place(m[2]) < Place(m[3]) /\ Has(m[2], m[1])}
MappingScore(m) == IF Has(m[3], m[1])
                   THEN Similarity(FieldsOf(m[2])[m[1]].type, FieldsOf(m[3])[m[1]].type)
                   ELSE 0

\* consistency_score is the mean of the scores: at least so many percent.
ConsistentTo(percent) == SumFunction([m \in FieldMappings |-> MappingScore(m)])
                             >= percent * Cardinality(FieldMappings)

-----------------------------------------------------------------------------
(* detect_inconsistencies *)

Inconsistency(kind, f, s, t, severity) ==
    [kind |-> kind, field |-> f, source |-> s, target |-> t, severity |-> severity]

\* Mutant: only what a single system has is missing elsewhere.
MissingIfAlone == {Inconsistency("missing_field", m[1], m[2], m[3], "MEDIUM") :
                      m \in {n \in Fields \X Systems \X Systems :
                                 /\ Has(n[2], n[1])
                                 /\ n[3] # n[2]
                                 /\ \A s \in Systems \ {n[2]} : ~Has(s, n[1])}}
Missing == {Inconsistency("missing_field", m[1], m[2], m[3],
                          IF FieldsOf(m[2])[m[1]].key THEN "HIGH" ELSE "MEDIUM") :
                m \in {n \in Fields \X Systems \X Systems :
                           Has(n[2], n[1]) /\ ~Has(n[3], n[1])}}

Mismatched(a, b) == Untyped \notin {a, b} /\ ~Compatible(a, b)
Mismatches == {Inconsistency("type_mismatch", m[1], m[2], m[3], "HIGH") :
                   m \in {n \in FieldMappings :
                              /\ Has(n[3], n[1])
                              /\ Mismatched(FieldsOf(n[2])[n[1]].type, FieldsOf(n[3])[n[1]].type)}}

Inconsistencies == Missing \cup Mismatches

-----------------------------------------------------------------------------

Init == connections = <<>>

\* add_connection of a profile whose connector has or has not connected and, if
\* it has, has or has not described the entity.
AddConnection(name, connected, entity) ==
    /\ connected \/ entity = NoEntity
    /\ connections' = Append(connections,
                             [name |-> name, connected |-> connected, entity |-> entity])

-----------------------------------------------------------------------------

\* What a consistency score of 1.0 ("perfectly consistent") may hide: fields that
\* only later systems have, nothing else.
PerfectScoreHides ==
    ConsistentTo(100) => \A i \in Inconsistencies :
                             i.kind = "missing_field" /\ Place(i.target) < Place(i.source)
=============================================================================
