--------------------------- MODULE EntityMatcher ----------------------------
(***************************************************************************)
(* EntityMatcher.build_entity_groups                                       *)
(* (preflight/analysis/entity_matcher.py): four passes over the tables of  *)
(* all systems, each on what the passes before it left unassigned, that    *)
(* put tables of different systems into groups for one business entity.    *)
(*                                                                         *)
(* A table is its position in the order in which the code visits them:     *)
(* system by system.  Its name is the normalized one, so tables of one     *)
(* system may share it.  A field is a normalized field name; Similar says  *)
(* which ones SequenceMatcher finds close enough.  The list of groups is a *)
(* function on their places: a removed group leaves its place empty.       *)
(***************************************************************************)
EXTENDS Integers, FiniteSets, FiniteSetsExt, Sequences

CONSTANTS
    Estates,        \* the inputs: sequences of tables [system, name, fields]
    DeclaredLists,  \* the inputs: sequences of entities [name, fields]
    Vocabulary,     \* SEED_VOCABULARY: a sequence of [name, synonyms], both normalized
    Normal(_),      \* normalize_table_name, of the name of a declared entity
    Similar,        \* pairs of different fields that _fields_similar accepts
    Cap             \* max_field_overlap_candidates

\* Normalizing is the identity on the seed vocabulary's alias_names.
ASSUME MatchAssumption ==
    /\ Estates \subseteq Seq([system : STRING, name : STRING, fields : SUBSET STRING])
    /\ \A estate \in Estates : \A i \in 1..Len(estate) :
          /\ IsFiniteSet(estate[i].fields)
          /\ \A j \in 1..i : estate[j].system = estate[i].system
                            => \A k \in j..i : estate[k].system = estate[i].system
    /\ DeclaredLists \subseteq Seq([name : STRING, fields : SUBSET STRING])
    /\ \A list \in DeclaredLists : \A d \in 1..Len(list) : IsFiniteSet(list[d].fields)
    /\ Vocabulary \in Seq([name : STRING, synonyms : SUBSET STRING])
    /\ \A v, w \in 1..Len(Vocabulary) :
          /\ Vocabulary[v].name \in Vocabulary[v].synonyms
          /\ \A name \in Vocabulary[v].synonyms : Normal(name) = name
          /\ v # w => Vocabulary[v].synonyms \cap Vocabulary[w].synonyms = {}
    /\ \A pair \in Similar : <<pair[2], pair[1]>> \in Similar
    /\ Cap \in Nat

VARIABLES
    tables,    \* norm_tables
    declared,  \* declared_entities
    pass,      \* the pass under way, and ...
    at,        \* ... the table, entity or vocabulary entry it comes to next
    groups,    \* the groups so far, by their places
    assigned,  \* the tables the first three passes have grouped
    used,      \* the tables the field-overlap pass has grouped
    capped     \* matching_was_capped

matchVars == <<tables, declared, pass, at, groups, assigned, used, capped>>
input == <<tables, declared>>

Tables == 1..Len(tables)
System(i) == tables[i].system
Name(i) == tables[i].name
FieldSet(i) == tables[i].fields
SystemsOf(T) == {System(i) : i \in T}

First(T) == CHOOSE i \in T : \A j \in T : i <= j

\* One table for each system of T, the first.
FirstPerSystem(T) == {i \in T : \A j \in T : System(j) = System(i) => i <= j}

-----------------------------------------------------------------------------
(***************************************************************************)
(* Field overlap                                                           *)
(***************************************************************************)

\* The fields of F that G has, exactly or nearly.
Covered(F, G) == {f \in F : f \in G \/ \E g \in G : <<f, g>> \in Similar}

\* Scores are exact in units of 1/2520 for up to ten fields.
Whole == 2520
Scored(part, total) == IF total = 0 THEN 0 ELSE (Whole * part) \div total

DeclaredScore(F, i) == Scored(Cardinality(Covered(F, FieldSet(i))), Cardinality(F))

PairScore(i, j) ==
    IF FieldSet(i) = {} \/ FieldSet(j) = {} THEN 0
    ELSE Scored(Cardinality(Covered(FieldSet(i), FieldSet(j)))
                  + Cardinality(Covered(FieldSet(j), FieldSet(i))),
                Cardinality(FieldSet(i)) + Cardinality(FieldSet(j)))

GroupThreshold == (Whole * 30) \div 100
PairThreshold == (Whole * 35) \div 100

\* The prefilter of the last pass, and what it lets through.
ShareField(i, j) == FieldSet(i) \cap FieldSet(j) # {}
Paired(i, j) == ShareField(i, j) /\ PairScore(i, j) >= PairThreshold

-----------------------------------------------------------------------------
(***************************************************************************)
(* Groups                                                                  *)
(***************************************************************************)

Strength == [exact |-> 4, declared |-> 3, vocabulary |-> 2, field_overlap |-> 1]
Weakest(methods) == CHOOSE m \in methods : \A n \in methods : Strength[m] <= Strength[n]

\* The methods of a group's links.
LinkMethods(links) == {links[i] : i \in DOMAIN links}

\* A new group of tables linked by one method; field-overlap groups keep no links.
NewGroup(name, T, method) ==
    [name |-> name, tables |-> T, method |-> method,
     links |-> [i \in IF method = "field_overlap" THEN {} ELSE T |-> method]]

\* The tables of T whose systems the group has no table of yet.
NewTo(group, T) == {i \in T : System(i) \notin SystemsOf(group.tables)}

\* Tables of new systems join a group: note_link for each.
Attach(group, T, method) ==
    IF T = {} THEN group
    ELSE LET links == [i \in DOMAIN group.links \cup T |->
                          IF i \in T THEN method ELSE group.links[i]]
         IN  [name |-> group.name, tables |-> group.tables \cup T,
              method |-> Weakest(LinkMethods(links)), links |-> links]

\* The groups with one more, at the end.
NewPlace == Max(DOMAIN groups \cup {0}) + 1
With(group) == [g \in DOMAIN groups \cup {NewPlace} |->
                   IF g = NewPlace THEN group ELSE groups[g]]

Grouped == UNION {groups[g].tables : g \in DOMAIN groups}
Unassigned == Tables \ assigned

\* Where the groups with one of these names are.
Named(names) == {g \in DOMAIN groups : groups[g].name \in names}

GoOn(p, i) == pass' = p /\ at' = i

MatchInit ==
    /\ tables \in Estates
    /\ declared \in DeclaredLists
    /\ pass = "exact" /\ at = 1
    /\ groups = <<>>
    /\ assigned = {} /\ used = {}
    /\ capped = FALSE

-----------------------------------------------------------------------------
(***************************************************************************)
(* 1. Exact same-name groups                                               *)
(***************************************************************************)

SameName(i) == {j \in Tables : Name(j) = Name(i)}

ExactName ==
    /\ pass = "exact" /\ at \in Tables
    /\ GoOn("exact", at + 1)
    /\ IF at = First(SameName(at)) /\ Cardinality(SystemsOf(SameName(at))) >= 2
       THEN LET T == FirstPerSystem(SameName(at))
            IN  /\ groups' = With(NewGroup(Name(at), T, "exact"))
                /\ assigned' = assigned \cup T
       ELSE UNCHANGED <<groups, assigned>>
    /\ UNCHANGED <<input, used, capped>>

ExactDone ==
    /\ pass = "exact" /\ at \notin Tables
    /\ GoOn("declared", 1)
    /\ UNCHANGED <<input, groups, assigned, used, capped>>

-----------------------------------------------------------------------------
(***************************************************************************)
(* 2. Declared entities                                                    *)
(***************************************************************************)

\* Of each system the first of the unassigned tables with the best score, if
\* that reaches the threshold.
BestPerSystem(F) ==
    {i \in Unassigned :
        /\ DeclaredScore(F, i) >= GroupThreshold
        /\ \A j \in Unassigned \ {i} : System(j) = System(i) =>
              \/ DeclaredScore(F, j) < DeclaredScore(F, i)
              \/ DeclaredScore(F, j) = DeclaredScore(F, i) /\ i < j}

\* The group a declared entity joins, looked up by its normalized name ...
GroupsOf(entity) == Named({Normal(entity.name)})
\* ... and the name of the group it starts.
DeclaredName(entity) == entity.name

DeclaredEntity ==
    /\ pass = "declared" /\ at \in 1..Len(declared)
    /\ GoOn("declared", at + 1)
    /\ LET entity == declared[at]
           chosen == BestPerSystem(entity.fields)
           there  == GroupsOf(entity)
       IN  IF there # {}
           THEN LET g == First(there)
                    new == NewTo(groups[g], chosen)
                IN  /\ groups' = [groups EXCEPT ![g] = Attach(@, new, "declared")]
                    /\ assigned' = assigned \cup new
           ELSE IF Cardinality(chosen) >= 2
           THEN /\ groups' = With(NewGroup(DeclaredName(entity), chosen, "declared"))
                /\ assigned' = assigned \cup chosen
           ELSE UNCHANGED <<groups, assigned>>
    /\ UNCHANGED <<input, used, capped>>

DeclaredDone ==
    /\ pass = "declared" /\ at \notin 1..Len(declared)
    /\ GoOn("vocabulary", 1)
    /\ UNCHANGED <<input, groups, assigned, used, capped>>

-----------------------------------------------------------------------------
(***************************************************************************)
(* 3. Seed vocabulary                                                      *)
(***************************************************************************)

\* Mutant: tables that have a group already are looked at again.
KnownAgain(v) == FirstPerSystem({i \in Tables : Name(i) \in Vocabulary[v].synonyms})
Known(v) == FirstPerSystem({i \in Unassigned : Name(i) \in Vocabulary[v].synonyms})

\* Mutant: only the canonical name finds a group, not its synonyms.
OnlyCanonical(v) == Named({Vocabulary[v].name})
\* The groups whose name is the entry's or one of its synonyms.
CompatibleGroups(v) == Named(Vocabulary[v].synonyms)

\* The groups the first of these takes in: each that shares no system with it
\* and those taken in before.
SystemsIn(T) == SystemsOf(UNION {groups[h].tables : h \in T})
Absorbed(G) ==
    (CHOOSE T \in SUBSET G : \A g \in G :
        g \in T <=> SystemsOf(groups[g].tables) \cap SystemsIn({h \in T : h < g}) = {})
    \ {First(G)}

\* Mutant: a group of exact matches stays one when a synonym joins it to another.
StillExact(links, joined) == Weakest(LinkMethods(links))
\* The method of a group after it took in others.
MergedMethod(links, joined) ==
    Weakest(LinkMethods(links) \cup (IF joined THEN {"vocabulary"} ELSE {}))

Merged(g, taken) ==
    LET all == taken \cup {g}
        links == [i \in UNION {DOMAIN groups[h].links : h \in all} |->
                     groups[CHOOSE h \in all : i \in DOMAIN groups[h].links].links[i]]
    IN  [name |-> groups[g].name, tables |-> UNION {groups[h].tables : h \in all},
         method |-> MergedMethod(links, taken # {}), links |-> links]

VocabularyEntry ==
    /\ pass = "vocabulary" /\ at \in 1..Len(Vocabulary)
    /\ GoOn("vocabulary", at + 1)
    /\ LET chosen == Known(at)
           there  == CompatibleGroups(at)
       IN  IF there # {}
           THEN LET g == First(there)
                    taken == Absorbed(there)
                    grown == Merged(g, taken)
                    new == NewTo(grown, chosen)
                IN  /\ groups' = [h \in DOMAIN groups \ taken |->
                                     IF h = g THEN Attach(grown, new, "vocabulary")
                                     ELSE groups[h]]
                    /\ assigned' = assigned \cup new
           ELSE IF Cardinality(chosen) >= 2
           THEN /\ groups' = With(NewGroup(Vocabulary[at].name, chosen, "vocabulary"))
                /\ assigned' = assigned \cup chosen
           ELSE UNCHANGED <<groups, assigned>>
    /\ UNCHANGED <<input, used, capped>>

\* The last pass is quadratic and skipped over too many tables.
VocabularyDone ==
    /\ pass = "vocabulary" /\ at \notin 1..Len(Vocabulary)
    /\ capped' = (Cardinality(Unassigned) > Cap)
    /\ GoOn(IF capped' THEN "done" ELSE "pairs", 1)
    /\ UNCHANGED <<input, groups, assigned, used>>

-----------------------------------------------------------------------------
(***************************************************************************)
(* 4. Field-overlap pairing, and the second sweep                          *)
(***************************************************************************)

\* The tables after the anchor that pair with it.
Partners(anchor) ==
    {j \in Unassigned \ used :
        j > anchor /\ System(j) # System(anchor) /\ Paired(anchor, j)}

\* Mutant: every partner is marked, also those whose system had one before.
MarkAll(anchor) == {anchor} \cup Partners(anchor)
\* The anchor and the tables it takes into its group are spoken for.
Marked(anchor) == {anchor} \cup FirstPerSystem(Partners(anchor))

Anchor ==
    /\ pass = "pairs" /\ at \in Tables
    /\ GoOn("pairs", at + 1)
    /\ IF at \in Unassigned \ used /\ Partners(at) # {}
       THEN LET T == {at} \cup FirstPerSystem(Partners(at))
            IN  /\ groups' = With(NewGroup(Name(at), T, "field_overlap"))
                /\ used' = used \cup Marked(at)
       ELSE UNCHANGED <<groups, used>>
    /\ UNCHANGED <<input, assigned, capped>>

PairsDone ==
    /\ pass = "pairs" /\ at \notin Tables
    /\ GoOn("sweep", 1)
    /\ UNCHANGED <<input, groups, assigned, used, capped>>

\* How well a table fits a group: as well as its best member it shares a field with.
Fit(i, g) ==
    LET near == {j \in groups[g].tables : ShareField(i, j)}
    IN  IF near = {} THEN 0
        ELSE CHOOSE s \in {PairScore(i, j) : j \in near} :
                \A j \in near : PairScore(i, j) <= s

\* The field-overlap groups without the table's system that it fits.
Open(i) == {g \in DOMAIN groups : /\ groups[g].method = "field_overlap"
                                   /\ System(i) \notin SystemsOf(groups[g].tables)
                                   /\ Fit(i, g) >= PairThreshold}

Sweep ==
    /\ pass = "sweep" /\ at \in Tables
    /\ GoOn("sweep", at + 1)
    /\ IF at \in Unassigned \ used /\ Open(at) # {}
       THEN LET best == {g \in Open(at) : \A h \in Open(at) : Fit(at, h) <= Fit(at, g)}
            IN  /\ groups' = [groups EXCEPT ![First(best)].tables = @ \cup {at}]
                /\ used' = used \cup {at}
       ELSE UNCHANGED <<groups, used>>
    /\ UNCHANGED <<input, assigned, capped>>

SweepDone ==
    /\ pass = "sweep" /\ at \notin Tables
    /\ GoOn("done", 1)
    /\ UNCHANGED <<input, groups, assigned, used, capped>>

-----------------------------------------------------------------------------
MatchNext == \/ ExactName \/ ExactDone
        \/ DeclaredEntity \/ DeclaredDone
        \/ VocabularyEntry \/ VocabularyDone
        \/ Anchor \/ PairsDone
        \/ Sweep \/ SweepDone

MatchSpec == MatchInit /\ [][MatchNext]_matchVars

-----------------------------------------------------------------------------
Passes == {"exact", "declared", "vocabulary", "pairs", "sweep", "done"}

MatchTypeOK ==
    /\ pass \in Passes /\ at \in Nat
    /\ \A g \in DOMAIN groups : /\ groups[g].tables \subseteq Tables
                                 /\ DOMAIN groups[g].links \subseteq groups[g].tables
                                 /\ groups[g].method \in DOMAIN Strength
    /\ assigned \subseteq Tables /\ used \subseteq Tables
    /\ capped \in BOOLEAN

\* No finding is counted twice and no system compared with itself: a table is in
\* one group at most, a group has one table of a system and of two systems or
\* more ("one table per system", "Tables from >= 2 systems"), and what the passes
\* look at again is exactly what has no group.
GroupsAreSound ==
    /\ \A g, h \in DOMAIN groups :
          g # h => groups[g].tables \cap groups[h].tables = {}
    /\ \A g \in DOMAIN groups :
          /\ Cardinality(groups[g].tables) >= 2
          /\ \A i, j \in groups[g].tables : System(i) = System(j) => i = j
    /\ Grouped = assigned \cup used
    /\ assigned \cap used = {}

\* How a table was linked, by the label of its link.
LinkedAs(group, i) ==
    /\ group.links[i] = "exact" =>
          \E j \in DOMAIN group.links \ {i} : group.links[j] = "exact" /\ Name(j) = Name(i)
    /\ group.links[i] = "declared" =>
          \E d \in 1..Len(declared) : DeclaredScore(declared[d].fields, i) >= GroupThreshold
    /\ group.links[i] = "vocabulary" =>
          \E v \in 1..Len(Vocabulary) :
              {Name(i), Normal(group.name)} \subseteq Vocabulary[v].synonyms

\* "method + confidence must state how the link was actually made" (ADR-011): a
\* group's method is no stronger than any of its links, a group called exact has
\* one name, and each link was made by the method it is labelled with.
MethodTellsHow ==
    \A g \in DOMAIN groups :
        LET group == groups[g]
        IN  /\ \A i \in DOMAIN group.links : /\ Strength[group.method] <= Strength[group.links[i]]
                                            /\ LinkedAs(group, i)
            /\ group.method = "exact" => \A i, j \in group.tables : Name(i) = Name(j)
            /\ group.method = "field_overlap" =>
                  \A i \in group.tables : \E j \in group.tables \ {i} : Paired(i, j)

\* "everything still unassigned" is paired: when the matcher is done no two
\* tables without a group, of different systems, pair with each other, unless
\* the last pass was skipped.
NoPairLeftBehind ==
    pass = "done" /\ ~capped =>
        \A i, j \in Tables \ Grouped : System(i) # System(j) => ~Paired(i, j)

\* The groups that some vocabulary entry's name or synonym names, however declared.
About(v) == {g \in DOMAIN groups : /\ Normal(groups[g].name) \in Vocabulary[v].synonyms
                                  /\ groups[g].method # "field_overlap"}

\* A table the vocabulary knows is not "silently excluded from analysis" when the
\* entity has a group: some group of the entity has a table of its system.
NoKnownTableExcluded ==
    pass \in {"pairs", "sweep", "done"} =>
        \A v \in 1..Len(Vocabulary) : About(v) # {} =>
            \A i \in Unassigned : Name(i) \in Vocabulary[v].synonyms =>
                \E g \in About(v) : System(i) \in SystemsOf(groups[g].tables)

\* What that takes: a name that normalizes to a known one is a known one.  Names of
\* tables are normalized once; a declared entity's name is the group's as it stands.
KnownNames ==
    \A v \in 1..Len(Vocabulary) :
        LET known == Vocabulary[v].synonyms
        IN  /\ \A estate \in Estates : \A i \in 1..Len(estate) :
                  Normal(estate[i].name) \in known => estate[i].name \in known
            /\ \A list \in DeclaredLists : \A d \in 1..Len(list) :
                  Normal(list[d].name) \in known => list[d].name \in known
=============================================================================
