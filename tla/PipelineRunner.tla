---------------------------- MODULE PipelineRunner ----------------------------
(***************************************************************************)
(* One call of run_diagnostic on real connections                          *)
(* (preflight/analysis/pipeline_runner.py): collect_real_inputs connects   *)
(* to the systems one after another and reads their schemas, the matcher   *)
(* runs in a thread, run_pipeline_tests stresses each real system, and the *)
(* finally clause disconnects.  The caller's task may be cancelled at any  *)
(* await.  The frozen demo data of mock=True opens nothing and awaits      *)
(* nothing, and is left out.                                               *)
(***************************************************************************)
EXTENDS Integers, Sequences, FiniteSets

CONSTANTS N,              \* how many connection definitions there are
          Bases, Names,   \* the names callers give, see Suffixed
          StressEnabled,  \* config analysis.pipeline_stress_test.enabled
          CancelAt,       \* the places where a cancellation may strike ...
          MaxCancels      \* ... and how many there may be

ASSUME RunnerAssumption == /\ N \in Nat
                           /\ Names \subseteq [base : Bases, suffixes : Seq(Nat)]
                           /\ StressEnabled \in BOOLEAN
                           /\ MaxCancels \in Nat

VARIABLES defs,      \* the connection definitions: their names and kinds
          pc,        \* what the call is awaiting, or about to do
          i,         \* the definition collect_real_inputs is at
          name,      \* its name, after renaming
          seen,      \* seen_names
          systems,   \* inputs.systems, each with its name and definition
          k,         \* the system the stress test or a disconnect loop is at
          open,      \* definitions whose connector may hold a connection
          stuck,     \* those a disconnect failed to close
          warned,    \* definitions named by a warning in inputs.warnings
          reported,  \* definitions named by the warnings of the payload
          rows,      \* definitions with a row of stress results
          exit,      \* what the call will end with once it has cleaned up
          cancels    \* cancellations so far

vars == <<defs, pc, i, name, seen, systems, k, open, stuck, warned, reported, rows, exit, cancels>>

Ids == 1..N
\* "refused" stands for the three definitions skipped before a connector exists:
\* unknown type, host not allowed, constructor raised.  A "fallback" is a mock
\* standing in for a missing client library.
Kinds == {"refused", "mock", "fallback", "real"}
Synthetic == {"mock", "fallback"}

InFlight == {"connecting", "dropping", "introspecting"}
Places == InFlight \cup {"collecting", "rescuing", "undoing", "matching", "stressing",
                         "closing", "over"}
Exits == {"none", "payload", "raised", "cancelled"}

\* f"{name} ({n})": a name is a base and the numbers appended to it, so no two
\* different names and numbers give the same result.
Suffixed(nm, n) == [nm EXCEPT !.suffixes = Append(@, n)]

\* Before the first definition.
NoName == [base |-> "", suffixes |-> <<>>]

Collected == {systems[j].def : j \in DOMAIN systems}
\* The definitions whose schema is in inputs.schemas: under a name only the last.
Contributed == {systems[j].def : j \in {m \in DOMAIN systems :
                    \A l \in DOMAIN systems : l > m => systems[l].name # systems[m].name}}
SchemaNames == {systems[j].name : j \in DOMAIN systems}
GivenNames == {defs[d].name : d \in Ids}

Init == /\ defs \in [Ids -> [name : Names, kind : Kinds]]
        /\ pc = "collecting"
        /\ i = 1
        /\ name = NoName
        /\ seen = [nm \in {} |-> 0]
        /\ systems = <<>>
        /\ k = 1
        /\ open = {}
        /\ stuck = {}
        /\ warned = {}
        /\ reported = {}
        /\ rows = {}
        /\ exit = "none"
        /\ cancels = 0

-----------------------------------------------------------------------------
(* collect_real_inputs *)

\* A name is taken if it was renamed before or is a key of inputs.schemas.
\* Mutant: only renamed names are looked at.
OnlyRenamed(nm) == nm \in DOMAIN seen
NameTaken(nm) == nm \in DOMAIN seen \/ nm \in SchemaNames

\* The loop that counts a suffix up until it is free.
FreeSuffix(nm, n) ==
    LET first == (IF nm \in DOMAIN seen THEN seen[nm] ELSE 1) + 1
        free(m) == Suffixed(nm, m) \notin SchemaNames \cup GivenNames
    IN  n >= first /\ free(n) /\ \A m \in first..(n - 1) : ~free(m)

\* Deduplicates the name of definition i.  More than 2 N + 1 numbers never are
\* tried: each one tried is taken by a name or by an earlier renaming.
Rename ==
    LET given == defs[i].name
    IN  IF NameTaken(given)
        THEN \E n \in 2..(2 * N + 2) :
                /\ FreeSuffix(given, n)
                /\ name' = Suffixed(given, n)
                /\ seen' = [nm \in DOMAIN seen \cup {given} |-> IF nm = given THEN n ELSE seen[nm]]
        ELSE name' = given /\ UNCHANGED seen

\* The loop goes on with the next definition.  Mutant: it tries the
\* same one again.
TryAgain == UNCHANGED i
NextDef == i' = i + 1

Refuse ==
    /\ pc = "collecting"
    /\ i <= N
    /\ defs[i].kind = "refused"
    /\ Rename
    /\ warned' = warned \cup {i}
    /\ NextDef
    /\ UNCHANGED <<defs, pc, systems, k, open, stuck, reported, rows, exit, cancels>>

\* A renaming and a fallback are warned about; the connection goes on.
Connect ==
    /\ pc = "collecting"
    /\ i <= N
    /\ defs[i].kind # "refused"
    /\ Rename
    /\ warned' = IF NameTaken(defs[i].name) \/ defs[i].kind = "fallback"
                 THEN warned \cup {i} ELSE warned
    /\ pc' = "connecting"
    /\ UNCHANGED <<defs, i, systems, k, open, stuck, reported, rows, exit, cancels>>

ConnectOk ==
    /\ pc = "connecting"
    /\ pc' = "introspecting"
    /\ open' = open \cup {i}
    /\ UNCHANGED <<defs, i, name, seen, systems, k, stuck, warned, reported, rows, exit, cancels>>

\* Mutant of the next operator: no warning when connect() returned False.
SkipSilently(d) == UNCHANGED warned
Warn(d) == warned' = warned \cup {d}

\* connect() raised, timed out or returned False, maybe half open.
ConnectFails ==
    /\ pc = "connecting"
    /\ Warn(i)
    /\ pc' = "dropping"
    /\ open' \in {open, open \cup {i}}
    /\ UNCHANGED <<defs, i, name, seen, systems, k, stuck, reported, rows, exit, cancels>>

IntrospectFails ==
    /\ pc = "introspecting"
    /\ Warn(i)
    /\ pc' = "dropping"
    /\ UNCHANGED <<defs, i, name, seen, systems, k, open, stuck, reported, rows, exit, cancels>>

\* _safe_disconnect returns whatever happens: it swallows what disconnect() raises,
\* and the connectors themselves only log a close that raises.  A mock has nothing
\* that can fail.
Disconnect(d) ==
    \/ open' = open \ {d} /\ UNCHANGED stuck
    \/ /\ d \in open
       /\ defs[d].kind = "real"
       /\ stuck' = stuck \cup {d}
       /\ UNCHANGED open

\* _safe_disconnect of a system that is not used.
Dropped ==
    /\ pc = "dropping"
    /\ Disconnect(i)
    /\ NextDef
    /\ pc' = "collecting"
    /\ UNCHANGED <<defs, name, seen, systems, k, warned, reported, rows, exit, cancels>>

\* Mutant: the schema is read before the system is added to inputs.systems, and
\* reading it may raise.
AddLast(ok) == systems' = IF ok THEN Append(systems, [name |-> name, def |-> i]) ELSE systems
AddSystem(ok) == systems' = Append(systems, [name |-> name, def |-> i])

IntrospectOk ==
    /\ pc = "introspecting"
    /\ AddSystem(TRUE)
    /\ NextDef
    /\ pc' = "collecting"
    /\ UNCHANGED <<defs, name, seen, k, open, stuck, warned, reported, rows, exit, cancels>>

\* The metadata does not have the expected shape: the outer handler runs.
SchemaRaises ==
    /\ pc = "introspecting"
    /\ AddSystem(FALSE)
    /\ pc' = "undoing"
    /\ k' = 1
    /\ exit' = "raised"
    /\ UNCHANGED <<defs, i, name, seen, open, stuck, warned, reported, rows, cancels>>

\* PipelineError is raised outside the try block.
NothingConnected ==
    /\ pc = "collecting"
    /\ i > N
    /\ systems = <<>>
    /\ pc' = "over"
    /\ exit' = "raised"
    /\ UNCHANGED <<defs, i, name, seen, systems, k, open, stuck, warned, reported, rows, cancels>>

\* inputs.warnings is copied here for the first time.
AllCollected ==
    /\ pc = "collecting"
    /\ i > N
    /\ systems # <<>>
    /\ pc' = "matching"
    /\ reported' = warned
    /\ UNCHANGED <<defs, i, name, seen, systems, k, open, stuck, warned, rows, exit, cancels>>

-----------------------------------------------------------------------------
(* Handlers and the finally clause: disconnect loops *)

Rescued ==
    /\ pc = "rescuing"
    /\ Disconnect(i)
    /\ pc' = "undoing"
    /\ k' = 1
    /\ UNCHANGED <<defs, i, name, seen, systems, warned, reported, rows, exit, cancels>>

MoreToClose == k <= Len(systems)

DisconnectNext ==
    /\ pc \in {"undoing", "closing"}
    /\ MoreToClose
    /\ Disconnect(systems[k].def)
    /\ k' = k + 1
    /\ UNCHANGED <<defs, pc, i, name, seen, systems, warned, reported, rows, exit, cancels>>

\* What was being raised is raised again.  Mutant: a return in the finally clause
\* swallows it.
Swallow == exit' = "payload"
Reraise == UNCHANGED exit

AllDisconnected ==
    /\ pc \in {"undoing", "closing"}
    /\ ~MoreToClose
    /\ pc' = "over"
    /\ Reraise
    /\ UNCHANGED <<defs, i, name, seen, systems, k, open, stuck, warned, reported, rows, cancels>>

-----------------------------------------------------------------------------
(* run_diagnostic after the collection *)

Matched ==
    /\ pc = "matching"
    /\ pc' = "stressing"
    /\ k' = 1
    /\ UNCHANGED <<defs, i, name, seen, systems, open, stuck, warned, reported, rows, exit, cancels>>

Raises ==
    /\ pc \in {"matching", "stressing"}
    /\ pc' = "closing"
    /\ k' = 1
    /\ exit' = "raised"
    /\ UNCHANGED <<defs, i, name, seen, systems, open, stuck, warned, reported, rows, cancels>>

\* run_pipeline_tests on the next system: synthetic ones are skipped, a test
\* that raises leaves a warning, the others leave a row.
StressNext ==
    /\ pc = "stressing"
    /\ StressEnabled
    /\ k <= Len(systems)
    /\ LET d == systems[k].def
       IN  \/ defs[d].kind \in Synthetic /\ UNCHANGED <<rows, warned>>
           \/ defs[d].kind \notin Synthetic /\ rows' = rows \cup {d} /\ UNCHANGED warned
           \/ defs[d].kind \notin Synthetic /\ Warn(d) /\ UNCHANGED rows
    /\ k' = k + 1
    /\ UNCHANGED <<defs, pc, i, name, seen, systems, open, stuck, reported, exit, cancels>>

\* The stress test is awaiting a probe.
UnderStress == /\ StressEnabled
               /\ k <= Len(systems)
               /\ defs[systems[k].def].kind \notin Synthetic

\* The warnings of the stress test are merged into those copied before.  Mutant:
\* they stay in inputs.warnings.
FirstCopy == UNCHANGED reported
MergeLate == reported' = reported \cup warned

\* The analyses that follow the stress test do not await: the payload is built.
Analysed ==
    /\ pc = "stressing"
    /\ ~StressEnabled \/ k > Len(systems)
    /\ MergeLate
    /\ pc' = "closing"
    /\ k' = 1
    /\ exit' = "payload"
    /\ UNCHANGED <<defs, i, name, seen, systems, open, stuck, warned, rows, cancels>>

-----------------------------------------------------------------------------

\* Mutant: "except Exception" instead of BaseException around the connector in
\* flight, which a CancelledError passes.
OuterOnly == "undoing"
RescueFirst == "rescuing"

\* CancelledError is raised at the await the call is suspended at.
Cancel ==
    /\ pc \in CancelAt
    /\ cancels < MaxCancels
    /\ cancels' = cancels + 1
    /\ exit' = "cancelled"
    /\ k' = 1
    /\ \/ /\ pc \in InFlight
          /\ pc' = RescueFirst
          /\ open' \in IF pc = "connecting" THEN {open, open \cup {i}} ELSE {open}
       \/ pc = "rescuing" /\ pc' = "undoing" /\ UNCHANGED open
       \/ pc = "matching" /\ pc' = "closing" /\ UNCHANGED open
       \/ pc = "stressing" /\ UnderStress /\ pc' = "closing" /\ UNCHANGED open
       \/ pc \in {"undoing", "closing"} /\ MoreToClose /\ pc' = "over" /\ UNCHANGED open
    /\ UNCHANGED <<defs, i, name, seen, systems, stuck, warned, reported, rows>>

Step == \/ Refuse
        \/ Connect
        \/ ConnectOk
        \/ ConnectFails
        \/ IntrospectFails
        \/ Dropped
        \/ IntrospectOk
        \/ SchemaRaises
        \/ NothingConnected
        \/ AllCollected
        \/ Rescued
        \/ DisconnectNext
        \/ AllDisconnected
        \/ Matched
        \/ Raises
        \/ StressNext
        \/ Analysed

Next == Step \/ Cancel

Spec == Init /\ [][Next]_vars

\* Every await is bounded by a timeout or, for disconnect() and the matcher's
\* thread, assumed to return.
FairSpec == Spec /\ WF_vars(Step)

-----------------------------------------------------------------------------
(* Properties *)

\* The shape of the state.
TypeOK == /\ \A d \in Ids : defs[d].name \in Names /\ defs[d].kind \in Kinds
          /\ pc \in Places
          /\ i \in 1..(N + 1)
          /\ k \in 1..(N + 1)
          /\ Collected \subseteq Ids
          /\ open \in SUBSET Ids
          /\ stuck \in SUBSET Ids
          /\ warned \in SUBSET Ids
          /\ reported \in SUBSET Ids
          /\ rows \in SUBSET Ids
          /\ exit \in Exits
          /\ cancels \in 0..MaxCancels

\* "a cancelled task (CancelledError) after some connects succeeded must still
\* disconnect them" (pipeline_runner.py:404): however a call ends, a connector it
\* leaves open is one it has tried to disconnect, and that failed to close.
OnlyFailedClosesLeftOpen == pc = "over" => open \subseteq stuck

\* "Failed connections and systems with no implemented connector are skipped
\* with a warning" (pipeline_runner.py:291): in a payload every definition has
\* contributed its schema, which no namesake overwrote, or is named by a warning,
\* and every real system that was to be stressed has a row or is named by one.
NothingSkippedSilently ==
    (pc = "over" /\ exit = "payload") =>
        /\ Ids \subseteq Contributed \cup reported
        /\ StressEnabled =>
              {d \in Collected : defs[d].kind = "real"} \subseteq rows \cup reported

\* "Duplicate names would silently overwrite each other's schemas"
\* (pipeline_runner.py:302): the systems of a run have different names, whatever
\* names the callers chose and whichever connections failed in between.
NamesUnique ==
    \A a, b \in DOMAIN systems : systems[a].name = systems[b].name => a = b

\* The call is what DiagnosticApi's task relies on.
Contract == INSTANCE PipelineContract WITH
    stage <- IF pc \in {"matching", "stressing", "over"} THEN pc
             ELSE IF pc # "closing" THEN "connecting"
             ELSE IF exit = "payload" THEN "closing" ELSE "unwinding",
    outcome <- IF pc = "over" THEN exit ELSE "none"

ImplementsContract == Contract!ContractSpec

\* A call ends, whatever its systems do and wherever it is cancelled.
CallEnds == <>(pc = "over")

=============================================================================
