---------------------------- MODULE DiagnosticApi ----------------------------
(***************************************************************************)
(* The HTTP service's diagnostic runs and connections                      *)
(* (preflight/api/routes/diagnostics.py, connections.py, reports.py) over  *)
(* the in-memory stores of preflight/api/dependencies.py.                  *)
(*                                                                         *)
(* Handlers and background tasks share one event loop: a step runs from    *)
(* one await to the next.  A run's task keeps the run's dict, so it goes   *)
(* on writing to it after the run was deleted from the store.              *)
(***************************************************************************)
EXTENDS Integers, FiniteSets

CONSTANTS Runs,        \* run ids, uuid4: never used twice
          Conns,       \* connection ids, likewise
          MayCancel    \* background tasks may be cancelled at an await

ASSUME ApiAssumption == MayCancel \in BOOLEAN

VARIABLES conn,       \* each connection: not created, under test, stored, deleted
          retesting,  \* connections with a re-test in flight
          runs,       \* the keys of _runs_store
          status,     \* run["status"] of each run's dict
          progress,   \* run["progress_pct"]
          requested,  \* request.connection_ids, as a set
          gathered,   \* the connections conn_defs was built from
          task,       \* where each run's background task is
          reports     \* the keys of _reports_store

vars == <<conn, retesting, runs, status, progress, requested, gathered, task, reports>>
connVars == <<conn, retesting>>
runVars == <<runs, status, progress, requested, gathered, task, reports>>

ConnStates == {"unused", "probing", "stored", "deleted"}
RunStatuses == {"pending", "running", "completed", "failed"}
\* "closing" and "unwinding" are run_diagnostic's finally clause, after a payload
\* and after an exception; "dropped" is a task that ended without a verdict.
TaskStates == {"none", "queued", "started", "connecting", "matching", "stressing",
               "closing", "unwinding", "building", "done", "dropped"}
Awaiting == TaskStates \ {"none", "queued", "done", "dropped"}

\* on_progress's table of percentages.  Mutant: two stages
\* swapped.
StagesSwapped == [connect |-> 45, schema |-> 25, pipeline |-> 65,
                  middleware |-> 75, score |-> 85, report |-> 95]
Stages == [connect |-> 25, schema |-> 45, pipeline |-> 65,
           middleware |-> 75, score |-> 85, report |-> 95]

\* The keys of _connections_store.  A failed probe is stored too.
ConnStore == {c \in Conns : conn[c] = "stored"}

Init == /\ conn = [c \in Conns |-> "unused"]
        /\ retesting = {}
        /\ runs = {}
        /\ status = [r \in Runs |-> "pending"]
        /\ progress = [r \in Runs |-> 0]
        /\ requested = [r \in Runs |-> {}]
        /\ gathered = [r \in Runs |-> {}]
        /\ task = [r \in Runs |-> "none"]
        /\ reports = {}

-----------------------------------------------------------------------------
(* Connections *)

\* POST /connections awaits the probe before it stores the record.
CreateConnection(c) ==
    /\ conn[c] = "unused"
    /\ conn' = [conn EXCEPT ![c] = "probing"]
    /\ UNCHANGED <<retesting, runVars>>

ConnectionProbed(c) ==
    /\ conn[c] = "probing"
    /\ conn' = [conn EXCEPT ![c] = "stored"]
    /\ UNCHANGED <<retesting, runVars>>

DeleteConnection(c) ==
    /\ conn[c] = "stored"
    /\ conn' = [conn EXCEPT ![c] = "deleted"]
    /\ UNCHANGED <<retesting, runVars>>

RetestConnection(c) ==
    /\ conn[c] = "stored"
    /\ c \notin retesting
    /\ retesting' = retesting \cup {c}
    /\ UNCHANGED <<conn, runVars>>

\* The probe's answer goes into the record the handler holds, not into the
\* store.
UpdateRecord(c) == UNCHANGED conn

RetestDone(c) ==
    /\ c \in retesting
    /\ retesting' = retesting \ {c}
    /\ UpdateRecord(c)
    /\ UNCHANGED runVars

-----------------------------------------------------------------------------
(* Runs *)

\* POST /diagnostics answers 422 unless every id is in the store.
CreateRun(r, ids) ==
    /\ task[r] = "none"
    /\ ids \subseteq ConnStore
    /\ runs' = runs \cup {r}
    /\ requested' = [requested EXCEPT ![r] = ids]
    /\ task' = [task EXCEPT ![r] = "queued"]
    /\ UNCHANGED <<connVars, status, progress, gathered, reports>>

DeleteRun(r) ==
    /\ r \in runs
    /\ runs' = runs \ {r}
    /\ reports' = reports \ {r}
    /\ UNCHANGED <<connVars, status, progress, requested, gathered, task>>

\* GET /diagnostics/{id}/report and the three of reports.py answer 200.
ReportServed(r) == r \in runs /\ status[r] = "completed" /\ r \in reports

-----------------------------------------------------------------------------
(* The background task, _run_diagnostic *)

\* runs_store[run_id] raises KeyError, outside the try, if the run is gone.
TaskStart(r) ==
    /\ task[r] = "queued"
    /\ r \in runs
    /\ status' = [status EXCEPT ![r] = "running"]
    /\ progress' = [progress EXCEPT ![r] = 10]
    /\ task' = [task EXCEPT ![r] = "started"]
    /\ UNCHANGED <<connVars, runs, requested, gathered, reports>>

TaskStartKeyError(r) ==
    /\ task[r] = "queued"
    /\ r \notin runs
    /\ task' = [task EXCEPT ![r] = "dropped"]
    /\ UNCHANGED <<connVars, runs, status, progress, requested, gathered, reports>>

\* Connections deleted since the request was accepted are left out.  Mutant: one
\* that was created meanwhile is taken as well.
AllStored(r) == ConnStore
StillStored(r) == requested[r] \cap ConnStore

Gather(r) ==
    /\ task[r] = "started"
    /\ gathered' = [gathered EXCEPT ![r] = StillStored(r)]
    /\ task' = [task EXCEPT ![r] = "connecting"]
    /\ UNCHANGED <<connVars, runs, status, progress, requested, reports>>

\* The two "except" clauses: PipelineError, and any other exception.  Mutant: a
\* bare return.
JustReturn(r) == task' = [task EXCEPT ![r] = "done"] /\ UNCHANGED status
SetFailed(r) ==
    /\ status' = [status EXCEPT ![r] = "failed"]
    /\ task' = [task EXCEPT ![r] = "done"]

\* Nothing connected (in particular, nothing was left to connect to), or an
\* exception before any system was collected: no finally clause to await.
CollectFails(r) ==
    /\ task[r] = "connecting"
    /\ SetFailed(r)
    /\ UNCHANGED <<connVars, runs, progress, requested, gathered, reports>>

Collected(r) ==
    /\ task[r] = "connecting"
    /\ gathered[r] # {}
    /\ progress' = [progress EXCEPT ![r] = Stages.connect]
    /\ task' = [task EXCEPT ![r] = "matching"]
    /\ UNCHANGED <<connVars, runs, status, requested, gathered, reports>>

Matched(r) ==
    /\ task[r] = "matching"
    /\ progress' = [progress EXCEPT ![r] = Stages.schema]
    /\ task' = [task EXCEPT ![r] = "stressing"]
    /\ UNCHANGED <<connVars, runs, status, requested, gathered, reports>>

\* After the stress test nothing is awaited until the report stage.
Analysed(r) ==
    /\ task[r] = "stressing"
    /\ progress' = [progress EXCEPT ![r] = Stages.report]
    /\ task' = [task EXCEPT ![r] = "closing"]
    /\ UNCHANGED <<connVars, runs, status, requested, gathered, reports>>

\* An analysis step raises; the stages it had passed are reported already.
AnalysisRaises(r) ==
    /\ task[r] \in {"matching", "stressing"}
    /\ task' = [task EXCEPT ![r] = "unwinding"]
    /\ \/ UNCHANGED progress
       \/ /\ task[r] = "stressing"
          /\ \E stage \in {"pipeline", "middleware", "score"} :
                progress' = [progress EXCEPT ![r] = Stages[stage]]
    /\ UNCHANGED <<connVars, runs, status, requested, gathered, reports>>

Closed(r) ==
    /\ task[r] = "closing"
    /\ task' = [task EXCEPT ![r] = "building"]
    /\ UNCHANGED <<connVars, runs, status, progress, requested, gathered, reports>>

Unwound(r) ==
    /\ task[r] = "unwinding"
    /\ SetFailed(r)
    /\ UNCHANGED <<connVars, runs, progress, requested, gathered, reports>>

StoreReport(r) == reports' = reports \cup {r}

BuildReport(r) ==
    /\ task[r] = "building"
    /\ StoreReport(r)
    /\ status' = [status EXCEPT ![r] = "completed"]
    /\ progress' = [progress EXCEPT ![r] = 100]
    /\ task' = [task EXCEPT ![r] = "done"]
    /\ UNCHANGED <<connVars, runs, requested, gathered>>

\* A row the response models reject, for instance.
BuildRaises(r) ==
    /\ task[r] = "building"
    /\ SetFailed(r)
    /\ UNCHANGED <<connVars, runs, progress, requested, gathered, reports>>

\* CancelledError is not an Exception: no clause of _run_diagnostic sees it.
TaskCancelled(r) ==
    /\ MayCancel
    /\ task[r] \in Awaiting
    /\ task' = [task EXCEPT ![r] = "dropped"]
    /\ UNCHANGED <<connVars, runs, status, progress, requested, gathered, reports>>

-----------------------------------------------------------------------------

ConnStep(c) == \/ CreateConnection(c)
               \/ ConnectionProbed(c)
               \/ DeleteConnection(c)
               \/ RetestConnection(c)
               \/ RetestDone(c)

\* The event loop runs the task's next step, whatever its outcome.
TaskStep(r) == \/ TaskStart(r)
               \/ TaskStartKeyError(r)
               \/ Gather(r)
               \/ CollectFails(r)
               \/ Collected(r)
               \/ Matched(r)
               \/ Analysed(r)
               \/ AnalysisRaises(r)
               \/ Closed(r)
               \/ Unwound(r)
               \/ BuildReport(r)
               \/ BuildRaises(r)

Next == \/ \E c \in Conns : ConnStep(c)
        \/ \E r \in Runs : \/ \E ids \in SUBSET Conns : CreateRun(r, ids)
                           \/ DeleteRun(r)
                           \/ TaskStep(r)
                           \/ TaskCancelled(r)

Spec == Init /\ [][Next]_vars

\* The event loop runs every task, and every await of the pipeline is bounded by
\* a timeout (connect, metadata, drain) or assumed to return (disconnect).
FairSpec == Spec /\ \A r \in Runs : WF_vars(TaskStep(r))

-----------------------------------------------------------------------------
(* Properties *)

\* The shape of the state.
TypeOK == /\ conn \in [Conns -> ConnStates]
          /\ retesting \in SUBSET Conns
          /\ runs \in SUBSET Runs
          /\ status \in [Runs -> RunStatuses]
          /\ progress \in [Runs -> 0..100]
          /\ requested \in [Runs -> SUBSET Conns]
          /\ gathered \in [Runs -> SUBSET Conns]
          /\ task \in [Runs -> TaskStates]
          /\ reports \in SUBSET Runs

\* A run that a client sees completed has its report and no other run has one to
\* show: the handlers' "Report for run not found" answer (diagnostics.py:341,
\* reports.py:34) is never given.
CompletedHasReport == \A r \in runs : status[r] = "completed" <=> r \in reports

\* A report counts every requested connection but those deleted in the meantime;
\* none that was not requested, however runs and deletions interleave.
ReportCoversRequest ==
    \A r \in reports : /\ gathered[r] \subseteq requested[r]
                       /\ \A c \in requested[r] \ gathered[r] : conn[c] = "deleted"
                       /\ gathered[r] # {}

\* DELETE /connections/{id} is final: a re-test in flight does not bring the
\* record back.
DeletedStaysDeleted ==
    [][\A c \in Conns : conn[c] = "deleted" => conn'[c] = "deleted"]_vars

\* What a client sees of the runs implements RunLifecycle.
Lifecycle == INSTANCE RunLifecycle WITH
    visible <- [r \in Runs |-> IF task[r] = "none" THEN "absent"
                               ELSE IF r \in runs THEN status[r] ELSE "gone"],
    percent <- [r \in Runs |-> IF r \in runs THEN progress[r] ELSE 0],
    readable <- {r \in Runs : ReportServed(r)}

ImplementsLifecycle == Lifecycle!LifecycleSpec

\* No client polls for ever: a run that is pending or running ends, unless it is
\* deleted or its task is cancelled.
EveryRunEnds ==
    \A r \in Runs : (r \in runs) ~> \/ r \notin runs
                                     \/ status[r] \in {"completed", "failed"}
                                     \/ task[r] = "dropped"

=============================================================================
