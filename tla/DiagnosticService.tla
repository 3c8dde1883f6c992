-------------------------- MODULE DiagnosticService --------------------------
(***************************************************************************)
(* DiagnosticService (core/application/services/diagnostic_service.py),    *)
(* the DiagnosticRun aggregate it drives and the two repositories that may *)
(* keep the aggregate.                                                     *)
(*                                                                         *)
(* A step goes from one await to the next.  The in-memory repository keeps *)
(* the very object its callers hold and never suspends, so a task keeps    *)
(* its turn until it ends.  The PostgreSQL one suspends in every call, may *)
(* raise in every call, and gives out a fresh object made from the row,    *)
(* which keeps no events.                                                  *)
(*                                                                         *)
(* The row has no version, so two calls of start_run may both find a run   *)
(* pending before either saves it, and two pipelines work on it.  The      *)
(* variable raced remembers the runs this happened to.                     *)
(***************************************************************************)
EXTENDS Naturals, Sequences

CONSTANTS Runs,     \* run ids
          Calls     \* calls of start_run, each with the pipeline task it may spawn

Stores == {"memory", "rows"}

ASSUME ServiceAssumption == "nobody" \notin Calls

VARIABLES store,   \* the repository
          saved,   \* the runs in it
          call,    \* where each start_run and its task are, and their run
          mine,    \* the aggregate that a task holds, if it is not the saved one
          turn,    \* the task that has not given up the event loop
          told,    \* the domain events dispatched, by run
          raced    \* history: the runs found pending while another call was starting them

vars == <<store, saved, call, mine, turn, told, raced>>

NoRun == "none"
Nobody == "nobody"
Statuses == {"pending", "running", "analyzing", "reporting", "completed", "failed"}

\* Where a task may be.  "stranded": it ended without recording an outcome.
Places == {"idle", "finding", "starting", "spawned", "analyzing", "analysed", "reporting",
           "drafting", "finishing", "failing", "recording", "refused", "done", "stranded"}

Absent == [status |-> "absent"]
NewRun == [status |-> "pending", progress |-> 0, report |-> FALSE, events |-> <<>>]

Init == /\ store \in Stores
        /\ saved = [r \in Runs |-> Absent]
        /\ call = [c \in Calls |-> [at |-> "idle", run |-> NoRun]]
        /\ mine = [c \in Calls |-> Absent]
        /\ turn = Nobody
        /\ told = [r \in Runs |-> <<>>]
        /\ raced = {}

-----------------------------------------------------------------------------
(* DiagnosticRun *)

Start(run) == [run EXCEPT !.status = "running", !.events = Append(@, "Started")]

CompleteAnalysis(run) == [run EXCEPT !.status = "reporting", !.progress = 80]

\* Mutants: the report is not attached; the completion is not told.
CompleteBare(run) == [run EXCEPT !.status = "completed", !.progress = 100,
                                 !.events = Append(@, "Completed")]
CompleteSilently(run) == [run EXCEPT !.report = TRUE, !.status = "completed",
                                     !.progress = 100]
Complete(run) == [run EXCEPT !.report = TRUE, !.status = "completed", !.progress = 100,
                             !.events = Append(@, "Completed")]

\* Mutant: the error is recorded, the status is not.
Note(run) == [run EXCEPT !.progress = @]
Fail(run) == [run EXCEPT !.status = "failed"]

-----------------------------------------------------------------------------
(* The repositories *)

\* _to_domain(_to_model_dict(run)): what is left of a run in its row.
Row(run) == [run EXCEPT !.events = <<>>]

Kept(run) == IF store = "memory" THEN run ELSE Row(run)

Run(c) == call[c].run

\* What find_by_id gives a task.
Found(c) == saved[Run(c)]

\* The aggregate a task works on.
Held(c) == IF store = "memory" THEN saved[Run(c)] ELSE mine[c]

\* A task changes its aggregate: in memory everybody sees it at once.
Change(c, run) ==
    /\ saved' = IF store = "memory" THEN [saved EXCEPT ![Run(c)] = run] ELSE saved
    /\ mine' = IF store = "memory" THEN mine ELSE [mine EXCEPT ![c] = run]

\* save
Save(c) == saved' = [saved EXCEPT ![Run(c)] = Kept(Held(c))]

Goto(c, place) == call' = [call EXCEPT ![c].at = place]

\* The task runs alone until it suspends or ends.
HasTurn(c) == turn \in {c, Nobody}
Keep(c) == turn' = IF store = "memory" THEN c ELSE Nobody
GiveUp == turn' = Nobody

-----------------------------------------------------------------------------
(* create_run *)

CreateRun(r) ==
    /\ turn = Nobody
    /\ saved[r] = Absent
    /\ saved' = [saved EXCEPT ![r] = NewRun]
    /\ UNCHANGED <<store, call, mine, turn, told, raced>>

-----------------------------------------------------------------------------
(* start_run *)

CallStart(c, r) ==
    /\ turn = Nobody
    /\ call[c].at = "idle"
    /\ call' = [call EXCEPT ![c] = [at |-> "finding", run |-> r]]
    /\ Keep(c)
    /\ UNCHANGED <<store, saved, mine, told, raced>>

\* Only a pending run is started.  Mutant: any run.
AnyRun(run) == run # Absent
Startable(run) == run # Absent /\ run.status = "pending"

\* Another call has found the run and not saved it yet.
Overlaps(c) == \E d \in Calls : Run(d) = Run(c) /\ call[d].at = "starting"

FindToStart(c) ==
    /\ HasTurn(c)
    /\ call[c].at = "finding"
    /\ IF Startable(Found(c))
       THEN /\ Change(c, Start(Found(c)))
            /\ Goto(c, "starting")
            /\ Keep(c)
            /\ raced' = IF Overlaps(c) THEN raced \cup {Run(c)} ELSE raced
       ELSE /\ Goto(c, "refused")
            /\ GiveUp
            /\ UNCHANGED <<saved, mine, raced>>
    /\ UNCHANGED <<store, told>>

\* The task is created; start_run returns.
SaveStarted(c) ==
    /\ HasTurn(c)
    /\ call[c].at = "starting"
    /\ Save(c)
    /\ Goto(c, "spawned")
    /\ GiveUp
    /\ UNCHANGED <<store, mine, told, raced>>

-----------------------------------------------------------------------------
(* _execute_pipeline *)

LoadRun(c) ==
    /\ HasTurn(c)
    /\ call[c].at = "spawned"
    /\ Change(c, [Found(c) EXCEPT !.status = "analyzing", !.progress = 20])
    /\ Goto(c, "analyzing")
    /\ Keep(c)
    /\ UNCHANGED <<store, told, raced>>

SaveAnalyzing(c) ==
    /\ HasTurn(c)
    /\ call[c].at = "analyzing"
    /\ Save(c)
    /\ Goto(c, "analysed")
    /\ Keep(c)
    /\ UNCHANGED <<store, mine, told, raced>>

\* analyze_schemas awaits nothing.
Analysed(c) ==
    /\ HasTurn(c)
    /\ call[c].at = "analysed"
    /\ Change(c, CompleteAnalysis(Held(c)))
    /\ Goto(c, "reporting")
    /\ Keep(c)
    /\ UNCHANGED <<store, told, raced>>

SaveAnalysis(c) ==
    /\ HasTurn(c)
    /\ call[c].at = "reporting"
    /\ Save(c)
    /\ Goto(c, "drafting")
    /\ Keep(c)
    /\ UNCHANGED <<store, mine, told, raced>>

\* generate_report awaits nothing.
Reported(c) ==
    /\ HasTurn(c)
    /\ call[c].at = "drafting"
    /\ Change(c, Complete(Held(c)))
    /\ Goto(c, "finishing")
    /\ Keep(c)
    /\ UNCHANGED <<store, told, raced>>

\* The last save; then the events are drained and dispatched.
SaveReport(c) ==
    /\ HasTurn(c)
    /\ call[c].at = "finishing"
    /\ saved' = [saved EXCEPT ![Run(c)] = [Kept(Held(c)) EXCEPT !.events = <<>>]]
    /\ told' = [told EXCEPT ![Run(c)] = @ \o Held(c).events]
    /\ Goto(c, "done")
    /\ GiveUp
    /\ UNCHANGED <<store, mine, raced>>

-----------------------------------------------------------------------------
(* Failures *)

\* An exception inside the try: the analysis or the report generator raises, or
\* a save to the database.  Mutant: the handler ends without recording it.
RaisesUnrecorded(c) ==
    /\ HasTurn(c)
    /\ call[c].at \in {"analysed", "drafting"}
    /\ Goto(c, "done")
    /\ GiveUp
    /\ UNCHANGED <<store, saved, mine, told, raced>>
Raises(c) ==
    /\ HasTurn(c)
    /\ call[c].at \in {"analysed", "drafting"}
           \cup IF store = "rows" THEN {"analyzing", "reporting", "finishing"} ELSE {}
    /\ Goto(c, "failing")
    /\ Keep(c)
    /\ UNCHANGED <<store, saved, mine, told, raced>>

\* The handler finds the run again and fails it.
FindToFail(c) ==
    /\ HasTurn(c)
    /\ call[c].at = "failing"
    /\ Change(c, Fail(Found(c)))
    /\ Goto(c, "recording")
    /\ Keep(c)
    /\ UNCHANGED <<store, told, raced>>

SaveFailed(c) ==
    /\ HasTurn(c)
    /\ call[c].at = "recording"
    /\ Save(c)
    /\ Goto(c, "done")
    /\ GiveUp
    /\ UNCHANGED <<store, mine, told, raced>>

\* The database raises where nothing catches it, or the task is cancelled at an
\* await: start_run's caller gets the exception, a pipeline leaves its run as is.
Stranded(c) ==
    /\ store = "rows"
    /\ call[c].at \notin {"idle", "refused", "done", "stranded"}
    /\ Goto(c, IF call[c].at \in {"finding", "starting"} THEN "refused" ELSE "stranded")
    /\ UNCHANGED <<store, saved, mine, turn, told, raced>>

-----------------------------------------------------------------------------

TaskStep(c) == \/ FindToStart(c)
               \/ SaveStarted(c)
               \/ LoadRun(c)
               \/ SaveAnalyzing(c)
               \/ Analysed(c)
               \/ SaveAnalysis(c)
               \/ Reported(c)
               \/ SaveReport(c)
               \/ Raises(c)
               \/ FindToFail(c)
               \/ SaveFailed(c)

Next == \/ \E r \in Runs : \/ CreateRun(r)
                           \/ \E c \in Calls : CallStart(c, r)
        \/ \E c \in Calls : TaskStep(c) \/ Stranded(c)

\* The event loop runs the tasks it was given.
Spec == Init /\ [][Next]_vars /\ \A c \in Calls : WF_vars(TaskStep(c))

-----------------------------------------------------------------------------

Progress == {0, 20, 80, 100}
Aggregates == [status : Statuses, progress : Progress, report : BOOLEAN,
               events : Seq({"Started", "Completed"})]

TypeOK == /\ store \in Stores
          /\ saved \in [Runs -> Aggregates \cup {Absent}]
          /\ call \in [Calls -> [at : Places, run : Runs \cup {NoRun}]]
          /\ mine \in [Calls -> Aggregates \cup {Absent}]
          /\ turn \in Calls \cup {Nobody}
          /\ told \in [Runs -> Seq({"Started", "Completed"})]
          /\ raced \subseteq Runs

Executing(r) == {c \in Calls : Run(c) = r /\ call[c].at \notin {"idle", "finding", "refused"}}

\* A second start of a run is refused, in memory always, on rows unless the two
\* calls overlap: one pipeline at most works on a run that was not raced for.
ExecutedOnce == \A c, d \in Calls : \A r \in Runs \ raced :
                    c \in Executing(r) /\ d \in Executing(r) => c = d

\* What is dispatched of a run not raced for: its start and its completion, in that
\* order, once each, and only when it is over.  The rows lose the start.
EventsOfARun ==
    \A r \in Runs \ raced : told[r] # <<>> =>
        /\ saved[r].status = "completed"
        /\ told[r] = IF store = "memory" THEN <<"Started", "Completed">> ELSE <<"Completed">>

\* A run that shows as under way, raced for or not, has a pipeline at work on it, or
\* one that ended where nothing could record it.
AtWorkOn(r) == {c \in Executing(r) : call[c].at # "done"}
UnderWayIsWorkedOn ==
    \A r \in Runs : saved[r].status \in {"running", "analyzing", "reporting"}
                        => AtWorkOn(r) # {}

HasReport(run) == run # Absent /\ run.report

\* What callers of get_run_status and get_run_results see implements RunLifecycle:
\* forward only, completed with a report, started once.  A run two calls raced for
\* on rows, which may go back from completed to analyzing, drops out of the promise
\* as if it were removed.
Over == {"completed", "failed"}   \* get_run_results answers for these only
SeenStatus(s) == IF s \in {"analyzing", "reporting"} THEN "running" ELSE s

Lifecycle == INSTANCE RunLifecycle WITH
    visible <- [r \in Runs |-> IF r \in raced THEN "gone" ELSE SeenStatus(saved[r].status)],
    percent <- [r \in Runs |-> IF r \in raced \/ saved[r] = Absent THEN 0
                              ELSE saved[r].progress],
    readable <- {r \in Runs \ raced : HasReport(saved[r]) /\ saved[r].status \in Over}

ImplementsLifecycle == Lifecycle!LifecycleSpec

\* A run that was started ends, completed or failed, unless the database raised
\* where nothing catches it or the task was cancelled.
StartedRunEnds ==
    \A r \in Runs :
        saved[r].status = "running"
            ~> \/ saved[r].status \in Over
               \/ \E c \in Executing(r) : call[c].at = "stranded"
=============================================================================
