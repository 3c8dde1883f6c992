------------------------- MODULE DiagnosticApiProofs -------------------------
(***************************************************************************)
(* Theorems about DiagnosticApi for any set of runs and connections: the   *)
(* run and report stores agree, a report covers its request, and what      *)
(* clients see implements RunLifecycle.  The strengthening says, for each  *)
(* place the background task can be at, what the run's dict contains.      *)
(***************************************************************************)
EXTENDS DiagnosticApi, TLAPS

\* The status and the report that go with each place of the task.
StatusAt(r) ==
    /\ task[r] = "none" => r \notin runs /\ status[r] = "pending" /\ r \notin reports
    /\ task[r] = "queued" => status[r] = "pending" /\ r \notin reports
    /\ task[r] \in Awaiting => status[r] = "running" /\ r \notin reports
    /\ task[r] = "done" => status[r] \in {"completed", "failed"}
    /\ task[r] = "dropped" => status[r] \in {"pending", "running"} /\ r \notin reports
    /\ task[r] = "dropped" /\ status[r] = "pending" => r \notin runs
    /\ r \in reports => status[r] = "completed"
    /\ r \in runs /\ status[r] = "completed" => r \in reports

\* The progress that goes with it.
ProgressAt(r) ==
    /\ status[r] = "pending" => progress[r] = 0
    /\ task[r] \in {"started", "connecting"} => progress[r] = 10
    /\ task[r] = "matching" => progress[r] = 25
    /\ task[r] = "stressing" => progress[r] = 45
    /\ status[r] # "completed" => progress[r] \in 0..99
    /\ status[r] = "completed" => progress[r] = 100

\* The connections it counts on.
GatheredAt(r) ==
    /\ task[r] # "none" => \A c \in requested[r] : conn[c] \in {"stored", "deleted"}
    /\ task[r] \in {"none", "queued", "started"} => gathered[r] = {}
    /\ gathered[r] \subseteq requested[r]
    /\ task[r] \in {"connecting", "matching", "stressing", "closing", "building"}
          => \A c \in requested[r] \ gathered[r] : conn[c] = "deleted"
    /\ task[r] \in {"matching", "stressing", "closing", "building"} => gathered[r] # {}
    /\ r \in reports => /\ \A c \in requested[r] \ gathered[r] : conn[c] = "deleted"
                        /\ gathered[r] # {}

IInv == TypeOK /\ \A r \in Runs : StatusAt(r) /\ ProgressAt(r) /\ GatheredAt(r)

-----------------------------------------------------------------------------

\* Init
LEMMA InitInv == Init => IInv
BY DEF Init, IInv, TypeOK, StatusAt, ProgressAt, GatheredAt, ConnStates, RunStatuses,
       TaskStates, Awaiting

\* A step of a connection's life leaves the runs alone, and never leaves "stored"
\* but for "deleted".
LEMMA ConnStepInv ==
    ASSUME IInv, NEW c \in Conns, ConnStep(c)
    PROVE  IInv'
<1>1. UNCHANGED runVars
  BY DEF ConnStep, CreateConnection, ConnectionProbed, DeleteConnection, RetestConnection,
         RetestDone
<1>2. /\ conn' \in [Conns -> ConnStates]
      /\ retesting' \in SUBSET Conns
      /\ \A d \in Conns : conn[d] \in {"stored", "deleted"} => conn'[d] \in {"stored", "deleted"}
      /\ \A d \in Conns : conn[d] = "deleted" => conn'[d] = "deleted"
  BY DEF IInv, TypeOK, ConnStep, CreateConnection, ConnectionProbed, DeleteConnection,
         RetestConnection, RetestDone, UpdateRecord, ConnStates
<1>3. TypeOK'
  BY <1>1, <1>2 DEF IInv, TypeOK, runVars
<1>4. ASSUME NEW r \in Runs PROVE (StatusAt(r) /\ ProgressAt(r) /\ GatheredAt(r))'
  <2>1. requested[r] \subseteq Conns
    BY DEF IInv, TypeOK
  <2> QED
    BY <1>1, <1>2, <2>1 DEF IInv, StatusAt, ProgressAt, GatheredAt, runVars
<1> QED
  BY <1>3, <1>4 DEF IInv

\* A step of run r's handlers or task keeps the types ...
LEMMA RunStepType ==
    ASSUME IInv, NEW r \in Runs,
           \/ \E ids \in SUBSET Conns : CreateRun(r, ids)
           \/ DeleteRun(r) \/ TaskStep(r) \/ TaskCancelled(r)
    PROVE  TypeOK'
<1> USE DEF IInv, TypeOK, RunStatuses, TaskStates, connVars, SetFailed
<1>1. CASE \E ids \in SUBSET Conns : CreateRun(r, ids)
  BY <1>1 DEF CreateRun
<1>2. CASE DeleteRun(r) \/ TaskCancelled(r)
  BY <1>2 DEF DeleteRun, TaskCancelled
<1>3. CASE TaskStart(r) \/ TaskStartKeyError(r) \/ CollectFails(r) \/ Unwound(r) \/ Closed(r)
  BY <1>3 DEF TaskStart, TaskStartKeyError, CollectFails, Unwound, Closed
<1>4. CASE Gather(r)
  BY <1>4 DEF Gather, StillStored
<1>5. CASE Collected(r) \/ Matched(r) \/ Analysed(r)
  BY <1>5 DEF Collected, Matched, Analysed, Stages
<1>6. CASE AnalysisRaises(r)
  BY <1>6 DEF AnalysisRaises, Stages
<1>7. CASE BuildReport(r) \/ BuildRaises(r)
  BY <1>7 DEF BuildReport, BuildRaises, StoreReport
<1> QED
  BY <1>1, <1>2, <1>3, <1>4, <1>5, <1>6, <1>7 DEF TaskStep

\* ... and re-establishes what the place of the task implies.
LEMMA RunStepPlace ==
    ASSUME IInv, NEW r \in Runs,
           \/ \E ids \in SUBSET Conns : CreateRun(r, ids)
           \/ DeleteRun(r) \/ TaskStep(r) \/ TaskCancelled(r)
    PROVE  (StatusAt(r) /\ ProgressAt(r) /\ GatheredAt(r))'
<1> USE DEF IInv, TypeOK, StatusAt, ProgressAt, GatheredAt, TaskStates, Awaiting, connVars,
            SetFailed
<1>1. CASE \E ids \in SUBSET Conns : CreateRun(r, ids)
  BY <1>1 DEF CreateRun, ConnStore
<1>2. CASE DeleteRun(r)
  BY <1>2 DEF DeleteRun
<1>3. CASE TaskCancelled(r)
  BY <1>3 DEF TaskCancelled
<1>4. CASE TaskStart(r)
  BY <1>4 DEF TaskStart
<1>5. CASE TaskStartKeyError(r)
  BY <1>5 DEF TaskStartKeyError
<1>6. CASE Gather(r)
  <2>1. \A c \in requested[r] \ StillStored(r) : conn[c] = "deleted"
    BY <1>6 DEF Gather, StillStored, ConnStore
  <2> QED
    BY <1>6, <2>1 DEF Gather, StillStored
<1>7. CASE CollectFails(r)
  BY <1>7 DEF CollectFails
<1>8. CASE Collected(r)
  BY <1>8 DEF Collected, Stages
<1>9. CASE Matched(r)
  BY <1>9 DEF Matched, Stages
<1>10. CASE Analysed(r)
  BY <1>10 DEF Analysed, Stages
<1>11. CASE AnalysisRaises(r)
  BY <1>11 DEF AnalysisRaises, Stages
<1>12. CASE Closed(r)
  BY <1>12 DEF Closed
<1>13. CASE Unwound(r)
  BY <1>13 DEF Unwound
<1>14. CASE BuildReport(r)
  BY <1>14 DEF BuildReport, StoreReport
<1>15. CASE BuildRaises(r)
  BY <1>15 DEF BuildRaises
<1> QED
  BY <1>1, <1>2, <1>3, <1>4, <1>5, <1>6, <1>7, <1>8, <1>9, <1>10, <1>11, <1>12, <1>13, <1>14,
     <1>15 DEF TaskStep

\* It does not touch another run, nor any connection.
LEMMA RunStepFrame ==
    ASSUME IInv, NEW r \in Runs, NEW q \in Runs \ {r},
           \/ \E ids \in SUBSET Conns : CreateRun(r, ids)
           \/ DeleteRun(r) \/ TaskStep(r) \/ TaskCancelled(r)
    PROVE  /\ conn' = conn
           /\ status'[q] = status[q] /\ progress'[q] = progress[q] /\ task'[q] = task[q]
           /\ requested'[q] = requested[q] /\ gathered'[q] = gathered[q]
           /\ q \in runs' <=> q \in runs
           /\ q \in reports' <=> q \in reports
<1> USE DEF IInv, TypeOK, connVars, SetFailed
<1>1. CASE (\E ids \in SUBSET Conns : CreateRun(r, ids)) \/ DeleteRun(r) \/ TaskCancelled(r)
  BY <1>1 DEF CreateRun, DeleteRun, TaskCancelled
<1>2. CASE TaskStart(r) \/ TaskStartKeyError(r) \/ Gather(r) \/ CollectFails(r) \/ Collected(r)
  BY <1>2 DEF TaskStart, TaskStartKeyError, Gather, CollectFails, Collected
<1>3. CASE Matched(r) \/ Analysed(r) \/ AnalysisRaises(r) \/ Closed(r)
  BY <1>3 DEF Matched, Analysed, AnalysisRaises, Closed
<1>4. CASE Unwound(r) \/ BuildReport(r) \/ BuildRaises(r)
  BY <1>4 DEF Unwound, BuildReport, BuildRaises, StoreReport
<1> QED
  BY <1>1, <1>2, <1>3, <1>4 DEF TaskStep

\* The inductive invariant holds in every reachable state.
THEOREM Inductive == Spec => []IInv
<1>1. ASSUME IInv, [Next]_vars PROVE IInv'
  <2>1. CASE \E c \in Conns : ConnStep(c)
    BY <2>1, <1>1, ConnStepInv
  <2>2. ASSUME NEW r \in Runs,
               \/ \E ids \in SUBSET Conns : CreateRun(r, ids)
               \/ DeleteRun(r) \/ TaskStep(r) \/ TaskCancelled(r)
        PROVE  IInv'
    <3>1. TypeOK'
      BY <1>1, <2>2, RunStepType
    <3>2. (StatusAt(r) /\ ProgressAt(r) /\ GatheredAt(r))'
      BY <1>1, <2>2, RunStepPlace
    <3>3. ASSUME NEW q \in Runs \ {r} PROVE (StatusAt(q) /\ ProgressAt(q) /\ GatheredAt(q))'
      <4>1. /\ conn' = conn
            /\ status'[q] = status[q] /\ progress'[q] = progress[q] /\ task'[q] = task[q]
            /\ requested'[q] = requested[q] /\ gathered'[q] = gathered[q]
            /\ q \in runs' <=> q \in runs
            /\ q \in reports' <=> q \in reports
        BY <1>1, <2>2, <3>3, RunStepFrame
      <4> QED
        BY <1>1, <4>1 DEF IInv, StatusAt, ProgressAt, GatheredAt
    <3> QED
      BY <3>1, <3>2, <3>3 DEF IInv
  <2>3. CASE UNCHANGED vars
    BY <1>1, <2>3 DEF IInv, TypeOK, StatusAt, ProgressAt, GatheredAt, vars
  <2> QED
    BY <1>1, <2>1, <2>2, <2>3 DEF Next
<1> QED
  BY InitInv, <1>1, PTL DEF Spec

-----------------------------------------------------------------------------

\* The stores keep their shape.
THEOREM TypeCorrect == Spec => []TypeOK
<1>1. IInv => TypeOK
  BY DEF IInv
<1> QED
  BY Inductive, <1>1, PTL

\* A visible run is completed exactly when its report can be read.
THEOREM ReportsMatchRuns == Spec => []CompletedHasReport
<1>1. IInv => CompletedHasReport
  BY DEF IInv, TypeOK, StatusAt, CompletedHasReport
<1> QED
  BY Inductive, <1>1, PTL

\* A report leaves out only connections deleted after the run was created.
THEOREM ReportsCover == Spec => []ReportCoversRequest
<1>1. IInv => ReportCoversRequest
  BY DEF IInv, TypeOK, GatheredAt, ReportCoversRequest
<1> QED
  BY Inductive, <1>1, PTL

\* A deleted connection stays deleted.
THEOREM DeletionIsFinal == Spec => DeletedStaysDeleted
<1>1. IInv /\ [Next]_vars
        => [\A c \in Conns : conn[c] = "deleted" => conn'[c] = "deleted"]_vars
  <2> SUFFICES ASSUME IInv, Next, NEW c \in Conns, conn[c] = "deleted"
               PROVE  conn'[c] = "deleted"
    OBVIOUS
  <2>1. CASE \E d \in Conns : ConnStep(d)
    BY <2>1 DEF IInv, TypeOK, ConnStep, CreateConnection, ConnectionProbed, DeleteConnection,
                RetestConnection, RetestDone, UpdateRecord
  <2>2. ASSUME NEW r \in Runs,
               \/ \E ids \in SUBSET Conns : CreateRun(r, ids)
               \/ DeleteRun(r) \/ TaskStep(r) \/ TaskCancelled(r)
        PROVE  conn' = conn
    BY <2>2 DEF CreateRun, DeleteRun, TaskStep, TaskCancelled, TaskStart, TaskStartKeyError,
                Gather, CollectFails, Collected, Matched, Analysed, AnalysisRaises, Closed,
                Unwound, BuildReport, BuildRaises, connVars
  <2> QED
    BY <2>1, <2>2 DEF Next
<1> QED
  BY Inductive, <1>1, PTL DEF Spec, DeletedStaysDeleted

-----------------------------------------------------------------------------
(* Refinement *)

\* What clients see, as the mapping of Lifecycle spells it out.
Visible == [r \in Runs |-> IF task[r] = "none" THEN "absent"
                           ELSE IF r \in runs THEN status[r] ELSE "gone"]
Percent == [r \in Runs |-> IF r \in runs THEN progress[r] ELSE 0]
Readable == {r \in Runs : ReportServed(r)}

\* A readable report belongs to a visible, completed run.
LEMMA ReadableIs ==
    ASSUME IInv PROVE Readable = {r \in runs : status[r] = "completed"}
BY DEF IInv, TypeOK, StatusAt, Readable, ReportServed

\* What a step of run r's handlers and task changes of what clients see.
LEMMA RunStepSeen ==
    ASSUME IInv, IInv', NEW r \in Runs,
           \/ \E ids \in SUBSET Conns : CreateRun(r, ids)
           \/ DeleteRun(r) \/ TaskStep(r) \/ TaskCancelled(r)
    PROVE  \E v, p :
              /\ Visible' = [Visible EXCEPT ![r] = v]
              /\ Percent' = [Percent EXCEPT ![r] = p]
              /\ Readable' = IF v = "completed" THEN Readable \cup {r} ELSE Readable \ {r}
              /\ \/ v = Visible[r] /\ p = Percent[r]
                 \/ Visible[r] = "absent" /\ v = "pending" /\ p = Percent[r]
                 \/ Visible[r] = "pending" /\ v = "running" /\ p \in 0..99
                 \/ Visible[r] = "running" /\ v \in {"running", "failed"} /\ p \in Percent[r]..99
                 \/ Visible[r] = "running" /\ v = "completed" /\ p = 100
                 \/ Visible[r] \in RunStatuses /\ v = "gone" /\ p = 0
<1> DEFINE v == Visible'[r]
           p == Percent'[r]
<1>1. \A q \in Runs \ {r} :
         /\ Visible'[q] = Visible[q]
         /\ Percent'[q] = Percent[q]
         /\ q \in Readable' <=> q \in Readable
  <2> TAKE q \in Runs \ {r}
  <2>1. /\ status'[q] = status[q] /\ progress'[q] = progress[q] /\ task'[q] = task[q]
        /\ q \in runs' <=> q \in runs
        /\ q \in reports' <=> q \in reports
    BY RunStepFrame
  <2> QED
    BY <2>1 DEF Visible, Percent, Readable, ReportServed
<1>2. Visible' = [Visible EXCEPT ![r] = v] /\ Percent' = [Percent EXCEPT ![r] = p]
  BY <1>1 DEF Visible, Percent
<1>3. Readable' = IF v = "completed" THEN Readable \cup {r} ELSE Readable \ {r}
  <2>1. r \in Readable' <=> v = "completed"
    BY DEF IInv, TypeOK, StatusAt, Readable, ReportServed, Visible, RunStatuses
  <2>2. Readable \subseteq Runs /\ Readable' \subseteq Runs
    BY DEF Readable
  <2> QED
    BY <1>1, <2>1, <2>2
<1>4. /\ v = IF task'[r] = "none" THEN "absent"
              ELSE IF r \in runs' THEN status'[r] ELSE "gone"
      /\ p = IF r \in runs' THEN progress'[r] ELSE 0
      /\ Visible[r] = IF task[r] = "none" THEN "absent"
                      ELSE IF r \in runs THEN status[r] ELSE "gone"
      /\ Percent[r] = IF r \in runs THEN progress[r] ELSE 0
  BY DEF Visible, Percent
<1>5. \/ v = Visible[r] /\ p = Percent[r]
      \/ Visible[r] = "absent" /\ v = "pending" /\ p = Percent[r]
      \/ Visible[r] = "pending" /\ v = "running" /\ p \in 0..99
      \/ Visible[r] = "running" /\ v \in {"running", "failed"} /\ p \in Percent[r]..99
      \/ Visible[r] = "running" /\ v = "completed" /\ p = 100
      \/ Visible[r] \in RunStatuses /\ v = "gone" /\ p = 0
  <2> HIDE DEF v, p
  <2> USE <1>4 DEF IInv, TypeOK, StatusAt, ProgressAt, TaskStates, Awaiting, SetFailed
  <2>1. CASE \E ids \in SUBSET Conns : CreateRun(r, ids)
    BY <2>1 DEF CreateRun
  <2>2. CASE DeleteRun(r)
    BY <2>2 DEF DeleteRun
  <2>3. CASE TaskCancelled(r) \/ TaskStartKeyError(r) \/ Gather(r) \/ Closed(r)
    BY <2>3 DEF TaskCancelled, TaskStartKeyError, Gather, Closed
  <2>4. CASE TaskStart(r)
    BY <2>4 DEF TaskStart
  <2>5. CASE CollectFails(r) \/ Unwound(r) \/ BuildRaises(r)
    BY <2>5 DEF CollectFails, Unwound, BuildRaises
  <2>6. CASE Collected(r) \/ Matched(r) \/ Analysed(r)
    BY <2>6 DEF Collected, Matched, Analysed, Stages
  <2>7. CASE AnalysisRaises(r)
    BY <2>7 DEF AnalysisRaises, Stages
  <2>8. CASE BuildReport(r)
    BY <2>8 DEF BuildReport
  <2> QED
    BY <2>1, <2>2, <2>3, <2>4, <2>5, <2>6, <2>7, <2>8 DEF TaskStep
<1> QED
  BY SMTT(30), <1>2, <1>3, <1>5

\* Every step of the service is a step of RunLifecycle or is not seen.
LEMMA StepRefines ==
    ASSUME IInv, IInv', [Next]_vars
    PROVE  [Lifecycle!LifecycleNext]_(Lifecycle!lifecycleVars)
<1> USE DEF Visible, Percent, Readable, Lifecycle!lifecycleVars
<1>1. CASE (\E c \in Conns : ConnStep(c)) \/ UNCHANGED vars
  <2>1. UNCHANGED runVars
    BY <1>1 DEF ConnStep, CreateConnection, ConnectionProbed, DeleteConnection,
                RetestConnection, RetestDone, vars, runVars
  <2> QED
    BY <2>1 DEF runVars, ReportServed
<1>2. ASSUME NEW r \in Runs,
             \/ \E ids \in SUBSET Conns : CreateRun(r, ids)
             \/ DeleteRun(r) \/ TaskStep(r) \/ TaskCancelled(r)
      PROVE  [Lifecycle!LifecycleNext]_(Lifecycle!lifecycleVars)
  <2>1. PICK v, p :
          /\ Visible' = [Visible EXCEPT ![r] = v]
          /\ Percent' = [Percent EXCEPT ![r] = p]
          /\ Readable' = IF v = "completed" THEN Readable \cup {r} ELSE Readable \ {r}
          /\ \/ v = Visible[r] /\ p = Percent[r]
             \/ Visible[r] = "absent" /\ v = "pending" /\ p = Percent[r]
             \/ Visible[r] = "pending" /\ v = "running" /\ p \in 0..99
             \/ Visible[r] = "running" /\ v \in {"running", "failed"} /\ p \in Percent[r]..99
             \/ Visible[r] = "running" /\ v = "completed" /\ p = 100
             \/ Visible[r] \in RunStatuses /\ v = "gone" /\ p = 0
    BY <1>2, RunStepSeen
  <2> HIDE DEF Visible, Percent, Readable
  <2>2. /\ r \in Readable <=> Visible[r] = "completed"
        /\ Visible = [Visible EXCEPT ![r] = Visible[r]]
        /\ Percent = [Percent EXCEPT ![r] = Percent[r]]
        /\ r \in DOMAIN Percent
    BY DEF IInv, TypeOK, StatusAt, Visible, Percent, Readable, ReportServed, RunStatuses
  <2>10. Percent'[r] = p /\ Percent' = [Percent EXCEPT ![r] = Percent'[r]]
    BY <2>1, <2>2
  <2>3. CASE v = Visible[r] /\ p = Percent[r]
    <3>1. Visible' = Visible /\ Percent' = Percent /\ Readable' = Readable
      BY <2>1, <2>2, <2>3
    <3> QED
      BY <3>1 DEF Visible, Percent, Readable
  <2>4. CASE Visible[r] = "absent" /\ v = "pending" /\ p = Percent[r]
    <3>1. /\ Visible' = [Visible EXCEPT ![r] = "pending"]
          /\ Percent' = Percent /\ Readable' = Readable
      BY <2>1, <2>2, <2>4
    <3>2. Lifecycle!Create(r)
      BY <2>4, <3>1 DEF Lifecycle!Create, Visible, Percent, Readable
    <3> QED
      BY <3>2 DEF Lifecycle!LifecycleNext
  <2>5. CASE Visible[r] = "pending" /\ v = "running" /\ p \in 0..99
    <3>1. Readable' = Readable
      BY <2>1, <2>2, <2>5
    <3>2. Lifecycle!Start(r)
      BY <2>1, <2>5, <2>10, <3>1 DEF Lifecycle!Start, Lifecycle!Moves, Visible, Percent, Readable
    <3> QED
      BY <3>2 DEF Lifecycle!LifecycleNext
  <2>6. CASE Visible[r] = "running" /\ v = "running" /\ p \in Percent[r]..99
    <3>1. Readable' = Readable /\ Visible' = Visible
      BY <2>1, <2>2, <2>6
    <3>2. Lifecycle!Advance(r)
      BY <2>1, <2>6, <2>10, <3>1 DEF Lifecycle!Advance, Lifecycle!Moves, Visible, Percent, Readable
    <3> QED
      BY <3>2 DEF Lifecycle!LifecycleNext
  <2>7. CASE Visible[r] = "running" /\ v = "failed" /\ p \in Percent[r]..99
    <3>1. Readable' = Readable
      BY <2>1, <2>2, <2>7
    <3>2. Lifecycle!Fail(r)
      BY <2>1, <2>7, <2>10, <3>1 DEF Lifecycle!Fail, Lifecycle!Moves, Visible, Percent, Readable
    <3> QED
      BY <3>2 DEF Lifecycle!LifecycleNext
  <2>8. CASE Visible[r] = "running" /\ v = "completed" /\ p = 100
    <3>1. Lifecycle!Complete(r)
      BY <2>1, <2>8 DEF Lifecycle!Complete, Visible, Percent, Readable
    <3> QED
      BY <3>1 DEF Lifecycle!LifecycleNext
  <2>9. CASE Visible[r] \in RunStatuses /\ v = "gone" /\ p = 0
    <3>1. Lifecycle!Remove(r)
      BY <2>1, <2>9 DEF Lifecycle!Remove, Lifecycle!Visible, Lifecycle!Terminal, RunStatuses,
                        Visible, Percent, Readable
    <3> QED
      BY <3>1 DEF Lifecycle!LifecycleNext
  <2> QED
    BY <2>1, <2>3, <2>4, <2>5, <2>6, <2>7, <2>8, <2>9
<1> QED
  BY <1>1, <1>2 DEF Next

\* What clients see of diagnostic runs implements RunLifecycle: statuses and
\* progress only move forward, a completed run has a readable report, and a
\* deleted run never shows again, although its task goes on writing.
THEOREM Refinement == Spec => ImplementsLifecycle
<1>1. Init => Lifecycle!LifecycleInit
  BY DEF Init, Lifecycle!LifecycleInit, ReportServed
<1>2. IInv /\ IInv' /\ [Next]_vars => [Lifecycle!LifecycleNext]_(Lifecycle!lifecycleVars)
  BY StepRefines
<1> QED
  BY Inductive, <1>1, <1>2, PTL DEF Spec, ImplementsLifecycle, Lifecycle!LifecycleSpec

=============================================================================
