-------------------------- MODULE ConnectionManager --------------------------
(***************************************************************************)
(* The pool of connectors of one diagnostic run                            *)
(* (preflight/core/infrastructure/connectors/connection_manager.py).       *)
(*                                                                         *)
(* connect_all starts one asyncio task per spec; at most MaxConcurrency of *)
(* them are inside the semaphore at a time.  When at least one connector   *)
(* is healthy a background task pings the healthy ones periodically, and   *)
(* a failed ping takes its connector out of the pool.  disconnect_all      *)
(* stops the health task and closes what is still marked connected.        *)
(***************************************************************************)
EXTENDS Integers, FiniteSets

CONSTANTS Specs,              \* the connection specs, one connector id each
          MaxConcurrency,     \* the permits of the semaphore
          Stubborn,           \* specs whose connector's disconnect() may raise
          MayCancel           \* the caller may cancel connect_all, disconnect_all

ASSUME ManagerAssumption == /\ IsFiniteSet(Specs)
                            /\ MaxConcurrency \in Nat \ {0}
                            /\ Stubborn \subseteq Specs
                            /\ MayCancel \in BOOLEAN

VARIABLES phase,      \* where the manager's caller is
          task,       \* where each _connect_one is
          permits,    \* what the semaphore has left
          open,       \* connectors whose is_connected is true
          connected,  \* specs whose status.connected is true
          error,      \* status.error: None, a text, or an exception without one
          health,     \* the background health task
          pinging,    \* specs whose _check_one_health is in flight
          closing     \* specs whose _safe_disconnect is in flight

vars == <<phase, task, permits, open, connected, error, health, pinging, closing>>

Phases == {"new", "connecting", "up", "stopping", "disconnecting", "closed", "aborted"}
TaskStates == {"absent", "waiting", "connecting", "metadata", "done"}
ErrorStates == {"none", "blank", "text"}
HealthStates == {"none", "sleeping", "checking", "stopped"}

\* The tasks that hold a permit: between the acquisition and the release of
\* "async with semaphore".
Inside == {s \in Specs : task[s] \in {"connecting", "metadata"}}

\* The attempts without an outcome.
Unresolved == {s \in Specs : task[s] \notin {"metadata", "done"}}

\* ConnectionStatus.is_healthy
Healthy == connected \cap open

\* The statuses whose error is set, and those whose error is the empty string:
\* str(exc) of an exception raised without a message, as wait_for's TimeoutError.
Errored == {s \in Specs : error[s] # "none"}
Blank == {s \in Specs : error[s] = "blank"}

\* What _build_progress counts as failed: an empty error text does not count.
Failed == (Errored \ Blank) \ connected

\* ManagerProgress as _build_progress counts it.
Progress == [connected |-> Cardinality(connected),
             failed    |-> Cardinality(Failed),
             pending   |-> Cardinality(Specs) - Cardinality(connected) - Cardinality(Failed)]

Init == /\ phase = "new"
        /\ task = [s \in Specs |-> "absent"]
        /\ permits = MaxConcurrency
        /\ open = {}
        /\ connected = {}
        /\ error = [s \in Specs |-> "none"]
        /\ health = "none"
        /\ pinging = {}
        /\ closing = {}

-----------------------------------------------------------------------------
(* connect_all *)

\* The semaphore.  Mutant: a permit that is never given back.
CanAcquire == permits > 0
KeepPermit == UNCHANGED permits
Release == permits' = permits + 1

\* gather() returns when every task is done.
AllTasksDone == \A s \in Specs : task[s] = "done"

StartConnectAll ==
    /\ phase = "new"
    /\ phase' = "connecting"
    /\ task' = [s \in Specs |-> "waiting"]
    /\ UNCHANGED <<permits, open, connected, error, health, pinging, closing>>

Acquire(s) ==
    /\ task[s] = "waiting"
    /\ CanAcquire
    /\ permits' = permits - 1
    /\ task' = [task EXCEPT ![s] = "connecting"]
    /\ UNCHANGED <<phase, open, connected, error, health, pinging, closing>>

\* connect() returned True: the status is updated before the metadata is awaited.
ConnectOk(s) ==
    /\ task[s] = "connecting"
    /\ task' = [task EXCEPT ![s] = "metadata"]
    /\ open' = open \cup {s}
    /\ connected' = connected \cup {s}
    /\ UNCHANGED <<phase, permits, error, health, pinging, closing>>

\* An unknown connector type, connect() returning False, its timeout and its
\* exception all end the attempt with status.error set; an exception may have no
\* message.
ConnectFails(s) ==
    /\ task[s] = "connecting"
    /\ task' = [task EXCEPT ![s] = "done"]
    /\ \E e \in {"blank", "text"} : error' = [error EXCEPT ![s] = e]
    /\ Release
    /\ UNCHANGED <<phase, open, connected, health, pinging, closing>>

\* get_metadata() returned or raised; either way the task leaves the semaphore.
MetadataDone(s) ==
    /\ task[s] = "metadata"
    /\ task' = [task EXCEPT ![s] = "done"]
    /\ Release
    /\ UNCHANGED <<phase, open, connected, error, health, pinging, closing>>

\* gather() has every task: the health task starts if anything is healthy.
ConnectAllReturns ==
    /\ phase = "connecting"
    /\ AllTasksDone
    /\ phase' = "up"
    /\ health' = IF Healthy # {} THEN "sleeping" ELSE "none"
    /\ UNCHANGED <<task, permits, open, connected, error, pinging, closing>>

\* The caller is cancelled inside gather(): every task gets CancelledError at
\* its await and leaves the semaphore; a connector that had connected stays so.
CancelConnectAll ==
    /\ MayCancel
    /\ phase = "connecting"
    /\ ~AllTasksDone
    /\ phase' = "aborted"
    /\ task' = [s \in Specs |-> "done"]
    /\ permits' = MaxConcurrency
    /\ UNCHANGED <<open, connected, error, health, pinging, closing>>

-----------------------------------------------------------------------------
(* The health task *)

\* _check_all_health: one check per status that is healthy at this moment.
HealthWake ==
    /\ phase = "up"
    /\ health = "sleeping"
    /\ Healthy # {}
    /\ health' = "checking"
    /\ pinging' = Healthy
    /\ UNCHANGED <<phase, task, permits, open, connected, error, closing>>

PingOk(s) ==
    /\ s \in pinging
    /\ pinging' = pinging \ {s}
    /\ UNCHANGED <<phase, task, permits, open, connected, error, health, closing>>

\* The ping raised or took longer than 10 s: "marking unhealthy".
PingFails(s) ==
    /\ s \in pinging
    /\ pinging' = pinging \ {s}
    /\ connected' = connected \ {s}
    /\ \E e \in {"blank", "text"} : error' = [error EXCEPT ![s] = e]
    /\ UNCHANGED <<phase, task, permits, open, health, closing>>

HealthRoundDone ==
    /\ phase = "up"
    /\ health = "checking"
    /\ pinging = {}
    /\ health' = "sleeping"
    /\ UNCHANGED <<phase, task, permits, open, connected, error, pinging, closing>>

-----------------------------------------------------------------------------
(* disconnect_all *)

\* The cancelled health task ends when its checks have.  Mutant: it is
\* cancelled and not awaited.
NotAwaited == TRUE
ChecksEnded == pinging = {}

\* gather() over the disconnects.  Mutant: it returns before they are done.
DisconnectsDone == closing = {}

\* The health task, if there is one, is cancelled and awaited first.
StartDisconnectAll ==
    /\ phase = "up"
    /\ phase' = "stopping"
    /\ UNCHANGED <<task, permits, open, connected, error, health, pinging, closing>>

\* A check that was in flight when the health task was cancelled.
CheckCancelled(s) ==
    /\ phase = "stopping"
    /\ s \in pinging
    /\ pinging' = pinging \ {s}
    /\ UNCHANGED <<phase, task, permits, open, connected, error, health, closing>>

\* The health task is over; one _safe_disconnect per status still connected.
DisconnectConnected ==
    /\ phase = "stopping"
    /\ ChecksEnded
    /\ phase' = "disconnecting"
    /\ health' = IF health = "none" THEN "none" ELSE "stopped"
    /\ closing' = connected
    /\ UNCHANGED <<task, permits, open, connected, error, pinging>>

\* The finally clause clears status.connected in any case.  Mutant: only after
\* a disconnect() that did not raise.
ClearOnSuccess(s) == connected' = IF s \in open' THEN connected ELSE connected \ {s}
ClearConnected(s) == connected' = connected \ {s}

\* _safe_disconnect
Disconnected(s) ==
    /\ s \in closing
    /\ closing' = closing \ {s}
    /\ \/ open' = open \ {s}
       \/ s \in Stubborn /\ UNCHANGED open
    /\ ClearConnected(s)
    /\ UNCHANGED <<phase, task, permits, error, health, pinging>>

DisconnectAllReturns ==
    /\ phase = "disconnecting"
    /\ DisconnectsDone
    /\ phase' = "closed"
    /\ UNCHANGED <<task, permits, open, connected, error, health, pinging, closing>>

\* The caller is cancelled inside the second gather(): the disconnects in
\* flight are interrupted, their finally clauses still run.
CancelDisconnectAll ==
    /\ MayCancel
    /\ phase = "disconnecting"
    /\ closing # {}
    /\ phase' = "aborted"
    /\ connected' = connected \ closing
    /\ closing' = {}
    /\ UNCHANGED <<task, permits, open, error, health, pinging>>

-----------------------------------------------------------------------------

Step(s) == \/ Acquire(s)
           \/ ConnectOk(s)
           \/ ConnectFails(s)
           \/ MetadataDone(s)
           \/ PingOk(s)
           \/ PingFails(s)
           \/ CheckCancelled(s)
           \/ Disconnected(s)

Next == \/ StartConnectAll
        \/ ConnectAllReturns
        \/ CancelConnectAll
        \/ HealthWake
        \/ HealthRoundDone
        \/ StartDisconnectAll
        \/ DisconnectConnected
        \/ DisconnectAllReturns
        \/ CancelDisconnectAll
        \/ \E s \in Specs : Step(s)

Spec == Init /\ [][Next]_vars

\* connect() is bounded by wait_for(timeout + 5) and ping() by wait_for(10);
\* get_metadata() and disconnect() have no timeout in the manager, and are
\* assumed to return.  Nobody owes the manager a call or a cancellation.
Fairness == /\ WF_vars(ConnectAllReturns)
            /\ WF_vars(DisconnectConnected)
            /\ WF_vars(DisconnectAllReturns)
            /\ \A s \in Specs : /\ WF_vars(Acquire(s))
                                /\ WF_vars(ConnectOk(s) \/ ConnectFails(s))
                                /\ WF_vars(MetadataDone(s))
                                /\ WF_vars(PingOk(s) \/ PingFails(s) \/ CheckCancelled(s))
                                /\ WF_vars(Disconnected(s))

FairSpec == Spec /\ Fairness

-----------------------------------------------------------------------------
(* Properties *)

\* The shape of the state.
TypeOK == /\ phase \in Phases
          /\ task \in [Specs -> TaskStates]
          /\ permits \in 0..MaxConcurrency
          /\ open \in SUBSET Specs
          /\ connected \in SUBSET Specs
          /\ error \in [Specs -> ErrorStates]
          /\ health \in HealthStates
          /\ pinging \in SUBSET Specs
          /\ closing \in SUBSET Specs

\* However the attempts interleave, fail or are cancelled, at most
\* MaxConcurrency of them are talking to a system at once, and no permit is
\* lost or handed out twice (semaphore of connect_all).
PermitsConserved == permits + Cardinality(Inside) = MaxConcurrency

\* The "pending" a progress callback is given while connect_all runs exceeds the
\* attempts whose outcome is open by exactly the failures without a message,
\* which _build_progress takes for pending; without those it is never off, and
\* ends at zero.
ProgressIsExact ==
    phase \in {"connecting", "up"} =>
        Progress.pending = Cardinality(Unresolved) + Cardinality(Blank)

\* A health check never runs against a connector that is being, or has been,
\* disconnected: disconnect_all waits for the checks before it closes anything.
ChecksBeforeClose == pinging # {} => /\ phase \in {"up", "stopping"}
                                     /\ closing = {}
                                     /\ pinging \subseteq open

\* After disconnect_all a connector can be open only because its own
\* disconnect() failed or because a health check had given it up.
ClosedUnlessGivenUp == phase = "closed" => open \subseteq Errored \cup Stubborn

\* Once connect_all has returned the pool only shrinks: no step of the health
\* task or of disconnect_all makes a connector usable again.
PoolOnlyShrinks == [][phase # "connecting" => Healthy' \subseteq Healthy]_vars

\* Both calls end, whatever connectors fail on the way, and disconnect_all leaves
\* no status marked connected.
BothCallsEnd ==
    /\ phase = "connecting" ~> phase \in {"up", "aborted"}
    /\ phase = "stopping" ~> phase \in {"closed", "aborted"} /\ connected = {}

=============================================================================
