--------------------------- MODULE DriverConnector ---------------------------
(***************************************************************************)
(* One connector made by connector_factory.py: a PostgreSQL, Snowflake or  *)
(* Salesforce connector, which hands every call of its driver library to a *)
(* ThreadPoolExecutor of its own and awaits it, or one of the mocks, which *)
(* only sleep.                                                             *)
(*                                                                         *)
(* A call is submitted, waits in the executor's queue, runs in a thread    *)
(* and ends; wait_for may give it up before that, and so may whoever       *)
(* called the connector.  A call given up in the queue never starts; one   *)
(* given up in a thread keeps the thread until the driver returns.  The    *)
(* owner of a connector connects and disconnects it, one call after the    *)
(* other (connection_manager.py, pipeline_runner.py); health checks and    *)
(* the load tester's workers read from it meanwhile.  A query refused by   *)
(* validate_read_only is answered at once and changes nothing: no step.    *)
(***************************************************************************)
EXTENDS Naturals, FiniteSets

CONSTANTS Owner,    \* the task that connects and disconnects
          Others,   \* the tasks that only read
          Threads,  \* max_workers of the executor
          Tables    \* tables, or queryable objects, of the system

ASSUME ConnectorAssumption ==
    IsFiniteSet(Others) /\ Threads \in Nat \ {0} /\ Tables \in Nat

VARIABLES driver,     \* the family of the connector, and whether it is the real one
          self,       \* _connection (or _sf), _connected, executor shut down
          call,       \* what each task awaits of the connector
          ahead,      \* the executor's work queue: who waits in front of whom
          abandoned,  \* calls given up that still occupy a thread
          past        \* history: disconnect returned, close failed, disconnect given up

vars == <<driver, self, call, ahead, abandoned, past>>

Callers == Others \cup {Owner}
Families == {"postgresql", "snowflake", "salesforce", "enterprise"}
Methods == {"connect", "disconnect", "ping", "latency", "metadata", "query", "read"}
Kinds == {"close", "other"}

\* What create_connector can return: the real class when its library is
\* installed, else the mock.
CreateConnector == {d \in [family : Families, real : BOOLEAN] :
                        d.real => d.family # "enterprise"}

Real(family) == driver = [family |-> family, real |-> TRUE]
Mock(family) == driver = [family |-> family, real |-> FALSE]

Idle == [op |-> "idle", left |-> 0, job |-> "none"]

Init == /\ driver \in CreateConnector
        /\ self = [connection |-> "none", connected |-> FALSE, shut |-> FALSE]
        /\ call = [c \in Callers |-> Idle]
        /\ ahead = [c \in Callers |-> {}]
        /\ abandoned = [k \in Kinds |-> 0]
        /\ past = [released |-> FALSE, closeFailed |-> FALSE, interrupted |-> FALSE]

-----------------------------------------------------------------------------
(* ThreadPoolExecutor and wait_for *)

Queued == {c \in Callers : call[c].job = "queued"}
Running == {c \in Callers : call[c].job \in {"running", "doomed"}}
Busy == Cardinality(Running) + abandoned["close"] + abandoned["other"]

\* The queue without a task's entry.  Mutant: the entry stays.
KeepEntry(c) == UNCHANGED ahead
Forget(c) == ahead' = [d \in Callers |-> IF d = c THEN {} ELSE ahead[d] \ {c}]

\* run_in_executor: the entry goes to the end of the queue.
Enqueue(c, op, left) ==
    /\ call' = [call EXCEPT ![c] = [op |-> op, left |-> left, job |-> "queued"]]
    /\ ahead' = [ahead EXCEPT ![c] = Queued \ {c}]

\* A thread takes the first entry.  What needs a connection is bound to fail
\* without one.
Start(c) ==
    /\ call[c].job = "queued"
    /\ ahead[c] = {}
    /\ Busy < Threads
    /\ call' = [call EXCEPT ![c].job =
                   IF call[c].op \in {"connect", "disconnect"} \/ self.connection = "open"
                   THEN "running" ELSE "doomed"]
    /\ Forget(c)
    /\ UNCHANGED <<driver, self, abandoned, past>>

KindOf(op) == IF op = "disconnect" THEN "close" ELSE "other"

\* The await is left while its call has not ended: the entry leaves the queue,
\* or the call goes on in its thread.
Leave(c) ==
    /\ call[c].job \in {"queued", "running", "doomed"}
    /\ call' = [call EXCEPT ![c] = Idle]
    /\ Forget(c)
    /\ abandoned' = IF call[c].job = "queued" THEN abandoned
                    ELSE [abandoned EXCEPT ![KindOf(call[c].op)] = @ + 1]

\* A call given up ends: a close closes the connection it was begun on, or
\* fails; what any other returns is dropped.
AbandonedEnds(k) ==
    /\ abandoned[k] > 0
    /\ abandoned' = [abandoned EXCEPT ![k] = @ - 1]
    /\ self' \in IF k = "close" /\ self.connection = "open"
                 THEN {self, [self EXCEPT !.connection = "closed"]} ELSE {self}
    /\ UNCHANGED <<driver, call, ahead, past>>

-----------------------------------------------------------------------------
(* What follows the end of an awaited call *)

\* disconnect, once the close has ended: a failed close is only logged.
\* Mutant: the executor is shut down only after a good close.
After(ok, connected, shut) ==
    /\ self' = [connection |-> IF ok /\ self.connection = "open" THEN "closed"
                               ELSE self.connection,
                connected |-> connected, shut |-> shut]
    /\ past' = [past EXCEPT !.released = TRUE,
                            !.closeFailed = @ \/ (~ok /\ self.connection = "open")]
ShutDownIfClosed(ok) == After(ok, FALSE, ok)
ShutDown(ok) == After(ok, FALSE, TRUE)

\* disconnect with nothing to close.
ShutDownUnopened == /\ self' = [self EXCEPT !.connected = FALSE, !.shut = TRUE]
                    /\ past' = [past EXCEPT !.released = TRUE]

\* connect: a new connection replaces the old one, whose abandoned closes no
\* longer matter.
Connected(ok) ==
    /\ self' = [self EXCEPT !.connection = IF ok THEN "open" ELSE @, !.connected = ok]
    /\ abandoned' = IF ~ok THEN abandoned
                    ELSE [k \in Kinds |-> IF k = "close" THEN 0
                                          ELSE abandoned["close"] + abandoned["other"]]

\* The handlers of a method whose call returned, raised or timed out; they
\* leave call and ahead alone.
Handle(op, ok) ==
    CASE op = "connect" -> Connected(ok) /\ UNCHANGED past
      [] op = "disconnect" -> ShutDown(ok) /\ UNCHANGED abandoned
      [] OTHER -> UNCHANGED <<self, abandoned, past>>

\* get_metadata goes on: its call returned, or it was the description of one
\* Salesforce object, whose failure leaves that object without fields.  An
\* executor shut down meanwhile ends it, by an exception or, in that loop, by
\* failing every object left.
GoesOn(c, ok) ==
    /\ call[c].op \in {"latency", "metadata"}
    /\ call[c].left > 1
    /\ ok \/ (driver.family = "salesforce" /\ call[c].left <= Tables)
    /\ ~self.shut

\* A thread returns from the driver, with or without an exception.
CallEnds(c, ok) ==
    /\ call[c].job \in {"running", "doomed"}
    /\ ok => call[c].job = "running"
    /\ Handle(call[c].op, ok)
    /\ IF GoesOn(c, ok)
       THEN Enqueue(c, "metadata", call[c].left - 1)
       ELSE call' = [call EXCEPT ![c] = Idle] /\ UNCHANGED ahead
    /\ UNCHANGED driver

\* The awaits under wait_for; Salesforce pings without one.  Mutant: queries run
\* without one.
TimedUnlessQuery(op) == \/ op = "connect"
                        \/ op \in {"ping", "latency"} /\ driver.family # "salesforce"
Timed(op) == \/ op \in {"connect", "query"}
             \/ op \in {"ping", "latency"} /\ driver.family # "salesforce"

TimesOut(c) ==
    /\ Timed(call[c].op)
    /\ Leave(c)
    /\ self' = IF call[c].op = "connect" THEN [self EXCEPT !.connected = FALSE] ELSE self
    /\ UNCHANGED <<driver, past>>

\* The task is cancelled at the await: no method catches that.
Cancelled(c) ==
    /\ Leave(c)
    /\ past' = [past EXCEPT !.interrupted = @ \/ call[c].op = "disconnect"]
    /\ UNCHANGED <<driver, self>>

\* A method reaches its first await.  An executor that was shut down raises
\* instead of taking the call.
Begin(c, op, left) ==
    /\ call[c] = Idle
    /\ IF self.shut
       THEN Handle(op, FALSE) /\ UNCHANGED <<call, ahead>>
       ELSE Enqueue(c, op, left) /\ UNCHANGED <<self, abandoned, past>>
    /\ UNCHANGED driver

-----------------------------------------------------------------------------
(* PostgreSQLConnector *)

PgConnect == Real("postgresql") /\ Begin(Owner, "connect", 1)

\* Without an open connection there is nothing to await.  Mutant: it goes by
\* _connected, which a failed connect clears.
ClosesIfConnected == self.connected
HasOpenConnection == self.connection = "open"
PgDisconnect ==
    /\ Real("postgresql")
    /\ IF HasOpenConnection
       THEN Begin(Owner, "disconnect", 1)
       ELSE /\ call[Owner] = Idle
            /\ ShutDownUnopened
            /\ UNCHANGED <<driver, call, ahead, abandoned>>

PgPing(c) == Real("postgresql") /\ Begin(c, "ping", 1)

\* The latency, then version, estimates and tables, then columns, primary and
\* foreign keys of each table.
PgMetadata(c) ==
    Real("postgresql") /\ self.connected /\ Begin(c, "latency", 4 + 3 * Tables)

PgQuery(c) == Real("postgresql") /\ Begin(c, "query", 1)
PgTableStats(c) == Real("postgresql") /\ Begin(c, "read", 1)

-----------------------------------------------------------------------------
(* SnowflakeConnector *)

SnowConnect == Real("snowflake") /\ Begin(Owner, "connect", 1)

\* Looks whether there ever was a connection, not whether it is open.
SnowDisconnect ==
    /\ Real("snowflake")
    /\ IF self.connection # "none"
       THEN Begin(Owner, "disconnect", 1)
       ELSE /\ call[Owner] = Idle
            /\ ShutDownUnopened
            /\ UNCHANGED <<driver, call, ahead, abandoned>>

SnowPing(c) == Real("snowflake") /\ Begin(c, "ping", 1)

\* The latency, version, tables, then the columns of each table.
SnowMetadata(c) ==
    Real("snowflake") /\ self.connected /\ Begin(c, "latency", 3 + Tables)

SnowQuery(c) == Real("snowflake") /\ Begin(c, "query", 1)

-----------------------------------------------------------------------------
(* SalesforceConnector *)

SfConnect == Real("salesforce") /\ Begin(Owner, "connect", 1)

\* Drops the client and awaits nothing.
SfDisconnect ==
    /\ Real("salesforce")
    /\ call[Owner] = Idle
    /\ self' = [connection |-> "none", connected |-> FALSE, shut |-> TRUE]
    /\ past' = [past EXCEPT !.released = TRUE]
    /\ UNCHANGED <<driver, call, ahead, abandoned>>

SfUsable == self.connected /\ self.connection = "open"

SfPing(c) == Real("salesforce") /\ SfUsable /\ Begin(c, "ping", 1)
SfEntityFields(c) == Real("salesforce") /\ Begin(c, "read", 1)

\* The latency, the list of objects, then a description of each.
SfMetadata(c) == Real("salesforce") /\ SfUsable /\ Begin(c, "latency", 2 + Tables)
SfQuery(c) == Real("salesforce") /\ Begin(c, "query", 1)

-----------------------------------------------------------------------------
(* The mocks: every method is one sleep *)

Sleep(c, op) ==
    /\ call[c] = Idle
    /\ call' = [call EXCEPT ![c] = [op |-> op, left |-> 1, job |-> "asleep"]]
    /\ UNCHANGED <<driver, self, ahead, abandoned, past>>

MockCall(c, family) ==
    /\ Mock(family)
    /\ \/ c = Owner /\ \E op \in {"connect", "disconnect"} : Sleep(c, op)
       \/ \E op \in {"ping", "metadata", "query"} : Sleep(c, op)

PgMock(c) == MockCall(c, "postgresql")
SnowMock(c) == MockCall(c, "snowflake")
SfMock(c) == MockCall(c, "salesforce")

\* The demonstration mock reads metadata only once connected.
EnterpriseMock(c) ==
    /\ Mock("enterprise")
    /\ \/ c = Owner /\ \E op \in {"connect", "disconnect"} : Sleep(c, op)
       \/ \E op \in {"ping", "query"} : Sleep(c, op)
       \/ self.connected /\ Sleep(c, "metadata")

\* The sleep ends, or is cancelled.
Wakes(c, cancelled) ==
    /\ call[c].job = "asleep"
    /\ self' = IF cancelled \/ call[c].op \notin {"connect", "disconnect"} THEN self
               ELSE [self EXCEPT !.connected = call[c].op = "connect"]
    /\ call' = [call EXCEPT ![c] = Idle]
    /\ UNCHANGED <<driver, ahead, abandoned, past>>

-----------------------------------------------------------------------------

OwnerCalls == \/ PgConnect \/ PgDisconnect \/ SnowConnect \/ SnowDisconnect
              \/ SfConnect \/ SfDisconnect

Reads(c) == \/ PgPing(c) \/ PgMetadata(c) \/ PgQuery(c) \/ PgTableStats(c)
            \/ SnowPing(c) \/ SnowMetadata(c) \/ SnowQuery(c)
            \/ SfPing(c) \/ SfEntityFields(c) \/ SfMetadata(c) \/ SfQuery(c)
            \/ PgMock(c) \/ SnowMock(c) \/ SfMock(c) \/ EnterpriseMock(c)

Progress(c) == \/ Start(c)
               \/ \E ok \in BOOLEAN : CallEnds(c, ok)
               \/ TimesOut(c)
               \/ Cancelled(c)
               \/ \E cancelled \in BOOLEAN : Wakes(c, cancelled)

Next == \/ OwnerCalls
        \/ \E c \in Callers : Reads(c) \/ Progress(c)
        \/ \E k \in Kinds : AbandonedEnds(k)

\* Timers fire, sleeps end, free threads take the first entry, and what has no
\* connection to use fails.  Nothing is assumed of the driver libraries.
Fails(c) == call[c].job = "doomed" /\ CallEnds(c, FALSE)
Fairness == \A c \in Callers : /\ WF_vars(TimesOut(c))
                               /\ WF_vars(Fails(c))
                               /\ WF_vars(Start(c))
                               /\ WF_vars(\E cancelled \in BOOLEAN : Wakes(c, cancelled))

Spec == Init /\ [][Next]_vars /\ Fairness

-----------------------------------------------------------------------------

TypeOK ==
    /\ driver \in CreateConnector
    /\ self \in [connection : {"none", "open", "closed"}, connected : BOOLEAN, shut : BOOLEAN]
    /\ call \in [Callers -> {Idle} \cup [op : Methods, left : Nat \ {0},
                                         job : {"queued", "running", "doomed", "asleep"}]]
    /\ ahead \in [Callers -> SUBSET Callers]
    /\ abandoned \in [Kinds -> Nat]
    /\ past \in [released : BOOLEAN, closeFailed : BOOLEAN, interrupted : BOOLEAN]

\* No more driver calls run at once than the executor has threads, whatever was
\* given up, and the queue keeps its order: of any two that wait, one is ahead.
ThreadsAccounted ==
    /\ Busy <= Threads
    /\ \A c \in Callers : ahead[c] \subseteq Queued
    /\ \A c, d \in Queued : c # d => (c \in ahead[d] <=> d \notin ahead[c])

\* A real connector that says it is connected has an open connection and an
\* executor to reach it, unless a disconnect was given up on the way.
ConnectedTellsTruth ==
    driver.real /\ self.connected =>
        /\ ~self.shut
        /\ self.connection = "open" \/ past.interrupted

\* After disconnect has returned, a connection is open only if closing it failed.
NothingLeftOpen ==
    past.released /\ self.connection = "open" => past.closeFailed

\* A connector is used once: after disconnect has returned it never becomes
\* connected again, and no driver call is added to those still on their way.
ReleasedForGood ==
    [][past.released => /\ ~self'.connected
                        /\ \A c \in Callers :
                               call'[c] # call[c] => call'[c].job # "queued"]_vars

\* connect, ping and execute_read_query return within their timeouts even if no
\* driver call ever does.
BoundedCallsEnd ==
    \A c \in Callers : (call[c].op \in {"connect", "query"}
                            \/ (call[c].op = "ping" /\ driver.family # "salesforce"))
                       ~> call[c] = Idle

\* Driver calls that run end.
DriverReturns == /\ \A c \in Callers : WF_vars(\E ok \in BOOLEAN : CallEnds(c, ok))
                 /\ \A k \in Kinds : WF_vars(AbandonedEnds(k))

\* If the driver library returns from its calls, so does every method, those
\* without a timeout (get_metadata, disconnect) included.
EveryCallEnds == DriverReturns => \A c \in Callers : call[c] # Idle ~> call[c] = Idle
=============================================================================
