------------------------ MODULE DriverConnectorProofs ------------------------
(***************************************************************************)
(* What holds of a connector for any number of readers, threads and        *)
(* tables.  Two invariants: Queueing counts threads and keeps the queue in *)
(* order; Ownership says what is in flight on which kind of connector, and *)
(* that nothing is begun on one that was shut down.                        *)
(***************************************************************************)
EXTENDS DriverConnector, FiniteSetTheorems, TLAPS

Calls == {Idle} \cup [op : Methods, left : Nat \ {0},
                      job : {"queued", "running", "doomed", "asleep"}]

\* A call in the executor belongs to a real connector and a sleep to a mock;
\* only the owner connects and disconnects; a connect in flight means the
\* executor takes calls; a returned disconnect means that it no longer does.
Ownership ==
    /\ \A c \in Callers :
          /\ call[c].job \in {"queued", "running", "doomed"} => driver.real
          /\ call[c].job = "asleep" => ~driver.real
          /\ call[c].op \in {"connect", "disconnect"} => c = Owner
          /\ call[c].op = "connect" /\ driver.real => ~self.shut
    /\ past.released => driver.real /\ self.shut
    /\ abandoned["close"] > 0 => past.interrupted

IInv == TypeOK /\ Ownership /\ ConnectedTellsTruth /\ NothingLeftOpen

-----------------------------------------------------------------------------
(* The steps that all methods share. *)

\* A call is put into the queue, or the await of one is left.
LEMMA EnqueueTypes ==
    ASSUME TypeOK, NEW c \in Callers, NEW op \in Methods, NEW left \in Nat \ {0},
           Enqueue(c, op, left)
    PROVE  /\ call' \in [Callers -> Calls]
           /\ ahead' \in [Callers -> SUBSET Callers]
           /\ call'[c] = [op |-> op, left |-> left, job |-> "queued"]
           /\ \A d \in Callers \ {c} : call'[d] = call[d]
BY DEF TypeOK, Enqueue, Calls, Queued

LEMMA LeaveTypes ==
    ASSUME TypeOK, NEW c \in Callers, Leave(c)
    PROVE  /\ call' \in [Callers -> Calls]
           /\ ahead' \in [Callers -> SUBSET Callers]
           /\ abandoned' \in [Kinds -> Nat]
           /\ call[c] # Idle /\ call'[c] = Idle
           /\ \A d \in Callers \ {c} : call'[d] = call[d]
           /\ abandoned'["close"] = abandoned["close"] \/ call[c].op = "disconnect"
<1>1. call[c].op \in Methods \cup {"idle"} /\ call[c] # Idle
  BY DEF TypeOK, Leave, Idle
<1> QED
  BY <1>1 DEF TypeOK, Leave, Forget, Calls, Kinds, KindOf

\* The handlers of a call that has ended, or could not be submitted: they keep
\* what is known of the connector as long as a connect finds an executor that
\* takes calls.
LEMMA HandleKeeps ==
    ASSUME IInv, driver.real, NEW op \in Methods, NEW ok \in BOOLEAN,
           op = "connect" /\ ok => ~self.shut,
           Handle(op, ok), driver' = driver
    PROVE  /\ self' \in [connection : {"none", "open", "closed"},
                         connected : BOOLEAN, shut : BOOLEAN]
           /\ abandoned' \in [Kinds -> Nat]
           /\ past' \in [released : BOOLEAN, closeFailed : BOOLEAN, interrupted : BOOLEAN]
           /\ past'.released => self'.shut
           /\ abandoned'["close"] > 0 => past'.interrupted
           /\ self'.shut => self.shut \/ op = "disconnect"
           /\ ConnectedTellsTruth' /\ NothingLeftOpen'
<1> USE DEF IInv, TypeOK, Ownership, ConnectedTellsTruth, NothingLeftOpen, Handle, Kinds
<1>1. CASE op = "connect"
  <2>1. Connected(ok) /\ UNCHANGED past
    BY <1>1
  <2>2. /\ self'.connected = ok /\ self'.shut = self.shut
        /\ self'.connection = (IF ok THEN "open" ELSE self.connection)
        /\ self' \in [connection : {"none", "open", "closed"},
                      connected : BOOLEAN, shut : BOOLEAN]
    BY <2>1 DEF Connected
  <2>3. abandoned' \in [Kinds -> Nat] /\ abandoned'["close"] \in {0, abandoned["close"]}
    BY <2>1 DEF Connected
  <2> QED
    BY <1>1, <2>1, <2>2, <2>3
<1>2. CASE op = "disconnect"
  <2>1. After(ok, FALSE, TRUE) /\ UNCHANGED abandoned
    BY <1>2 DEF ShutDown
  <2>2. /\ self'.connected = FALSE /\ self'.shut = TRUE
        /\ self'.connection \in {"none", "open", "closed"}
        /\ self'.connection = "open" => self.connection = "open" /\ ~ok
        /\ self' \in [connection : {"none", "open", "closed"},
                      connected : BOOLEAN, shut : BOOLEAN]
    BY <2>1 DEF After
  <2>3. past'.closeFailed = (past.closeFailed \/ (~ok /\ self.connection = "open"))
    BY <2>1 DEF After
  <2>4. past'.released = TRUE /\ past'.interrupted = past.interrupted
    BY <2>1 DEF After
  <2>5. past' \in [released : BOOLEAN, closeFailed : BOOLEAN, interrupted : BOOLEAN]
    BY <2>1 DEF After
  <2> QED
    BY <1>2, <2>1, <2>2, <2>3, <2>4, <2>5
<1>3. CASE op \notin {"connect", "disconnect"}
  <2>1. UNCHANGED <<self, abandoned, past>>
    BY <1>3
  <2> QED
    BY <1>3, <2>1
<1> QED
  BY <1>1, <1>2, <1>3

\* A method reaches its first await.
LEMMA BeginStep ==
    ASSUME IInv, driver.real, NEW c \in Callers, NEW op \in Methods, NEW left \in Nat \ {0},
           op \in {"connect", "disconnect"} => c = Owner,
           Begin(c, op, left)
    PROVE  IInv'
<1>1. driver' = driver /\ call[c] = Idle
  BY DEF Begin
<1>2. CASE self.shut
  <2>1. Handle(op, FALSE) /\ UNCHANGED <<call, ahead>>
    BY <1>2 DEF Begin
  <2>2. /\ self' \in [connection : {"none", "open", "closed"},
                      connected : BOOLEAN, shut : BOOLEAN]
        /\ abandoned' \in [Kinds -> Nat]
        /\ past' \in [released : BOOLEAN, closeFailed : BOOLEAN, interrupted : BOOLEAN]
        /\ past'.released => self'.shut
        /\ abandoned'["close"] > 0 => past'.interrupted
        /\ ConnectedTellsTruth' /\ NothingLeftOpen'
    BY <1>1, <2>1, HandleKeeps
  <2>3. \A d \in Callers : ~(call[d].op = "connect")
    BY <1>2 DEF IInv, Ownership
  <2> QED
    BY <1>1, <2>1, <2>2, <2>3 DEF IInv, TypeOK, Ownership
<1>3. CASE ~self.shut
  <2>1. Enqueue(c, op, left) /\ UNCHANGED <<self, abandoned, past>>
    BY <1>3 DEF Begin
  <2>2. /\ call' \in [Callers -> Calls] /\ ahead' \in [Callers -> SUBSET Callers]
        /\ call'[c] = [op |-> op, left |-> left, job |-> "queued"]
        /\ \A d \in Callers \ {c} : call'[d] = call[d]
    BY <2>1, EnqueueTypes DEF IInv
  <2> QED
    BY <1>1, <1>3, <2>1, <2>2
       DEF IInv, TypeOK, Calls, Ownership, ConnectedTellsTruth, NothingLeftOpen
<1> QED
  BY <1>2, <1>3

-----------------------------------------------------------------------------
(* The calls. *)

\* A disconnect that finds nothing to close, and Salesforce's, which never does.
LEMMA ReleaseStep ==
    ASSUME IInv, driver.real, call[Owner] = Idle,
           UNCHANGED <<driver, call, ahead, abandoned>>,
           self' \in [connection : {"none", "closed"}, connected : {FALSE}, shut : {TRUE}],
           past' = [past EXCEPT !.released = TRUE]
    PROVE  IInv'
<1>1. \A c \in Callers : call[c].op # "connect"
  BY DEF IInv, Ownership, Idle
<1> QED
  BY <1>1 DEF IInv, TypeOK, Ownership, ConnectedTellsTruth, NothingLeftOpen

LEMMA OwnerStep ==
    ASSUME IInv, OwnerCalls
    PROVE  IInv'
<1> USE DEF Real, Callers, Methods
<1>1. CASE PgConnect \/ SnowConnect \/ SfConnect
  BY <1>1, BeginStep DEF PgConnect, SnowConnect, SfConnect
<1>2. CASE PgDisconnect
  <2>1. CASE self.connection = "open"
    BY <1>2, <2>1, BeginStep DEF PgDisconnect, HasOpenConnection
  <2>2. CASE self.connection # "open"
    <3>1. /\ call[Owner] = Idle /\ ShutDownUnopened
          /\ UNCHANGED <<driver, call, ahead, abandoned>> /\ driver.real
      BY <1>2, <2>2 DEF PgDisconnect, HasOpenConnection
    <3>2. /\ self' \in [connection : {"none", "closed"}, connected : {FALSE}, shut : {TRUE}]
          /\ past' = [past EXCEPT !.released = TRUE]
      BY <2>2, <3>1 DEF ShutDownUnopened, IInv, TypeOK
    <3> QED
      BY <3>1, <3>2, ReleaseStep
  <2> QED
    BY <2>1, <2>2
<1>3. CASE SnowDisconnect
  <2>1. CASE self.connection # "none"
    BY <1>3, <2>1, BeginStep DEF SnowDisconnect
  <2>2. CASE self.connection = "none"
    <3>1. /\ call[Owner] = Idle /\ ShutDownUnopened
          /\ UNCHANGED <<driver, call, ahead, abandoned>> /\ driver.real
      BY <1>3, <2>2 DEF SnowDisconnect
    <3>2. /\ self' \in [connection : {"none", "closed"}, connected : {FALSE}, shut : {TRUE}]
          /\ past' = [past EXCEPT !.released = TRUE]
      BY <2>2, <3>1 DEF ShutDownUnopened, IInv, TypeOK
    <3> QED
      BY <3>1, <3>2, ReleaseStep
  <2> QED
    BY <2>1, <2>2
<1>4. CASE SfDisconnect
  BY <1>4, ReleaseStep DEF SfDisconnect
<1> QED
  BY <1>1, <1>2, <1>3, <1>4 DEF OwnerCalls

\* A mock begins a sleep.
LEMMA SleepStep ==
    ASSUME IInv, ~driver.real, NEW c \in Callers, NEW op \in Methods,
           op \in {"connect", "disconnect"} => c = Owner,
           Sleep(c, op)
    PROVE  IInv'
<1>1. /\ call' \in [Callers -> Calls]
      /\ call'[c] = [op |-> op, left |-> 1, job |-> "asleep"]
      /\ \A d \in Callers \ {c} : call'[d] = call[d]
  BY DEF Sleep, IInv, TypeOK, Calls
<1> QED
  BY <1>1 DEF Sleep, IInv, TypeOK, Calls, Ownership, ConnectedTellsTruth, NothingLeftOpen

LEMMA ReadStep ==
    ASSUME IInv, NEW c \in Callers, Reads(c)
    PROVE  IInv'
<1> USE DEF Real, Mock, Methods
<1>1. 4 + 3 * Tables \in Nat \ {0} /\ 3 + Tables \in Nat \ {0} /\ 2 + Tables \in Nat \ {0}
  BY ConnectorAssumption
<1>2. CASE PgPing(c) \/ PgMetadata(c) \/ PgQuery(c) \/ PgTableStats(c)
  BY <1>1, <1>2, BeginStep DEF PgPing, PgMetadata, PgQuery, PgTableStats
<1>3. CASE SnowPing(c) \/ SnowMetadata(c) \/ SnowQuery(c)
  BY <1>1, <1>3, BeginStep DEF SnowPing, SnowMetadata, SnowQuery
<1>4. CASE SfPing(c) \/ SfEntityFields(c) \/ SfMetadata(c) \/ SfQuery(c)
  BY <1>1, <1>4, BeginStep DEF SfPing, SfEntityFields, SfMetadata, SfQuery
<1>5. ASSUME NEW family \in Families, MockCall(c, family)
      PROVE  IInv'
  BY <1>5, SleepStep DEF MockCall
<1>6. CASE PgMock(c) \/ SnowMock(c) \/ SfMock(c)
  BY <1>5, <1>6 DEF PgMock, SnowMock, SfMock, Families
<1>7. CASE EnterpriseMock(c)
  BY <1>7, SleepStep DEF EnterpriseMock
<1> QED
  BY <1>2, <1>3, <1>4, <1>6, <1>7 DEF Reads

-----------------------------------------------------------------------------
(* What becomes of a call. *)

LEMMA StartStep ==
    ASSUME IInv, NEW c \in Callers, Start(c)
    PROVE  IInv'
<1>1. /\ call[c] \in Calls /\ call[c].job = "queued" /\ call[c] # Idle
  BY DEF Start, IInv, TypeOK, Calls, Idle
<1>2. PICK job \in {"running", "doomed"} : call' = [call EXCEPT ![c].job = job]
  BY DEF Start
<1>3. /\ call' \in [Callers -> Calls]
      /\ call'[c].op = call[c].op /\ call'[c].job \in {"running", "doomed"}
      /\ \A d \in Callers \ {c} : call'[d] = call[d]
  BY <1>1, <1>2 DEF IInv, TypeOK, Calls, Idle
<1>4. ahead' \in [Callers -> SUBSET Callers]
  BY DEF Start, Forget, IInv, TypeOK
<1>5. driver.real
  BY <1>1 DEF IInv, Ownership
<1> QED
  BY <1>1, <1>3, <1>4, <1>5 DEF Start, IInv, TypeOK, Calls, Ownership,
     ConnectedTellsTruth, NothingLeftOpen

LEMMA CallEndsStep ==
    ASSUME IInv, NEW c \in Callers, NEW ok \in BOOLEAN, CallEnds(c, ok)
    PROVE  IInv'
<1> DEFINE op == call[c].op
<1>1. /\ call[c] \in Calls /\ call[c].job \in {"running", "doomed"}
      /\ driver.real /\ driver' = driver
      /\ op \in Methods /\ (op = "connect" => ~self.shut)
      /\ Handle(op, ok)
  BY DEF CallEnds, IInv, TypeOK, Calls, Idle, Ownership
<1>2. /\ self' \in [connection : {"none", "open", "closed"},
                    connected : BOOLEAN, shut : BOOLEAN]
      /\ abandoned' \in [Kinds -> Nat]
      /\ past' \in [released : BOOLEAN, closeFailed : BOOLEAN, interrupted : BOOLEAN]
      /\ past'.released => self'.shut
      /\ abandoned'["close"] > 0 => past'.interrupted
      /\ self'.shut => self.shut \/ op = "disconnect"
      /\ ConnectedTellsTruth' /\ NothingLeftOpen'
  BY <1>1, HandleKeeps
<1>3. /\ call' \in [Callers -> Calls] /\ ahead' \in [Callers -> SUBSET Callers]
      /\ \A d \in Callers \ {c} : call'[d] = call[d]
      /\ call'[c].op \notin {"connect", "disconnect"} /\ call'[c].job # "asleep"
  <2>1. CASE GoesOn(c, ok)
    <3>1. call[c].left \in Nat /\ call[c].left > 1
      BY <1>1, <2>1 DEF GoesOn, Calls, Idle
    <3>2. Enqueue(c, "metadata", call[c].left - 1) /\ call[c].left - 1 \in Nat \ {0}
      BY <2>1, <3>1 DEF CallEnds
    <3>3. /\ call' \in [Callers -> Calls] /\ ahead' \in [Callers -> SUBSET Callers]
          /\ call'[c] = [op |-> "metadata", left |-> call[c].left - 1, job |-> "queued"]
          /\ \A d \in Callers \ {c} : call'[d] = call[d]
      BY <3>2, EnqueueTypes DEF IInv, Methods
    <3> QED
      BY <3>3
  <2>2. CASE ~GoesOn(c, ok)
    BY <2>2 DEF CallEnds, IInv, TypeOK, Calls, Idle
  <2> QED
    BY <2>1, <2>2
<1>4. \A d \in Callers \ {c} : self'.shut /\ call[d].op = "connect" => self.shut
  BY <1>1, <1>2 DEF IInv, Ownership
<1> QED
  BY <1>1, <1>2, <1>3, <1>4 DEF IInv, TypeOK, Calls, Ownership

LEMMA TimesOutStep ==
    ASSUME IInv, NEW c \in Callers, TimesOut(c)
    PROVE  IInv'
<1>1. /\ call' \in [Callers -> Calls] /\ ahead' \in [Callers -> SUBSET Callers]
      /\ abandoned' \in [Kinds -> Nat] /\ call'[c] = Idle
      /\ \A d \in Callers \ {c} : call'[d] = call[d]
      /\ abandoned'["close"] = abandoned["close"]
  BY LeaveTypes DEF TimesOut, Timed, IInv
<1>2. /\ self' \in [connection : {"none", "open", "closed"},
                    connected : BOOLEAN, shut : BOOLEAN]
      /\ self'.connection = self.connection /\ self'.shut = self.shut
      /\ self'.connected => self.connected
  BY DEF TimesOut, IInv, TypeOK
<1> QED
  BY <1>1, <1>2 DEF TimesOut, IInv, TypeOK, Calls, Idle, Ownership, ConnectedTellsTruth,
     NothingLeftOpen

LEMMA CancelledStep ==
    ASSUME IInv, NEW c \in Callers, Cancelled(c)
    PROVE  IInv'
<1>1. /\ call' \in [Callers -> Calls] /\ ahead' \in [Callers -> SUBSET Callers]
      /\ abandoned' \in [Kinds -> Nat] /\ call'[c] = Idle
      /\ \A d \in Callers \ {c} : call'[d] = call[d]
      /\ abandoned'["close"] = abandoned["close"] \/ call[c].op = "disconnect"
  BY LeaveTypes DEF Cancelled, IInv
<1>2. /\ past' \in [released : BOOLEAN, closeFailed : BOOLEAN, interrupted : BOOLEAN]
      /\ past'.released = past.released /\ past'.closeFailed = past.closeFailed
      /\ past'.interrupted = (past.interrupted \/ call[c].op = "disconnect")
  BY DEF Cancelled, IInv, TypeOK
<1> QED
  BY <1>1, <1>2 DEF Cancelled, IInv, TypeOK, Calls, Idle, Ownership, ConnectedTellsTruth,
     NothingLeftOpen

LEMMA WakesStep ==
    ASSUME IInv, NEW c \in Callers, NEW cancelled \in BOOLEAN, Wakes(c, cancelled)
    PROVE  IInv'
<1>1. /\ call' \in [Callers -> Calls] /\ call'[c] = Idle
      /\ \A d \in Callers \ {c} : call'[d] = call[d]
      /\ ~driver.real
  BY DEF Wakes, IInv, TypeOK, Calls, Ownership
<1>2. /\ self' \in [connection : {"none", "open", "closed"},
                    connected : BOOLEAN, shut : BOOLEAN]
      /\ self'.connection = self.connection /\ self'.shut = self.shut
  BY DEF Wakes, IInv, TypeOK
<1> QED
  BY <1>1, <1>2 DEF Wakes, IInv, TypeOK, Calls, Idle, Ownership, ConnectedTellsTruth,
     NothingLeftOpen

\* A close that was given up may still close the connection of a connector that
\* calls itself connected: only after an interrupted disconnect.
LEMMA AbandonedStep ==
    ASSUME IInv, NEW k \in Kinds, AbandonedEnds(k)
    PROVE  IInv'
<1>1. abandoned' \in [Kinds -> Nat] /\ abandoned'["close"] <= abandoned["close"]
  BY DEF AbandonedEnds, IInv, TypeOK, Kinds
<1>2. /\ self' \in [connection : {"none", "open", "closed"},
                    connected : BOOLEAN, shut : BOOLEAN]
      /\ self'.connected = self.connected /\ self'.shut = self.shut
      /\ self'.connection = "open" => self.connection = "open"
      /\ self'.connection = self.connection \/ k = "close"
  BY DEF AbandonedEnds, IInv, TypeOK
<1>3. k = "close" => past.interrupted
  BY DEF AbandonedEnds, IInv, Ownership
<1>4. UNCHANGED <<driver, call, ahead, past>>
  BY DEF AbandonedEnds
<1>5. 0 \in Nat /\ abandoned["close"] \in Nat /\ abandoned'["close"] \in Nat
  BY <1>1 DEF IInv, TypeOK, Kinds
<1>6. (abandoned["close"] > 0 => past.interrupted)'
  BY <1>1, <1>4, <1>5 DEF IInv, Ownership
<1>7. Ownership'
  BY <1>2, <1>4, <1>6 DEF IInv, Ownership
<1> QED
  BY <1>1, <1>2, <1>3, <1>4, <1>7 DEF IInv, TypeOK, ConnectedTellsTruth, NothingLeftOpen

LEMMA InitInvariant ==
    ASSUME Init
    PROVE  IInv
BY DEF Init, IInv, TypeOK, Idle, Kinds, Ownership, ConnectedTellsTruth, NothingLeftOpen,
   CreateConnector

LEMMA StepInvariant ==
    ASSUME IInv, [Next]_vars
    PROVE  IInv'
<1>1. CASE OwnerCalls
  BY <1>1, OwnerStep
<1>2. ASSUME NEW c \in Callers, Reads(c) \/ Progress(c)
      PROVE  IInv'
  BY <1>2, ReadStep, StartStep, CallEndsStep, TimesOutStep, CancelledStep, WakesStep
     DEF Progress
<1>3. ASSUME NEW k \in Kinds, AbandonedEnds(k)
      PROVE  IInv'
  BY <1>3, AbandonedStep
<1>4. CASE UNCHANGED vars
  BY <1>4 DEF vars, IInv, TypeOK, Ownership, ConnectedTellsTruth, NothingLeftOpen
<1> QED
  BY <1>1, <1>2, <1>3, <1>4 DEF Next

THEOREM Inductive == Spec => []IInv
<1>1. Init => IInv
  BY InitInvariant
<1>2. IInv /\ [Next]_vars => IInv'
  BY StepInvariant
<1> QED
  BY <1>1, <1>2, PTL DEF Spec

\* The variables keep their types for any number of readers, threads and tables.
THEOREM TypeCorrect == Spec => []TypeOK
<1>1. IInv => TypeOK
  BY DEF IInv
<1> QED
  BY <1>1, Inductive, PTL

\* After a returned disconnect only a connection whose close failed is open.
THEOREM NothingLeaks == Spec => []NothingLeftOpen
<1>1. IInv => NothingLeftOpen
  BY DEF IInv
<1> QED
  BY <1>1, Inductive, PTL

\* A real connector that says connected has an open connection and an executor
\* to reach it, unless a disconnect was cancelled on the way.
THEOREM FlagsTellTruth == Spec => []ConnectedTellsTruth
<1>1. IInv => ConnectedTellsTruth
  BY DEF IInv
<1> QED
  BY <1>1, Inductive, PTL

\* A call becomes queued only if the executor takes calls.
LEMMA QueuedOnlyWhileOpen ==
    ASSUME IInv, self.shut, self'.shut, driver.real, NEW c \in Callers, [Next]_vars,
           call'[c] # call[c]
    PROVE  call'[c].job # "queued"
<1> USE DEF IInv, TypeOK
<1>1. ASSUME NEW d \in Callers, NEW op, NEW left, Begin(d, op, left)
      PROVE  FALSE
  BY <1>1 DEF Begin
<1>2. CASE OwnerCalls
  BY <1>1, <1>2 DEF OwnerCalls, PgConnect, PgDisconnect, SnowConnect, SnowDisconnect,
     SfConnect, SfDisconnect, Callers
<1>3. ASSUME NEW d \in Callers, Reads(d)
      PROVE  FALSE
  BY <1>1, <1>3 DEF Reads, PgPing, PgMetadata, PgQuery, PgTableStats, SnowPing,
     SnowMetadata, SnowQuery, SfPing, SfEntityFields, SfMetadata, SfQuery, PgMock, SnowMock,
     SfMock, EnterpriseMock, MockCall, Mock
<1>4. ASSUME NEW d \in Callers, Progress(d)
      PROVE  call'[c].job # "queued"
  <2>1. CASE Start(d)
    BY <2>1 DEF Start
  <2>2. ASSUME NEW ok \in BOOLEAN, CallEnds(d, ok)
        PROVE  call'[c].job # "queued"
    BY <2>2 DEF CallEnds, GoesOn, Idle
  <2>3. CASE TimesOut(d) \/ Cancelled(d)
    BY <2>3 DEF TimesOut, Cancelled, Leave, Idle
  <2>4. ASSUME NEW cancelled \in BOOLEAN, Wakes(d, cancelled)
        PROVE  call'[c].job # "queued"
    BY <2>4 DEF Wakes, Idle
  <2> QED
    BY <1>4, <2>1, <2>2, <2>3, <2>4 DEF Progress
<1>5. ASSUME NEW k \in Kinds, AbandonedEnds(k)
      PROVE  FALSE
  BY <1>5 DEF AbandonedEnds
<1>6. CASE UNCHANGED vars
  BY <1>6 DEF vars
<1> QED
  BY <1>2, <1>3, <1>4, <1>5, <1>6 DEF Next

\* No step takes a returned disconnect back.
LEMMA ReleasedStays ==
    ASSUME TypeOK, past.released, [Next]_vars
    PROVE  past'.released
<1> USE DEF TypeOK
<1>1. ASSUME NEW op, NEW ok, Handle(op, ok)
      PROVE  past'.released
  BY <1>1 DEF Handle, ShutDown, After
<1>2. ASSUME NEW d, NEW op, NEW left, Begin(d, op, left)
      PROVE  past'.released
  BY <1>1, <1>2 DEF Begin
<1>3. ASSUME ShutDownUnopened
      PROVE  past'.released
  BY <1>3 DEF ShutDownUnopened
<1>4. CASE OwnerCalls
  BY <1>2, <1>3, <1>4 DEF OwnerCalls, PgConnect, PgDisconnect, SnowConnect, SnowDisconnect,
     SfConnect, SfDisconnect
<1>5. ASSUME NEW d \in Callers, Reads(d)
      PROVE  past'.released
  BY <1>2, <1>5 DEF Reads, PgPing, PgMetadata, PgQuery, PgTableStats, SnowPing,
     SnowMetadata, SnowQuery, SfPing, SfEntityFields, SfMetadata, SfQuery, PgMock, SnowMock,
     SfMock, EnterpriseMock, MockCall, Sleep
<1>6. ASSUME NEW d \in Callers, Progress(d)
      PROVE  past'.released
  BY <1>1, <1>6 DEF Progress, Start, CallEnds, TimesOut, Cancelled, Wakes
<1>7. ASSUME NEW k \in Kinds, AbandonedEnds(k)
      PROVE  past'.released
  BY <1>7 DEF AbandonedEnds
<1> QED
  BY <1>4, <1>5, <1>6, <1>7 DEF Next, vars

\* Once disconnect has returned, a connector stays disconnected and takes no
\* further driver call.
THEOREM StaysReleased == Spec => ReleasedForGood
<1> DEFINE Kept == past.released => /\ ~self'.connected
                                    /\ \A c \in Callers :
                                           call'[c] # call[c] => call'[c].job # "queued"
<1>1. IInv /\ IInv' /\ [Next]_vars => [Kept]_vars
  <2> SUFFICES ASSUME IInv, IInv', [Next]_vars, past.released
               PROVE  Kept
    OBVIOUS
  <2>1. past'.released
    BY ReleasedStays DEF IInv
  <2>2. driver.real /\ self.shut /\ self'.shut /\ ~self'.connected
    BY <2>1 DEF IInv, Ownership, ConnectedTellsTruth
  <2> QED
    BY <2>2, QueuedOnlyWhileOpen
<1> QED
  BY <1>1, Inductive, PTL DEF Spec, ReleasedForGood

-----------------------------------------------------------------------------
(* Threads and queue. *)

Order == /\ \A c \in Callers : ahead[c] \subseteq Queued
         /\ \A c, d \in Queued : c # d => (c \in ahead[d] <=> d \notin ahead[c])

\* An entry goes to the end of the queue, or leaves it.
LEMMA EnqueueKeepsOrder ==
    ASSUME TypeOK, Order, NEW c \in Callers, c \notin Queued, NEW op, NEW left,
           Enqueue(c, op, left)
    PROVE  Order'
<1>1. Queued' = Queued \cup {c}
  BY DEF TypeOK, Queued, Enqueue
<1>2. /\ ahead' = [ahead EXCEPT ![c] = Queued \ {c}]
      /\ \A d \in Callers : c \notin ahead[d]
      /\ Queued \subseteq Callers /\ DOMAIN ahead = Callers
  BY DEF Enqueue, Order, TypeOK, Queued
<1> QED
  BY <1>1, <1>2 DEF Order

LEMMA ForgetKeepsOrder ==
    ASSUME TypeOK, Order, NEW c \in Callers, Forget(c), Queued' = Queued \ {c}
    PROVE  Order'
<1>1. Queued \subseteq Callers /\ Queued' \subseteq Queued
  BY DEF Queued
<1> QED
  BY <1>1 DEF Order, Forget

\* Two states with the same entries have the same order.
LEMMA OrderUnchanged ==
    ASSUME Order, UNCHANGED ahead, Queued' = Queued
    PROVE  Order'
BY DEF Order

LEMMA RunningCounted ==
    /\ IsFiniteSet(Running) /\ Cardinality(Running) \in Nat
    /\ \A c : IsFiniteSet(Running \cup {c}) /\ IsFiniteSet(Running \ {c})
    /\ \A c : Cardinality(Running \cup {c}) =
                 IF c \in Running THEN Cardinality(Running) ELSE Cardinality(Running) + 1
    /\ \A c : Cardinality(Running \ {c}) =
                 IF c \in Running THEN Cardinality(Running) - 1 ELSE Cardinality(Running)
<1>1. IsFiniteSet(Callers)
  BY ConnectorAssumption, FS_AddElement DEF Callers
<1>2. IsFiniteSet(Running)
  BY <1>1, FS_Subset DEF Running
<1> QED
  BY <1>2, FS_CardinalityType, FS_AddElement, FS_RemoveElement

\* A method reaches its first await.
LEMMA BeginQueues ==
    ASSUME TypeOK, ThreadsAccounted, NEW c \in Callers, NEW op, NEW left,
           Begin(c, op, left)
    PROVE  ThreadsAccounted'
<1>1. Order
  BY DEF ThreadsAccounted, Order
<1>2. c \notin Queued /\ c \notin Running
  BY DEF Begin, Queued, Running, Idle
<1>3. CASE self.shut
  <2>1. Queued' = Queued /\ Running' = Running /\ UNCHANGED ahead /\ Handle(op, FALSE)
    BY <1>3 DEF Begin, Queued, Running
  <2>2. UNCHANGED abandoned
    BY <2>1 DEF Handle, Connected
  <2>3. Order'
    BY <1>1, <2>1, OrderUnchanged
  <2> QED
    BY <2>1, <2>2, <2>3 DEF ThreadsAccounted, Order, Busy
<1>4. CASE ~self.shut
  <2>1. Enqueue(c, op, left) /\ UNCHANGED abandoned
    BY <1>4 DEF Begin
  <2>2. Running' = Running
    BY <1>2, <2>1 DEF Enqueue, Running, TypeOK
  <2>3. Order'
    BY <1>1, <1>2, <2>1, EnqueueKeepsOrder
  <2> QED
    BY <2>1, <2>2, <2>3 DEF ThreadsAccounted, Order, Busy
<1> QED
  BY <1>3, <1>4

\* Steps that touch neither threads nor queue.
LEMMA NothingQueues ==
    ASSUME ThreadsAccounted, UNCHANGED <<ahead, abandoned>>,
           Queued' = Queued, Running' = Running
    PROVE  ThreadsAccounted'
BY DEF ThreadsAccounted, Busy

LEMMA StartQueues ==
    ASSUME TypeOK, ThreadsAccounted, NEW c \in Callers, Start(c)
    PROVE  ThreadsAccounted'
<1>1. call[c].job = "queued" /\ Busy < Threads /\ Forget(c) /\ UNCHANGED abandoned
  BY DEF Start
<1>2. PICK job \in {"running", "doomed"} : call' = [call EXCEPT ![c].job = job]
  BY DEF Start
<1>3. call'[c].job \in {"running", "doomed"} /\ \A d \in Callers \ {c} : call'[d] = call[d]
  BY <1>1, <1>2 DEF TypeOK, Idle
<1>4. Running' = Running \cup {c} /\ Queued' = Queued \ {c} /\ c \notin Running
  BY <1>1, <1>3 DEF Running, Queued
<1>5. Order'
  BY <1>1, <1>4, ForgetKeepsOrder DEF ThreadsAccounted, Order
<1>6. Cardinality(Running') = Cardinality(Running) + 1
  BY <1>4, RunningCounted
<1>7. Busy' <= Threads
  BY <1>1, <1>6, RunningCounted, ConnectorAssumption DEF Busy, TypeOK, Kinds
<1> QED
  BY <1>5, <1>7 DEF ThreadsAccounted, Order

\* A call that is given up in a thread still counts as one thread.
LEMMA LeaveQueues ==
    ASSUME TypeOK, ThreadsAccounted, NEW c \in Callers, Leave(c)
    PROVE  ThreadsAccounted'
<1>1. /\ call'[c] = Idle /\ Forget(c)
      /\ \A d \in Callers \ {c} : call'[d] = call[d]
  BY DEF Leave, TypeOK
<1>2. Running' = Running \ {c} /\ Queued' = Queued \ {c}
  BY <1>1 DEF Running, Queued, Idle
<1>3. Order'
  BY <1>1, <1>2, ForgetKeepsOrder DEF ThreadsAccounted, Order
<1>4. abandoned["close"] \in Nat /\ abandoned["other"] \in Nat
  BY DEF TypeOK, Kinds
<1>5. CASE call[c].job = "queued"
  <2>1. c \notin Running /\ abandoned' = abandoned
    BY <1>5 DEF Running, Leave
  <2>2. Cardinality(Running') = Cardinality(Running)
    BY <1>2, <2>1, RunningCounted
  <2> QED
    BY <1>3, <2>1, <2>2 DEF ThreadsAccounted, Order, Busy
<1>6. CASE call[c].job \in {"running", "doomed"}
  <2>1. c \in Running
    BY <1>6 DEF Running
  <2>2. abandoned'["close"] + abandoned'["other"] = abandoned["close"] + abandoned["other"] + 1
    BY <1>4, <1>6 DEF Leave, TypeOK, Kinds, KindOf
  <2>3. abandoned'["close"] \in Nat /\ abandoned'["other"] \in Nat
    BY LeaveTypes DEF Kinds
  <2>4. Cardinality(Running') = Cardinality(Running) - 1
    BY <1>2, <2>1, RunningCounted
  <2>5. Busy' = Busy
    BY <1>4, <2>2, <2>3, <2>4, RunningCounted DEF Busy
  <2> QED
    BY <1>3, <2>5 DEF ThreadsAccounted, Order
<1> QED
  BY <1>5, <1>6 DEF Leave

LEMMA CallEndsQueues ==
    ASSUME TypeOK, ThreadsAccounted, NEW c \in Callers, NEW ok \in BOOLEAN, CallEnds(c, ok)
    PROVE  ThreadsAccounted'
<1>1. c \in Running /\ c \notin Queued
  BY DEF CallEnds, Running, Queued
<1>2. Running' = Running \ {c} /\ Order'
  <2>1. CASE GoesOn(c, ok)
    <3>1. Enqueue(c, "metadata", call[c].left - 1)
      BY <2>1 DEF CallEnds
    <3>2. Running' = Running \ {c}
      BY <3>1 DEF Enqueue, Running, TypeOK
    <3> QED
      BY <1>1, <3>1, <3>2, EnqueueKeepsOrder DEF ThreadsAccounted, Order
  <2>2. CASE ~GoesOn(c, ok)
    <3>1. call' = [call EXCEPT ![c] = Idle] /\ UNCHANGED ahead
      BY <2>2 DEF CallEnds
    <3>2. Running' = Running \ {c} /\ Queued' = Queued
      BY <1>1, <3>1 DEF Running, Queued, TypeOK, Idle
    <3> QED
      BY <3>1, <3>2, OrderUnchanged DEF ThreadsAccounted, Order
  <2> QED
    BY <2>1, <2>2
<1>3. abandoned["close"] \in Nat /\ abandoned["other"] \in Nat
  BY DEF TypeOK, Kinds
<1>4. /\ abandoned'["close"] + abandoned'["other"] = abandoned["close"] + abandoned["other"]
      /\ abandoned'["close"] \in Nat /\ abandoned'["other"] \in Nat
  BY <1>3 DEF CallEnds, Handle, Connected, Kinds
<1>5. Cardinality(Running') = Cardinality(Running) - 1
  BY <1>1, <1>2, RunningCounted
<1>6. Busy' <= Threads
  BY <1>3, <1>4, <1>5, RunningCounted, ConnectorAssumption DEF Busy, ThreadsAccounted
<1> QED
  BY <1>2, <1>6 DEF ThreadsAccounted, Order

LEMMA AbandonedQueues ==
    ASSUME TypeOK, ThreadsAccounted, NEW k \in Kinds, AbandonedEnds(k)
    PROVE  ThreadsAccounted'
<1>1. /\ abandoned["close"] \in Nat /\ abandoned["other"] \in Nat
      /\ abandoned'["close"] \in Nat /\ abandoned'["other"] \in Nat
      /\ abandoned'["close"] + abandoned'["other"] <= abandoned["close"] + abandoned["other"]
  BY DEF AbandonedEnds, TypeOK, Kinds
<1>2. Running' = Running /\ Queued' = Queued /\ UNCHANGED ahead
  BY DEF AbandonedEnds, Running, Queued
<1>3. Busy' <= Threads
  BY <1>1, <1>2, RunningCounted, ConnectorAssumption DEF Busy, ThreadsAccounted
<1> QED
  BY <1>2, <1>3 DEF ThreadsAccounted

\* A mock's sleep begins or ends.
LEMMA SleepQueues ==
    ASSUME TypeOK, ThreadsAccounted, NEW c \in Callers, UNCHANGED <<ahead, abandoned>>,
           call[c].job \notin {"queued", "running", "doomed"},
           NEW x, x.job \notin {"queued", "running", "doomed"},
           call' = [call EXCEPT ![c] = x]
    PROVE  ThreadsAccounted'
<1>1. call'[c] = x /\ \A d \in Callers \ {c} : call'[d] = call[d]
  BY DEF TypeOK
<1>2. Queued' = Queued /\ Running' = Running
  BY <1>1 DEF Queued, Running
<1> QED
  BY <1>2, NothingQueues

LEMMA OwnerQueues ==
    ASSUME TypeOK, ThreadsAccounted, OwnerCalls
    PROVE  ThreadsAccounted'
<1>1. ASSUME NEW op, NEW left, Begin(Owner, op, left)
      PROVE  ThreadsAccounted'
  BY <1>1, BeginQueues DEF Callers
<1>2. ASSUME UNCHANGED <<call, ahead, abandoned>>
      PROVE  ThreadsAccounted'
  BY <1>2, NothingQueues DEF Queued, Running
<1> QED
  BY <1>1, <1>2 DEF OwnerCalls, PgConnect, PgDisconnect, SnowConnect, SnowDisconnect,
     SfConnect, SfDisconnect

LEMMA ReadQueues ==
    ASSUME TypeOK, ThreadsAccounted, NEW c \in Callers, Reads(c)
    PROVE  ThreadsAccounted'
<1>1. ASSUME NEW op, NEW left, Begin(c, op, left)
      PROVE  ThreadsAccounted'
  BY <1>1, BeginQueues
<1>2. ASSUME NEW op, Sleep(c, op)
      PROVE  ThreadsAccounted'
  <2> DEFINE x == [op |-> op, left |-> 1, job |-> "asleep"]
  <2>1. /\ call[c].job \notin {"queued", "running", "doomed"}
        /\ x.job \notin {"queued", "running", "doomed"}
        /\ call' = [call EXCEPT ![c] = x] /\ UNCHANGED <<ahead, abandoned>>
    BY <1>2 DEF Sleep, Idle
  <2> HIDE DEF x
  <2> QED
    BY <2>1, SleepQueues
<1>3. ASSUME NEW family, MockCall(c, family)
      PROVE  ThreadsAccounted'
  BY <1>2, <1>3 DEF MockCall
<1> QED
  BY <1>1, <1>2, <1>3 DEF Reads, PgPing, PgMetadata, PgQuery, PgTableStats, SnowPing,
     SnowMetadata, SnowQuery, SfPing, SfEntityFields, SfMetadata, SfQuery, PgMock, SnowMock,
     SfMock, EnterpriseMock

LEMMA ProgressQueues ==
    ASSUME TypeOK, ThreadsAccounted, NEW c \in Callers, Progress(c)
    PROVE  ThreadsAccounted'
<1>1. ASSUME NEW cancelled \in BOOLEAN, Wakes(c, cancelled)
      PROVE  ThreadsAccounted'
  <2>1. /\ call[c].job \notin {"queued", "running", "doomed"}
        /\ Idle.job \notin {"queued", "running", "doomed"}
        /\ call' = [call EXCEPT ![c] = Idle] /\ UNCHANGED <<ahead, abandoned>>
    BY <1>1 DEF Wakes, Idle
  <2> QED
    BY <2>1, SleepQueues
<1>2. CASE TimesOut(c) \/ Cancelled(c)
  BY <1>2, LeaveQueues DEF TimesOut, Cancelled
<1> QED
  BY <1>1, <1>2, StartQueues, CallEndsQueues DEF Progress

\* Whatever times out or is cancelled, the driver calls that run never exceed
\* the executor's threads, and the calls that wait stay in one order.
THEOREM ThreadsBounded == Spec => []ThreadsAccounted
<1>1. Init => ThreadsAccounted
  <2> SUFFICES ASSUME Init
               PROVE  ThreadsAccounted
    OBVIOUS
  <2>1. Running = {} /\ Queued = {}
    BY DEF Init, Running, Queued, Idle
  <2>2. Busy = 0
    BY <2>1, FS_EmptySet DEF Init, Busy, Kinds
  <2> QED
    BY <2>1, <2>2, ConnectorAssumption DEF Init, ThreadsAccounted
<1>2. TypeOK /\ ThreadsAccounted /\ [Next]_vars => ThreadsAccounted'
  <2> SUFFICES ASSUME TypeOK, ThreadsAccounted, [Next]_vars
               PROVE  ThreadsAccounted'
    OBVIOUS
  <2>1. CASE UNCHANGED vars
    BY <2>1, NothingQueues DEF vars, Queued, Running
  <2> QED
    BY <2>1, OwnerQueues, ReadQueues, ProgressQueues, AbandonedQueues DEF Next
<1> QED
  BY <1>1, <1>2, TypeCorrect, PTL DEF Spec
=============================================================================
