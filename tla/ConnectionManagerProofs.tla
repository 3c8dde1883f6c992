----------------------- MODULE ConnectionManagerProofs -----------------------
(***************************************************************************)
(* Theorems about ConnectionManager, for every set of specs and every      *)
(* concurrency limit.  None of the invariants is inductive alone: the      *)
(* order in which health checks and disconnects run follows from the       *)
(* phases, and the progress counts from which attempts have an outcome.    *)
(***************************************************************************)
EXTENDS ConnectionManager, FiniteSetTheorems, TLAPS

\* What each phase rules out.
Phasing ==
    /\ phase = "new" => task = [s \in Specs |-> "absent"]
    /\ phase = "connecting" => \A s \in Specs : task[s] # "absent"
    /\ phase \notin {"new", "connecting"} => AllTasksDone
    /\ pinging # {} => phase \in {"up", "stopping"}
    /\ closing # {} => phase = "disconnecting"
    /\ phase = "disconnecting" => closing = connected
    /\ phase = "closed" => connected = {}
    /\ pinging \subseteq open

\* Which specs have an outcome, and where an open connector is accounted for.
Accounted ==
    /\ phase \in {"new", "connecting", "up"} =>
          /\ connected \cap Errored = {}
          /\ connected \cup Errored = {s \in Specs : task[s] \in {"metadata", "done"}}
    /\ phase # "aborted" => open \subseteq connected \cup Errored \cup Stubborn

IInv == TypeOK /\ PermitsConserved /\ Phasing /\ Accounted

-----------------------------------------------------------------------------

\* The tasks inside the semaphore form a finite set.
LEMMA InsideFinite ==
    IsFiniteSet(Inside) /\ Cardinality(Inside) \in Nat
<1>1. IsFiniteSet(Specs) /\ Inside \in SUBSET Specs
  BY ManagerAssumption DEF Inside
<1> QED
  BY <1>1, FS_Subset, FS_CardinalityType

\* Init
LEMMA InitInv == Init => IInv
<1> SUFFICES ASSUME Init PROVE IInv
  OBVIOUS
<1>1. Inside = {}
  BY DEF Init, Inside
<1>2. Cardinality(Inside) = 0
  BY <1>1, FS_EmptySet
<1> QED
  BY <1>2, ManagerAssumption
  DEF Init, IInv, TypeOK, PermitsConserved, Phasing, Accounted, Phases, TaskStates,
      HealthStates, ErrorStates, Errored

\* The type invariant is preserved; the permit count bounds what Release adds.
LEMMA StepType == IInv /\ [Next]_vars => TypeOK'
<1> SUFFICES ASSUME IInv, [Next]_vars PROVE TypeOK'
  OBVIOUS
<1> USE DEF IInv, TypeOK, Phases, TaskStates, HealthStates, ErrorStates
<1>0. MaxConcurrency \in Nat /\ permits \in Nat
  BY ManagerAssumption
<1>1. ASSUME NEW s \in Specs, task[s] \in {"connecting", "metadata"}
      PROVE  permits + 1 \in 0..MaxConcurrency
  <2>1. Inside # {}
    BY <1>1 DEF Inside
  <2>2. Cardinality(Inside) # 0
    BY <2>1, InsideFinite, FS_EmptySet
  <2> QED
    BY <1>0, <2>2, InsideFinite DEF PermitsConserved
<1>2. ASSUME NEW s \in Specs, Step(s) PROVE TypeOK'
  <2>1. CASE Acquire(s)
    BY <2>1, <1>0 DEF Acquire, CanAcquire
  <2>2. CASE ConnectOk(s)
    BY <2>2 DEF ConnectOk
  <2>3. CASE ConnectFails(s)
    BY <2>3, <1>1 DEF ConnectFails, Release
  <2>4. CASE MetadataDone(s)
    BY <2>4, <1>1 DEF MetadataDone, Release
  <2>5. CASE PingOk(s) \/ PingFails(s) \/ CheckCancelled(s)
    BY <2>5 DEF PingOk, PingFails, CheckCancelled
  <2>6. CASE Disconnected(s)
    BY <2>6 DEF Disconnected, ClearConnected
  <2> QED
    BY <1>2, <2>1, <2>2, <2>3, <2>4, <2>5, <2>6 DEF Step
<1>3. CASE StartConnectAll
  BY <1>3 DEF StartConnectAll
<1>4. CASE ConnectAllReturns
  BY <1>4 DEF ConnectAllReturns
<1>5. CASE CancelConnectAll
  BY <1>5, <1>0 DEF CancelConnectAll
<1>6. CASE HealthWake
  BY <1>6 DEF HealthWake, Healthy
<1>7. CASE HealthRoundDone \/ StartDisconnectAll \/ DisconnectAllReturns
  BY <1>7 DEF HealthRoundDone, StartDisconnectAll, DisconnectAllReturns
<1>8. CASE DisconnectConnected
  BY <1>8 DEF DisconnectConnected
<1>9. CASE CancelDisconnectAll
  BY <1>9 DEF CancelDisconnectAll
<1>10. CASE UNCHANGED vars
  BY <1>10 DEF vars
<1> QED
  BY <1>2, <1>3, <1>4, <1>5, <1>6, <1>7, <1>8, <1>9, <1>10 DEF Next

\* Permits move one at a time, with the task that takes or returns one.
LEMMA StepPermits == IInv /\ [Next]_vars => PermitsConserved'
<1> SUFFICES ASSUME IInv, [Next]_vars PROVE PermitsConserved'
  OBVIOUS
<1> USE DEF IInv, TypeOK, PermitsConserved
<1>0. MaxConcurrency \in Nat /\ permits \in Nat /\ Cardinality(Inside) \in Nat
  BY ManagerAssumption, InsideFinite
<1>1. ASSUME UNCHANGED permits, Inside' = Inside PROVE PermitsConserved'
  BY <1>1
<1>2. ASSUME NEW s \in Specs, Inside' = Inside \ {s}, s \in Inside, Release
      PROVE  PermitsConserved'
  <2>1. Cardinality(Inside \ {s}) = Cardinality(Inside) - 1
    BY <1>2, InsideFinite, FS_RemoveElement
  <2> QED
    BY <1>0, <1>2, <2>1 DEF Release
<1>3. ASSUME NEW s \in Specs, Step(s) PROVE PermitsConserved'
  <2>1. CASE Acquire(s)
    <3>1. Inside' = Inside \cup {s} /\ s \notin Inside
      BY <2>1 DEF Acquire, Inside
    <3>2. Cardinality(Inside \cup {s}) = Cardinality(Inside) + 1
      BY <3>1, InsideFinite, FS_AddElement
    <3> QED
      BY <1>0, <2>1, <3>1, <3>2 DEF Acquire
  <2>2. CASE ConnectOk(s)
    <3>1. Inside' = Inside
      BY <2>2 DEF ConnectOk, Inside
    <3> QED
      BY <3>1, <2>2, <1>1 DEF ConnectOk
  <2>3. CASE ConnectFails(s)
    <3>1. Inside' = Inside \ {s} /\ s \in Inside
      BY <2>3 DEF ConnectFails, Inside
    <3> QED
      BY <3>1, <2>3, <1>2 DEF ConnectFails
  <2>4. CASE MetadataDone(s)
    <3>1. Inside' = Inside \ {s} /\ s \in Inside
      BY <2>4 DEF MetadataDone, Inside
    <3> QED
      BY <3>1, <2>4, <1>2 DEF MetadataDone
  <2>5. CASE PingOk(s) \/ PingFails(s) \/ CheckCancelled(s) \/ Disconnected(s)
    BY <2>5, <1>1 DEF PingOk, PingFails, CheckCancelled, Disconnected, Inside
  <2> QED
    BY <1>3, <2>1, <2>2, <2>3, <2>4, <2>5 DEF Step
<1>4. CASE StartConnectAll
  <2>1. Inside = {} /\ Inside' = {}
    BY <1>4 DEF StartConnectAll, Phasing, Inside
  <2> QED
    BY <2>1, <1>4, <1>1 DEF StartConnectAll
<1>5. CASE CancelConnectAll
  <2>1. Inside' = {} /\ permits' = MaxConcurrency
    BY <1>5 DEF CancelConnectAll, Inside
  <2>2. Cardinality(Inside') = 0
    BY <2>1, FS_EmptySet
  <2> QED
    BY <2>1, <2>2, <1>0
<1>6. CASE \/ ConnectAllReturns \/ HealthWake \/ HealthRoundDone \/ StartDisconnectAll
           \/ DisconnectConnected \/ DisconnectAllReturns \/ CancelDisconnectAll
  BY <1>6, <1>1 DEF ConnectAllReturns, HealthWake, HealthRoundDone, StartDisconnectAll,
                    DisconnectConnected, DisconnectAllReturns, CancelDisconnectAll, Inside
<1>7. CASE UNCHANGED vars
  BY <1>7, <1>1 DEF vars, Inside
<1> QED
  BY <1>3, <1>4, <1>5, <1>6, <1>7 DEF Next

\* The phases keep checks and disconnects apart.
LEMMA StepPhasing == IInv /\ [Next]_vars => Phasing'
<1> SUFFICES ASSUME IInv, [Next]_vars PROVE Phasing'
  OBVIOUS
<1> USE DEF IInv, TypeOK, Phasing, AllTasksDone
<1>1. ASSUME NEW s \in Specs, Step(s) PROVE Phasing'
  <2>1. CASE Acquire(s) \/ ConnectOk(s) \/ ConnectFails(s) \/ MetadataDone(s)
    <3>1. phase = "connecting" /\ phase' = "connecting"
      BY <2>1 DEF Acquire, ConnectOk, ConnectFails, MetadataDone
    <3> QED
      BY <3>1, <2>1 DEF Acquire, ConnectOk, ConnectFails, MetadataDone
  <2>2. CASE PingOk(s) \/ PingFails(s) \/ CheckCancelled(s)
    BY <2>2 DEF PingOk, PingFails, CheckCancelled
  <2>3. CASE Disconnected(s)
    BY <2>3 DEF Disconnected, ClearConnected
  <2> QED
    BY <1>1, <2>1, <2>2, <2>3 DEF Step
<1>2. CASE StartConnectAll \/ ConnectAllReturns \/ CancelConnectAll
  BY <1>2 DEF StartConnectAll, ConnectAllReturns, CancelConnectAll
<1>3. CASE HealthWake \/ HealthRoundDone \/ StartDisconnectAll
  BY <1>3 DEF HealthWake, HealthRoundDone, StartDisconnectAll, Healthy
<1>4. CASE DisconnectConnected \/ DisconnectAllReturns \/ CancelDisconnectAll
  BY <1>4 DEF DisconnectConnected, DisconnectAllReturns, CancelDisconnectAll,
              ChecksEnded, DisconnectsDone
<1>5. CASE UNCHANGED vars
  BY <1>5 DEF vars
<1> QED
  BY <1>1, <1>2, <1>3, <1>4, <1>5 DEF Next

\* An attempt is counted exactly when it has an outcome.
LEMMA StepAccounted == IInv /\ [Next]_vars => Accounted'
<1> SUFFICES ASSUME IInv, [Next]_vars PROVE Accounted'
  OBVIOUS
<1> USE DEF IInv, TypeOK, Phasing, Accounted, AllTasksDone
<1>0. UNCHANGED error => Errored' = Errored
  BY DEF Errored
<1>1. ASSUME NEW s \in Specs, \E e \in {"blank", "text"} : error' = [error EXCEPT ![s] = e]
      PROVE  Errored' = Errored \cup {s}
  BY <1>1 DEF Errored, ErrorStates
<1>2. ASSUME NEW s \in Specs, Step(s) PROVE Accounted'
  <2>1. CASE Acquire(s)
    BY <2>1, <1>0 DEF Acquire
  <2>2. CASE ConnectOk(s)
    BY <2>2, <1>0 DEF ConnectOk
  <2>3. CASE ConnectFails(s)
    <3>1. Errored' = Errored \cup {s}
      BY <2>3, <1>1 DEF ConnectFails
    <3> QED
      BY <2>3, <3>1 DEF ConnectFails
  <2>4. CASE MetadataDone(s)
    BY <2>4, <1>0 DEF MetadataDone
  <2>5. CASE PingOk(s) \/ CheckCancelled(s)
    BY <2>5, <1>0 DEF PingOk, CheckCancelled
  <2>6. CASE PingFails(s)
    <3>1. Errored' = Errored \cup {s}
      BY <2>6, <1>1 DEF PingFails
    <3> QED
      BY <2>6, <3>1 DEF PingFails, Healthy
  <2>7. CASE Disconnected(s)
    BY <2>7, <1>0 DEF Disconnected, ClearConnected
  <2> QED
    BY <1>2, <2>1, <2>2, <2>3, <2>4, <2>5, <2>6, <2>7 DEF Step
<1>3. CASE StartConnectAll
  BY <1>3, <1>0 DEF StartConnectAll
<1>4. CASE ConnectAllReturns \/ CancelConnectAll
  BY <1>4, <1>0 DEF ConnectAllReturns, CancelConnectAll
<1>5. CASE HealthWake \/ HealthRoundDone \/ StartDisconnectAll
  BY <1>5, <1>0 DEF HealthWake, HealthRoundDone, StartDisconnectAll
<1>6. CASE DisconnectConnected \/ DisconnectAllReturns \/ CancelDisconnectAll
  BY <1>6, <1>0 DEF DisconnectConnected, DisconnectAllReturns, CancelDisconnectAll
<1>7. CASE UNCHANGED vars
  BY <1>7, <1>0 DEF vars
<1> QED
  BY <1>2, <1>3, <1>4, <1>5, <1>6, <1>7 DEF Next

\* The inductive invariant holds in every reachable state.
THEOREM Inductive == Spec => []IInv
<1>1. IInv /\ [Next]_vars => IInv'
  BY StepType, StepPermits, StepPhasing, StepAccounted DEF IInv
<1> QED
  BY InitInv, <1>1, PTL DEF Spec

-----------------------------------------------------------------------------

\* The state keeps its shape: no permit count leaves its range.
THEOREM TypeCorrect == Spec => []TypeOK
<1>1. IInv => TypeOK
  BY DEF IInv
<1> QED
  BY Inductive, <1>1, PTL

\* connect_all never has more than MaxConcurrency attempts inside its semaphore
\* and never loses a permit.
THEOREM PermitsAreConserved == Spec => []PermitsConserved
<1>1. IInv => PermitsConserved
  BY DEF IInv
<1> QED
  BY Inductive, <1>1, PTL

\* No health check is in flight while disconnect_all closes connectors.
THEOREM ChecksPrecedeClose == Spec => []ChecksBeforeClose
<1>1. IInv => ChecksBeforeClose
  BY DEF IInv, Phasing, ChecksBeforeClose
<1> QED
  BY Inductive, <1>1, PTL

\* What is still open after disconnect_all had an error recorded.
THEOREM OnlyGivenUpStayOpen == Spec => []ClosedUnlessGivenUp
<1>1. IInv => ClosedUnlessGivenUp
  BY DEF IInv, Phasing, Accounted, ClosedUnlessGivenUp
<1> QED
  BY Inductive, <1>1, PTL

\* The parts of a finite set counted separately.
LEMMA CardinalitySplit ==
    ASSUME NEW S, IsFiniteSet(S), NEW T \in SUBSET S
    PROVE  /\ Cardinality(S) = Cardinality(T) + Cardinality(S \ T)
           /\ Cardinality(S) \in Nat /\ Cardinality(T) \in Nat /\ Cardinality(S \ T) \in Nat
<1>1. IsFiniteSet(T) /\ IsFiniteSet(S \ T)
  BY FS_Subset
<1>2. /\ Cardinality(S) \in Nat
      /\ Cardinality(T) \in Nat
      /\ Cardinality(S \ T) \in Nat
  BY <1>1, FS_CardinalityType
<1>3. Cardinality(T \cup (S \ T))
        = Cardinality(T) + Cardinality(S \ T) - Cardinality(T \cap (S \ T))
  BY <1>1, FS_Union
<1>4. T \cup (S \ T) = S /\ T \cap (S \ T) = {}
  OBVIOUS
<1>5. Cardinality(T \cap (S \ T)) = 0
  BY <1>4, FS_EmptySet
<1>6. Cardinality(T \cup (S \ T)) = Cardinality(S)
  BY <1>4
<1> QED
  BY <1>2, <1>3, <1>5, <1>6

\* The counts given to the progress callback add up.
THEOREM ProgressAddsUp == Spec => []ProgressIsExact
<1>1. ASSUME IInv PROVE ProgressIsExact
  <2> USE <1>1 DEF IInv, TypeOK
  <2> SUFFICES ASSUME phase \in {"connecting", "up"}
               PROVE  Progress.pending = Cardinality(Unresolved) + Cardinality(Blank)
    BY DEF ProgressIsExact
  <2> DEFINE Counted == connected \cup Errored
  <2>1. connected \cap Errored = {}
        /\ Counted = {s \in Specs : task[s] \in {"metadata", "done"}}
    BY DEF Accounted
  <2>2. IsFiniteSet(Specs) /\ IsFiniteSet(Counted) /\ IsFiniteSet(Errored)
    BY <2>1, ManagerAssumption, FS_Subset DEF Errored
  <2>3. Failed = Errored \ Blank /\ Blank \subseteq Errored
    BY <2>1 DEF Failed, Errored, Blank
  <2>4. Unresolved = Specs \ Counted /\ Errored = Counted \ connected
    BY <2>1 DEF Unresolved
  <2>5. /\ Cardinality(Specs) = Cardinality(Counted) + Cardinality(Unresolved)
        /\ Cardinality(Counted) \in Nat
        /\ Cardinality(Unresolved) \in Nat
    BY <2>1, <2>2, <2>4, CardinalitySplit
  <2>6. /\ Cardinality(Counted) = Cardinality(connected) + Cardinality(Errored)
        /\ Cardinality(connected) \in Nat
    BY <2>2, <2>4, CardinalitySplit
  <2>7. /\ Cardinality(Errored) = Cardinality(Blank) + Cardinality(Failed)
        /\ Cardinality(Blank) \in Nat
        /\ Cardinality(Failed) \in Nat
        /\ Cardinality(Errored) \in Nat
    BY <2>2, <2>3, CardinalitySplit
  <2>8. Progress.pending = Cardinality(Specs) - Cardinality(connected) - Cardinality(Failed)
    BY DEF Progress
  <2> QED
    BY <2>5, <2>6, <2>7, <2>8
<1>2. IInv => ProgressIsExact
  BY <1>1
<1> QED
  BY Inductive, <1>2, PTL

\* After connect_all no step makes a connector usable again.
THEOREM PoolShrinks == Spec => PoolOnlyShrinks
<1>1. IInv /\ [Next]_vars => [phase # "connecting" => Healthy' \subseteq Healthy]_vars
  <2> SUFFICES ASSUME IInv, [Next]_vars, phase # "connecting"
               PROVE  Healthy' \subseteq Healthy
    OBVIOUS
  <2>1. \A s \in Specs : task[s] # "connecting"
    BY DEF IInv, TypeOK, Phasing, AllTasksDone
  <2>2. connected' \subseteq connected /\ open' \subseteq open
    <3>1. ASSUME NEW s \in Specs, Step(s)
          PROVE  connected' \subseteq connected /\ open' \subseteq open
      BY <3>1, <2>1 DEF Step, Acquire, ConnectOk, ConnectFails, MetadataDone, PingOk, PingFails,
                        CheckCancelled, Disconnected, ClearConnected
    <3>2. CASE UNCHANGED vars
      BY <3>2 DEF vars
    <3>3. CASE Next /\ ~\E s \in Specs : Step(s)
      BY <3>3 DEF Next, StartConnectAll, ConnectAllReturns, CancelConnectAll, HealthWake,
                  HealthRoundDone, StartDisconnectAll, DisconnectConnected,
                  DisconnectAllReturns, CancelDisconnectAll
    <3> QED
      BY <3>1, <3>2, <3>3
  <2> QED
    BY <2>2 DEF Healthy
<1> QED
  BY Inductive, <1>1, PTL DEF Spec, PoolOnlyShrinks

=============================================================================
