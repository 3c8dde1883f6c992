---------------------------- MODULE PipelineProofs ----------------------------
(***************************************************************************)
(* Theorems about PipelineRunner for any number of definitions and any     *)
(* names: the systems of a run have different names, a payload skips       *)
(* nothing silently, and, when no cancellation strikes a cleanup, nothing  *)
(* is left open but what failed to close.  A call implements               *)
(* PipelineContract.                                                       *)
(*                                                                         *)
(* Then what LoadTest counts, for any number of workers and any duration,  *)
(* timeout and drain.  Its invariant adds up the requests and says how     *)
(* late each phase of the call is.                                         *)
(***************************************************************************)
EXTENDS PipelineRunner, LoadTest, FiniteSetTheorems, TLAPS

NameSpace == [base : Bases, suffixes : Seq(Nat)]
System == [name : NameSpace, def : Ids]

\* The places before the systems are all collected, and after.
Collecting == {"collecting"} \cup InFlight
After == {"matching", "stressing", "closing"}

\* The types ...
Typed ==
    /\ defs \in [Ids -> [name : Names, kind : Kinds]]
    /\ systems \in Seq(System)
    /\ open \in SUBSET Ids
    /\ stuck \in SUBSET Ids
    /\ warned \in SUBSET Ids
    /\ reported \in SUBSET Ids
    /\ rows \in SUBSET Ids

\* ... and where the call and its two indices can be.
Placed ==
    /\ pc \in Places
    /\ exit \in Exits
    /\ cancels \in 0..MaxCancels
    /\ i \in 1..(N + 1)
    /\ k \in 1..(Len(systems) + 1)
    /\ Len(systems) <= N
    /\ pc \in Collecting => Len(systems) < i /\ exit = "none"
    /\ pc = "rescuing" => Len(systems) < i
    /\ pc \in {"rescuing", "undoing"} => exit \in {"raised", "cancelled"}
    /\ pc \in InFlight \cup {"rescuing"} => i <= N

Shape == Typed /\ Placed

\* The name the connector in flight has is not that of a collected system.
Naming ==
    /\ NamesUnique
    /\ pc \in InFlight => name \in NameSpace /\ name \notin SchemaNames

\* The definitions dealt with so far are collected or warned about.
Covered ==
    /\ pc \in Collecting => \A d \in 1..(i - 1) : d \in Collected \cup warned
    /\ pc = "dropping" => i \in warned
    /\ pc \in {"matching", "stressing"} => Ids \subseteq Collected \cup reported
    /\ pc = "stressing" =>
          \A j \in 1..(k - 1) :
              defs[systems[j].def].kind = "real" => systems[j].def \in rows \cup warned
    /\ pc \in {"closing", "over"} /\ exit = "payload" =>
          /\ Ids \subseteq Collected \cup reported
          /\ StressEnabled =>
                {d \in Collected : defs[d].kind = "real"} \subseteq rows \cup reported

IInv == Shape /\ Naming /\ Covered

-----------------------------------------------------------------------------
(* Facts about the list of systems *)

\* What appending the definition in flight does to the list.
LEMMA Appended ==
    ASSUME systems \in Seq(System), name \in NameSpace, i \in Ids,
           systems' = Append(systems, [name |-> name, def |-> i])
    PROVE  /\ systems' \in Seq(System)
           /\ Len(systems') = Len(systems) + 1
           /\ \A j \in 1..Len(systems) : systems'[j] = systems[j]
           /\ systems'[Len(systems) + 1] = [name |-> name, def |-> i]
           /\ DOMAIN systems = 1..Len(systems)
           /\ DOMAIN systems' = 1..(Len(systems) + 1)
           /\ SchemaNames' = SchemaNames \cup {name}
           /\ Collected' = Collected \cup {i}
<1>1. [name |-> name, def |-> i] \in System
  BY DEF System
<1>2. /\ systems' \in Seq(System)
      /\ Len(systems') = Len(systems) + 1
      /\ \A j \in 1..Len(systems) : systems'[j] = systems[j]
      /\ systems'[Len(systems) + 1] = [name |-> name, def |-> i]
      /\ DOMAIN systems = 1..Len(systems)
      /\ DOMAIN systems' = 1..(Len(systems) + 1)
      /\ Len(systems) \in Nat
  BY <1>1
<1>3. SchemaNames' = SchemaNames \cup {name}
  BY <1>2 DEF SchemaNames
<1>4. Collected' = Collected \cup {i}
  BY <1>2 DEF Collected
<1> QED
  BY <1>2, <1>3, <1>4

\* What a list of systems consists of.
LEMMA SystemsTyped ==
    ASSUME systems \in Seq(System)
    PROVE  /\ Len(systems) \in Nat
           /\ DOMAIN systems = 1..Len(systems)
           /\ \A j \in 1..Len(systems) : systems[j].def \in Ids /\ systems[j].name \in NameSpace
           /\ Collected \subseteq Ids
<1>1. /\ Len(systems) \in Nat
      /\ DOMAIN systems = 1..Len(systems)
      /\ \A j \in 1..Len(systems) : systems[j] \in System
  OBVIOUS
<1>2. \A j \in 1..Len(systems) : systems[j].def \in Ids /\ systems[j].name \in NameSpace
  BY <1>1 DEF System
<1> QED
  BY <1>1, <1>2 DEF Collected

\* A step that keeps the list keeps what is derived from it.
LEMMA Kept == UNCHANGED systems => Collected' = Collected /\ SchemaNames' = SchemaNames
BY DEF Collected, SchemaNames

\* Renaming gives a name no system has.
LEMMA RenameIsFree ==
    ASSUME defs \in [Ids -> [name : Names, kind : Kinds]], i \in Ids, Rename
    PROVE  name' \in NameSpace /\ name' \notin SchemaNames
<1> DEFINE given == defs[i].name
<1>1. given \in NameSpace
  BY RunnerAssumption DEF NameSpace
<1>2. CASE NameTaken(given)
  <2>1. PICK n \in 2..(2 * N + 2) : FreeSuffix(given, n) /\ name' = Suffixed(given, n)
    BY <1>2 DEF Rename
  <2>2. n \in Nat
    BY <2>1, RunnerAssumption
  <2>3. Suffixed(given, n) \in NameSpace
    <3>1. given.suffixes \in Seq(Nat) /\ given.base \in Bases
      BY <1>1 DEF NameSpace
    <3>2. Append(given.suffixes, n) \in Seq(Nat)
      BY <3>1, <2>2
    <3> QED
      BY <1>1, <3>1, <3>2 DEF Suffixed, NameSpace
  <2> QED
    BY <2>1, <2>3 DEF FreeSuffix
<1>3. CASE ~NameTaken(given)
  BY <1>1, <1>3 DEF Rename, NameTaken
<1> QED
  BY <1>2, <1>3

-----------------------------------------------------------------------------

\* Init
LEMMA InitInv == Init => IInv
<1> SUFFICES ASSUME Init PROVE IInv
  OBVIOUS
<1>1. systems = <<>> /\ systems \in Seq(System) /\ Len(systems) = 0 /\ DOMAIN systems = {}
  BY DEF Init
<1>2. Shape
  BY <1>1, RunnerAssumption DEF Init, Shape, Typed, Placed, Places, InFlight, Collecting, Exits
<1>3. Naming /\ Covered
  BY <1>1, RunnerAssumption DEF Init, Naming, Covered, NamesUnique, InFlight, Collecting
<1> QED
  BY <1>2, <1>3 DEF IInv

\* The connector in flight has a definition and a name.
LEMMA InFlightTyped ==
    ASSUME IInv, pc \in InFlight
    PROVE  i \in Ids /\ i <= N /\ name \in NameSpace /\ name \notin SchemaNames
<1>1. i \in Ids /\ i <= N
  BY RunnerAssumption DEF IInv, Shape, Placed, Ids
<1>2. name \in NameSpace /\ name \notin SchemaNames
  BY DEF IInv, Naming
<1> QED
  BY <1>1, <1>2

\* The types are kept.
LEMMA StepTyped == IInv /\ [Next]_vars => Typed'
<1> SUFFICES ASSUME IInv, [Next]_vars PROVE Typed'
  OBVIOUS
<1> USE DEF IInv, Shape, Typed
<1>1. CASE Refuse \/ Connect
  <2>1. i \in Ids
    BY <1>1, RunnerAssumption DEF Refuse, Connect, Placed, Ids
  <2> QED
    BY <1>1, <2>1 DEF Refuse, Connect
<1>2. CASE ConnectOk \/ ConnectFails \/ IntrospectFails \/ Dropped \/ Rescued
  <2>1. i \in Ids
    BY <1>2, RunnerAssumption
    DEF ConnectOk, ConnectFails, IntrospectFails, Dropped, Rescued, Placed, Ids, InFlight
  <2> QED
    BY <1>2, <2>1 DEF ConnectOk, ConnectFails, IntrospectFails, Dropped, Rescued, Warn, Disconnect
<1>3. CASE IntrospectOk \/ SchemaRaises
  <2>1. /\ systems' = Append(systems, [name |-> name, def |-> i])
        /\ UNCHANGED <<defs, open, stuck, warned, reported, rows>>
    BY <1>3 DEF IntrospectOk, SchemaRaises, AddSystem
  <2>2. name \in NameSpace /\ i \in Ids
    BY <1>3, InFlightTyped DEF IntrospectOk, SchemaRaises, InFlight
  <2>3. systems' \in Seq(System)
    BY <2>1, <2>2, Appended
  <2> QED
    BY <2>1, <2>3
<1>4. CASE NothingConnected \/ AllCollected \/ AllDisconnected
  BY <1>4 DEF NothingConnected, AllCollected, AllDisconnected
<1>5. CASE DisconnectNext
  <2>1. systems[k].def \in Ids
    BY <1>5, SystemsTyped DEF DisconnectNext, MoreToClose, Placed
  <2> QED
    BY <1>5, <2>1 DEF DisconnectNext, Disconnect
<1>6. CASE Matched \/ Raises \/ Analysed
  BY <1>6 DEF Matched, Raises, Analysed, MergeLate
<1>7. CASE StressNext
  <2>1. systems[k].def \in Ids
    BY <1>7, SystemsTyped DEF StressNext, Placed
  <2> QED
    BY <1>7, <2>1 DEF StressNext, Warn
<1>8. CASE Cancel
  <2>1. pc \in InFlight => i \in Ids
    BY RunnerAssumption DEF Placed, Ids
  <2>2. open' \in SUBSET Ids
    BY <1>8, <2>1 DEF Cancel, InFlight
  <2> QED
    BY <1>8, <2>2 DEF Cancel
<1>9. CASE UNCHANGED vars
  BY <1>9 DEF vars
<1> QED
  BY <1>1, <1>2, <1>3, <1>4, <1>5, <1>6, <1>7, <1>8, <1>9 DEF Next, Step

\* The places are kept: the list is never longer than the definitions passed.
LEMMA StepPlaced == IInv /\ [Next]_vars => Placed'
<1> SUFFICES ASSUME IInv, [Next]_vars PROVE Placed'
  OBVIOUS
<1>0. Len(systems) \in Nat /\ N \in Nat /\ MaxCancels \in Nat /\ Placed
  BY SystemsTyped, RunnerAssumption DEF IInv, Shape, Typed
<1> USE <1>0 DEF Placed, Places, InFlight, Collecting, Exits
<1>1. CASE Refuse \/ Connect
  BY <1>1 DEF Refuse, Connect, NextDef
<1>2. CASE ConnectOk \/ ConnectFails \/ IntrospectFails
  BY <1>2 DEF ConnectOk, ConnectFails, IntrospectFails
<1>3. CASE Dropped \/ NothingConnected \/ AllCollected \/ Rescued
  BY <1>3 DEF Dropped, NextDef, NothingConnected, AllCollected, Rescued
<1>4. CASE IntrospectOk \/ SchemaRaises
  <2>1. systems' = Append(systems, [name |-> name, def |-> i])
    BY <1>4 DEF IntrospectOk, SchemaRaises, AddSystem
  <2>2. name \in NameSpace /\ i \in Ids /\ systems \in Seq(System)
    BY <1>4, InFlightTyped DEF IntrospectOk, SchemaRaises, InFlight, IInv, Shape, Typed
  <2>3. Len(systems') = Len(systems) + 1
    BY <2>1, <2>2, Appended
  <2>4. CASE IntrospectOk
    BY <2>3, <2>4 DEF IntrospectOk, NextDef
  <2>5. CASE SchemaRaises
    BY <2>3, <2>5 DEF SchemaRaises
  <2> QED
    BY <1>4, <2>4, <2>5
<1>5. CASE DisconnectNext \/ AllDisconnected
  BY <1>5 DEF DisconnectNext, AllDisconnected, MoreToClose, Reraise
<1>6. CASE Matched \/ Raises \/ Analysed
  BY <1>6 DEF Matched, Raises, Analysed
<1>7. CASE StressNext
  BY <1>7 DEF StressNext
<1>8. CASE Cancel
  BY <1>8 DEF Cancel, RescueFirst
<1>9. CASE UNCHANGED vars
  BY <1>9 DEF vars
<1> QED
  BY <1>1, <1>2, <1>3, <1>4, <1>5, <1>6, <1>7, <1>8, <1>9 DEF Next, Step

\* The names of the systems stay different.
LEMMA StepNaming == IInv /\ [Next]_vars => Naming'
<1> SUFFICES ASSUME IInv, [Next]_vars PROVE Naming'
  OBVIOUS
<1> USE DEF IInv, Naming
<1>0. systems \in Seq(System) /\ DOMAIN systems = 1..Len(systems) /\ Len(systems) \in Nat
  BY SystemsTyped DEF Shape, Typed, Placed
<1>1. CASE Connect
  <2>1. i \in Ids /\ defs \in [Ids -> [name : Names, kind : Kinds]]
    BY <1>1 DEF Connect, Shape, Typed, Placed, Ids
  <2>2. name' \in NameSpace /\ name' \notin SchemaNames
    BY <1>1, <2>1, RenameIsFree DEF Connect
  <2> QED
    BY <1>1, <2>2, Kept DEF Connect, NamesUnique
<1>2. CASE IntrospectOk \/ SchemaRaises
  <2>1. /\ systems' = Append(systems, [name |-> name, def |-> i])
        /\ name \in NameSpace /\ name \notin SchemaNames /\ i \in Ids
        /\ pc' \notin InFlight
    BY <1>2 DEF IntrospectOk, SchemaRaises, AddSystem, Shape, Typed, Placed, InFlight, Ids
  <2>2. /\ \A j \in 1..Len(systems) : systems'[j] = systems[j]
        /\ systems'[Len(systems) + 1] = [name |-> name, def |-> i]
        /\ DOMAIN systems' = 1..(Len(systems) + 1)
    BY <1>0, <2>1, Appended
  <2>3. \A j \in 1..Len(systems) : systems[j].name # name
    BY <1>0, <2>1 DEF SchemaNames
  <2>4. \A a, b \in 1..(Len(systems) + 1) : systems'[a].name = systems'[b].name => a = b
    <3> TAKE a, b \in 1..(Len(systems) + 1)
    <3>1. a \in 1..Len(systems) \/ a = Len(systems) + 1
      BY <1>0
    <3>2. b \in 1..Len(systems) \/ b = Len(systems) + 1
      BY <1>0
    <3> QED
      BY <1>0, <2>2, <2>3, <3>1, <3>2 DEF NamesUnique
  <2> QED
    BY <2>1, <2>2, <2>4 DEF NamesUnique
<1>3. CASE ConnectOk \/ ConnectFails \/ IntrospectFails
  BY <1>3, Kept DEF ConnectOk, ConnectFails, IntrospectFails, NamesUnique, InFlight
<1>4. CASE Refuse \/ Dropped \/ NothingConnected \/ AllCollected \/ Rescued
  BY <1>4 DEF Refuse, Dropped, NothingConnected, AllCollected, Rescued, NamesUnique, InFlight
<1>5. CASE \/ DisconnectNext \/ AllDisconnected \/ Matched \/ Raises \/ Analysed \/ StressNext
           \/ Cancel
  BY <1>5 DEF DisconnectNext, AllDisconnected, Matched, Raises, Analysed, StressNext, Cancel,
              RescueFirst, NamesUnique, InFlight
<1>6. CASE UNCHANGED vars
  BY <1>6, Kept DEF vars, NamesUnique
<1> QED
  BY <1>1, <1>2, <1>3, <1>4, <1>5, <1>6 DEF Next, Step

\* No definition is passed over.
LEMMA StepCovered == IInv /\ [Next]_vars => Covered'
<1> SUFFICES ASSUME IInv, [Next]_vars PROVE Covered'
  OBVIOUS
<1> USE DEF IInv, Covered, InFlight, Collecting
<1>0. /\ systems \in Seq(System) /\ DOMAIN systems = 1..Len(systems) /\ Len(systems) \in Nat
      /\ \A j \in 1..Len(systems) : systems[j].def \in Ids
      /\ i \in 1..(N + 1) /\ k \in 1..(Len(systems) + 1) /\ N \in Nat
  BY SystemsTyped, RunnerAssumption DEF Shape, Typed, Placed
<1>1. CASE Refuse
  BY <1>0, <1>1, Kept DEF Refuse, NextDef
<1>2. CASE Connect
  BY <1>0, <1>2, Kept DEF Connect
<1>3. CASE ConnectOk \/ ConnectFails \/ IntrospectFails
  BY <1>3, Kept DEF ConnectOk, ConnectFails, IntrospectFails, Warn
<1>4. CASE Dropped
  BY <1>0, <1>4, Kept DEF Dropped, NextDef
<1>5. CASE IntrospectOk \/ SchemaRaises
  <2>1. /\ systems' = Append(systems, [name |-> name, def |-> i])
        /\ name \in NameSpace /\ i \in Ids
    BY <1>5 DEF IntrospectOk, SchemaRaises, AddSystem, Shape, Typed, Placed, Naming, Ids
  <2>2. Collected' = Collected \cup {i}
    BY <1>0, <2>1, Appended
  <2>3. CASE IntrospectOk
    <3>1. i' = i + 1 /\ pc' = "collecting" /\ warned' = warned /\ pc = "introspecting"
          /\ exit' = exit
      BY <2>3 DEF IntrospectOk, NextDef
    <3>2. \A d \in 1..(i' - 1) : d \in 1..(i - 1) \/ d = i
      BY <1>0, <3>1
    <3> QED
      BY <2>2, <3>1, <3>2
  <2>4. CASE SchemaRaises
    BY <2>4 DEF SchemaRaises
  <2> QED
    BY <1>5, <2>3, <2>4
<1>6. CASE NothingConnected
  BY <1>6, Kept DEF NothingConnected
<1>7. CASE AllCollected
  <2>1. i = N + 1
    BY <1>0, <1>7 DEF AllCollected
  <2> QED
    BY <1>0, <1>7, <2>1, Kept DEF AllCollected, Ids
<1>8. CASE Rescued \/ DisconnectNext \/ AllDisconnected
  <2>1. pc = "undoing" => exit # "payload"
    BY DEF Shape, Placed
  <2> QED
    BY <1>8, <2>1, Kept DEF Rescued, DisconnectNext, AllDisconnected, Reraise
<1>9. CASE Matched
  BY <1>0, <1>9, Kept DEF Matched
<1>10. CASE Raises \/ Cancel
  BY <1>10, Kept DEF Raises, Cancel, RescueFirst
<1>11. CASE StressNext
  <2> DEFINE d == systems[k].def
  <2>1. /\ defs[d].kind = "real" => d \in rows' \cup warned'
        /\ rows \subseteq rows' /\ warned \subseteq warned'
        /\ k' = k + 1 /\ k <= Len(systems)
        /\ UNCHANGED <<systems, defs, reported, pc>> /\ pc = "stressing"
    BY <1>11 DEF StressNext, Warn, Synthetic
  <2>2. \A j \in 1..k : defs[systems[j].def].kind = "real"
                           => systems[j].def \in rows' \cup warned'
    BY <1>0, <2>1
  <2>3. 1..(k' - 1) = 1..k
    BY <1>0, <2>1
  <2> QED
    BY <2>1, <2>2, <2>3, Kept
<1>12. CASE Analysed
  <2>1. StressEnabled => {d \in Collected : defs[d].kind = "real"} \subseteq rows \cup warned
    <3> SUFFICES ASSUME StressEnabled, NEW d \in Collected, defs[d].kind = "real"
                 PROVE  d \in rows \cup warned
      OBVIOUS
    <3>1. PICK j \in 1..Len(systems) : systems[j].def = d
      BY <1>0 DEF Collected
    <3>2. j \in 1..(k - 1)
      BY <1>0, <1>12 DEF Analysed
    <3> QED
      BY <1>12, <3>1, <3>2 DEF Analysed
  <2> QED
    BY <1>12, <2>1, Kept DEF Analysed, MergeLate
<1>13. CASE UNCHANGED vars
  BY <1>13, Kept DEF vars
<1> QED
  BY <1>1, <1>2, <1>3, <1>4, <1>5, <1>6, <1>7, <1>8, <1>9, <1>10, <1>11, <1>12, <1>13
  DEF Next, Step

\* The inductive invariant holds in every reachable state.
THEOREM Inductive == Spec => []IInv
<1>1. IInv /\ [Next]_vars => IInv'
  BY StepTyped, StepPlaced, StepNaming, StepCovered DEF IInv, Shape, Typed, Placed
<1> QED
  BY InitInv, <1>1, PTL DEF Spec

-----------------------------------------------------------------------------

\* The state keeps its shape.
THEOREM TypeCorrect == Spec => []TypeOK
<1>1. IInv => TypeOK
  <2> SUFFICES ASSUME IInv PROVE TypeOK
    OBVIOUS
  <2>1. Collected \subseteq Ids /\ Len(systems) \in Nat
    BY SystemsTyped DEF IInv, Shape, Typed, Placed
  <2>2. k \in 1..(N + 1)
    BY <2>1, RunnerAssumption DEF IInv, Shape, Typed, Placed
  <2> QED
    BY <2>1, <2>2 DEF IInv, Shape, Typed, Placed, TypeOK
<1> QED
  BY Inductive, <1>1, PTL

\* No two systems of a run share a name.
THEOREM DistinctNames == Spec => []NamesUnique
<1>1. IInv => NamesUnique
  BY DEF IInv, Naming
<1> QED
  BY Inductive, <1>1, PTL

\* A payload accounts for every definition and every stress test.
THEOREM NoSilentSkip == Spec => []NothingSkippedSilently
<1>1. IInv => NothingSkippedSilently
  <2> SUFFICES ASSUME IInv PROVE NothingSkippedSilently
    OBVIOUS
  <2>1. Collected \subseteq Contributed
    <3> SUFFICES ASSUME NEW j \in DOMAIN systems PROVE systems[j].def \in Contributed
      BY DEF Collected
    <3>1. \A l \in DOMAIN systems : l > j => systems[l].name # systems[j].name
      <4> SUFFICES ASSUME NEW l \in DOMAIN systems, l > j, systems[l].name = systems[j].name
                   PROVE  FALSE
        OBVIOUS
      <4>1. l = j
        BY DEF IInv, Naming, NamesUnique
      <4>2. j \in Nat
        BY SystemsTyped DEF IInv, Shape, Typed
      <4> QED
        BY <4>1, <4>2
    <3> QED
      BY <3>1 DEF Contributed
  <2> QED
    BY <2>1 DEF IInv, Covered, NothingSkippedSilently
<1> QED
  BY Inductive, <1>1, PTL

-----------------------------------------------------------------------------
(* Cleanup *)

\* No cancellation strikes one of the disconnect loops.
CleanupUndisturbed == CancelAt \cap {"rescuing", "undoing", "closing"} = {}

\* The connections that are still to be closed when the call is at a place.
ToClose ==
    CASE pc \in InFlight \cup {"rescuing"} -> Collected \cup {i}
      [] pc \in {"collecting", "matching", "stressing"} -> Collected
      [] pc \in {"undoing", "closing"} -> {systems[j].def : j \in k..Len(systems)}
      [] OTHER -> {}

\* Every open connector is one that the rest of the call will disconnect, or that
\* a disconnect has failed to close.
OpenAccounted == open \ stuck \subseteq ToClose

\* The loops start from the first system, so from all of them.
LEMMA FromTheFirst ==
    ASSUME systems \in Seq(System)
    PROVE  {systems[j].def : j \in 1..Len(systems)} = Collected
BY SystemsTyped DEF Collected

\* A disconnect closes the connector or is the one that failed to.
LEMMA Disconnected ==
    ASSUME NEW d, Disconnect(d)
    PROVE  open' \ stuck' \subseteq (open \ stuck) \ {d}
BY DEF Disconnect

LEMMA StepOpen ==
    ASSUME CleanupUndisturbed, IInv, IInv', OpenAccounted, [Next]_vars
    PROVE  OpenAccounted'
<1> USE DEF OpenAccounted, InFlight
<1>0. /\ systems \in Seq(System) /\ Len(systems) \in Nat /\ pc \in Places
      /\ i \in 1..(N + 1) /\ k \in 1..(Len(systems) + 1)
      /\ Collected = {systems[j].def : j \in 1..Len(systems)}
  BY SystemsTyped, FromTheFirst DEF IInv, Shape, Typed, Placed
<1>1. CASE Refuse \/ Connect
  BY <1>1, Kept DEF Refuse, Connect, ToClose
<1>2. CASE ConnectOk \/ ConnectFails \/ IntrospectFails
  BY <1>2, Kept DEF ConnectOk, ConnectFails, IntrospectFails, ToClose
<1>3. CASE Dropped
  <2>1. pc = "dropping" /\ pc' = "collecting" /\ systems' = systems /\ Disconnect(i)
    BY <1>3 DEF Dropped
  <2>2. open' \ stuck' \subseteq (open \ stuck) \ {i}
    BY <2>1, Disconnected
  <2> QED
    BY <2>1, <2>2, Kept DEF ToClose
<1>4. CASE IntrospectOk \/ SchemaRaises
  <2>1. systems' = Append(systems, [name |-> name, def |-> i]) /\ pc = "introspecting"
    BY <1>4 DEF IntrospectOk, SchemaRaises, AddSystem
  <2>2. name \in NameSpace /\ i \in Ids
    BY <2>1, InFlightTyped
  <2>3. Collected' = Collected \cup {i} /\ systems' \in Seq(System)
    BY <1>0, <2>1, <2>2, Appended
  <2>4. UNCHANGED <<open, stuck>> /\ open \ stuck \subseteq Collected \cup {i}
    BY <1>4, <2>1 DEF IntrospectOk, SchemaRaises, ToClose
  <2>5. CASE IntrospectOk
    <3>1. pc' = "collecting"
      BY <2>5 DEF IntrospectOk
    <3> QED
      BY <2>3, <2>4, <3>1 DEF ToClose
  <2>6. CASE SchemaRaises
    <3>1. pc' = "undoing" /\ k' = 1
      BY <2>6 DEF SchemaRaises
    <3>2. Collected' = {systems'[j].def : j \in 1..Len(systems')}
      BY <2>3 DEF Collected
    <3> QED
      BY <2>3, <2>4, <3>1, <3>2 DEF ToClose
  <2> QED
    BY <1>4, <2>5, <2>6
<1>5. CASE NothingConnected
  <2>1. Collected = {}
    BY <1>5 DEF NothingConnected, Collected
  <2> QED
    BY <1>5, <2>1 DEF NothingConnected, ToClose
<1>6. CASE AllCollected \/ Matched
  BY <1>6, Kept DEF AllCollected, Matched, ToClose
<1>7. CASE Rescued \/ Raises \/ Analysed
  <2>1. /\ pc' \in {"undoing", "closing"} /\ k' = 1 /\ systems' = systems
        /\ open' \ stuck' \subseteq Collected
    <3>1. CASE Rescued
      <4>1. open' \ stuck' \subseteq (open \ stuck) \ {i}
        BY <3>1, Disconnected DEF Rescued
      <4> QED
        BY <3>1, <4>1 DEF Rescued, ToClose
    <3>2. CASE Raises \/ Analysed
      BY <3>2 DEF Raises, Analysed, ToClose
    <3> QED
      BY <1>7, <3>1, <3>2
  <2> QED
    BY <1>0, <2>1 DEF ToClose
<1>8. CASE DisconnectNext
  <2>1. /\ pc \in {"undoing", "closing"} /\ pc' = pc /\ systems' = systems /\ k' = k + 1
        /\ open' \ stuck' \subseteq (open \ stuck) \ {systems[k].def}
    BY <1>8, Disconnected DEF DisconnectNext
  <2>2. \A j \in k..Len(systems) : j = k \/ j \in (k + 1)..Len(systems)
    BY <1>0
  <2>3. open \ stuck \subseteq {systems[j].def : j \in k..Len(systems)}
    BY <2>1 DEF ToClose
  <2>4. open' \ stuck' \subseteq {systems[j].def : j \in (k + 1)..Len(systems)}
    BY <2>1, <2>2, <2>3
  <2> QED
    BY <2>1, <2>4 DEF ToClose
<1>9. CASE AllDisconnected
  <2>1. k..Len(systems) = {}
    BY <1>0, <1>9 DEF AllDisconnected, MoreToClose
  <2>2. open \ stuck = {}
    BY <1>9, <2>1 DEF AllDisconnected, ToClose
  <2> QED
    BY <1>9, <2>2 DEF AllDisconnected
<1>10. CASE StressNext
  BY <1>10, Kept DEF StressNext, ToClose
<1>11. CASE Cancel
  <2>1. pc \notin {"rescuing", "undoing", "closing"}
    BY <1>11 DEF Cancel, CleanupUndisturbed
  <2>2. /\ systems' = systems /\ i' = i /\ k' = 1
    BY <1>11 DEF Cancel
  <2>3. CASE pc \in InFlight
    <3>1. pc' = "rescuing" /\ open' \ stuck' \subseteq Collected \cup {i}
      BY <1>11, <2>3 DEF Cancel, RescueFirst, ToClose
    <3> QED
      BY <2>2, <3>1, Kept DEF ToClose
  <2>4. CASE pc \notin InFlight
    <3>1. pc \in {"matching", "stressing"} /\ pc' = "closing" /\ UNCHANGED <<open, stuck>>
      BY <1>11, <2>1, <2>4 DEF Cancel
    <3> QED
      BY <1>0, <2>2, <3>1 DEF ToClose
  <2> QED
    BY <2>3, <2>4
<1>12. CASE UNCHANGED vars
  BY <1>12, Kept DEF vars, ToClose
<1> QED
  BY <1>1, <1>2, <1>3, <1>4, <1>5, <1>6, <1>7, <1>8, <1>9, <1>10, <1>11, <1>12 DEF Next, Step

\* Unless a cancellation strikes a cleanup, a call has disconnected every connector
\* when it is over, however it ends: one that is still open failed to close.
THEOREM NothingLeaks ==
    ASSUME CleanupUndisturbed PROVE Spec => []OnlyFailedClosesLeftOpen
<1>1. Init => OpenAccounted
  BY DEF Init, OpenAccounted
<1>2. IInv /\ IInv' /\ OpenAccounted /\ [Next]_vars => OpenAccounted'
  BY StepOpen
<1>3. OpenAccounted => OnlyFailedClosesLeftOpen
  BY DEF OpenAccounted, ToClose, OnlyFailedClosesLeftOpen, InFlight
<1> QED
  BY Inductive, <1>1, <1>2, <1>3, PTL DEF Spec

-----------------------------------------------------------------------------
(* Refinement *)

\* The finally clause knows what the call will end with, and a handler that
\* something is being raised.
Ending ==
    /\ pc = "closing" => exit # "none"
    /\ pc = "undoing" => exit \in {"raised", "cancelled"}

\* No step enters the finally clause or a handler without a way to end.
LEMMA StepEnding == IInv /\ Ending /\ [Next]_vars => Ending'
<1> SUFFICES ASSUME IInv, Ending, [Next]_vars PROVE Ending'
  OBVIOUS
<1> USE DEF Ending, IInv, Shape, Placed
<1>1. CASE Refuse \/ Connect \/ ConnectOk \/ ConnectFails \/ IntrospectFails \/ Dropped
  BY <1>1 DEF Refuse, Connect, ConnectOk, ConnectFails, IntrospectFails, Dropped
<1>2. CASE IntrospectOk \/ SchemaRaises \/ NothingConnected \/ AllCollected \/ Rescued
  BY <1>2 DEF IntrospectOk, SchemaRaises, NothingConnected, AllCollected, Rescued
<1>3. CASE DisconnectNext \/ AllDisconnected \/ Matched \/ Raises \/ StressNext \/ Analysed
  BY <1>3 DEF DisconnectNext, AllDisconnected, Matched, Raises, StressNext, Analysed
<1>4. CASE Cancel
  BY <1>4 DEF Cancel, RescueFirst
<1>5. CASE UNCHANGED vars
  BY <1>5 DEF vars
<1> QED
  BY <1>1, <1>2, <1>3, <1>4, <1>5 DEF Next, Step

\* Every step of the call is a step of the contract or is not seen.
LEMMA StepRefines ==
    ASSUME IInv, Ending, [Next]_vars
    PROVE  \/ Contract!Begin \/ Contract!Forward \/ Contract!Raise
           \/ Contract!Return \/ Contract!GiveUp
           \/ UNCHANGED Contract!contractVars
<1> USE DEF Ending, IInv, Shape, Placed, Exits
<1>1. CASE Refuse \/ Connect \/ ConnectOk \/ ConnectFails \/ IntrospectFails \/ Dropped
           \/ IntrospectOk \/ SchemaRaises \/ Rescued \/ DisconnectNext \/ StressNext
  <2>1. \/ pc' \notin {"matching", "stressing", "over", "closing"}
           /\ pc \notin {"matching", "stressing", "over", "closing"}
        \/ pc' = pc /\ exit' = exit
    BY <1>1 DEF Refuse, Connect, ConnectOk, ConnectFails, IntrospectFails, Dropped,
                IntrospectOk, SchemaRaises, Rescued, DisconnectNext, StressNext
  <2> QED
    BY <2>1 DEF Contract!contractVars
<1>2. CASE AllCollected \/ Matched \/ Analysed
  BY <1>2 DEF AllCollected, Matched, Analysed, Contract!Forward
<1>3. CASE Raises
  BY <1>3 DEF Raises, Contract!Raise
<1>4. CASE NothingConnected
  BY <1>4 DEF NothingConnected, Contract!GiveUp
<1>5. CASE AllDisconnected
  <2>1. CASE exit = "payload"
    BY <1>5, <2>1 DEF AllDisconnected, Reraise, Contract!Return
  <2>2. CASE exit # "payload"
    BY <1>5, <2>2 DEF AllDisconnected, Reraise, Contract!GiveUp
  <2> QED
    BY <2>1, <2>2
<1>6. CASE Cancel
  <2>1. CASE pc \in InFlight \cup {"rescuing"}
    BY <1>6, <2>1 DEF Cancel, InFlight, RescueFirst, Contract!contractVars
  <2>2. CASE pc \in {"matching", "stressing"}
    BY <1>6, <2>2 DEF Cancel, InFlight, Contract!Raise
  <2>3. CASE pc \in {"undoing", "closing"}
    BY <1>6, <2>3 DEF Cancel, InFlight, Contract!GiveUp
  <2> QED
    BY <1>6, <2>1, <2>2, <2>3 DEF Cancel
<1>7. CASE UNCHANGED vars
  BY <1>7 DEF vars, Contract!contractVars
<1> QED
  BY <1>1, <1>2, <1>3, <1>4, <1>5, <1>6, <1>7 DEF Next, Step

\* run_diagnostic keeps its contract: the stages come in order, and a call that
\* fails or is cancelled, whatever its finally clause does, returns no payload.
THEOREM Refinement == Spec => ImplementsContract
<1>1. Init => Ending /\ Contract!ContractInit
  BY DEF Init, Ending, Contract!ContractInit
<1>2. IInv /\ Ending /\ [Next]_vars => Ending'
  BY StepEnding
<1>3. Spec => []Ending
  BY <1>1, <1>2, Inductive, PTL DEF Spec
<1>4. IInv /\ Ending /\ [Next]_vars
        => [\/ Contract!Begin \/ Contract!Forward \/ Contract!Raise
            \/ Contract!Return \/ Contract!GiveUp]_(Contract!contractVars)
  BY StepRefines
<1> QED
  BY <1>1, <1>3, <1>4, Inductive, PTL DEF Spec, ImplementsContract, Contract!ContractSpec

-----------------------------------------------------------------------------
(* The load test *)

Counting ==
    /\ elapsed \in Nat /\ patience \in Nat /\ queued \in Nat /\ unfinished \in Nat
    /\ sent \in Nat /\ passed \in Nat /\ failed \in Nat /\ dropped \in Nat
    /\ worker \in [Workers -> [at : {"poll", "busy", "ended"}, left : Nat]]

Phases ==
    /\ producer = "stopped" => elapsed >= Duration
    /\ caller \in {"drain", "gather", "returned"} => producer = "stopped"
    /\ caller = "drain" => elapsed + patience >= Duration + Drain
    /\ caller \notin {"gather", "returned"} => dropped = 0

LoadInv == Counting /\ RequestsAddUp /\ Phases /\ UncountedOnlyAfterDrain

\* The requests under way are as many as the busy workers.
LEMMA BusyCount ==
    ASSUME NEW S \in SUBSET Workers
    PROVE  IsFiniteSet(S) /\ Cardinality(S) \in Nat
BY Assumption, FS_Subset, FS_CardinalityType

\* The latest times are natural numbers, the drain's end among them.
LEMMA LimitIsLate == Limit \in Nat /\ Limit >= Duration + Drain
<1>1. Cardinality(Workers) \in Nat
  BY BusyCount
<1>2. CancelBy \in Nat /\ CancelBy >= Duration + Drain
  BY Assumption DEF CancelBy
<1> DEFINE extra == Timeout * (Capacity + 1)
<1>3. extra \in Nat
  BY <1>1, Assumption DEF Capacity
<1>4. Limit = CancelBy + IF Swallows THEN extra ELSE 0
  BY DEF Limit
<1> HIDE DEF extra
<1>5. Limit = CancelBy + extra \/ Limit = CancelBy + 0
  BY <1>4
<1> QED
  BY <1>2, <1>3, <1>5, Assumption

LEMMA InitInvariant == LoadInit => LoadInv
<1> SUFFICES ASSUME LoadInit
             PROVE  LoadInv
  OBVIOUS
<1>1. At("busy") = {}
  BY DEF LoadInit, At, Polling
<1>2. Cardinality(At("busy")) = 0
  BY <1>1, FS_EmptySet
<1>3. Counting
  BY DEF LoadInit, Counting, Polling
<1> QED
  BY <1>2, <1>3 DEF LoadInit, LoadInv, RequestsAddUp, Phases, UncountedOnlyAfterDrain, Total

\* Steps of the producer, of the call and of the clock, which leave the workers'
\* places alone.
LEMMA OtherStep ==
    ASSUME LoadInv,
           \/ WantPut \/ Idle \/ Put \/ Wake \/ Stop \/ ProducerDone \/ Return \/ CancelCall
           \/ Tick \/ UNCHANGED loadVars
    PROVE  LoadInv'
<1>1. At("busy")' = At("busy")
  <2>1. CASE Tick
    <3>1. \A w \in Workers : worker'[w].at = worker[w].at
      BY <2>1 DEF Tick, LoadInv, Counting
    <3> QED
      BY <3>1 DEF At
  <2>2. CASE ~Tick
    BY <2>2 DEF WantPut, Idle, Put, Wake, Stop, ProducerDone, Return, CancelCall, loadVars, At
  <2> QED
    BY <2>1, <2>2
<1> DEFINE busy == Cardinality(At("busy"))
<1>2. busy \in Nat /\ busy' = busy
  BY <1>1, BusyCount DEF At
<1>3. /\ sent = queued + busy + passed + failed + dropped
      /\ unfinished = queued + busy
  BY <1>2 DEF LoadInv, RequestsAddUp, Counting, Total
<1> HIDE DEF busy
<1>4. Counting'
  BY Assumption DEF LoadInv, Counting, WantPut, Idle, Put, Wake, Stop, ProducerDone, Return,
                    CancelCall, Tick, loadVars, queueVars, counts, callVars, CountDown, Sleep
<1>5. /\ sent' = queued' + busy' + passed' + failed' + dropped'
      /\ unfinished' = queued' + busy'
  BY <1>2, <1>3 DEF LoadInv, Counting, WantPut, Idle, Put, Wake, Stop, ProducerDone, Return,
                    CancelCall, Tick, loadVars, queueVars, counts, callVars, Sleep
<1>6. RequestsAddUp'
  BY <1>2, <1>4, <1>5 DEF RequestsAddUp, Total, Counting, busy
<1>7. Phases'
  BY Assumption, LimitIsLate
     DEF LoadInv, Counting, Phases, WantPut, Idle, Put, Wake, Stop, TimeIsUp, ProducerDone, Return,
         CancelCall, Tick, loadVars, queueVars, counts, callVars, CountDown, Sleep
<1>8. UncountedOnlyAfterDrain'
  BY Assumption
     DEF LoadInv, Counting, Phases, UncountedOnlyAfterDrain, Total, WantPut, Idle, Put, Wake, Stop,
         ProducerDone, Return, CancelCall, Tick, loadVars, queueVars, counts, callVars, Sleep
<1> QED
  BY <1>4, <1>6, <1>7, <1>8 DEF LoadInv

LEMMA TakeStep ==
    ASSUME LoadInv, NEW w \in Workers, Take(w)
    PROVE  LoadInv'
<1>1. At("busy")' = At("busy") \cup {w} /\ w \notin At("busy")
  BY DEF Take, At, LoadInv, Counting, Busy
<1>2. /\ Cardinality(At("busy")') = Cardinality(At("busy")) + 1
      /\ Cardinality(At("busy")) \in Nat
  BY <1>1, BusyCount, FS_AddElement DEF At
<1>3. Counting'
  BY Assumption DEF Take, LoadInv, Counting, Busy, counts, callVars
<1>4. RequestsAddUp'
  BY <1>2 DEF Take, LoadInv, Counting, RequestsAddUp, Total, counts, callVars
<1>5. Phases' /\ UncountedOnlyAfterDrain'
  BY DEF Take, LoadInv, Phases, UncountedOnlyAfterDrain, Total, counts, callVars
<1> QED
  BY <1>3, <1>4, <1>5 DEF LoadInv

LEMMA PollStep ==
    ASSUME LoadInv, NEW w \in Workers, PollAgain(w)
    PROVE  LoadInv'
<1>1. At("busy")' = At("busy")
  BY DEF PollAgain, At, LoadInv, Counting, Again, Polling, Ended
<1>2. Cardinality(At("busy"))' = Cardinality(At("busy"))
  BY <1>1
<1>3. Counting'
  BY DEF PollAgain, LoadInv, Counting, Again, Polling, Ended, queueVars, counts, callVars
<1>4. RequestsAddUp'
  BY <1>2 DEF PollAgain, LoadInv, RequestsAddUp, Total, queueVars, counts
<1>5. Phases' /\ UncountedOnlyAfterDrain'
  BY DEF PollAgain, LoadInv, Phases, UncountedOnlyAfterDrain, Total, queueVars, counts, callVars
<1> QED
  BY <1>3, <1>4, <1>5 DEF LoadInv

LEMMA RecordStep ==
    ASSUME LoadInv, NEW w \in Workers, QueryPasses(w) \/ QueryFails(w)
    PROVE  LoadInv'
<1>1. At("busy")' = At("busy") \ {w} /\ w \in At("busy")
  BY DEF QueryPasses, QueryFails, Record, At, LoadInv, Counting, Again, Polling, Ended
<1> DEFINE busy == Cardinality(At("busy"))
<1>2. busy' = busy - 1 /\ busy \in Nat /\ busy' \in Nat
  BY <1>1, BusyCount, FS_RemoveElement DEF At
<1> HIDE DEF busy
<1>3. /\ sent = queued + busy + passed + failed + dropped /\ unfinished = queued + busy
      /\ UNCHANGED <<elapsed, producer, queued, sent, dropped, callVars>>
      /\ unfinished' = unfinished - 1
      /\ \/ passed' = passed + 1 /\ failed' = failed
         \/ passed' = passed /\ failed' = failed + 1
  BY <1>2 DEF LoadInv, RequestsAddUp, Counting, Total, busy, QueryPasses, QueryFails, Record, TaskDone
<1>4. worker' \in [Workers -> [at : {"poll", "busy", "ended"}, left : Nat]]
  BY DEF QueryPasses, QueryFails, Record, LoadInv, Counting, Again, Polling, Ended
<1>5. Counting'
  BY <1>2, <1>3, <1>4 DEF LoadInv, Counting, callVars
<1>6. RequestsAddUp'
  <2>1. queued \in Nat /\ passed \in Nat /\ failed \in Nat /\ dropped \in Nat
    BY DEF LoadInv, Counting
  <2>2. /\ sent' = queued' + busy' + passed' + failed' + dropped'
        /\ unfinished' = queued' + busy'
    <3>1. sent' = sent /\ queued' = queued /\ dropped' = dropped /\ unfinished' = unfinished - 1
      BY <1>3
    <3>2. unfinished' = queued' + busy'
      BY <1>2, <1>3, <2>1, <3>1
    <3>3. CASE passed' = passed + 1 /\ failed' = failed
      BY <1>2, <1>3, <2>1, <3>1, <3>2, <3>3
    <3>4. CASE passed' = passed /\ failed' = failed + 1
      BY <1>2, <1>3, <2>1, <3>1, <3>2, <3>4
    <3> QED
      BY <1>3, <3>3, <3>4
  <2>3. sent' = queued' + busy' + (passed' + failed') + dropped'
    BY <1>2, <1>3, <2>1, <2>2
  <2> QED
    BY <2>2, <2>3 DEF RequestsAddUp, Total, busy
<1>7. Phases'
  BY <1>3 DEF LoadInv, Phases, callVars
<1>8. UncountedOnlyAfterDrain'
  <2>1. passed + failed # sent
    BY <1>2, <1>3 DEF LoadInv, Counting
  <2> QED
    BY <1>3, <2>1 DEF LoadInv, UncountedOnlyAfterDrain, Total, callVars
<1> QED
  BY <1>5, <1>6, <1>7, <1>8 DEF LoadInv

LEMMA CancelStep ==
    ASSUME LoadInv, Drained \/ DrainEnded
    PROVE  LoadInv'
<1> DEFINE busy == Cardinality(At("busy"))
<1>1. /\ caller = "drain" /\ caller' = "gather" /\ patience' = 0
      /\ Joined \/ patience = 0
      /\ UNCHANGED <<elapsed, producer, rest, queued, stop, sent, passed, failed>>
  BY DEF Drained, DrainEnded, CancelWorkers
<1>2. PICK next \in [Workers -> {Ended, Answered, Busy}] :
          /\ \A w \in Workers : next[w] = Ended \/ Missed(w, next[w])
          /\ worker' = next
          /\ dropped' = dropped + Cardinality({w \in At("busy") : next[w] = Ended})
          /\ unfinished' = unfinished - Cardinality({w \in At("busy") : next[w] = Ended})
  BY DEF Drained, DrainEnded, CancelWorkers
<1> DEFINE killed == {w \in At("busy") : next[w] = Ended}
<1>3. At("busy")' = At("busy") \ killed
  <2>1. \A w \in Workers : w \in At("busy")' <=> w \in At("busy") /\ next[w] # Ended
    BY <1>2 DEF At, Missed, Ended, Answered, Busy
  <2> QED
    BY <2>1 DEF At
<1>4. busy' = busy - Cardinality(killed) /\ busy \in Nat /\ busy' \in Nat /\ Cardinality(killed) \in Nat
  <2>1. killed \subseteq At("busy") /\ At("busy") \subseteq Workers
    BY DEF At
  <2>2. At("busy") \cap killed = killed
    BY <2>1
  <2>3. At("busy") \ killed \subseteq Workers /\ killed \subseteq Workers
    BY <2>1
  <2> QED
    BY <1>3, <2>1, <2>2, <2>3, BusyCount, FS_Difference
<1> HIDE DEF busy, killed
<1>5. /\ sent = queued + busy + passed + failed + dropped /\ unfinished = queued + busy
      /\ dropped = 0
  BY <1>1, <1>4 DEF LoadInv, RequestsAddUp, Phases, Counting, Total, busy
<1>6. dropped' = dropped + Cardinality(killed) /\ unfinished' = unfinished - Cardinality(killed)
  BY <1>2 DEF killed
<1>7. Counting'
  <2>1. worker' \in [Workers -> [at : {"poll", "busy", "ended"}, left : Nat]]
    BY <1>2, Assumption DEF Ended, Answered, Busy
  <2>2. unfinished' \in Nat /\ dropped' \in Nat
    BY <1>1, <1>4, <1>5, <1>6 DEF LoadInv, Counting
  <2> QED
    BY <1>1, <2>1, <2>2 DEF LoadInv, Counting
<1>8. RequestsAddUp'
  BY <1>1, <1>4, <1>5, <1>6 DEF LoadInv, Counting, RequestsAddUp, Total, busy
<1>9. Phases'
  BY <1>1 DEF LoadInv, Phases
<1>10. UncountedOnlyAfterDrain'
  <2>1. CASE patience = 0
    BY <1>1, <2>1, Assumption DEF LoadInv, Counting, Phases, UncountedOnlyAfterDrain
  <2>2. CASE Joined
    BY <1>1, <1>4, <1>5, <2>2 DEF LoadInv, Counting, Joined, UncountedOnlyAfterDrain, Total
  <2> QED
    BY <1>1, <2>1, <2>2
<1> QED
  BY <1>7, <1>8, <1>9, <1>10 DEF LoadInv

\* The inductive invariant holds in every reachable state.
THEOREM LoadInductive == LoadSpec => []LoadInv
<1>1. LoadInv /\ [LoadNext]_loadVars => LoadInv'
  <2> SUFFICES ASSUME LoadInv, [LoadNext]_loadVars
               PROVE  LoadInv'
    OBVIOUS
  <2>1. CASE Finished
    BY <2>1, OtherStep DEF Finished
  <2> QED
    BY <2>1, OtherStep, TakeStep, PollStep, RecordStep, CancelStep DEF LoadNext
<1> QED
  BY InitInvariant, <1>1, PTL DEF LoadSpec

\* No request is lost or counted twice, and join() waits for exactly those that
\* are not finished.
THEOREM NoRequestIsLost == LoadSpec => []RequestsAddUp
<1>1. LoadInv => RequestsAddUp
  BY DEF LoadInv
<1> QED
  BY LoadInductive, <1>1, PTL

\* A call that returns before the drain has run out counts every request it sent.
THEOREM EverythingCounted == LoadSpec => []UncountedOnlyAfterDrain
<1>1. LoadInv => UncountedOnlyAfterDrain
  BY DEF LoadInv
<1> QED
  BY LoadInductive, <1>1, PTL

-----------------------------------------------------------------------------
(***************************************************************************)
(* The times.  Each timer under way is added to the clock: the sum stays   *)
(* when time passes, and bounds how late the next phase begins.            *)
(***************************************************************************)

Whereabouts ==
    /\ producer \in {"loop", "put", "sleep", "stopped", "cancelled"}
    /\ caller \in {"produce", "drain", "gather", "returned", "cancelled"}
    /\ stop = (producer = "stopped")
    /\ rest \in Nat /\ queued <= Capacity
    /\ \A w \in Workers : /\ worker[w].at = "poll" => worker[w].left <= 1
                          /\ worker[w].at = "busy" => worker[w].left <= Timeout
                          /\ worker[w].at = "ended" => producer = "stopped"
    /\ caller = "produce" => producer # "cancelled"
    /\ caller = "returned" => \A w \in Workers : worker[w].at = "ended"

\* The latest tick of a put: it waits for a query that began in time.
LastPut == Duration - 1 + Timeout

StopsInTime ==
    /\ producer = "put" =>
         /\ elapsed <= LastPut
         /\ queued = Capacity => \A w \in Workers : worker[w].at = "busy"
                                     => elapsed + worker[w].left <= LastPut
    /\ producer = "sleep" => elapsed + rest <= LastPut + 1
    /\ producer = "loop" => elapsed <= LastPut + 1
    /\ caller = "produce" /\ producer = "stopped" => elapsed <= LastPut + 1
    /\ caller = "drain" => elapsed + patience <= CancelBy

\* The ticks that one worker needs for so many requests.
Work(n) == Timeout * n

\* A worker that its cancellation missed has time to empty the queue alone.
EmptiedInTime ==
    caller = "gather" => \A w \in Workers : worker[w].at # "ended" =>
        /\ Swallows
        /\ elapsed + worker[w].left <= Limit
        /\ elapsed + Work(queued) <= Limit
        /\ worker[w].at = "busy" => elapsed + worker[w].left + Work(queued) <= Limit

\* Once the test has lasted its time, a request that is not yet counted is under
\* way and will time out before the drain does, unless the drain is the shorter.
SomeRequestIsDue ==
    /\ producer = "put" /\ elapsed >= Duration => sent > 0
    /\ caller \in {"produce", "drain"} /\ elapsed >= Duration /\ sent > 0 /\ Total = 0 =>
         \E w \in Workers :
            /\ worker[w].at = "busy" /\ worker[w].left < Timeout
            /\ caller = "drain" => worker[w].left + Drain < Timeout + patience
    /\ caller \in {"gather", "returned"} /\ sent > 0 /\ Timeout <= Drain => Total > 0

Schedule == Whereabouts /\ StopsInTime /\ EmptiedInTime /\ SomeRequestIsDue /\ ReturnsInTime

LEMMA Numbers ==
    /\ Capacity \in Nat /\ Capacity > 0
    /\ LastPut \in Nat /\ CancelBy = LastPut + 1 + Drain /\ CancelBy \in Nat
    /\ Limit \in Nat /\ Limit >= CancelBy
    /\ Swallows => Limit = CancelBy + Work(Capacity) + Timeout
<1>1. Cardinality(Workers) \in Nat /\ Cardinality(Workers) # 0
  BY Assumption, FS_CardinalityType, FS_EmptySet
<1>2. Capacity \in Nat /\ Capacity > 0
  BY <1>1 DEF Capacity
<1>3. /\ LastPut \in Nat /\ CancelBy = LastPut + 1 + Drain /\ CancelBy \in Nat
  BY Assumption DEF LastPut, CancelBy
<1>4. Work(Capacity) \in Nat /\ Timeout * (Capacity + 1) = Work(Capacity) + Timeout
  BY <1>2, Assumption DEF Work
<1>5. Limit = CancelBy + (Work(Capacity) + Timeout) \/ Limit = CancelBy + 0
  BY <1>4 DEF Limit
<1>6. Swallows => Limit = CancelBy + (Work(Capacity) + Timeout)
  BY <1>4 DEF Limit
<1> QED
  BY <1>2, <1>3, <1>4, <1>5, <1>6, Assumption

LEMMA WorkGrows ==
    /\ \A n \in Nat : Work(n) \in Nat /\ Work(n + 1) = Work(n) + Timeout
    /\ \A m, n \in Nat : m <= n => Work(m) <= Work(n)
<1>1. ASSUME NEW n \in Nat
      PROVE  Work(n) \in Nat /\ Work(n + 1) = Work(n) + Timeout
  BY Assumption DEF Work
<1>2. ASSUME NEW m \in Nat, NEW n \in Nat, m <= n
      PROVE  Work(m) <= Work(n)
  <2>1. PICK d \in Nat : n = m + d
    BY <1>2
  <2>2. Work(n) = Work(m) + Timeout * d /\ Timeout * d \in Nat
    BY <2>1, Assumption DEF Work
  <2> QED
    BY <1>1, <2>2
<1> QED
  BY <1>1, <1>2

LEMMA ScheduleInit == LoadInit => Schedule
<1> SUFFICES ASSUME LoadInit
             PROVE  Schedule
  OBVIOUS
<1>1. Whereabouts
  <2>1. producer = "loop" /\ stop = FALSE
    BY DEF LoadInit
  <2>2. stop = (producer = "stopped")
    BY <2>1
  <2> QED
    BY <2>2, Numbers, Assumption DEF LoadInit, Whereabouts, Polling
<1>2. StopsInTime
  BY Numbers, Assumption DEF LoadInit, StopsInTime, LastPut
<1>3. EmptiedInTime /\ SomeRequestIsDue /\ ReturnsInTime
  BY Numbers, Assumption DEF LoadInit, EmptiedInTime, SomeRequestIsDue, ReturnsInTime
<1> QED
  BY <1>1, <1>2, <1>3 DEF Schedule

\* Steps of the producer and of the call that leave the workers alone.
LEMMA ScheduleOther ==
    ASSUME LoadInv, Schedule,
           \/ WantPut \/ Idle \/ Put \/ Wake \/ Stop \/ ProducerDone \/ CancelCall
           \/ UNCHANGED loadVars
    PROVE  Schedule'
<1> USE DEF queueVars, counts, callVars, Sleep, Pause
<1>1. Whereabouts'
  <2>1. worker' = worker
    BY DEF WantPut, Idle, Put, Wake, Stop, ProducerDone, CancelCall, loadVars
  <2>2. /\ producer' \in {"loop", "put", "sleep", "stopped", "cancelled"}
        /\ caller' \in {"produce", "drain", "gather", "returned", "cancelled"}
        /\ rest' \in Nat
        /\ caller' = "produce" => producer' # "cancelled"
    BY DEF Schedule, Whereabouts, WantPut, Idle, Put, Wake, Stop, ProducerDone, CancelCall, loadVars
  <2>3. stop' = (producer' = "stopped") /\ (producer = "stopped" => producer' = "stopped")
    BY DEF Schedule, Whereabouts, WantPut, Idle, Put, Wake, Stop, ProducerDone, CancelCall, loadVars
  <2>4. queued' <= Capacity
    BY Numbers DEF LoadInv, Counting, Schedule, Whereabouts, WantPut, Idle, Put, HasSlot, Wake, Stop,
                   ProducerDone, CancelCall, loadVars
  <2>5. caller' = "returned" => caller = "returned"
    BY DEF WantPut, Idle, Put, Wake, Stop, ProducerDone, CancelCall, loadVars
  <2> QED
    BY <2>1, <2>2, <2>3, <2>4, <2>5 DEF Schedule, Whereabouts, Capacity
<1>2. StopsInTime'
  BY Numbers, Assumption
     DEF LoadInv, Counting, Schedule, Whereabouts, StopsInTime, WantPut, Idle, Put, HasSlot, Wake, Stop,
         ProducerDone, CancelCall, loadVars, Capacity, CancelBy, LastPut
<1>3. EmptiedInTime'
  BY DEF LoadInv, Counting, Phases, Schedule, EmptiedInTime, WantPut, Idle, Put, Wake, Stop,
         ProducerDone, CancelCall, loadVars, Work, Limit, CancelBy, Capacity
<1>4. SomeRequestIsDue'
  BY Assumption
     DEF LoadInv, Counting, Phases, Schedule, Whereabouts, SomeRequestIsDue, WantPut, Idle, Put, Wake, Stop,
         ProducerDone, CancelCall, loadVars, Total
<1>5. ReturnsInTime'
  BY Numbers, Assumption
     DEF LoadInv, Counting, Phases, Schedule, Whereabouts, ReturnsInTime, StopsInTime, WantPut, Idle, Put, Wake, Stop,
         ProducerDone, CancelCall, loadVars, At, Limit, CancelBy, Capacity
<1> QED
  BY <1>1, <1>2, <1>3, <1>4, <1>5 DEF Schedule

LEMMA ScheduleTake ==
    ASSUME LoadInv, Schedule, NEW w \in Workers, Take(w)
    PROVE  Schedule'
<1> USE DEF queueVars, counts, callVars
<1>1. /\ queued \in Nat /\ queued > 0 /\ queued' = queued - 1 /\ queued' \in Nat
      /\ worker[w].at = "poll" /\ worker'[w] = Busy
      /\ \A v \in Workers : v # w => worker'[v] = worker[v]
      /\ UNCHANGED <<elapsed, producer, rest, unfinished, stop, counts, callVars>>
  BY DEF Take, LoadInv, Counting
<1>2. worker'[w].at = "busy" /\ worker'[w].left = Timeout
  BY <1>1 DEF Busy
<1>3. Whereabouts'
  BY <1>1, <1>2, Numbers, Assumption DEF Schedule, Whereabouts, Capacity
<1>4. StopsInTime'
  BY <1>1, <1>2, Numbers DEF Schedule, StopsInTime, Whereabouts, CancelBy, LastPut, Capacity
<1>5. EmptiedInTime'
  <2> SUFFICES ASSUME caller = "gather", NEW v \in Workers, worker'[v].at # "ended"
               PROVE  /\ Swallows
                      /\ elapsed + worker'[v].left <= Limit
                      /\ elapsed + Work(queued') <= Limit
                      /\ worker'[v].at = "busy" => elapsed + worker'[v].left + Work(queued') <= Limit
    BY <1>1 DEF EmptiedInTime, Limit, CancelBy, Work, Capacity
  <2>1. Work(queued) = Work(queued') + Timeout /\ Work(queued') \in Nat
    BY <1>1, WorkGrows
  <2>2. Swallows /\ elapsed + Work(queued) <= Limit
    BY <1>1 DEF Schedule, EmptiedInTime
  <2>3. CASE v = w
    BY <1>1, <1>2, <2>1, <2>2, <2>3, Numbers, Assumption DEF LoadInv, Counting
  <2>4. CASE v # w
    BY <1>1, <2>1, <2>2, <2>4, Numbers, Assumption DEF LoadInv, Counting, Schedule, EmptiedInTime
  <2> QED
    BY <2>3, <2>4
<1>6. SomeRequestIsDue'
  BY <1>1 DEF Schedule, SomeRequestIsDue, Total
<1>7. ReturnsInTime'
  <2>1. caller # "returned"
    BY <1>1 DEF Schedule, Whereabouts
  <2> QED
    BY <1>1, <2>1 DEF Schedule, ReturnsInTime, Limit, CancelBy, Capacity
<1> QED
  BY <1>3, <1>4, <1>5, <1>6, <1>7 DEF Schedule

\* A worker ends its poll or its query, counted as one that passed or failed.
LEMMA ScheduleAgain ==
    ASSUME LoadInv, Schedule, NEW w \in Workers,
           PollAgain(w) \/ QueryPasses(w) \/ QueryFails(w)
    PROVE  Schedule'
<1> USE DEF queueVars, counts, callVars
<1>1. /\ worker'[w] = Again
      /\ \A v \in Workers : v # w => worker'[v] = worker[v]
      /\ UNCHANGED <<elapsed, producer, rest, queued, stop, sent, dropped, callVars>>
      /\ worker[w].at # "ended"
  BY DEF PollAgain, Polling, QueryPasses, QueryFails, Record, LoadInv, Counting
<1>2. \/ worker[w].at = "poll" /\ passed' = passed /\ failed' = failed
      \/ worker[w].at = "busy" /\ passed' = passed + 1 /\ failed' = failed
      \/ worker[w].at = "busy" /\ passed' = passed /\ failed' = failed + 1
  BY DEF PollAgain, Polling, QueryPasses, QueryFails, Record
<1>3. \/ worker'[w].at = "ended" /\ worker'[w].left = 0 /\ producer = "stopped"
      \/ worker'[w].at = "poll" /\ worker'[w].left = 1 /\ (producer # "stopped" \/ queued # 0)
  <2>1. CASE LeaveLoop
    <3>1. stop
      BY <2>1 DEF LeaveLoop
    <3>2. producer = "stopped"
      BY <3>1 DEF Schedule, Whereabouts
    <3> QED
      BY <1>1, <2>1, <3>2 DEF Again, Ended
  <2>2. CASE ~LeaveLoop
    <3>1. ~stop \/ queued # 0
      BY <2>2 DEF LeaveLoop
    <3>2. producer # "stopped" \/ queued # 0
      BY <3>1 DEF Schedule, Whereabouts
    <3> QED
      BY <1>1, <2>2, <3>2 DEF Again, Polling
  <2> QED
    BY <2>1, <2>2
<1>4. Whereabouts'
  <2>1. caller # "returned"
    BY <1>1 DEF Schedule, Whereabouts
  <2> QED
    BY <1>1, <1>3, <2>1 DEF Schedule, Whereabouts, Capacity
<1>5. StopsInTime'
  BY <1>1, <1>3 DEF Schedule, StopsInTime, CancelBy, LastPut, Capacity
<1>6. EmptiedInTime'
  <2> SUFFICES ASSUME caller = "gather", NEW v \in Workers, worker'[v].at # "ended"
               PROVE  /\ Swallows
                      /\ elapsed + worker'[v].left <= Limit
                      /\ elapsed + Work(queued) <= Limit
                      /\ worker'[v].at = "busy" => elapsed + worker'[v].left + Work(queued) <= Limit
    BY <1>1 DEF EmptiedInTime, Limit, CancelBy, Work, Capacity
  <2>1. Swallows /\ elapsed + Work(queued) <= Limit
    BY <1>1 DEF Schedule, EmptiedInTime
  <2>2. CASE v = w
    <3>1. worker'[w].at = "poll" /\ worker'[w].left = 1 /\ queued # 0
      BY <1>3, <2>2 DEF LoadInv, Phases
    <3>2. queued \in Nat /\ 1 <= queued /\ elapsed \in Nat
      BY <3>1 DEF LoadInv, Counting
    <3>3. Work(1) <= Work(queued) /\ Work(1) = Work(0) + Timeout /\ Work(0) \in Nat /\ Work(1) \in Nat
          /\ Work(queued) \in Nat
      BY <3>2, WorkGrows
    <3>4. 1 <= Work(queued)
      BY <3>3, Assumption
    <3> QED
      BY <2>1, <2>2, <3>1, <3>2, <3>3, <3>4, Numbers
  <2>3. CASE v # w
    BY <1>1, <2>3 DEF Schedule, EmptiedInTime
  <2> QED
    BY <2>2, <2>3
<1>7. SomeRequestIsDue'
  <2>1. CASE worker[w].at = "poll"
    BY <1>1, <1>2, <2>1 DEF Schedule, SomeRequestIsDue, Total
  <2>2. CASE worker[w].at = "busy"
    <3>1. passed' + failed' > 0
      BY <1>2, <2>2 DEF LoadInv, Counting
    <3> QED
      BY <1>1, <3>1 DEF Schedule, SomeRequestIsDue, Total
  <2> QED
    BY <1>2, <2>1, <2>2
<1>8. ReturnsInTime'
  <2>1. caller # "returned"
    BY <1>1 DEF Schedule, Whereabouts
  <2> QED
    BY <1>1, <2>1 DEF Schedule, ReturnsInTime, Limit, CancelBy, Capacity
<1> QED
  BY <1>4, <1>5, <1>6, <1>7, <1>8 DEF Schedule

LEMMA ScheduleCancelWorkers ==
    ASSUME LoadInv, Schedule, Drained \/ DrainEnded
    PROVE  Schedule'
<1>1. /\ caller = "drain" /\ caller' = "gather"
      /\ Joined \/ patience = 0
      /\ UNCHANGED <<elapsed, producer, rest, queued, stop, sent, passed, failed>>
      /\ producer = "stopped"
  BY DEF Drained, DrainEnded, CancelWorkers, LoadInv, Phases
<1>2. PICK next \in [Workers -> {Ended, Answered, Busy}] :
          /\ \A w \in Workers : next[w] = Ended \/ Missed(w, next[w])
          /\ worker' = next
  BY DEF Drained, DrainEnded, CancelWorkers
<1>3. \A w \in Workers :
          \/ worker'[w].at = "ended" /\ worker'[w].left = 0
          \/ worker'[w].at = "busy" /\ worker'[w].left \in 0..Timeout /\ Swallows
  BY <1>2, Assumption DEF Missed, Ended, Answered, Busy
<1>4. Whereabouts'
  BY <1>1, <1>3, Assumption DEF Schedule, Whereabouts, Capacity
<1>5. elapsed \in Nat /\ patience \in Nat /\ elapsed <= CancelBy
  BY <1>1, Numbers DEF LoadInv, Counting, Schedule, StopsInTime
<1>6. StopsInTime'
  BY <1>1 DEF StopsInTime
<1>7. EmptiedInTime'
  <2> SUFFICES ASSUME NEW v \in Workers, worker'[v].at # "ended"
               PROVE  /\ Swallows
                      /\ elapsed + worker'[v].left <= Limit
                      /\ elapsed + Work(queued) <= Limit
                      /\ worker'[v].at = "busy" => elapsed + worker'[v].left + Work(queued) <= Limit
    BY <1>1 DEF EmptiedInTime, Limit, CancelBy, Work, Capacity
  <2>1. Swallows /\ worker'[v].left \in Nat /\ worker'[v].left <= Timeout
    BY <1>3, Assumption
  <2>2. Work(queued) \in Nat /\ Work(Capacity) \in Nat /\ Work(queued) <= Work(Capacity)
    BY WorkGrows, Numbers DEF LoadInv, Counting, Schedule, Whereabouts
  <2> QED
    BY <1>5, <2>1, <2>2, Numbers, Assumption
<1>8. SomeRequestIsDue'
  <2> SUFFICES ASSUME sent > 0, Timeout <= Drain
               PROVE  Total > 0
    BY <1>1 DEF SomeRequestIsDue, Total
  <2>1. CASE Joined
    <3>1. Cardinality(At("busy")) \in Nat
      BY BusyCount DEF At
    <3>2. sent = Total
      BY <1>1, <2>1, <3>1 DEF LoadInv, Counting, Phases, RequestsAddUp, Joined, Total
    <3> QED
      BY <3>2
  <2>2. CASE patience = 0
    <3>1. elapsed >= Duration
      BY <1>1 DEF LoadInv, Phases
    <3>2. Total # 0
      BY <1>1, <2>2, <3>1, Assumption DEF LoadInv, Counting, Schedule, SomeRequestIsDue
    <3> QED
      BY <3>2 DEF LoadInv, Counting, Total
  <2> QED
    BY <1>1, <2>1, <2>2
<1>9. ReturnsInTime'
  BY <1>1, <1>5, Numbers DEF ReturnsInTime, Limit, CancelBy, Capacity
<1> QED
  BY <1>4, <1>6, <1>7, <1>8, <1>9 DEF Schedule

LEMMA ScheduleReturn ==
    ASSUME LoadInv, Schedule, Return
    PROVE  Schedule'
<1> USE DEF queueVars, counts
<1>1. /\ caller = "gather" /\ caller' = "returned" /\ \A w \in Workers : worker[w].at = "ended"
      /\ UNCHANGED <<elapsed, producer, rest, queued, stop, worker, sent, passed, failed>>
      /\ producer = "stopped"
  BY DEF Return, At, LoadInv, Phases
<1>2. Whereabouts'
  BY <1>1 DEF Schedule, Whereabouts, Capacity
<1>3. StopsInTime' /\ EmptiedInTime'
  BY <1>1 DEF StopsInTime, EmptiedInTime
<1>4. SomeRequestIsDue' /\ ReturnsInTime'
  BY <1>1 DEF Schedule, SomeRequestIsDue, ReturnsInTime, Total, At, Limit, CancelBy, Capacity
<1> QED
  BY <1>2, <1>3, <1>4 DEF Schedule

\* Time passes only while a timer is running, so no sum outgrows its bound.
LEMMA ScheduleTick ==
    ASSUME LoadInv, Schedule, Tick
    PROVE  Schedule'
<1> USE DEF queueVars, counts
<1>1. /\ elapsed \in Nat /\ rest \in Nat /\ patience \in Nat /\ queued \in Nat
      /\ \A w \in Workers : worker[w].left \in Nat /\ worker[w].at \in {"poll", "busy", "ended"}
  BY DEF LoadInv, Counting, Schedule, Whereabouts
<1>2. /\ elapsed' \in Nat /\ elapsed' <= elapsed + 1 /\ elapsed' >= elapsed
      /\ elapsed <= Limit => elapsed' = elapsed + 1
      /\ rest' = CountDown(rest) /\ patience' = CountDown(patience)
      /\ UNCHANGED <<producer, queued, stop, sent, passed, failed, caller>>
  BY <1>1, Numbers DEF Tick
<1>3. \A w \in Workers : /\ worker'[w].at = worker[w].at
                         /\ worker'[w].left = CountDown(worker[w].left)
  BY DEF Tick, LoadInv, Counting
<1>4. \A w \in Workers : \/ worker[w].at = "ended"
                         \/ worker[w].at = "poll" /\ worker[w].left > 0 /\ queued = 0
                         \/ worker[w].at = "busy" /\ worker[w].left > 0
  BY DEF Tick, Blocked
<1>5. /\ producer = "put" => queued = Capacity
      /\ producer = "sleep" => rest > 0
      /\ producer # "loop"
      /\ caller = "drain" => patience > 0
      /\ caller = "produce" => producer # "stopped"
      /\ caller = "gather" => \E w \in Workers : worker[w].at # "ended"
      /\ caller # "returned"
  BY <1>1, Numbers DEF Tick, Blocked, HasSlot, At, Schedule, Whereabouts
<1>6. \A t \in Nat : CountDown(t) \in Nat /\ CountDown(t) <= t /\ (t > 0 => CountDown(t) = t - 1)
  BY DEF CountDown
<1>7. \A w \in Workers : worker'[w].left \in Nat /\ worker'[w].left <= worker[w].left
                         /\ (worker[w].at # "ended" => worker'[w].left + 1 = worker[w].left)
  BY <1>1, <1>3, <1>4, <1>6
<1>8. Whereabouts'
  BY <1>1, <1>2, <1>3, <1>5, <1>6, <1>7, Numbers, Assumption DEF Schedule, Whereabouts, Capacity
<1>9. StopsInTime'
  <2>1. producer = "put" =>
           /\ elapsed' <= LastPut
           /\ \A w \in Workers : worker'[w].at = "busy" => elapsed' + worker'[w].left <= LastPut
    <3> SUFFICES ASSUME producer = "put"
                 PROVE  /\ elapsed' <= LastPut
                        /\ \A w \in Workers : worker'[w].at = "busy" => elapsed' + worker'[w].left <= LastPut
      OBVIOUS
    <3>1. queued > 0 /\ \A w \in Workers : worker[w].at = "busy"
      BY <1>1, <1>4, <1>5, Numbers DEF Schedule, Whereabouts
    <3>2. \A w \in Workers : elapsed + worker[w].left <= LastPut
      BY <1>5, <3>1 DEF Schedule, StopsInTime
    <3>3. \A w \in Workers : elapsed' + worker'[w].left <= LastPut
      BY <1>1, <1>2, <1>7, <3>1, <3>2, Numbers
    <3>4. PICK w \in Workers : TRUE
      BY Assumption
    <3> QED
      BY <1>2, <1>7, <3>3, <3>4, Numbers
  <2>2. producer = "sleep" => elapsed' + rest' <= LastPut + 1
    BY <1>1, <1>2, <1>5, <1>6, Numbers DEF Schedule, StopsInTime
  <2>3. caller = "drain" => elapsed' + patience' <= CancelBy
    BY <1>1, <1>2, <1>5, <1>6, Numbers DEF Schedule, StopsInTime
  <2> QED
    BY <1>2, <1>5, <2>1, <2>2, <2>3 DEF StopsInTime, CancelBy, LastPut, Capacity
<1>10. EmptiedInTime'
  <2> SUFFICES ASSUME caller = "gather", NEW v \in Workers, worker'[v].at # "ended"
               PROVE  /\ Swallows
                      /\ elapsed' + worker'[v].left <= Limit
                      /\ elapsed' + Work(queued) <= Limit
                      /\ worker'[v].at = "busy" => elapsed' + worker'[v].left + Work(queued) <= Limit
    BY <1>2 DEF EmptiedInTime, Limit, CancelBy, Work, Capacity
  <2>1. /\ Swallows /\ elapsed + worker[v].left <= Limit
        /\ worker[v].at = "busy" => elapsed + worker[v].left + Work(queued) <= Limit
    BY <1>3 DEF Schedule, EmptiedInTime
  <2>2. Work(queued) \in Nat /\ Work(0) = 0
    BY <1>1, WorkGrows, Assumption DEF Work
  <2>3. worker'[v].left + 1 = worker[v].left /\ elapsed' + worker'[v].left <= elapsed + worker[v].left
    BY <1>1, <1>2, <1>3, <1>7
  <2>4. CASE worker[v].at = "busy"
    BY <1>1, <1>2, <1>3, <1>7, <2>1, <2>2, <2>3, <2>4, Numbers
  <2>5. CASE worker[v].at = "poll"
    <3>1. queued = 0
      BY <1>4, <2>5
    <3> QED
      BY <1>1, <1>2, <1>3, <1>7, <2>1, <2>2, <2>3, <2>5, <3>1, Numbers
  <2> QED
    BY <1>1, <1>3, <2>4, <2>5
<1>11. SomeRequestIsDue'
  <2> DEFINE Waiting == Cardinality(At("busy"))
  <2>1. Waiting \in Nat
    BY BusyCount DEF At
  <2>2. producer = "put" => sent > 0
    BY <1>1, <1>5, <2>1, Numbers DEF LoadInv, Counting, RequestsAddUp, Total
  <2>3. ASSUME caller \in {"produce", "drain"}, elapsed' >= Duration, sent > 0, Total = 0
        PROVE  \E w \in Workers :
                  /\ worker'[w].at = "busy" /\ worker'[w].left < Timeout
                  /\ caller = "drain" => worker'[w].left + Drain < Timeout + patience'
    <3>1. CASE elapsed >= Duration
      <4>1. PICK w \in Workers : 
                  /\ worker[w].at = "busy" /\ worker[w].left < Timeout
                  /\ caller = "drain" => worker[w].left + Drain < Timeout + patience
        BY <2>3, <3>1 DEF Schedule, SomeRequestIsDue
      <4> QED
        BY <1>1, <1>2, <1>3, <1>5, <1>6, <1>7, <4>1, Assumption
    <3>2. CASE elapsed < Duration
      <4>1. caller = "produce"
        BY <1>1, <2>3, <3>2, Assumption DEF LoadInv, Phases
      <4>2. producer # "stopped"
        BY <1>5, <4>1
      <4>3. queued + Waiting > 0
        BY <2>1, <2>3, <4>1 DEF LoadInv, Counting, Phases, RequestsAddUp
      <4>4. \E w \in Workers : worker[w].at = "busy"
        <5>1. CASE queued > 0
          <6>1. PICK w \in Workers : TRUE
            BY Assumption
          <6> QED
            BY <1>4, <4>2, <5>1, <6>1 DEF Schedule, Whereabouts
        <5>2. CASE queued = 0
          <6>1. At("busy") # {}
            BY <1>1, <2>1, <4>3, <5>2, FS_EmptySet
          <6> QED
            BY <6>1 DEF At
        <5> QED
          BY <1>1, <5>1, <5>2
      <4>5. PICK w \in Workers : worker[w].at = "busy"
        BY <4>4
      <4>6. worker[w].left <= Timeout
        BY <4>5 DEF Schedule, Whereabouts
      <4> QED
        BY <1>1, <1>3, <1>7, <4>1, <4>5, <4>6, Assumption
    <3> QED
      BY <1>1, <3>1, <3>2, Assumption
  <2> QED
    BY <1>2, <1>5, <2>2, <2>3 DEF Schedule, SomeRequestIsDue, Total
<1>12. ReturnsInTime'
  <2>1. caller = "produce" => elapsed' <= CancelBy
    BY <1>1, <1>2, <1>5, <1>6, <1>9, Numbers, Assumption DEF Schedule, Whereabouts, StopsInTime
  <2>2. caller = "drain" => elapsed' <= CancelBy
    BY <1>1, <1>2, <1>5, <1>6, <1>9, Numbers DEF StopsInTime, CancelBy
  <2>3. caller = "gather" => elapsed' <= Limit
    BY <1>1, <1>2, <1>3, <1>5, <1>7, Numbers DEF Schedule, EmptiedInTime
  <2> QED
    BY <1>2, <1>5, <2>1, <2>2, <2>3 DEF ReturnsInTime, CancelBy, Limit, Capacity
<1> QED
  BY <1>8, <1>9, <1>10, <1>11, <1>12 DEF Schedule

LEMMA OnSchedule == LoadSpec => []Schedule
<1>1. LoadInv /\ Schedule /\ [LoadNext]_loadVars => Schedule'
  <2> SUFFICES ASSUME LoadInv, Schedule, [LoadNext]_loadVars
               PROVE  Schedule'
    OBVIOUS
  <2>1. Finished => UNCHANGED loadVars
    BY DEF Finished
  <2>2. CASE \E w \in Workers : Take(w) \/ PollAgain(w) \/ QueryPasses(w) \/ QueryFails(w)
    BY <2>2, ScheduleTake, ScheduleAgain
  <2>3. CASE Idle \/ UNCHANGED loadVars
    BY <2>3, ScheduleOther
  <2> QED
    BY <2>1, <2>2, <2>3, ScheduleOther, ScheduleCancelWorkers, ScheduleReturn,
       ScheduleTick DEF LoadNext
<1> QED
  BY ScheduleInit, LoadInductive, <1>1, PTL DEF LoadSpec

\* However slow the system, the workers are cancelled by CancelBy and the call
\* returns by Limit, and no worker outlives a call that returns: run_load_test's
\* two timeouts bound it, whatever the pool, the durations and the rate.
THEOREM TheCallReturnsInTime == LoadSpec => []ReturnsInTime
<1>1. Schedule => ReturnsInTime
  BY DEF Schedule
<1> QED
  BY OnSchedule, <1>1, PTL

\* A system that answered nothing is graded CRITICAL by bottleneck_analysis: when
\* the queries' timeout is no longer than the drain, one of them is counted.
THEOREM ADeadSystemIsCritical == LoadSpec => []DeadSystemIsCritical
<1>1. LoadInv /\ Schedule => DeadSystemIsCritical
  <2> SUFFICES ASSUME LoadInv, Schedule, caller = "returned", passed = 0, sent > 0, Timeout <= Drain
               PROVE  ErrorGrade = "CRITICAL"
    BY DEF DeadSystemIsCritical
  <2>1. Total > 0 /\ Total = failed /\ failed \in Nat
    BY DEF LoadInv, Counting, Schedule, SomeRequestIsDue, Total
  <2>2. AtLeastPercent(10)
    BY <2>1 DEF AtLeastPercent
  <2> QED
    BY <2>2 DEF ErrorGrade
<1> QED
  BY LoadInductive, OnSchedule, <1>1, PTL
===============================================================================
