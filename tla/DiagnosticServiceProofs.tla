----------------------- MODULE DiagnosticServiceProofs -----------------------
(***************************************************************************)
(* What DiagnosticService promises for any number of runs and calls.       *)
(*                                                                         *)
(* The invariant comes in two parts.  BaseInv holds however the calls      *)
(* overlap: what a call holds fits the place it has reached.  The rest     *)
(* speaks of the runs that no two calls raced for: what the place of a     *)
(* call implies about the run in the repository, and what the status of a  *)
(* run implies about its calls and events.                                 *)
(***************************************************************************)
EXTENDS DiagnosticService, SequenceTheorems, TLAPS

Active(c) == call[c].at \notin {"idle", "finding", "refused"}

Midway == {"finding", "starting", "analyzing", "analysed", "reporting", "drafting",
           "finishing", "failing", "recording"}

Holds(c, status) == Held(c) \in Aggregates /\ Held(c).status = status

\* The status of the aggregate a call holds.
Holding(c) ==
    /\ call[c].at = "starting" => Holds(c, "running")
    /\ call[c].at \in {"analyzing", "analysed"} => Holds(c, "analyzing")
    /\ call[c].at \in {"reporting", "drafting"} => Holds(c, "reporting")
    /\ call[c].at = "finishing" => Holds(c, "completed")
    /\ call[c].at = "recording" => Holds(c, "failed")

Base(c) == /\ call[c].at # "idle" => Run(c) \in Runs
           /\ Active(c) => Found(c) \in Aggregates
           /\ Holding(c)
           /\ store = "memory" /\ call[c].at \in Midway => turn = c

BaseInv == /\ TypeOK
           /\ \A c \in Calls : Base(c)
           /\ store = "rows" => turn = Nobody
           /\ store = "memory" => raced = {}

\* A run whose pipeline is at work.
AtWork(run) == /\ run \in Aggregates
               /\ run.status \in {"running", "analyzing", "reporting"}
               /\ run.progress \in {0, 20, 80}
               /\ ~run.report

Is(run, status, progress) == /\ run \in Aggregates
                             /\ run.status = status
                             /\ run.progress = progress
                             /\ run.report = (status = "completed")

\* The aggregate a call holds, by its place.
HeldAs(c) ==
    /\ call[c].at = "starting" => Is(Held(c), "running", 0)
    /\ call[c].at \in {"analyzing", "analysed"} => Is(Held(c), "analyzing", 20)
    /\ call[c].at \in {"reporting", "drafting"} => Is(Held(c), "reporting", 80)
    /\ call[c].at = "finishing" => Is(Held(c), "completed", 100)
    /\ call[c].at = "recording" => /\ Held(c) \in Aggregates
                                   /\ Held(c).status = "failed" /\ ~Held(c).report
                                   /\ Held(c).progress \in {0, 20, 80}

\* The run in the repository, by the place of the call that works on it.
SavedAs(c) ==
    /\ call[c].at = "spawned" => Is(Found(c), "running", 0)
    /\ call[c].at = "failing" => AtWork(Found(c))
    /\ call[c].at = "done" => Found(c) \in Aggregates /\ Found(c).status # "pending"
    /\ store = "memory" => call[c].at # "stranded"
    /\ store = "rows" =>
          /\ call[c].at = "starting" => Is(Found(c), "pending", 0)
          /\ call[c].at = "analyzing" => Is(Found(c), "running", 0)
          /\ call[c].at \in {"analysed", "reporting"} => Is(Found(c), "analyzing", 20)
          /\ call[c].at \in {"drafting", "finishing"} => Is(Found(c), "reporting", 80)
          /\ call[c].at \in {"recording", "stranded"} => AtWork(Found(c))
          /\ call[c].at = "recording" => Found(c).progress = Held(c).progress

\* The events collected on the way.
EventsAs(c) ==
    /\ store = "memory" =>
          /\ call[c].at \in {"starting", "spawned", "analyzing", "analysed", "reporting",
                             "drafting"} => Held(c).events = <<"Started">>
          /\ call[c].at = "finishing" => Held(c).events = <<"Started", "Completed">>
    /\ store = "rows" =>
          /\ call[c].at \in {"analyzing", "analysed", "reporting", "drafting"} =>
                Held(c).events = <<>>
          /\ call[c].at = "finishing" => Held(c).events = <<"Completed">>

CallInv(c) == Active(c) /\ Run(c) \notin raced => HeldAs(c) /\ SavedAs(c) /\ EventsAs(c)

\* What is saved of a run, and what was told of it.
RunInv(r) ==
    /\ saved[r] # Absent /\ saved[r].status = "pending" =>
          saved[r].progress = 0 /\ ~saved[r].report /\ saved[r].events = <<>>
    /\ saved[r] # Absent /\ store = "rows" => saved[r].events = <<>>
    /\ told[r] # <<>> =>
          /\ saved[r].status = "completed"
          /\ told[r] = IF store = "memory" THEN <<"Started", "Completed">>
                       ELSE <<"Completed">>
          /\ \A c \in Calls : Active(c) /\ Run(c) = r => call[c].at = "done"

Alone == \A c, d \in Calls :
            Active(c) /\ Active(d) /\ Run(c) = Run(d) /\ Run(c) \notin raced => c = d

IInv == /\ BaseInv
        /\ \A c \in Calls : CallInv(c)
        /\ \A r \in Runs \ raced : RunInv(r)
        /\ Alone

-----------------------------------------------------------------------------
(* Aggregates *)

\* The aggregate's own operations.
LEMMA Transitions ==
    ASSUME NEW run \in Aggregates
    PROVE  /\ run # Absent /\ Row(run) \in Aggregates /\ Kept(run) \in Aggregates
           /\ Start(run) \in Aggregates /\ CompleteAnalysis(run) \in Aggregates
           /\ Complete(run) \in Aggregates /\ Fail(run) \in Aggregates
<1>1. run # Absent
  <2>1. run.status # "absent"
    BY DEF Aggregates, Statuses
  <2> QED
    BY <2>1 DEF Absent
<1>2. Append(run.events, "Started") \in Seq({"Started", "Completed"})
      /\ Append(run.events, "Completed") \in Seq({"Started", "Completed"})
  BY DEF Aggregates
<1>3. <<>> \in Seq({"Started", "Completed"})
  OBVIOUS
<1>4. Row(run) \in Aggregates
  BY <1>3 DEF Row, Aggregates
<1>5. Start(run) \in Aggregates /\ Complete(run) \in Aggregates
  BY <1>2 DEF Start, Complete, Aggregates, Statuses, Progress
<1>6. CompleteAnalysis(run) \in Aggregates /\ Fail(run) \in Aggregates
  BY DEF CompleteAnalysis, Fail, Aggregates, Statuses, Progress
<1> QED
  BY <1>1, <1>4, <1>5, <1>6 DEF Kept

LEMMA NewRunType == NewRun \in Aggregates
<1>1. <<>> \in Seq({"Started", "Completed"})
  OBVIOUS
<1> QED
  BY <1>1 DEF NewRun, Aggregates, Statuses, Progress

LEMMA BothEvents == Append(<<"Started">>, "Completed") = <<"Started", "Completed">>
<1> DEFINE s == Append(<<"Started">>, "Completed")
           t == <<"Started", "Completed">>
<1>1. /\ s \in Seq({"Started", "Completed"}) /\ Len(s) = 2
      /\ s[1] = "Started" /\ s[2] = "Completed"
  OBVIOUS
<1>2. /\ t \in Seq({"Started", "Completed"}) /\ Len(t) = 2
      /\ t[1] = "Started" /\ t[2] = "Completed"
  OBVIOUS
<1> HIDE DEF s, t
<1>3. s = t
  BY <1>1, <1>2, SeqEqual
<1> QED
  BY <1>3 DEF s, t

-----------------------------------------------------------------------------
(* What holds however the calls overlap *)

\* A step of one call leaves what the others hold.
LEMMA BaseMoved ==
    ASSUME BaseInv, NEW c \in Calls, HasTurn(c), call[c].at # "idle",
           NEW place \in Places, place # "idle", Goto(c, place), store' = store,
           saved' \in [Runs -> Aggregates \cup {Absent}],
           mine' \in [Calls -> Aggregates \cup {Absent}],
           told' \in [Runs -> Seq({"Started", "Completed"})],
           raced' \subseteq Runs, store = "memory" => raced' = {},
           \A q \in Runs : saved'[q] = saved[q] \/ saved'[q] \in Aggregates,
           \A d \in Calls : d # c => mine'[d] = mine[d],
           turn' \in {c, Nobody}, store = "rows" => turn' = Nobody,
           Base(c)'
    PROVE  BaseInv'
<1>1. /\ call'[c].at = place /\ call'[c].run = call[c].run
      /\ \A d \in Calls : d # c => call'[d] = call[d]
      /\ call' \in [Calls -> [at : Places, run : Runs \cup {NoRun}]]
  BY DEF BaseInv, TypeOK, Goto
<1>2. TypeOK'
  BY <1>1 DEF BaseInv, TypeOK
<1>3. ASSUME NEW d \in Calls, d # c
      PROVE  Base(d)'
  <2>1. /\ call'[d] = call[d] /\ mine'[d] = mine[d] /\ Base(d) /\ Run(d)' = Run(d)
        /\ Active(d)' = Active(d)
    BY <1>1, <1>3 DEF BaseInv, Run, Active
  <2>2. ~(store = "memory" /\ call[d].at \in Midway)
    <3>1. d # Nobody
      BY ServiceAssumption DEF Nobody
    <3> QED
      BY <1>3, <2>1, <3>1 DEF HasTurn, Base
  <2>3. Active(d) => Found(d)' \in Aggregates
    <3>1. Active(d) => Run(d) \in Runs /\ saved[Run(d)] \in Aggregates
      BY <2>1 DEF Base, Active, Found
    <3> QED
      BY <2>1, <3>1 DEF Found
  <2>4. Holding(d)'
    <3>1. CASE store = "memory"
      BY <2>1, <2>2, <3>1 DEF Holding, Midway
    <3>2. CASE store # "memory"
      <4>1. Held(d)' = Held(d)
        BY <2>1, <3>2 DEF Held
      <4> QED
        BY <2>1, <4>1, ZenonT(60) DEF Base, Holding, Holds
    <3> QED
      BY <3>1, <3>2
  <2> QED
    BY <2>1, <2>2, <2>3, <2>4 DEF Base
<1> QED
  BY <1>2, <1>3 DEF BaseInv

\* What Change and Save do to the aggregate held and to the run saved.
LEMMA Changed ==
    ASSUME TypeOK, NEW c \in Calls, Run(c) \in Runs, NEW x \in Aggregates, Change(c, x),
           NEW place \in Places, Goto(c, place), store' = store
    PROVE  /\ saved' \in [Runs -> Aggregates \cup {Absent}]
           /\ mine' \in [Calls -> Aggregates \cup {Absent}]
           /\ \A q \in Runs : q # Run(c) => saved'[q] = saved[q]
           /\ \A d \in Calls : d # c => mine'[d] = mine[d]
           /\ Run(c)' = Run(c) /\ call'[c].at = place
           /\ call' = [call EXCEPT ![c].at = place]
           /\ Held(c)' = x
           /\ Found(c)' = IF store = "memory" THEN x ELSE Found(c)
<1>1. call' = [call EXCEPT ![c].at = place] /\ call'[c].at = place /\ call'[c].run = call[c].run
  BY DEF TypeOK, Goto
<1>2. Run(c)' = Run(c)
  BY <1>1 DEF Run
<1>3. CASE store = "memory"
  <2>1. saved' = [saved EXCEPT ![Run(c)] = x] /\ mine' = mine
    BY <1>3 DEF Change
  <2>2. saved'[Run(c)] = x
    BY <2>1 DEF TypeOK
  <2>3. Held(c)' = x /\ Found(c)' = x
    BY <1>2, <1>3, <2>2 DEF Held, Found
  <2> QED
    BY <1>1, <1>2, <1>3, <2>1, <2>3 DEF TypeOK
<1>4. CASE store # "memory"
  <2>1. mine' = [mine EXCEPT ![c] = x] /\ saved' = saved
    BY <1>4 DEF Change
  <2>2. mine'[c] = x
    BY <2>1 DEF TypeOK
  <2>3. Held(c)' = x /\ Found(c)' = Found(c)
    BY <1>2, <1>4, <2>1, <2>2 DEF Held, Found
  <2> QED
    BY <1>1, <1>2, <1>4, <2>1, <2>3 DEF TypeOK
<1> QED
  BY <1>3, <1>4

LEMMA Saved ==
    ASSUME TypeOK, NEW c \in Calls, Run(c) \in Runs, NEW y \in Aggregates,
           saved' = [saved EXCEPT ![Run(c)] = y],
           NEW place \in Places, Goto(c, place), UNCHANGED <<store, mine>>
    PROVE  /\ saved' \in [Runs -> Aggregates \cup {Absent}]
           /\ mine' \in [Calls -> Aggregates \cup {Absent}]
           /\ \A q \in Runs : q # Run(c) => saved'[q] = saved[q]
           /\ \A d \in Calls : d # c => mine'[d] = mine[d]
           /\ Run(c)' = Run(c) /\ call'[c].at = place
           /\ call' = [call EXCEPT ![c].at = place]
           /\ Held(c)' = IF store = "memory" THEN y ELSE Held(c)
           /\ Found(c)' = y
<1>1. call' = [call EXCEPT ![c].at = place] /\ call'[c].at = place /\ call'[c].run = call[c].run
  BY DEF TypeOK, Goto
<1>2. Run(c)' = Run(c)
  BY <1>1 DEF Run
<1>3. saved'[Run(c)] = y
  BY DEF TypeOK
<1>4. Found(c)' = y
  BY <1>2, <1>3 DEF Found
<1>5. Held(c)' = IF store = "memory" THEN y ELSE Held(c)
  BY <1>2, <1>3 DEF Held
<1> QED
  BY <1>1, <1>2, <1>4, <1>5 DEF TypeOK

LEMMA BaseOf ==
    ASSUME BaseInv, NEW c \in Calls
    PROVE  /\ TypeOK /\ Base(c) /\ store \in {"memory", "rows"}
           /\ call[c].at # "idle" => Run(c) \in Runs
           /\ Active(c) => Found(c) \in Aggregates /\ call[c].at # "idle"
BY DEF BaseInv, Base, TypeOK, Stores, Active

\* A call changes its aggregate: what it then holds fits its new place.
LEMMA BaseChange ==
    ASSUME BaseInv, NEW c \in Calls, HasTurn(c), call[c].at # "idle",
           Found(c) \in Aggregates, NEW x \in Aggregates, Change(c, x),
           NEW place \in {"starting", "analyzing", "reporting", "finishing", "recording"},
           x.status = CASE place = "starting" -> "running"
                        [] place = "finishing" -> "completed"
                        [] place = "recording" -> "failed"
                        [] OTHER -> place,
           Goto(c, place), Keep(c), UNCHANGED <<store, told>>,
           raced' \subseteq Runs, store = "memory" => raced' = {}
    PROVE  BaseInv'
<1>1. /\ TypeOK /\ Run(c) \in Runs /\ store \in {"memory", "rows"}
      /\ place \in Places /\ place # "idle"
  BY BaseOf DEF Places
<1>2. /\ saved' \in [Runs -> Aggregates \cup {Absent}]
      /\ mine' \in [Calls -> Aggregates \cup {Absent}]
      /\ \A q \in Runs : q # Run(c) => saved'[q] = saved[q]
      /\ \A d \in Calls : d # c => mine'[d] = mine[d]
      /\ Run(c)' = Run(c) /\ call'[c].at = place
      /\ Held(c)' = x
      /\ Found(c)' = IF store = "memory" THEN x ELSE Found(c)
  BY <1>1, Changed
<1>3. turn' = IF store = "memory" THEN c ELSE Nobody
  BY DEF Keep
<1>4. Holding(c)'
  BY <1>2 DEF Holding, Holds
<1>5. Base(c)'
  BY <1>1, <1>2, <1>3, <1>4 DEF Base
<1>6. \A q \in Runs : saved'[q] = saved[q] \/ saved'[q] \in Aggregates
  <2>1. saved'[Run(c)] \in Aggregates
    BY <1>2 DEF Found
  <2> QED
    BY <1>2, <2>1
<1>7. told' \in [Runs -> Seq({"Started", "Completed"})]
  BY <1>1 DEF TypeOK
<1> QED
  BY <1>1, <1>2, <1>3, <1>5, <1>6, <1>7, BaseMoved

\* A call saves a run, and may tell of it.
LEMMA BaseSave ==
    ASSUME BaseInv, NEW c \in Calls, HasTurn(c), call[c].at # "idle",
           NEW y \in Aggregates, saved' = [saved EXCEPT ![Run(c)] = y],
           Held(c) \in Aggregates, y.status = Held(c).status,
           NEW place \in {"spawned", "analysed", "drafting", "done"},
           place = "analysed" => Held(c).status = "analyzing",
           place = "drafting" => Held(c).status = "reporting",
           Goto(c, place), UNCHANGED <<store, mine, raced>>,
           turn' \in {c, Nobody}, store = "rows" => turn' = Nobody,
           store = "memory" /\ place \in {"analysed", "drafting"} => turn' = c,
           told' \in [Runs -> Seq({"Started", "Completed"})]
    PROVE  BaseInv'
<1>1. /\ TypeOK /\ Run(c) \in Runs /\ store \in {"memory", "rows"}
      /\ place \in Places /\ place # "idle"
  BY BaseOf DEF Places
<1>2. /\ saved' \in [Runs -> Aggregates \cup {Absent}]
      /\ mine' \in [Calls -> Aggregates \cup {Absent}]
      /\ \A q \in Runs : q # Run(c) => saved'[q] = saved[q]
      /\ \A d \in Calls : d # c => mine'[d] = mine[d]
      /\ Run(c)' = Run(c) /\ call'[c].at = place
      /\ Held(c)' = IF store = "memory" THEN y ELSE Held(c)
      /\ Found(c)' = y
  BY <1>1, Saved
<1>4. Holding(c)'
  <2>1. Held(c)' \in Aggregates /\ Held(c)'.status = Held(c).status
    BY <1>2
  <2> QED
    BY <1>2, <2>1 DEF Holding, Holds
<1>5. Base(c)'
  BY <1>1, <1>2, <1>4 DEF Base, Midway
<1>6. \A q \in Runs : saved'[q] = saved[q] \/ saved'[q] \in Aggregates
  <2>1. saved'[Run(c)] \in Aggregates
    BY <1>2 DEF Found
  <2> QED
    BY <1>2, <2>1
<1>7. raced' \subseteq Runs /\ (store = "memory" => raced' = {})
  BY DEF BaseInv, TypeOK
<1> QED
  BY <1>1, <1>2, <1>5, <1>6, <1>7, BaseMoved

\* A call moves on and touches nothing.
LEMMA BasePlace ==
    ASSUME BaseInv, NEW c \in Calls, HasTurn(c), call[c].at # "idle",
           NEW place \in {"failing", "refused", "stranded"}, Goto(c, place),
           Active(c) \/ place = "refused",
           UNCHANGED <<store, saved, mine, told, raced>>,
           turn' \in {c, Nobody}, store = "rows" => turn' = Nobody,
           store = "memory" /\ place = "failing" => turn' = c
    PROVE  BaseInv'
<1>1. /\ TypeOK /\ Base(c) /\ Run(c) \in Runs /\ place \in Places /\ place # "idle"
      /\ Active(c) => Found(c) \in Aggregates
  BY BaseOf DEF Places
<1>2. call'[c].at = place /\ Run(c)' = Run(c)
  BY <1>1 DEF TypeOK, Goto, Run
<1>3. Base(c)'
  <2>1. Found(c)' = Found(c)
    BY <1>2 DEF Found
  <2>2. Holding(c)'
    BY <1>2 DEF Holding
  <2>3. Active(c)' => Active(c)
    BY <1>2 DEF Active
  <2> QED
    BY <1>1, <1>2, <2>1, <2>2, <2>3 DEF Base, Midway
<1>4. raced' \subseteq Runs /\ (store = "memory" => raced' = {})
  BY DEF BaseInv, TypeOK
<1>5. saved' \in [Runs -> Aggregates \cup {Absent}] /\ mine' \in [Calls -> Aggregates \cup {Absent}]
      /\ told' \in [Runs -> Seq({"Started", "Completed"})]
  BY <1>1 DEF TypeOK
<1> QED
  BY <1>1, <1>3, <1>4, <1>5, BaseMoved

\* The aggregate an active call is about to save.
LEMMA HeldThere ==
    ASSUME BaseInv, NEW c \in Calls
    PROVE  /\ Holding(c)
           /\ call[c].at \in {"starting", "analyzing", "analysed", "reporting", "drafting",
                              "finishing", "recording"} =>
                 /\ Held(c) \in Aggregates /\ Kept(Held(c)) \in Aggregates
                 /\ Kept(Held(c)).status = Held(c).status
                 /\ Held(c).status # "pending"
                 /\ Active(c) /\ call[c].at # "idle"
<1>1. Holding(c)
  BY BaseOf DEF Base
<1>2. SUFFICES ASSUME call[c].at \in {"starting", "analyzing", "analysed", "reporting",
                                      "drafting", "finishing", "recording"}
               PROVE  /\ Held(c) \in Aggregates /\ Kept(Held(c)) \in Aggregates
                      /\ Kept(Held(c)).status = Held(c).status
                      /\ Held(c).status # "pending"
                      /\ Active(c) /\ call[c].at # "idle"
  BY <1>1
<1>3. Held(c) \in Aggregates /\ Held(c).status # "pending"
  BY <1>1, <1>2 DEF Holding, Holds
<1>4. Kept(Held(c)) \in Aggregates /\ Kept(Held(c)).status = Held(c).status
  BY <1>3, Transitions DEF Kept, Row, Aggregates
<1> QED
  BY <1>2, <1>3, <1>4 DEF Active

\* In memory no call finds a run that another is starting.
LEMMA NoRaceInMemory ==
    ASSUME BaseInv, NEW c \in Calls, HasTurn(c), call[c].at = "finding", Overlaps(c)
    PROVE  store = "rows"
<1>1. PICK d \in Calls : Run(d) = Run(c) /\ call[d].at = "starting"
  BY DEF Overlaps
<1>2. Base(d) /\ store \in {"memory", "rows"} /\ d # c
  BY <1>1, BaseOf
<1>3. c # Nobody /\ d # Nobody
  BY ServiceAssumption DEF Nobody
<1> QED
  BY <1>1, <1>2, <1>3 DEF Base, Midway, HasTurn

LEMMA FindToStartBase ==
    ASSUME BaseInv, NEW c \in Calls, FindToStart(c)
    PROVE  BaseInv'
<1>1. call[c].at = "finding" /\ HasTurn(c) /\ UNCHANGED <<store, told>>
  BY DEF FindToStart
<1>2. /\ Run(c) \in Runs /\ TypeOK /\ store \in {"memory", "rows"}
      /\ store = "memory" => raced = {}
      /\ store = "rows" => turn = Nobody
  BY <1>1, BaseOf DEF BaseInv
<1>3. CASE Startable(Found(c))
  <2> DEFINE x == Start(Found(c))
  <2>1. /\ Change(c, x) /\ Goto(c, "starting") /\ Keep(c)
        /\ raced' = IF Overlaps(c) THEN raced \cup {Run(c)} ELSE raced
    BY <1>3 DEF FindToStart
  <2>2. Found(c) \in Aggregates
    BY <1>2, <1>3 DEF TypeOK, Found, Startable
  <2>3. x \in Aggregates /\ x.status = "running"
    BY <2>2, Transitions DEF Start, Aggregates
  <2>4. raced' \subseteq Runs /\ (store = "memory" => raced' = {})
    BY <1>1, <1>2, <2>1, NoRaceInMemory DEF TypeOK
  <2> HIDE DEF x
  <2> QED
    BY <1>1, <1>2, <2>1, <2>2, <2>3, <2>4, BaseChange
<1>4. CASE ~Startable(Found(c))
  <2>1. Goto(c, "refused") /\ turn' = Nobody /\ UNCHANGED <<saved, mine, raced>>
    BY <1>4 DEF FindToStart, GiveUp
  <2> QED
    BY <1>1, <1>2, <2>1, BasePlace
<1> QED
  BY <1>3, <1>4

\* The steps in which a call changes its aggregate.
LEMMA ChangeBase ==
    ASSUME BaseInv, NEW c \in Calls, LoadRun(c) \/ Analysed(c) \/ Reported(c) \/ FindToFail(c)
    PROVE  BaseInv'
<1>1. /\ HasTurn(c) /\ Keep(c) /\ UNCHANGED <<store, told, raced>>
      /\ call[c].at \in {"spawned", "analysed", "drafting", "failing"}
  BY DEF LoadRun, Analysed, Reported, FindToFail
<1>2. /\ Active(c) /\ Found(c) \in Aggregates /\ call[c].at # "idle"
      /\ raced' \subseteq Runs /\ (store = "memory" => raced' = {})
  BY <1>1, BaseOf DEF Active, BaseInv, TypeOK
<1>3. CASE LoadRun(c)
  <2> DEFINE x == [Found(c) EXCEPT !.status = "analyzing", !.progress = 20]
  <2>1. Change(c, x) /\ Goto(c, "analyzing")
    BY <1>3 DEF LoadRun
  <2>2. x \in Aggregates /\ x.status = "analyzing"
    BY <1>2 DEF Aggregates, Statuses, Progress
  <2> HIDE DEF x
  <2> QED
    BY <1>1, <1>2, <2>1, <2>2, BaseChange
<1>4. CASE Analysed(c)
  <2> DEFINE x == CompleteAnalysis(Held(c))
  <2>1. Change(c, x) /\ Goto(c, "reporting") /\ call[c].at = "analysed"
    BY <1>4 DEF Analysed
  <2>2. Held(c) \in Aggregates
    BY <2>1, HeldThere
  <2>3. x \in Aggregates /\ x.status = "reporting"
    BY <2>2, Transitions DEF CompleteAnalysis, Aggregates
  <2> HIDE DEF x
  <2> QED
    BY <1>1, <1>2, <2>1, <2>3, BaseChange
<1>5. CASE Reported(c)
  <2> DEFINE x == Complete(Held(c))
  <2>1. Change(c, x) /\ Goto(c, "finishing") /\ call[c].at = "drafting"
    BY <1>5 DEF Reported
  <2>2. Held(c) \in Aggregates
    BY <2>1, HeldThere
  <2>3. x \in Aggregates /\ x.status = "completed"
    BY <2>2, Transitions DEF Complete, Aggregates
  <2> HIDE DEF x
  <2> QED
    BY <1>1, <1>2, <2>1, <2>3, BaseChange
<1>6. CASE FindToFail(c)
  <2> DEFINE x == Fail(Found(c))
  <2>1. Change(c, x) /\ Goto(c, "recording")
    BY <1>6 DEF FindToFail
  <2>2. x \in Aggregates /\ x.status = "failed"
    BY <1>2, Transitions DEF Fail, Aggregates
  <2> HIDE DEF x
  <2> QED
    BY <1>1, <1>2, <2>1, <2>2, BaseChange
<1> QED
  BY <1>3, <1>4, <1>5, <1>6

\* The steps in which a call saves its aggregate.
LEMMA SaveBase ==
    ASSUME BaseInv, NEW c \in Calls,
           SaveStarted(c) \/ SaveAnalyzing(c) \/ SaveAnalysis(c) \/ SaveFailed(c)
    PROVE  BaseInv'
<1> DEFINE y == Kept(Held(c))
<1>1. /\ HasTurn(c) /\ UNCHANGED <<store, mine, told, raced>>
      /\ saved' = [saved EXCEPT ![Run(c)] = y]
  BY DEF SaveStarted, SaveAnalyzing, SaveAnalysis, SaveFailed, Save
<1>2. \/ call[c].at = "starting" /\ Goto(c, "spawned") /\ turn' = Nobody
      \/ /\ call[c].at = "analyzing" /\ Goto(c, "analysed")
         /\ turn' = IF store = "memory" THEN c ELSE Nobody
      \/ /\ call[c].at = "reporting" /\ Goto(c, "drafting")
         /\ turn' = IF store = "memory" THEN c ELSE Nobody
      \/ call[c].at = "recording" /\ Goto(c, "done") /\ turn' = Nobody
  BY DEF SaveStarted, SaveAnalyzing, SaveAnalysis, SaveFailed, Keep, GiveUp
<1>3. /\ y \in Aggregates /\ Held(c) \in Aggregates /\ y.status = Held(c).status
      /\ call[c].at # "idle" /\ Holding(c)
  BY <1>2, HeldThere
<1>4. store \in {"memory", "rows"} /\ told' \in [Runs -> Seq({"Started", "Completed"})]
  BY <1>1, BaseOf DEF TypeOK
<1> HIDE DEF y
<1>5. CASE call[c].at = "starting"
  BY <1>1, <1>2, <1>3, <1>4, <1>5, BaseSave
<1>6. CASE call[c].at = "analyzing"
  BY <1>1, <1>2, <1>3, <1>4, <1>6, BaseSave DEF Holding, Holds
<1>7. CASE call[c].at = "reporting"
  BY <1>1, <1>2, <1>3, <1>4, <1>7, BaseSave DEF Holding, Holds
<1>8. CASE call[c].at = "recording"
  BY <1>1, <1>2, <1>3, <1>4, <1>8, BaseSave
<1> QED
  BY <1>2, <1>5, <1>6, <1>7, <1>8

LEMMA SaveReportBase ==
    ASSUME BaseInv, NEW c \in Calls, SaveReport(c)
    PROVE  BaseInv'
<1> DEFINE y == [Kept(Held(c)) EXCEPT !.events = <<>>]
<1>1. /\ HasTurn(c) /\ UNCHANGED <<store, mine, raced>> /\ call[c].at = "finishing"
      /\ saved' = [saved EXCEPT ![Run(c)] = y] /\ turn' = Nobody /\ Goto(c, "done")
      /\ told' = [told EXCEPT ![Run(c)] = @ \o Held(c).events]
  BY DEF SaveReport, GiveUp
<1>2. /\ Held(c) \in Aggregates /\ Kept(Held(c)) \in Aggregates
      /\ Kept(Held(c)).status = Held(c).status /\ call[c].at # "idle"
  BY <1>1, HeldThere
<1>3. y \in Aggregates /\ y.status = Held(c).status
  <2>1. <<>> \in Seq({"Started", "Completed"})
    OBVIOUS
  <2> QED
    BY <1>2, <2>1 DEF Aggregates
<1>4. told' \in [Runs -> Seq({"Started", "Completed"})]
  <2>1. Held(c).events \in Seq({"Started", "Completed"}) /\ Run(c) \in Runs /\ TypeOK
    BY <1>1, <1>2, BaseOf DEF Aggregates
  <2>2. told[Run(c)] \o Held(c).events \in Seq({"Started", "Completed"})
    BY <2>1 DEF TypeOK
  <2> QED
    BY <1>1, <2>1, <2>2 DEF TypeOK
<1> HIDE DEF y
<1> QED
  BY <1>1, <1>2, <1>3, <1>4, BaseSave

LEMMA StepBase ==
    ASSUME BaseInv, [Next]_vars
    PROVE  BaseInv'
<1>1. CASE UNCHANGED vars
  BY <1>1 DEF vars, BaseInv, TypeOK, Base, Holding, Holds, Active, Found, Held, Run
<1>2. ASSUME NEW r \in Runs, CreateRun(r)
      PROVE  BaseInv'
  <2>1. /\ turn = Nobody /\ saved' = [saved EXCEPT ![r] = NewRun]
        /\ UNCHANGED <<store, call, mine, turn, told, raced>>
    BY <1>2 DEF CreateRun
  <2>2. TypeOK' /\ \A q \in Runs : saved'[q] = saved[q] \/ saved'[q] \in Aggregates
    BY <2>1, NewRunType DEF BaseInv, TypeOK
  <2>3. ASSUME NEW c \in Calls
        PROVE  Base(c)'
    <3>1. /\ Base(c) /\ call'[c] = call[c] /\ Run(c)' = Run(c) /\ Active(c)' = Active(c)
          /\ c # Nobody /\ mine'[c] = mine[c]
      BY <2>1, ServiceAssumption DEF BaseInv, Run, Active, Nobody
    <3>2. ~(store = "memory" /\ call[c].at \in Midway)
      BY <2>1, <3>1 DEF Base
    <3>3. Holding(c)'
      <4>1. CASE store = "memory"
        BY <3>1, <3>2, <4>1 DEF Holding, Midway
      <4>2. CASE store # "memory"
        <5>1. Held(c)' = Held(c)
          BY <2>1, <3>1, <4>2 DEF Held
        <5> QED
          BY <3>1, <5>1, ZenonT(60) DEF Base, Holding, Holds
      <4> QED
        BY <4>1, <4>2
    <3>4. Active(c) => Found(c)' \in Aggregates
      <4>1. Active(c) => Run(c) \in Runs /\ saved[Run(c)] \in Aggregates
        BY <3>1 DEF Base, Active, Found
      <4> QED
        BY <2>2, <3>1, <4>1 DEF Found
    <3> QED
      BY <2>1, <3>1, <3>2, <3>3, <3>4 DEF Base
  <2> QED
    BY <2>1, <2>2, <2>3 DEF BaseInv
<1>3. ASSUME NEW r \in Runs, NEW c \in Calls, CallStart(c, r)
      PROVE  BaseInv'
  <2>1. /\ turn = Nobody /\ call[c].at = "idle"
        /\ call' = [call EXCEPT ![c] = [at |-> "finding", run |-> r]]
        /\ turn' = IF store = "memory" THEN c ELSE Nobody
        /\ UNCHANGED <<store, saved, mine, told, raced>>
    BY <1>3 DEF CallStart, Keep
  <2>2. /\ TypeOK /\ store \in {"memory", "rows"}
        /\ call'[c].at = "finding" /\ call'[c].run = r
        /\ \A d \in Calls : d # c => call'[d] = call[d]
    BY <2>1, BaseOf DEF BaseInv, TypeOK
  <2>3. TypeOK'
    BY <2>1, <2>2 DEF TypeOK, Places
  <2>4. Base(c)'
    BY <2>1, <2>2 DEF Base, Active, Holding, Run
  <2>5. ASSUME NEW d \in Calls, d # c
        PROVE  Base(d)'
    <3>1. /\ Base(d) /\ call'[d] = call[d] /\ Run(d)' = Run(d) /\ Active(d)' = Active(d)
          /\ d # Nobody
      BY <2>1, <2>2, <2>5, ServiceAssumption DEF BaseInv, Run, Active, Nobody
    <3>2. ~(store = "memory" /\ call[d].at \in Midway)
      BY <2>1, <3>1 DEF Base
    <3>3. Held(d)' = Held(d) /\ Found(d)' = Found(d)
      BY <2>1, <3>1 DEF Held, Found
    <3>4. Holding(d)'
      BY <3>1, <3>3, ZenonT(60) DEF Base, Holding, Holds
    <3> QED
      BY <2>1, <3>1, <3>2, <3>3, <3>4 DEF Base
  <2> QED
    BY <2>1, <2>2, <2>3, <2>4, <2>5 DEF BaseInv
<1>4. ASSUME NEW c \in Calls, Raises(c)
      PROVE  BaseInv'
  <2>1. /\ HasTurn(c) /\ Goto(c, "failing") /\ UNCHANGED <<store, saved, mine, told, raced>>
        /\ turn' = IF store = "memory" THEN c ELSE Nobody
        /\ call[c].at \in {"analysed", "drafting", "analyzing", "reporting", "finishing"}
        /\ store \in {"memory", "rows"}
    BY <1>4, BaseOf DEF Raises, Keep
  <2> QED
    BY <2>1, BasePlace DEF Active
<1>5. ASSUME NEW c \in Calls, Stranded(c)
      PROVE  BaseInv'
  <2>1. /\ store = "rows" /\ call[c].at \notin {"idle", "refused", "done", "stranded"}
        /\ UNCHANGED <<store, saved, mine, turn, told, raced>> /\ turn = Nobody
    BY <1>5 DEF Stranded, BaseInv
  <2>2. CASE call[c].at \in {"finding", "starting"}
    BY <1>5, <2>1, <2>2, BasePlace DEF Stranded, HasTurn
  <2>3. CASE call[c].at \notin {"finding", "starting"}
    BY <1>5, <2>1, <2>3, BasePlace DEF Stranded, HasTurn, Active
  <2> QED
    BY <2>2, <2>3
<1>6. ASSUME NEW c \in Calls, TaskStep(c)
      PROVE  BaseInv'
  BY <1>4, <1>6, FindToStartBase, ChangeBase, SaveBase, SaveReportBase, ZenonT(60) DEF TaskStep
<1> QED
  BY SMTT(40), <1>1, <1>2, <1>3, <1>5, <1>6 DEF Next

LEMMA InitBase == Init => BaseInv
<1> SUFFICES ASSUME Init
             PROVE  BaseInv
  OBVIOUS
<1>1. \A c \in Calls : call[c].at = "idle"
  BY DEF Init
<1>2. <<>> \in Seq({"Started", "Completed"})
  OBVIOUS
<1>3. TypeOK
  BY <1>2 DEF Init, TypeOK, Places
<1>4. \A c \in Calls : Base(c)
  BY <1>1 DEF Base, Holding, Active, Midway
<1> QED
  BY <1>3, <1>4 DEF Init, BaseInv

LEMMA AlwaysBase == Spec => []BaseInv
BY InitBase, StepBase, PTL DEF Spec

\* The aggregates keep their shape, however the calls overlap.
THEOREM TypeCorrect == Spec => []TypeOK
<1>1. BaseInv => TypeOK
  BY DEF BaseInv
<1> QED
  BY AlwaysBase, <1>1, PTL

-----------------------------------------------------------------------------
(* A run that shows as under way has a pipeline at work on it. *)

UnderWay(run) == run.status \in {"running", "analyzing", "reporting"}

\* The call will move the run on, or was stopped while it did.
Responsible(c) == /\ Active(c) /\ call[c].at # "done"
                  /\ store = "rows" => call[c].at # "starting"

AllResponsible ==
    \A r \in Runs : UnderWay(saved[r]) => \E c \in Calls : Run(c) = r /\ Responsible(c)

\* A call that shows a run as under way is responsible for it, and stays so until it
\* has shown the outcome.
LEMMA StaysResponsible ==
    ASSUME BaseInv, NEW c \in Calls, TaskStep(c) \/ Stranded(c)
    PROVE  /\ Run(c) \in Runs /\ Run(c)' = Run(c) /\ store' = store
           /\ \A d \in Calls : d # c => call'[d] = call[d]
           /\ \A q \in Runs : q # Run(c) => saved'[q] = saved[q]
           /\ \/ Responsible(c)'
              \/ ~Responsible(c) /\ saved' = saved
              \/ ~UnderWay(saved'[Run(c)])
<1>1. call[c].at # "idle"
  BY DEF TaskStep, FindToStart, SaveStarted, LoadRun, SaveAnalyzing, Analysed, SaveAnalysis,
         Reported, SaveReport, Raises, FindToFail, SaveFailed, Stranded
<1>2. Run(c) \in Runs /\ TypeOK /\ store \in {"memory", "rows"}
  BY <1>1, BaseOf
<1>3. /\ \E place : Goto(c, place)
      /\ store' = store
      /\ saved' = saved \/ \E y : saved' = [saved EXCEPT ![Run(c)] = y]
  BY <1>2 DEF TaskStep, FindToStart, SaveStarted, LoadRun, SaveAnalyzing, Analysed, SaveAnalysis,
         Reported, SaveReport, Raises, FindToFail, SaveFailed, Stranded, Change, Save
<1>4. /\ Run(c)' = Run(c)
      /\ \A d \in Calls : d # c => call'[d] = call[d]
      /\ \A q \in Runs : q # Run(c) => saved'[q] = saved[q]
      /\ \A place : Goto(c, place) => call'[c].at = place
  BY <1>2, <1>3 DEF Goto, TypeOK, Run
<1>5. ASSUME NEW place, Goto(c, place),
             place \in {"spawned", "analyzing", "analysed", "reporting", "drafting", "finishing",
                        "failing", "recording", "stranded"}
      PROVE  Responsible(c)'
  BY <1>4, <1>5 DEF Responsible, Active
<1>6. CASE FindToStart(c)
  <2>1. call[c].at = "finding" /\ ~Responsible(c)
    BY <1>6 DEF FindToStart, Responsible, Active
  <2>2. CASE store = "memory" /\ Startable(Found(c))
    <3>1. call'[c].at = "starting" /\ store' = "memory"
      BY <1>3, <1>4, <1>6, <2>2 DEF FindToStart
    <3> QED
      BY <1>2, <1>3, <1>4, <3>1 DEF Responsible, Active
  <2>3. CASE ~(store = "memory" /\ Startable(Found(c)))
    <3>1. saved' = saved
      BY <1>6, <2>3 DEF FindToStart, Change
    <3> QED
      BY <1>2, <1>3, <1>4, <2>1, <3>1
  <2> QED
    BY <2>2, <2>3
<1>7. CASE SaveStarted(c) \/ LoadRun(c) \/ SaveAnalyzing(c) \/ Analysed(c) \/ SaveAnalysis(c)
           \/ Reported(c) \/ Raises(c) \/ FindToFail(c)
  <2>1. Responsible(c)'
    BY <1>5, <1>7 DEF SaveStarted, LoadRun, SaveAnalyzing, Analysed, SaveAnalysis, Reported,
                      Raises, FindToFail
  <2> QED
    BY <1>2, <1>3, <1>4, <2>1
<1>8. CASE SaveReport(c)
  <2>1. /\ saved' = [saved EXCEPT ![Run(c)] = [Kept(Held(c)) EXCEPT !.events = <<>>]]
        /\ call[c].at = "finishing"
    BY <1>8 DEF SaveReport
  <2>2. Kept(Held(c)).status = "completed" /\ Kept(Held(c)) \in Aggregates
    BY <2>1, HeldThere DEF Holding, Holds
  <2>3. saved'[Run(c)].status = "completed"
    BY <1>2, <2>1, <2>2 DEF TypeOK, Aggregates
  <2> QED
    BY <1>2, <1>3, <1>4, <2>3 DEF UnderWay
<1>9. CASE SaveFailed(c)
  <2>1. saved' = [saved EXCEPT ![Run(c)] = Kept(Held(c))] /\ call[c].at = "recording"
    BY <1>9 DEF SaveFailed, Save
  <2>2. Kept(Held(c)).status = "failed"
    BY <2>1, HeldThere DEF Holding, Holds
  <2>3. saved'[Run(c)].status = "failed"
    BY <1>2, <2>1, <2>2 DEF TypeOK
  <2> QED
    BY <1>2, <1>3, <1>4, <2>3 DEF UnderWay
<1>10. CASE Stranded(c)
  <2>1. store = "rows" /\ saved' = saved
    BY <1>10 DEF Stranded
  <2>2. CASE call[c].at \in {"finding", "starting"}
    <3>1. ~Responsible(c)
      BY <2>1, <2>2 DEF Responsible, Active
    <3> QED
      BY <1>2, <1>3, <1>4, <2>1, <3>1
  <2>3. CASE call[c].at \notin {"finding", "starting"}
    <3>1. Responsible(c)'
      BY <1>5, <1>10, <2>3 DEF Stranded
    <3> QED
      BY <1>2, <1>3, <1>4, <3>1
  <2> QED
    BY <2>2, <2>3
<1> QED
  BY <1>6, <1>7, <1>8, <1>9, <1>10 DEF TaskStep

LEMMA StepResponsible ==
    ASSUME BaseInv, AllResponsible, [Next]_vars
    PROVE  AllResponsible'
<1>1. CASE UNCHANGED vars
  BY <1>1 DEF vars, AllResponsible, Responsible, Active, Run
<1>2. ASSUME NEW r \in Runs, CreateRun(r)
      PROVE  AllResponsible'
  <2>1. /\ saved' = [saved EXCEPT ![r] = NewRun] /\ UNCHANGED <<store, call>>
        /\ saved \in [Runs -> Aggregates \cup {Absent}]
    BY <1>2 DEF CreateRun, BaseInv, TypeOK
  <2>2. \A q \in Runs : UnderWay(saved'[q]) => UnderWay(saved[q])
    BY <2>1 DEF UnderWay, NewRun
  <2>3. \A c \in Calls : Run(c)' = Run(c) /\ Responsible(c)' = Responsible(c)
    BY <2>1 DEF Run, Responsible, Active
  <2> QED
    BY <2>2, <2>3 DEF AllResponsible
<1>3. ASSUME NEW r \in Runs, NEW c \in Calls, CallStart(c, r)
      PROVE  AllResponsible'
  <2>1. /\ call[c].at = "idle" /\ UNCHANGED <<store, saved>>
        /\ \A d \in Calls : d # c => call'[d] = call[d]
    BY <1>3 DEF CallStart, BaseInv, TypeOK
  <2>2. \A d \in Calls : Responsible(d) => Run(d)' = Run(d) /\ Responsible(d)'
    BY <2>1 DEF Run, Responsible, Active
  <2> QED
    BY <2>1, <2>2 DEF AllResponsible
<1>4. ASSUME NEW c \in Calls, TaskStep(c) \/ Stranded(c)
      PROVE  AllResponsible'
  <2> SUFFICES ASSUME NEW r \in Runs, UnderWay(saved'[r])
               PROVE  \E d \in Calls : Run(d)' = r /\ Responsible(d)'
    BY DEF AllResponsible
  <2>1. /\ Run(c) \in Runs /\ Run(c)' = Run(c) /\ store' = store
        /\ \A d \in Calls : d # c => call'[d] = call[d]
        /\ \A q \in Runs : q # Run(c) => saved'[q] = saved[q]
        /\ \/ Responsible(c)'
           \/ ~Responsible(c) /\ saved' = saved
           \/ ~UnderWay(saved'[Run(c)])
    BY <1>4, StaysResponsible
  <2>2. \A d \in Calls : d # c => Run(d)' = Run(d) /\ Responsible(d)' = Responsible(d)
    BY <2>1 DEF Run, Responsible, Active
  <2>3. CASE r = Run(c) /\ Responsible(c)'
    BY <2>1, <2>3
  <2>4. CASE ~(r = Run(c) /\ Responsible(c)')
    <3>1. UnderWay(saved[r]) /\ (r # Run(c) \/ ~Responsible(c))
      BY <2>1, <2>4
    <3>2. PICK d \in Calls : Run(d) = r /\ Responsible(d)
      BY <3>1 DEF AllResponsible
    <3> QED
      BY <2>2, <3>1, <3>2
  <2> QED
    BY <2>3, <2>4
<1> QED
  BY <1>1, <1>2, <1>3, <1>4 DEF Next

\* A run that shows as under way is worked on, or its pipeline ended where nothing could
\* record it: whatever the number of calls, and whether or not they raced for the run.
THEOREM UnderWayHasPipeline == Spec => []UnderWayIsWorkedOn
<1>1. Init => AllResponsible
  BY DEF Init, AllResponsible, UnderWay, Absent
<1>2. AllResponsible => UnderWayIsWorkedOn
  BY DEF AllResponsible, UnderWayIsWorkedOn, UnderWay, Responsible, AtWorkOn, Executing, Active
<1> QED
  BY AlwaysBase, StepResponsible, <1>1, <1>2, PTL DEF Spec

-----------------------------------------------------------------------------
(* A step of one call disturbs neither the other calls nor the other runs. *)

LEMMA Moved ==
    ASSUME IInv, BaseInv', NEW c \in Calls, call[c].at # "idle", Run(c) \in Runs,
           NEW place \in Places, place # "idle",
           call' = [call EXCEPT ![c].at = place], store' = store,
           \A q \in Runs : q # Run(c) => saved'[q] = saved[q] /\ told'[q] = told[q],
           \A d \in Calls : d # c => mine'[d] = mine[d],
           raced \subseteq raced', raced' \subseteq raced \cup {Run(c)},
           \/ Run(c) \in raced'
           \/ /\ CallInv(c)' /\ RunInv(Run(c))'
              /\ \A d \in Calls : Active(d) /\ Run(d) = Run(c) /\ d # c
                                     => place = "refused" /\ saved' = saved
    PROVE  IInv'
<1>1. /\ call'[c].at = place /\ call'[c].run = call[c].run
      /\ \A d \in Calls : d # c => call'[d] = call[d]
      /\ \A d \in Calls : call'[d].run = call[d].run
  BY DEF IInv, BaseInv, TypeOK
<1>2. ASSUME NEW d \in Calls, d # c
      PROVE  CallInv(d)'
  <2>1. call'[d] = call[d] /\ mine'[d] = mine[d] /\ CallInv(d)
    BY <1>1, <1>2 DEF IInv
  <2>2. Active(d)' = Active(d) /\ Run(d)' = Run(d)
    BY <2>1 DEF Active, Run
  <2> SUFFICES ASSUME Active(d), Run(d) \notin raced'
               PROVE  HeldAs(d)' /\ SavedAs(d)' /\ EventsAs(d)'
    BY <2>2 DEF CallInv
  <2>3. Found(d)' = Found(d) /\ Held(d)' = Held(d)
    <3>1. Run(d) \in Runs /\ (Run(d) # Run(c) \/ saved' = saved)
      BY <1>2, BaseOf DEF IInv
    <3>2. saved'[Run(d)] = saved[Run(d)] /\ Run(d)' = Run(d)
      BY <2>2, <3>1
    <3>3. Found(d)' = saved'[Run(d)']
      BY DEF Found
    <3>4. Held(d)' = IF store = "memory" THEN saved'[Run(d)'] ELSE mine'[d]
      BY DEF Held
    <3>5. Found(d) = saved[Run(d)] /\ Held(d) = IF store = "memory" THEN saved[Run(d)] ELSE mine[d]
      BY DEF Found, Held
    <3> QED
      BY <2>1, <3>2, <3>3, <3>4, <3>5
  <2>4. HeldAs(d) /\ SavedAs(d) /\ EventsAs(d)
    BY <2>1 DEF CallInv
  <2>5. call'[d] = call[d] /\ Found(d)' = Found(d) /\ Held(d)' = Held(d)
    BY <2>1, <2>3
  <2>6. HeldAs(d)'
    BY <2>4, <2>5, ZenonT(60) DEF HeldAs, Is
  <2>7. SavedAs(d)'
    BY <2>4, <2>5, ZenonT(60) DEF SavedAs, Is, AtWork
  <2>8. EventsAs(d)'
    BY <2>4, <2>5 DEF EventsAs
  <2> QED
    BY <2>6, <2>7, <2>8
<1>3. CallInv(c)'
  <2>1. Run(c)' = Run(c)
    BY <1>1 DEF Run
  <2> QED
    BY <2>1 DEF CallInv
<1>4. ASSUME NEW q \in Runs, q \notin raced'
      PROVE  RunInv(q)'
  <2>1. CASE q # Run(c)
    <3>1. saved'[q] = saved[q] /\ told'[q] = told[q] /\ RunInv(q)
      BY <1>4, <2>1 DEF IInv
    <3>2. \A d \in Calls : Run(d)' = q => d # c
      BY <1>1, <2>1 DEF Run
    <3>3. \A d \in Calls : Active(d)' /\ Run(d)' = q
                             => Active(d) /\ Run(d) = q /\ call'[d] = call[d]
      BY <1>1, <3>2 DEF Active, Run
    <3> QED
      BY <3>1, <3>3 DEF RunInv
  <2>2. CASE q = Run(c)
    <3>1. RunInv(Run(c))'
      BY <1>4, <2>2
    <3>2. Run(c)' = q
      BY <1>1, <2>2 DEF Run
    <3> QED
      BY <3>1, <3>2
  <2> QED
    BY <2>1, <2>2
<1>5. Alone'
  <2> SUFFICES ASSUME NEW d \in Calls, NEW e \in Calls, Active(d)', Active(e)',
                      Run(d)' = Run(e)', Run(d)' \notin raced'
               PROVE  d = e
    BY DEF Alone
  <2>1. Run(d) = Run(e) /\ Run(d) \notin raced'
    BY <1>1 DEF Run
  <2>2. /\ (d # c => Active(d)) /\ (e # c => Active(e))
        /\ (d = c \/ e = c) => place # "refused"
    BY <1>1 DEF Active
  <2> QED
    BY <2>1, <2>2 DEF IInv, Alone
<1> QED
  BY <1>2, <1>3, <1>4, <1>5 DEF IInv

\* A call works alone on a run that no other call raced for.
LEMMA Here ==
    ASSUME IInv, NEW c \in Calls, call[c].at # "idle", Run(c) \notin raced
    PROVE  /\ Run(c) \in Runs
           /\ CallInv(c) /\ RunInv(Run(c)) /\ TypeOK /\ BaseInv
           /\ Active(c) => /\ \A d \in Calls : Active(d) /\ Run(d) = Run(c) => d = c
                           /\ HeldAs(c) /\ SavedAs(c) /\ EventsAs(c)
           /\ store \in {"memory", "rows"}
           /\ store = "rows" => turn = Nobody
BY DEF IInv, BaseInv, Base, CallInv, Alone, TypeOK, Stores

\* A pending run that nobody else is starting has no pipeline at work on it.
LEMMA PendingIsFree ==
    ASSUME IInv, NEW c \in Calls, NEW d \in Calls, call[c].at = "finding", Active(d),
           Run(d) = Run(c), Run(c) \notin raced, Found(c).status = "pending", ~Overlaps(c)
    PROVE  FALSE
<1>1. Found(d) = Found(c) /\ (store = "memory" => Held(d) = Found(d))
  BY DEF Found, Held
<1>2. HeldAs(d) /\ SavedAs(d) /\ call[d].at \in Places /\ store \in {"memory", "rows"}
  BY DEF IInv, BaseInv, CallInv, TypeOK, Stores
<1>3. call[d].at # "starting"
  BY DEF Overlaps
<1> QED
  BY <1>1, <1>2, <1>3 DEF HeldAs, SavedAs, Active, Places, Is, AtWork

\* A call changes the aggregate it works on.
LEMMA ChangeStep ==
    ASSUME IInv, BaseInv', NEW c \in Calls, call[c].at # "idle", Run(c) \notin raced,
           \A d \in Calls : Active(d) /\ Run(d) = Run(c) => d = c,
           told[Run(c)] = <<>>,
           NEW x \in Aggregates, Change(c, x), x.status # "pending",
           NEW place \in Places, place \notin {"idle", "finding", "refused"},
           Goto(c, place), UNCHANGED <<store, told, raced>>,
           HeldAs(c)', SavedAs(c)', EventsAs(c)'
    PROVE  IInv'
<1>1. /\ Run(c) \in Runs /\ RunInv(Run(c)) /\ TypeOK /\ store \in {"memory", "rows"}
  BY Here
<1>2. /\ \A q \in Runs : q # Run(c) => saved'[q] = saved[q]
      /\ \A d \in Calls : d # c => mine'[d] = mine[d]
      /\ Run(c)' = Run(c)
      /\ call' = [call EXCEPT ![c].at = place]
      /\ Found(c)' = IF store = "memory" THEN x ELSE Found(c)
  BY <1>1, Changed
<1>3. CallInv(c)'
  BY DEF CallInv
<1>4. saved'[Run(c)] = IF store = "memory" THEN x ELSE saved[Run(c)]
  BY <1>2 DEF Found
<1>5. (RunInv(Run(c)))'
  BY <1>1, <1>2, <1>4 DEF RunInv
<1> QED
  BY <1>1, <1>2, <1>3, <1>5, Moved

\* A call saves the aggregate it works on.
LEMMA SaveStep ==
    ASSUME IInv, BaseInv', NEW c \in Calls, Active(c), call[c].at # "done", Run(c) \notin raced,
           Held(c) \in Aggregates, Held(c).status # "pending", Save(c),
           NEW place \in Places, place \notin {"idle", "finding", "refused"},
           Goto(c, place), UNCHANGED <<store, mine, told, raced>>,
           HeldAs(c)', SavedAs(c)', EventsAs(c)'
    PROVE  IInv'
<1> DEFINE y == Kept(Held(c))
<1>1. /\ Run(c) \in Runs /\ RunInv(Run(c)) /\ TypeOK /\ store \in {"memory", "rows"}
      /\ \A d \in Calls : Active(d) /\ Run(d) = Run(c) => d = c
      /\ call[c].at # "idle"
  BY Here DEF Active
<1>2. y \in Aggregates /\ saved' = [saved EXCEPT ![Run(c)] = y]
  BY Transitions DEF Save
<1>3. /\ y.status = Held(c).status /\ (store = "memory" => y = Held(c))
      /\ store = "rows" => y.events = <<>>
  BY <1>1 DEF Kept, Row, Aggregates
<1> HIDE DEF y
<1>4. /\ \A q \in Runs : q # Run(c) => saved'[q] = saved[q]
      /\ \A d \in Calls : d # c => mine'[d] = mine[d]
      /\ Run(c)' = Run(c)
      /\ call' = [call EXCEPT ![c].at = place]
      /\ Found(c)' = y
  BY <1>1, <1>2, Saved
<1>5. CallInv(c)'
  BY DEF CallInv
<1>6. saved'[Run(c)] = y
  BY <1>4 DEF Found
<1>7. told[Run(c)] = <<>>
  BY <1>1 DEF RunInv
<1>8. (RunInv(Run(c)))'
  BY <1>1, <1>3, <1>4, <1>6, <1>7 DEF RunInv
<1> QED
  BY <1>1, <1>4, <1>5, <1>8, Moved

\* A call that leaves the saved runs and its aggregate as they are.
LEMMA PlaceStep ==
    ASSUME IInv, BaseInv', NEW c \in Calls, call[c].at # "idle", call[c].at # "done",
           Run(c) \notin raced,
           NEW place \in Places, place \notin {"idle", "done"}, Goto(c, place),
           Active(c) \/ place = "refused",
           UNCHANGED <<store, saved, mine, told, raced>>,
           place # "refused" => (HeldAs(c) /\ SavedAs(c) /\ EventsAs(c))'
    PROVE  IInv'
<1>1. /\ Run(c) \in Runs /\ RunInv(Run(c)) /\ TypeOK
      /\ Active(c) => \A d \in Calls : Active(d) /\ Run(d) = Run(c) => d = c
  BY Here
<1>2. /\ call' = [call EXCEPT ![c].at = place]
      /\ call'[c].at = place /\ Run(c)' = Run(c)
      /\ \A d \in Calls : d # c => call'[d] = call[d]
  BY <1>1 DEF Goto, TypeOK, Run
<1>3. CallInv(c)'
  BY <1>2 DEF CallInv, Active
<1>4. \A d \in Calls : Active(d)' /\ Run(d)' = Run(c) /\ d # c
                         => Active(d) /\ Run(d) = Run(c) /\ call'[d] = call[d]
  BY <1>2 DEF Active, Run
<1>5. Active(c)' => Active(c)
  BY <1>2 DEF Active
<1>6. RunInv(Run(c))'
  BY <1>1, <1>2, <1>4, <1>5 DEF RunInv
<1> QED
  BY <1>1, <1>2, <1>3, <1>6, Moved

-----------------------------------------------------------------------------
(* The steps of a call. *)

LEMMA LoadRunStep ==
    ASSUME IInv, BaseInv', NEW c \in Calls, LoadRun(c), Run(c) \notin raced
    PROVE  IInv'
<1> DEFINE x == [Found(c) EXCEPT !.status = "analyzing", !.progress = 20]
<1>1. /\ call[c].at = "spawned" /\ HasTurn(c) /\ Change(c, x) /\ Goto(c, "analyzing")
      /\ Keep(c) /\ UNCHANGED <<store, told, raced>>
  BY DEF LoadRun
<1>2. /\ Run(c) \in Runs /\ RunInv(Run(c)) /\ TypeOK /\ CallInv(c) /\ Active(c)
      /\ \A d \in Calls : Active(d) /\ Run(d) = Run(c) => d = c
      /\ store \in {"memory", "rows"}
  BY <1>1, Here DEF Active
<1>3. Is(Found(c), "running", 0) /\ told[Run(c)] = <<>>
  BY <1>1, <1>2 DEF CallInv, SavedAs, RunInv
<1>4. x \in Aggregates /\ Is(x, "analyzing", 20) /\ x.events = Found(c).events
  BY <1>3 DEF Is, Aggregates, Statuses, Progress
<1>5. Found(c).events = IF store = "memory" THEN <<"Started">> ELSE <<>>
  <2>1. store = "memory" => Found(c).events = <<"Started">>
    BY <1>1, <1>2 DEF CallInv, EventsAs, Held, Found
  <2>2. store = "rows" => Found(c).events = <<>>
    BY <1>2, <1>3, Transitions DEF RunInv, Found, Is
  <2> QED
    BY <1>2, <2>1, <2>2
<1> HIDE DEF x
<1>6. /\ Held(c)' = x /\ call'[c].at = "analyzing"
      /\ Found(c)' = IF store = "memory" THEN x ELSE Found(c)
  BY <1>1, <1>2, <1>4, Changed DEF Places
<1>7. HeldAs(c)' /\ SavedAs(c)' /\ EventsAs(c)'
  BY <1>1, <1>2, <1>3, <1>4, <1>5, <1>6 DEF HeldAs, SavedAs, EventsAs, Is
<1> QED
  BY <1>1, <1>2, <1>3, <1>4, <1>7, ChangeStep DEF Places, Is

LEMMA FindToStartStep ==
    ASSUME IInv, BaseInv', NEW c \in Calls, FindToStart(c), Run(c) \notin raced'
    PROVE  IInv'
<1>1. /\ call[c].at = "finding" /\ UNCHANGED <<store, told>>
      /\ Run(c) \notin raced /\ raced' = raced
      /\ Startable(Found(c)) => ~Overlaps(c)
  BY DEF FindToStart
<1>2. /\ Run(c) \in Runs /\ RunInv(Run(c)) /\ TypeOK /\ CallInv(c)
      /\ store \in {"memory", "rows"}
  BY <1>1, Here
<1>3. CASE Startable(Found(c))
  <2> DEFINE x == Start(Found(c))
  <2>1. /\ Change(c, x) /\ Goto(c, "starting")
        /\ Found(c) # Absent /\ Found(c).status = "pending"
    BY <1>3 DEF FindToStart, Startable
  <2>2. /\ Found(c) \in Aggregates /\ Found(c).progress = 0 /\ ~Found(c).report
        /\ Found(c).events = <<>> /\ told[Run(c)] = <<>>
    BY <1>2, <2>1 DEF TypeOK, Found, RunInv
  <2>3. \A d \in Calls : Active(d) /\ Run(d) = Run(c) => d = c
    BY <1>1, <1>3, <2>1, PendingIsFree
  <2>4. x \in Aggregates /\ Is(x, "running", 0) /\ x.events = <<"Started">>
    <3>1. x \in Aggregates
      BY <2>2, Transitions
    <3>2. /\ x.status = "running" /\ x.progress = Found(c).progress
          /\ x.report = Found(c).report /\ x.events = Append(Found(c).events, "Started")
      BY <2>2 DEF Start, Aggregates
    <3>3. Append(<<>>, "Started") = <<"Started">>
      OBVIOUS
    <3>4. Found(c).report \in BOOLEAN
      BY <2>2 DEF Aggregates
    <3> QED
      BY <2>2, <3>1, <3>2, <3>3, <3>4 DEF Is
  <2> HIDE DEF x
  <2>5. /\ Held(c)' = x /\ call'[c].at = "starting"
        /\ Found(c)' = IF store = "memory" THEN x ELSE Found(c)
    BY <1>1, <1>2, <2>1, <2>4, Changed DEF Places
  <2>6. HeldAs(c)' /\ SavedAs(c)' /\ EventsAs(c)'
    BY <1>1, <1>2, <2>1, <2>2, <2>4, <2>5 DEF HeldAs, SavedAs, EventsAs, Is, Aggregates
  <2> QED
    BY <1>1, <2>1, <2>2, <2>3, <2>4, <2>6, ChangeStep DEF Places, Is
<1>4. CASE ~Startable(Found(c))
  <2>1. Goto(c, "refused") /\ UNCHANGED <<saved, mine, store, told, raced>>
    BY <1>1, <1>4 DEF FindToStart
  <2> QED
    BY <1>1, <2>1, PlaceStep DEF Places
<1> QED
  BY <1>3, <1>4

LEMMA SaveStartedStep ==
    ASSUME IInv, BaseInv', NEW c \in Calls, SaveStarted(c), Run(c) \notin raced
    PROVE  IInv'
<1>1. /\ call[c].at = "starting" /\ HasTurn(c) /\ Save(c) /\ Goto(c, "spawned")
      /\ turn' = Nobody /\ UNCHANGED <<store, mine, told, raced>>
  BY DEF SaveStarted, GiveUp
<1>2. /\ Run(c) \in Runs /\ TypeOK /\ CallInv(c) /\ Active(c) /\ store \in {"memory", "rows"}
  BY <1>1, Here DEF Active
<1>3. HeldAs(c) /\ SavedAs(c) /\ EventsAs(c)
  BY <1>2 DEF CallInv
<1> DEFINE y == Kept(Held(c))
<1>4. /\ Held(c) \in Aggregates /\ Held(c).status = "running" /\ y \in Aggregates
      /\ saved' = [saved EXCEPT ![Run(c)] = y]
      /\ y.status = Held(c).status /\ y.progress = Held(c).progress
      /\ y.report = Held(c).report /\ (store = "memory" => y = Held(c))
  BY <1>1, <1>2, <1>3, Transitions DEF HeldAs, Is, Save, Kept, Row, Aggregates
<1> HIDE DEF y
<1>5. Held(c)' = Held(c) /\ Found(c)' = y /\ call'[c].at = "spawned"
  BY <1>1, <1>2, <1>4, Saved DEF Places
<1>6. HeldAs(c)' /\ SavedAs(c)' /\ EventsAs(c)'
  BY <1>1, <1>2, <1>3, <1>4, <1>5 DEF HeldAs, SavedAs, EventsAs, Is, AtWork
<1> QED
  BY <1>1, <1>2, <1>4, <1>6, SaveStep DEF Places, Midway, CallInv

LEMMA SaveAnalyzingStep ==
    ASSUME IInv, BaseInv', NEW c \in Calls, SaveAnalyzing(c), Run(c) \notin raced
    PROVE  IInv'
<1>1. /\ call[c].at = "analyzing" /\ HasTurn(c) /\ Save(c) /\ Goto(c, "analysed")
      /\ UNCHANGED <<store, mine, told, raced>>
      /\ turn' = IF store = "memory" THEN c ELSE Nobody
  BY DEF SaveAnalyzing, Keep
<1>2. /\ Run(c) \in Runs /\ TypeOK /\ CallInv(c) /\ Active(c) /\ store \in {"memory", "rows"}
  BY <1>1, Here DEF Active
<1>3. HeldAs(c) /\ SavedAs(c) /\ EventsAs(c)
  BY <1>2 DEF CallInv
<1> DEFINE y == Kept(Held(c))
<1>4. /\ Held(c) \in Aggregates /\ Held(c).status = "analyzing" /\ y \in Aggregates
      /\ saved' = [saved EXCEPT ![Run(c)] = y]
      /\ y.status = Held(c).status /\ y.progress = Held(c).progress
      /\ y.report = Held(c).report /\ (store = "memory" => y = Held(c))
  BY <1>1, <1>2, <1>3, Transitions DEF HeldAs, Is, Save, Kept, Row, Aggregates
<1> HIDE DEF y
<1>5. Held(c)' = Held(c) /\ Found(c)' = y /\ call'[c].at = "analysed"
  BY <1>1, <1>2, <1>4, Saved DEF Places
<1>6. HeldAs(c)' /\ SavedAs(c)' /\ EventsAs(c)'
  BY <1>1, <1>2, <1>3, <1>4, <1>5 DEF HeldAs, SavedAs, EventsAs, Is, AtWork
<1> QED
  BY <1>1, <1>2, <1>4, <1>6, SaveStep DEF Places, Midway, CallInv

LEMMA SaveAnalysisStep ==
    ASSUME IInv, BaseInv', NEW c \in Calls, SaveAnalysis(c), Run(c) \notin raced
    PROVE  IInv'
<1>1. /\ call[c].at = "reporting" /\ HasTurn(c) /\ Save(c) /\ Goto(c, "drafting")
      /\ UNCHANGED <<store, mine, told, raced>>
      /\ turn' = IF store = "memory" THEN c ELSE Nobody
  BY DEF SaveAnalysis, Keep
<1>2. /\ Run(c) \in Runs /\ TypeOK /\ CallInv(c) /\ Active(c) /\ store \in {"memory", "rows"}
  BY <1>1, Here DEF Active
<1>3. HeldAs(c) /\ SavedAs(c) /\ EventsAs(c)
  BY <1>2 DEF CallInv
<1> DEFINE y == Kept(Held(c))
<1>4. /\ Held(c) \in Aggregates /\ Held(c).status = "reporting" /\ y \in Aggregates
      /\ saved' = [saved EXCEPT ![Run(c)] = y]
      /\ y.status = Held(c).status /\ y.progress = Held(c).progress
      /\ y.report = Held(c).report /\ (store = "memory" => y = Held(c))
  BY <1>1, <1>2, <1>3, Transitions DEF HeldAs, Is, Save, Kept, Row, Aggregates
<1> HIDE DEF y
<1>5. Held(c)' = Held(c) /\ Found(c)' = y /\ call'[c].at = "drafting"
  BY <1>1, <1>2, <1>4, Saved DEF Places
<1>6. HeldAs(c)' /\ SavedAs(c)' /\ EventsAs(c)'
  BY <1>1, <1>2, <1>3, <1>4, <1>5 DEF HeldAs, SavedAs, EventsAs, Is, AtWork
<1> QED
  BY <1>1, <1>2, <1>4, <1>6, SaveStep DEF Places, Midway, CallInv

LEMMA SaveFailedStep ==
    ASSUME IInv, BaseInv', NEW c \in Calls, SaveFailed(c), Run(c) \notin raced
    PROVE  IInv'
<1>1. /\ call[c].at = "recording" /\ HasTurn(c) /\ Save(c) /\ Goto(c, "done")
      /\ turn' = Nobody /\ UNCHANGED <<store, mine, told, raced>>
  BY DEF SaveFailed, GiveUp
<1>2. /\ Run(c) \in Runs /\ TypeOK /\ CallInv(c) /\ Active(c) /\ store \in {"memory", "rows"}
  BY <1>1, Here DEF Active
<1>3. HeldAs(c) /\ SavedAs(c) /\ EventsAs(c)
  BY <1>2 DEF CallInv
<1> DEFINE y == Kept(Held(c))
<1>4. /\ Held(c) \in Aggregates /\ Held(c).status = "failed" /\ y \in Aggregates
      /\ saved' = [saved EXCEPT ![Run(c)] = y]
      /\ y.status = Held(c).status /\ y.progress = Held(c).progress
      /\ y.report = Held(c).report /\ (store = "memory" => y = Held(c))
  BY <1>1, <1>2, <1>3, Transitions DEF HeldAs, Is, Save, Kept, Row, Aggregates
<1> HIDE DEF y
<1>5. Held(c)' = Held(c) /\ Found(c)' = y /\ call'[c].at = "done"
  BY <1>1, <1>2, <1>4, Saved DEF Places
<1>6. HeldAs(c)' /\ SavedAs(c)' /\ EventsAs(c)'
  BY <1>1, <1>2, <1>3, <1>4, <1>5 DEF HeldAs, SavedAs, EventsAs, Is, AtWork
<1> QED
  BY <1>1, <1>2, <1>4, <1>6, SaveStep DEF Places, Midway, CallInv

LEMMA AnalysedStep ==
    ASSUME IInv, BaseInv', NEW c \in Calls, Analysed(c), Run(c) \notin raced
    PROVE  IInv'
<1> DEFINE x == CompleteAnalysis(Held(c))
<1>1. /\ call[c].at = "analysed" /\ HasTurn(c) /\ Change(c, x) /\ Goto(c, "reporting")
      /\ Keep(c) /\ UNCHANGED <<store, told, raced>>
  BY DEF Analysed
<1>2. /\ Run(c) \in Runs /\ RunInv(Run(c)) /\ TypeOK /\ CallInv(c) /\ Active(c)
      /\ \A d \in Calls : Active(d) /\ Run(d) = Run(c) => d = c
      /\ store \in {"memory", "rows"}
  BY <1>1, Here DEF Active
<1>3. HeldAs(c) /\ SavedAs(c) /\ EventsAs(c) /\ told[Run(c)] = <<>>
  BY <1>1, <1>2 DEF CallInv, RunInv
<1>4. /\ x \in Aggregates /\ Is(x, "reporting", 80) /\ x.events = Held(c).events
  <2>1. Held(c) \in Aggregates /\ ~Held(c).report
    BY <1>1, <1>3 DEF HeldAs, Is
  <2> QED
    BY <2>1, Transitions DEF CompleteAnalysis, Is, Aggregates
<1> HIDE DEF x
<1>5. /\ Held(c)' = x /\ call'[c].at = "reporting"
      /\ Found(c)' = IF store = "memory" THEN x ELSE Found(c)
  BY <1>1, <1>2, <1>4, Changed DEF Places
<1>6. HeldAs(c)' /\ SavedAs(c)' /\ EventsAs(c)'
  BY <1>1, <1>2, <1>3, <1>4, <1>5 DEF HeldAs, SavedAs, EventsAs
<1> QED
  BY <1>1, <1>2, <1>3, <1>4, <1>6, ChangeStep DEF Places, Is

LEMMA ReportedStep ==
    ASSUME IInv, BaseInv', NEW c \in Calls, Reported(c), Run(c) \notin raced
    PROVE  IInv'
<1> DEFINE x == Complete(Held(c))
<1>1. /\ call[c].at = "drafting" /\ HasTurn(c) /\ Change(c, x) /\ Goto(c, "finishing")
      /\ Keep(c) /\ UNCHANGED <<store, told, raced>>
  BY DEF Reported
<1>2. /\ Run(c) \in Runs /\ RunInv(Run(c)) /\ TypeOK /\ CallInv(c) /\ Active(c)
      /\ \A d \in Calls : Active(d) /\ Run(d) = Run(c) => d = c
      /\ store \in {"memory", "rows"}
  BY <1>1, Here DEF Active
<1>3. HeldAs(c) /\ SavedAs(c) /\ EventsAs(c) /\ told[Run(c)] = <<>>
  BY <1>1, <1>2 DEF CallInv, RunInv
<1>4. x \in Aggregates /\ Is(x, "completed", 100) /\ x.events = Append(Held(c).events, "Completed")
  <2>1. Held(c) \in Aggregates
    BY <1>1, <1>3 DEF HeldAs, Is
  <2> QED
    BY <2>1, Transitions DEF Complete, Is, Aggregates
<1>5. x.events = IF store = "memory" THEN <<"Started", "Completed">> ELSE <<"Completed">>
  <2>1. Held(c).events = IF store = "memory" THEN <<"Started">> ELSE <<>>
    BY <1>1, <1>2, <1>3 DEF EventsAs
  <2>2. Append(<<>>, "Completed") = <<"Completed">>
    OBVIOUS
  <2> QED
    BY <1>4, <2>1, <2>2, BothEvents
<1> HIDE DEF x
<1>6. /\ Held(c)' = x /\ call'[c].at = "finishing"
      /\ Found(c)' = IF store = "memory" THEN x ELSE Found(c)
  BY <1>1, <1>2, <1>4, Changed DEF Places
<1>7. HeldAs(c)' /\ SavedAs(c)' /\ EventsAs(c)'
  BY <1>1, <1>2, <1>3, <1>4, <1>5, <1>6 DEF HeldAs, SavedAs, EventsAs
<1> QED
  BY <1>1, <1>2, <1>3, <1>4, <1>7, ChangeStep DEF Places, Is

LEMMA FindToFailStep ==
    ASSUME IInv, BaseInv', NEW c \in Calls, FindToFail(c), Run(c) \notin raced
    PROVE  IInv'
<1> DEFINE x == Fail(Found(c))
<1>1. /\ call[c].at = "failing" /\ HasTurn(c) /\ Change(c, x) /\ Goto(c, "recording")
      /\ Keep(c) /\ UNCHANGED <<store, told, raced>>
  BY DEF FindToFail
<1>2. /\ Run(c) \in Runs /\ RunInv(Run(c)) /\ TypeOK /\ CallInv(c) /\ Active(c)
      /\ \A d \in Calls : Active(d) /\ Run(d) = Run(c) => d = c
      /\ store \in {"memory", "rows"}
  BY <1>1, Here DEF Active
<1>3. AtWork(Found(c)) /\ told[Run(c)] = <<>>
  BY <1>1, <1>2 DEF CallInv, SavedAs, RunInv
<1>4. /\ x \in Aggregates /\ x.status = "failed" /\ x.progress = Found(c).progress
      /\ x.report = Found(c).report
  BY <1>3, Transitions DEF AtWork, Fail, Aggregates
<1> HIDE DEF x
<1>5. /\ Held(c)' = x /\ call'[c].at = "recording"
      /\ Found(c)' = IF store = "memory" THEN x ELSE Found(c)
  BY <1>1, <1>2, <1>4, Changed DEF Places
<1>6. HeldAs(c)' /\ SavedAs(c)' /\ EventsAs(c)'
  BY <1>1, <1>2, <1>3, <1>4, <1>5 DEF HeldAs, SavedAs, EventsAs, AtWork
<1> QED
  BY <1>1, <1>2, <1>3, <1>4, <1>6, ChangeStep DEF Places

\* The last save, after which the events are told.
LEMMA SaveReportStep ==
    ASSUME IInv, BaseInv', NEW c \in Calls, SaveReport(c), Run(c) \notin raced
    PROVE  IInv'
<1> DEFINE y == [Kept(Held(c)) EXCEPT !.events = <<>>]
<1>1. /\ call[c].at = "finishing" /\ HasTurn(c) /\ Goto(c, "done") /\ turn' = Nobody
      /\ saved' = [saved EXCEPT ![Run(c)] = y]
      /\ told' = [told EXCEPT ![Run(c)] = @ \o Held(c).events]
      /\ UNCHANGED <<store, mine, raced>>
  BY DEF SaveReport, GiveUp
<1>2. /\ Run(c) \in Runs /\ RunInv(Run(c)) /\ TypeOK /\ CallInv(c) /\ Active(c)
      /\ \A d \in Calls : Active(d) /\ Run(d) = Run(c) => d = c
      /\ store \in {"memory", "rows"} /\ call[c].at # "idle"
  BY <1>1, Here DEF Active
<1>3. HeldAs(c) /\ EventsAs(c) /\ told[Run(c)] = <<>>
  BY <1>1, <1>2 DEF CallInv, RunInv
<1>4. /\ Held(c) \in Aggregates /\ Held(c).status = "completed"
      /\ Kept(Held(c)) \in Aggregates /\ Kept(Held(c)).status = "completed"
  BY <1>1, <1>3, Transitions DEF HeldAs, Is, Kept, Row, Aggregates
<1>5. y \in Aggregates /\ y.status = "completed" /\ y.events = <<>>
  <2>1. <<>> \in Seq({"Started", "Completed"})
    OBVIOUS
  <2> QED
    BY <1>4, <2>1 DEF Aggregates
<1> HIDE DEF y
<1>6. /\ saved' \in [Runs -> Aggregates \cup {Absent}]
      /\ mine' \in [Calls -> Aggregates \cup {Absent}]
      /\ \A q \in Runs : q # Run(c) => saved'[q] = saved[q]
      /\ \A d \in Calls : d # c => mine'[d] = mine[d]
      /\ Run(c)' = Run(c) /\ call'[c].at = "done"
      /\ call' = [call EXCEPT ![c].at = "done"]
      /\ Found(c)' = y
  BY <1>1, <1>2, <1>5, Saved DEF Places
<1>7. /\ told' \in [Runs -> Seq({"Started", "Completed"})]
      /\ \A q \in Runs : q # Run(c) => told'[q] = told[q]
      /\ told'[Run(c)] = Held(c).events
  <2>1. Held(c).events \in Seq({"Started", "Completed"})
    BY <1>4 DEF Aggregates
  <2>2. <<>> \o Held(c).events = Held(c).events
    BY <2>1
  <2> QED
    BY <1>1, <1>2, <1>3, <2>1, <2>2 DEF TypeOK
<1>8. Held(c).events = IF store = "memory" THEN <<"Started", "Completed">> ELSE <<"Completed">>
  BY <1>1, <1>2, <1>3 DEF EventsAs
<1>9. CallInv(c)'
  BY <1>2, <1>5, <1>6 DEF CallInv, Midway, HeldAs, SavedAs, EventsAs
<1>10. \A d \in Calls : Active(d)' /\ Run(d)' = Run(c) => d = c
  BY <1>1, <1>2 DEF Goto, TypeOK, Active, Run
<1>11. saved'[Run(c)] = y
  BY <1>6 DEF Found
<1>12. RunInv(Run(c))'
  BY <1>1, <1>5, <1>6, <1>7, <1>8, <1>10, <1>11 DEF RunInv
<1> QED
  BY <1>1, <1>2, <1>6, <1>7, <1>9, <1>12, Moved DEF Places

-----------------------------------------------------------------------------
(* Failures *)

LEMMA RaisesStep ==
    ASSUME IInv, BaseInv', NEW c \in Calls, Raises(c), Run(c) \notin raced
    PROVE  IInv'
<1>1. /\ HasTurn(c) /\ Goto(c, "failing") /\ UNCHANGED <<store, saved, mine, told, raced>>
      /\ turn' = IF store = "memory" THEN c ELSE Nobody
  BY DEF Raises, Keep
<1>2. \/ call[c].at \in {"analysed", "drafting"}
      \/ store = "rows" /\ call[c].at \in {"analyzing", "reporting", "finishing"}
  BY DEF Raises
<1>3. /\ TypeOK /\ CallInv(c) /\ Active(c) /\ store \in {"memory", "rows"}
  BY <1>2, Here DEF Active
<1>4. HeldAs(c) /\ SavedAs(c)
  BY <1>3 DEF CallInv
<1>5. store = "memory" => Held(c) = Found(c)
  BY DEF Held, Found
<1>6. AtWork(Found(c))
  BY <1>2, <1>3, <1>4, <1>5 DEF HeldAs, SavedAs, Is, AtWork
<1>7. call'[c].at = "failing" /\ Found(c)' = Found(c)
  BY <1>1, <1>3 DEF Goto, TypeOK, Found, Run
<1>8. (HeldAs(c) /\ SavedAs(c) /\ EventsAs(c))'
  BY <1>6, <1>7 DEF HeldAs, SavedAs, EventsAs, AtWork
<1> QED
  BY <1>1, <1>2, <1>3, <1>8, PlaceStep DEF Places, Midway

LEMMA StrandedStep ==
    ASSUME IInv, BaseInv', NEW c \in Calls, Stranded(c), Run(c) \notin raced
    PROVE  IInv'
<1>1. /\ store = "rows" /\ call[c].at \notin {"idle", "refused", "done", "stranded"}
      /\ UNCHANGED <<store, saved, mine, turn, told, raced>>
  BY DEF Stranded
<1>2. /\ TypeOK /\ CallInv(c) /\ turn = Nobody
  BY <1>1, Here
<1>3. CASE call[c].at \in {"finding", "starting"}
  <2>1. Goto(c, "refused")
    BY <1>3 DEF Stranded
  <2> QED
    BY <1>1, <1>2, <1>3, <2>1, PlaceStep DEF Places, Midway, HasTurn
<1>4. CASE call[c].at \notin {"finding", "starting"}
  <2>1. Goto(c, "stranded") /\ Active(c)
    BY <1>1, <1>4 DEF Stranded, Active
  <2>2. HeldAs(c) /\ SavedAs(c)
    BY <1>2, <2>1 DEF CallInv
  <2>3. AtWork(Found(c))
    BY <1>1, <1>2, <1>4, <2>2 DEF SavedAs, Is, AtWork, TypeOK, Places
  <2>4. call'[c].at = "stranded" /\ Found(c)' = Found(c)
    BY <1>1, <1>2, <2>1 DEF Goto, TypeOK, Found, Run
  <2>5. (HeldAs(c) /\ SavedAs(c) /\ EventsAs(c))'
    BY <1>1, <2>3, <2>4 DEF HeldAs, SavedAs, EventsAs, AtWork
  <2> QED
    BY <1>1, <1>2, <2>1, <2>5, PlaceStep DEF Places, Midway, HasTurn
<1> QED
  BY <1>3, <1>4

-----------------------------------------------------------------------------
(* The steps that change no run's work. *)

LEMMA CreateRunStep ==
    ASSUME IInv, BaseInv', NEW r \in Runs, CreateRun(r)
    PROVE  IInv'
<1>1. /\ saved[r] = Absent /\ saved' = [saved EXCEPT ![r] = NewRun]
      /\ UNCHANGED <<store, call, mine, turn, told, raced>> /\ TypeOK
      /\ store \in {"memory", "rows"}
  BY DEF CreateRun, IInv, BaseInv, TypeOK, Stores
<1>2. saved'[r] = NewRun /\ \A q \in Runs : q # r => saved'[q] = saved[q]
  BY <1>1 DEF TypeOK
<1>3. \A c \in Calls : Active(c)' = Active(c) /\ Run(c)' = Run(c) /\ call'[c] = call[c]
  BY <1>1 DEF Active, Run
<1>4. ASSUME NEW c \in Calls
      PROVE  CallInv(c)'
  <2> SUFFICES ASSUME Active(c), Run(c) \notin raced
               PROVE  HeldAs(c)' /\ SavedAs(c)' /\ EventsAs(c)'
    BY <1>1, <1>3 DEF CallInv
  <2>1. Found(c) \in Aggregates /\ Run(c) \in Runs /\ Absent \notin Aggregates
    BY BaseOf, Transitions DEF IInv
  <2>2. Run(c) # r
    BY <1>1, <2>1 DEF Found
  <2>3. Found(c)' = Found(c) /\ Held(c)' = Held(c) /\ call'[c] = call[c]
    BY <1>1, <1>2, <1>3, <2>1, <2>2 DEF Found, Held
  <2>4. HeldAs(c) /\ SavedAs(c) /\ EventsAs(c)
    BY DEF IInv, CallInv
  <2>5. HeldAs(c)'
    BY <2>3, <2>4, ZenonT(60) DEF HeldAs, Is
  <2>6. SavedAs(c)'
    BY <1>1, <2>3, <2>4, ZenonT(60) DEF SavedAs, Is, AtWork
  <2>7. EventsAs(c)'
    BY <1>1, <2>3, <2>4 DEF EventsAs
  <2> QED
    BY <2>5, <2>6, <2>7
<1>5. ASSUME NEW q \in Runs, q \notin raced'
      PROVE  RunInv(q)'
  <2>1. RunInv(q)
    BY <1>1, <1>5 DEF IInv
  <2>2. CASE q # r
    BY <1>1, <1>2, <1>3, <2>1, <2>2 DEF RunInv
  <2>3. CASE q = r
    <3>1. told[r] = <<>>
      BY <1>1, <2>1, <2>3 DEF RunInv, Absent
    <3> QED
      BY <1>1, <1>2, <2>3, <3>1 DEF RunInv, NewRun
  <2> QED
    BY <2>2, <2>3
<1>6. Alone'
  BY <1>1, <1>3 DEF IInv, Alone
<1> QED
  BY <1>4, <1>5, <1>6 DEF IInv

LEMMA CallStartStep ==
    ASSUME IInv, BaseInv', NEW r \in Runs, NEW c \in Calls, CallStart(c, r)
    PROVE  IInv'
<1>1. /\ call' = [call EXCEPT ![c] = [at |-> "finding", run |-> r]]
      /\ UNCHANGED <<store, saved, mine, told, raced>> /\ TypeOK
  BY DEF CallStart, IInv, BaseInv
<1>2. /\ call'[c].at = "finding"
      /\ \A d \in Calls : d # c => call'[d] = call[d]
  BY <1>1 DEF TypeOK
<1>3. \A d \in Calls : Active(d)' => Active(d) /\ Run(d)' = Run(d) /\ call'[d] = call[d]
  BY <1>2 DEF Active, Run
<1>4. ASSUME NEW d \in Calls
      PROVE  CallInv(d)'
  <2> SUFFICES ASSUME Active(d)', Run(d)' \notin raced
               PROVE  HeldAs(d)' /\ SavedAs(d)' /\ EventsAs(d)'
    BY <1>1 DEF CallInv
  <2>1. Active(d) /\ Run(d)' = Run(d) /\ call'[d] = call[d]
    BY <1>3
  <2>2. HeldAs(d) /\ SavedAs(d) /\ EventsAs(d)
    BY <2>1 DEF IInv, CallInv
  <2>3. Found(d)' = Found(d) /\ Held(d)' = Held(d)
    BY <1>1, <2>1 DEF Found, Held
  <2>4. HeldAs(d)'
    BY <2>1, <2>2, <2>3, ZenonT(60) DEF HeldAs, Is
  <2>5. SavedAs(d)'
    BY <1>1, <2>1, <2>2, <2>3, ZenonT(60) DEF SavedAs, Is, AtWork
  <2>6. EventsAs(d)'
    BY <1>1, <2>1, <2>2, <2>3 DEF EventsAs
  <2> QED
    BY <2>4, <2>5, <2>6
<1>5. ASSUME NEW q \in Runs, q \notin raced'
      PROVE  RunInv(q)'
  BY <1>1, <1>3, <1>5 DEF IInv, RunInv
<1>6. Alone'
  BY <1>1, <1>3 DEF IInv, Alone
<1> QED
  BY <1>4, <1>5, <1>6 DEF IInv

\* What every step of a call leaves alone.
LEMMA Frame ==
    ASSUME IInv, NEW c \in Calls, TaskStep(c) \/ Stranded(c)
    PROVE  /\ Run(c) \in Runs /\ call[c].at # "idle" /\ Run(c)' = Run(c)
           /\ \E place \in Places : /\ place # "idle"
                                    /\ call' = [call EXCEPT ![c].at = place]
           /\ store' = store
           /\ saved' = saved \/ saved' = [saved EXCEPT ![Run(c)] = saved'[Run(c)]]
           /\ \A q \in Runs : q # Run(c) => saved'[q] = saved[q] /\ told'[q] = told[q]
           /\ \A d \in Calls : d # c => mine'[d] = mine[d]
           /\ raced \subseteq raced' /\ raced' \subseteq raced \cup {Run(c)}
           /\ raced' # raced => FindToStart(c) /\ Startable(Found(c)) /\ Overlaps(c)
<1>1. call[c].at # "idle"
  BY DEF TaskStep, FindToStart, SaveStarted, LoadRun, SaveAnalyzing, Analysed, SaveAnalysis,
         Reported, SaveReport, Raises, FindToFail, SaveFailed, Stranded
<1>2. Run(c) \in Runs /\ TypeOK
  BY <1>1, BaseOf DEF IInv
<1>3. \E place \in Places : place # "idle" /\ call' = [call EXCEPT ![c].at = place]
  BY DEF TaskStep, FindToStart, SaveStarted, LoadRun, SaveAnalyzing, Analysed, SaveAnalysis,
         Reported, SaveReport, Raises, FindToFail, SaveFailed, Stranded, Goto, Places
<1>4. /\ store' = store
      /\ saved' = saved \/ \E y : saved' = [saved EXCEPT ![Run(c)] = y]
      /\ mine' = mine \/ \E y : mine' = [mine EXCEPT ![c] = y]
      /\ told' = told \/ \E y : told' = [told EXCEPT ![Run(c)] = y]
  BY DEF TaskStep, FindToStart, SaveStarted, LoadRun, SaveAnalyzing, Analysed, SaveAnalysis,
         Reported, SaveReport, Raises, FindToFail, SaveFailed, Stranded, Change, Save
<1>5. /\ raced' = raced \/ raced' = raced \cup {Run(c)}
      /\ raced' # raced => FindToStart(c) /\ Startable(Found(c)) /\ Overlaps(c)
  BY DEF TaskStep, FindToStart, SaveStarted, LoadRun, SaveAnalyzing, Analysed, SaveAnalysis,
         Reported, SaveReport, Raises, FindToFail, SaveFailed, Stranded
<1>6. Run(c)' = Run(c)
  BY <1>2, <1>3 DEF TypeOK, Run
<1>7. saved' = saved \/ saved' = [saved EXCEPT ![Run(c)] = saved'[Run(c)]]
  BY <1>2, <1>4 DEF TypeOK
<1>8. /\ \A q \in Runs : q # Run(c) => saved'[q] = saved[q] /\ told'[q] = told[q]
      /\ \A d \in Calls : d # c => mine'[d] = mine[d]
  BY <1>2, <1>4 DEF TypeOK
<1> QED
  BY <1>1, <1>2, <1>3, <1>4, <1>5, <1>6, <1>7, <1>8

LEMMA TaskInvariant ==
    ASSUME IInv, BaseInv', NEW c \in Calls, TaskStep(c) \/ Stranded(c)
    PROVE  IInv'
<1>1. CASE Run(c) \in raced'
  BY <1>1, Frame, Moved
<1>2. CASE Run(c) \notin raced'
  <2>1. Run(c) \notin raced
    BY <1>2, Frame
  <2>2. CASE Stranded(c)
    BY <2>1, <2>2, StrandedStep
  <2>3. CASE TaskStep(c)
    BY <1>2, <2>1, <2>3, FindToStartStep, SaveStartedStep, LoadRunStep, SaveAnalyzingStep,
       AnalysedStep, SaveAnalysisStep, ReportedStep, SaveReportStep, RaisesStep, FindToFailStep,
       SaveFailedStep, ZenonT(60) DEF TaskStep
  <2> QED
    BY <2>2, <2>3
<1> QED
  BY <1>1, <1>2

-----------------------------------------------------------------------------

LEMMA InitInvariant == Init => IInv
<1> SUFFICES ASSUME Init
             PROVE  IInv
  OBVIOUS
<1>1. \A c \in Calls : call[c].at = "idle"
  BY DEF Init
<1>2. \A c \in Calls : CallInv(c)
  BY <1>1 DEF CallInv, Active
<1>3. \A r \in Runs : RunInv(r)
  BY DEF Init, RunInv
<1>4. Alone
  BY <1>1 DEF Alone, Active
<1> QED
  BY <1>2, <1>3, <1>4, InitBase DEF IInv

LEMMA StepInvariant ==
    ASSUME IInv, [Next]_vars
    PROVE  IInv'
<1>1. BaseInv'
  BY StepBase DEF IInv
<1>2. CASE UNCHANGED vars
  BY <1>1, <1>2 DEF vars, IInv, CallInv, RunInv, Alone, Active, HeldAs, SavedAs,
              EventsAs, Is, AtWork, Found, Held, Run
<1>3. ASSUME NEW r \in Runs, CreateRun(r)
      PROVE  IInv'
  BY <1>1, <1>3, CreateRunStep
<1>4. ASSUME NEW r \in Runs, NEW c \in Calls, CallStart(c, r)
      PROVE  IInv'
  BY <1>1, <1>4, CallStartStep
<1>5. ASSUME NEW c \in Calls, TaskStep(c) \/ Stranded(c)
      PROVE  IInv'
  BY <1>1, <1>5, TaskInvariant
<1> QED
  BY <1>2, <1>3, <1>4, <1>5 DEF Next

LEMMA Invariant == Spec => []IInv
BY InitInvariant, StepInvariant, PTL DEF Spec

\* One pipeline at most works on a run that no two calls raced for.
THEOREM RunsExecuteOnce == Spec => []ExecutedOnce
<1>1. IInv => ExecutedOnce
  BY DEF IInv, Alone, Active, ExecutedOnce, Executing
<1> QED
  BY Invariant, <1>1, PTL

\* The events of a run that no two calls raced for are told once, in order, and after
\* its completion was saved.
THEOREM EventsAreTold == Spec => []EventsOfARun
<1>1. IInv => EventsOfARun
  BY DEF IInv, RunInv, EventsOfARun
<1> QED
  BY Invariant, <1>1, PTL

-----------------------------------------------------------------------------
(* What a step does to the run in the repository. *)

\* The ways a run may change while a pipeline works on it.
Unseen(old, new) == /\ new \in Aggregates
                    /\ SeenStatus(new.status) = SeenStatus(old.status)
                    /\ new.progress = old.progress
                    /\ new.report = old.report
Starts(old, new) == Is(old, "pending", 0) /\ Is(new, "running", 0)
Advances(old, new) == AtWork(old) /\ AtWork(new) /\ old.progress <= new.progress
Completes(old, new) == AtWork(old) /\ Is(new, "completed", 100)
Fails(old, new) == /\ AtWork(old) /\ new \in Aggregates /\ new.status = "failed"
                   /\ new.progress = old.progress /\ ~new.report

Forward(old, new) == \/ Unseen(old, new)
                     \/ Starts(old, new)
                     \/ Advances(old, new)
                     \/ Completes(old, new)
                     \/ Fails(old, new)

LEMMA IsAtWork ==
    ASSUME NEW run, NEW status \in {"running", "analyzing", "reporting"},
           NEW percent \in {0, 20, 80}, Is(run, status, percent)
    PROVE  AtWork(run) /\ run.progress = percent
<1>1. ~run.report
  BY DEF Is
<1> QED
  BY <1>1 DEF Is, AtWork

LEMMA StepForward ==
    ASSUME IInv, IInv', NEW c \in Calls, TaskStep(c), Run(c) \notin raced'
    PROVE  saved' = saved \/ Forward(Found(c), Found(c)')
<1>1. /\ Run(c)' = Run(c) /\ store' = store /\ store \in {"memory", "rows"} /\ TypeOK
      /\ Run(c) \notin raced /\ RunInv(Run(c))
  BY Frame DEF IInv, BaseInv, TypeOK, Stores
<1>2. /\ Found(c) = saved[Run(c)] /\ Found(c)' = saved'[Run(c)]
      /\ store = "memory" => Held(c) = Found(c) /\ Held(c)' = Found(c)'
  BY <1>1 DEF Found, Held
<1>3. /\ Active(c) => HeldAs(c) /\ SavedAs(c)
      /\ Active(c)' => HeldAs(c)' /\ SavedAs(c)'
  BY <1>1 DEF IInv, CallInv
<1>4. /\ \A place : Goto(c, place) => call'[c].at = place
      /\ Run(c) \in Runs
  BY <1>1, Frame DEF Goto, TypeOK
<1> USE DEF Forward
<1>5. CASE FindToStart(c)
  <2>1. CASE store = "memory" /\ Startable(Found(c))
    <3>1. call'[c].at = "starting" /\ Found(c).status = "pending" /\ Found(c) # Absent
      BY <1>4, <1>5, <2>1 DEF FindToStart, Startable
    <3>2. Is(Found(c), "pending", 0)
      <4>1. Found(c) \in Aggregates /\ Found(c).progress = 0 /\ ~Found(c).report
        BY <1>1, <1>2, <1>4, <3>1 DEF RunInv, TypeOK
      <4>2. Found(c).report \in BOOLEAN
        BY <4>1 DEF Aggregates
      <4> QED
        BY <3>1, <4>1, <4>2 DEF Is
    <3>3. Is(Found(c)', "running", 0)
      BY <1>2, <1>3, <2>1, <3>1 DEF HeldAs, Active
    <3> QED
      BY <3>2, <3>3 DEF Starts
  <2>2. CASE ~(store = "memory" /\ Startable(Found(c)))
    BY <1>5, <2>2 DEF FindToStart, Change
  <2> QED
    BY <2>1, <2>2
<1>6. CASE SaveStarted(c)
  <2>1. call[c].at = "starting" /\ call'[c].at = "spawned"
    BY <1>4, <1>6 DEF SaveStarted
  <2>2. Is(Found(c)', "running", 0)
    BY <1>3, <2>1 DEF SavedAs, Active
  <2>3. Is(Found(c), "running", 0) \/ Is(Found(c), "pending", 0)
    BY <1>1, <1>2, <1>3, <2>1 DEF SavedAs, HeldAs, Active
  <2> QED
    BY <2>2, <2>3 DEF Starts, Unseen, Is
<1>7. CASE LoadRun(c)
  <2>1. call[c].at = "spawned" /\ call'[c].at = "analyzing"
    BY <1>4, <1>7 DEF LoadRun
  <2>2. CASE store = "memory"
    <3>1. Is(Found(c), "running", 0) /\ Is(Found(c)', "analyzing", 20)
      BY <1>2, <1>3, <2>1, <2>2 DEF SavedAs, HeldAs, Active
    <3> QED
      BY <3>1, IsAtWork DEF Advances
  <2>3. CASE store # "memory"
    BY <1>7, <2>3 DEF LoadRun, Change
  <2> QED
    BY <2>2, <2>3
<1>8. CASE SaveAnalyzing(c)
  <2>1. call[c].at = "analyzing" /\ call'[c].at = "analysed"
    BY <1>4, <1>8 DEF SaveAnalyzing
  <2>2. Is(Found(c), "running", 0) \/ Is(Found(c), "analyzing", 20)
    BY <1>1, <1>2, <1>3, <2>1 DEF SavedAs, HeldAs, Active
  <2>3. Is(Found(c)', "analyzing", 20)
    BY <1>1, <1>2, <1>3, <2>1 DEF SavedAs, HeldAs, Active
  <2> QED
    BY <2>2, <2>3, IsAtWork DEF Advances, Unseen, Is
<1>9. CASE Analysed(c)
  <2>1. call[c].at = "analysed" /\ call'[c].at = "reporting"
    BY <1>4, <1>9 DEF Analysed
  <2>2. CASE store = "memory"
    <3>1. Is(Found(c), "analyzing", 20) /\ Is(Found(c)', "reporting", 80)
      BY <1>2, <1>3, <2>1, <2>2 DEF HeldAs, Active
    <3> QED
      BY <3>1, IsAtWork DEF Advances
  <2>3. CASE store # "memory"
    BY <1>9, <2>3 DEF Analysed, Change
  <2> QED
    BY <2>2, <2>3
<1>10. CASE SaveAnalysis(c)
  <2>1. call[c].at = "reporting" /\ call'[c].at = "drafting"
    BY <1>4, <1>10 DEF SaveAnalysis
  <2>2. Is(Found(c), "analyzing", 20) \/ Is(Found(c), "reporting", 80)
    BY <1>1, <1>2, <1>3, <2>1 DEF SavedAs, HeldAs, Active
  <2>3. Is(Found(c)', "reporting", 80)
    BY <1>1, <1>2, <1>3, <2>1 DEF SavedAs, HeldAs, Active
  <2> QED
    BY <2>2, <2>3, IsAtWork DEF Advances, Unseen, Is
<1>11. CASE Reported(c)
  <2>1. call[c].at = "drafting" /\ call'[c].at = "finishing"
    BY <1>4, <1>11 DEF Reported
  <2>2. CASE store = "memory"
    <3>1. Is(Found(c), "reporting", 80) /\ Is(Found(c)', "completed", 100)
      BY <1>2, <1>3, <2>1, <2>2 DEF HeldAs, Active
    <3> QED
      BY <3>1 DEF Completes, Is, AtWork
  <2>3. CASE store # "memory"
    BY <1>11, <2>3 DEF Reported, Change
  <2> QED
    BY <2>2, <2>3
<1>12. CASE SaveReport(c)
  <2> DEFINE y == [Kept(Held(c)) EXCEPT !.events = <<>>]
  <2>1. call[c].at = "finishing" /\ saved' = [saved EXCEPT ![Run(c)] = y]
    BY <1>12 DEF SaveReport
  <2>2. Is(Held(c), "completed", 100)
    BY <1>3, <2>1 DEF HeldAs, Active
  <2>3. Is(y, "completed", 100)
    <3>1. <<>> \in Seq({"Started", "Completed"})
      OBVIOUS
    <3>2. Kept(Held(c)) \in Aggregates /\ Is(Kept(Held(c)), "completed", 100)
      BY <2>2, Transitions DEF Is, Kept, Row, Aggregates
    <3> QED
      BY <3>1, <3>2 DEF Is, Aggregates
  <2> HIDE DEF y
  <2>4. Found(c)' = y
    BY <1>1, <1>2, <1>4, <2>1 DEF TypeOK
  <2>5. Is(Found(c), "completed", 100) \/ Is(Found(c), "reporting", 80)
    BY <1>1, <1>2, <1>3, <2>1, <2>2 DEF SavedAs, Active
  <2> QED
    BY <2>3, <2>4, <2>5 DEF Completes, Unseen, Is, AtWork
<1>13. CASE Raises(c)
  BY <1>13 DEF Raises
<1>14. CASE FindToFail(c)
  <2> DEFINE x == Fail(Found(c))
  <2>1. call[c].at = "failing" /\ Change(c, x)
    BY <1>14 DEF FindToFail
  <2>2. AtWork(Found(c))
    BY <1>3, <2>1 DEF SavedAs, Active
  <2>3. /\ x \in Aggregates /\ x.status = "failed" /\ x.progress = Found(c).progress
        /\ ~x.report
    BY <2>2, Transitions DEF AtWork, Fail, Aggregates
  <2> HIDE DEF x
  <2>4. saved' = saved \/ Found(c)' = x
    BY <1>1, <1>2, <1>4, <2>1 DEF TypeOK, Change
  <2> QED
    BY <2>2, <2>3, <2>4 DEF Fails
<1>15. CASE SaveFailed(c)
  <2> DEFINE y == Kept(Held(c))
  <2>1. call[c].at = "recording" /\ saved' = [saved EXCEPT ![Run(c)] = y]
    BY <1>15 DEF SaveFailed, Save
  <2>2. Held(c) \in Aggregates /\ Held(c).status = "failed" /\ ~Held(c).report
    BY <1>3, <2>1 DEF HeldAs, Active
  <2>3. /\ y \in Aggregates /\ y.status = "failed" /\ y.progress = Held(c).progress /\ ~y.report
        /\ store = "memory" => y = Held(c)
    BY <2>2, Transitions DEF Kept, Row, Aggregates
  <2> HIDE DEF y
  <2>4. Found(c)' = y
    BY <1>1, <1>2, <1>4, <2>1 DEF TypeOK
  <2>5. CASE store = "memory"
    BY <1>2, <2>3, <2>4, <2>5 DEF Unseen
  <2>6. CASE store = "rows"
    <3>1. AtWork(Found(c)) /\ Found(c).progress = Held(c).progress
      BY <1>3, <2>1, <2>6 DEF SavedAs, Active
    <3> QED
      BY <2>3, <2>4, <3>1 DEF Fails
  <2> QED
    BY <1>1, <2>5, <2>6
<1> QED
  BY <1>5, <1>6, <1>7, <1>8, <1>9, <1>10, <1>11, <1>12, <1>13, <1>14, <1>15 DEF TaskStep

-----------------------------------------------------------------------------
(* Refinement *)

\* What callers see, as the mapping of Lifecycle spells it out.
Visible == [r \in Runs |-> IF r \in raced THEN "gone" ELSE SeenStatus(saved[r].status)]
Percent == [r \in Runs |-> IF r \in raced \/ saved[r] = Absent THEN 0
                           ELSE saved[r].progress]
Readable == {r \in Runs \ raced : HasReport(saved[r]) /\ saved[r].status \in Over}

\* Only the run that changes is seen to change.
LEMMA SeenOfOne ==
    ASSUME TypeOK, NEW r \in Runs, NEW y \in Aggregates, saved' = [saved EXCEPT ![r] = y],
           r \notin raced, raced' = raced
    PROVE  /\ Visible' = [Visible EXCEPT ![r] = SeenStatus(y.status)]
           /\ Percent' = [Percent EXCEPT ![r] = y.progress]
           /\ Readable' = IF y.report /\ y.status \in Over THEN Readable \cup {r}
                          ELSE Readable \ {r}
           /\ saved'[r] = y
<1>1. saved'[r] = y /\ \A q \in Runs : q # r => saved'[q] = saved[q]
  BY DEF TypeOK
<1>2. y # Absent
  BY Transitions
<1>3. Visible' = [Visible EXCEPT ![r] = SeenStatus(y.status)]
  <2>1. \A q \in Runs : Visible'[q] = IF q = r THEN SeenStatus(y.status) ELSE Visible[q]
    BY <1>1 DEF Visible, SeenStatus
  <2> QED
    BY <2>1 DEF Visible
<1>4. Percent' = [Percent EXCEPT ![r] = y.progress]
  <2>1. \A q \in Runs : Percent'[q] = IF q = r THEN y.progress ELSE Percent[q]
    BY <1>1, <1>2 DEF Percent
  <2> QED
    BY <2>1 DEF Percent
<1>5. Readable' = IF y.report /\ y.status \in Over THEN Readable \cup {r} ELSE Readable \ {r}
  BY <1>1, <1>2 DEF Readable, HasReport
<1> QED
  BY <1>1, <1>3, <1>4, <1>5

\* A step that shows nothing of one run.
LEMMA StutterOfOne ==
    ASSUME TypeOK, NEW r \in Runs, saved[r] # Absent, NEW y \in Aggregates,
           saved' = [saved EXCEPT ![r] = y], Unseen(saved[r], y),
           r \notin raced, raced' = raced
    PROVE  Visible' = Visible /\ Percent' = Percent /\ Readable' = Readable
<1>1. /\ Visible' = [Visible EXCEPT ![r] = SeenStatus(y.status)]
      /\ Percent' = [Percent EXCEPT ![r] = y.progress]
      /\ Readable' = IF y.report /\ y.status \in Over THEN Readable \cup {r} ELSE Readable \ {r}
  BY SeenOfOne
<1>2. Visible[r] = SeenStatus(y.status) /\ Percent[r] = y.progress
  BY DEF Unseen, Visible, Percent
<1>3. Visible' = Visible /\ Percent' = Percent
  BY <1>1, <1>2 DEF Visible, Percent
<1>4. y.status \in Over <=> saved[r].status \in Over
  BY DEF Unseen, SeenStatus, Over
<1>5. r \in Readable <=> y.report /\ y.status \in Over
  BY <1>4 DEF Readable, HasReport, Unseen
<1> QED
  BY <1>1, <1>3, <1>5

\* Every way forward of a run is a step of RunLifecycle, or is not seen.
LEMMA ForwardRefines ==
    ASSUME TypeOK, NEW r \in Runs, saved[r] # Absent, NEW y \in Aggregates,
           saved' = [saved EXCEPT ![r] = y], Forward(saved[r], y),
           r \notin raced, raced' = raced
    PROVE  [Lifecycle!LifecycleNext]_(Lifecycle!lifecycleVars)
<1>1. /\ Visible' = [Visible EXCEPT ![r] = SeenStatus(y.status)]
      /\ Percent' = [Percent EXCEPT ![r] = y.progress]
      /\ Readable' = IF y.report /\ y.status \in Over THEN Readable \cup {r} ELSE Readable \ {r}
  BY SeenOfOne
<1>2. /\ Visible[r] = SeenStatus(saved[r].status) /\ Percent[r] = saved[r].progress
      /\ Visible = [Visible EXCEPT ![r] = Visible[r]] /\ r \in DOMAIN Percent
  BY DEF Visible, Percent
<1>3. Percent'[r] = y.progress /\ Percent' = [Percent EXCEPT ![r] = Percent'[r]]
  BY <1>1, <1>2
<1>4. CASE Unseen(saved[r], y)
  <2>1. Visible' = Visible /\ Percent' = Percent /\ Readable' = Readable
    BY <1>4, StutterOfOne
  <2> QED
    BY <2>1 DEF Visible, Percent, Readable, Lifecycle!lifecycleVars
<1>5. CASE Starts(saved[r], y)
  <2>1. /\ Visible[r] = "pending" /\ SeenStatus(y.status) = "running" /\ y.progress = 0
        /\ y.status \notin Over /\ saved[r].status \notin Over
    BY <1>2, <1>5 DEF Starts, Is, SeenStatus, Over
  <2>2. Readable' = Readable /\ Percent'[r] \in 0 .. 99
    BY <1>1, <1>3, <2>1 DEF Readable
  <2>3. Lifecycle!Start(r)
    BY <1>1, <1>3, <2>1, <2>2 DEF Lifecycle!Start, Lifecycle!Moves, Visible, Percent, Readable
  <2> QED
    BY <2>3 DEF Lifecycle!LifecycleNext
<1>6. CASE Advances(saved[r], y)
  <2>1. /\ Visible[r] = "running" /\ SeenStatus(y.status) = "running"
        /\ y.status \notin Over /\ saved[r].status \notin Over
    BY <1>2, <1>6 DEF Advances, AtWork, SeenStatus, Over
  <2>2. Readable' = Readable /\ Visible' = Visible
    BY <1>1, <1>2, <2>1 DEF Readable
  <2>3. Percent'[r] \in Percent[r] .. 99
    BY <1>2, <1>3, <1>6 DEF Advances, AtWork
  <2>4. Lifecycle!Advance(r)
    BY <1>3, <2>1, <2>2, <2>3 DEF Lifecycle!Advance, Lifecycle!Moves, Visible, Percent, Readable
  <2> QED
    BY <2>4 DEF Lifecycle!LifecycleNext
<1>7. CASE Completes(saved[r], y)
  <2>1. /\ Visible[r] = "running" /\ SeenStatus(y.status) = "completed" /\ y.progress = 100
        /\ y.status \in Over /\ y.report
    BY <1>2, <1>7 DEF Completes, Is, AtWork, SeenStatus, Over
  <2>2. Lifecycle!Complete(r)
    BY <1>1, <2>1 DEF Lifecycle!Complete, Visible, Percent, Readable
  <2> QED
    BY <2>2 DEF Lifecycle!LifecycleNext
<1>8. CASE Fails(saved[r], y)
  <2>1. /\ Visible[r] = "running" /\ SeenStatus(y.status) = "failed"
        /\ ~y.report /\ saved[r].status \notin Over
    BY <1>2, <1>8 DEF Fails, AtWork, SeenStatus, Over
  <2>2. Readable' = Readable
    BY <1>1, <2>1 DEF Readable
  <2>3. Percent'[r] \in Percent[r] .. 99
    BY <1>2, <1>3, <1>8 DEF Fails, AtWork
  <2>4. Lifecycle!Fail(r)
    BY <1>1, <1>3, <2>1, <2>2, <2>3
       DEF Lifecycle!Fail, Lifecycle!Moves, Visible, Percent, Readable
  <2> QED
    BY <2>4 DEF Lifecycle!LifecycleNext
<1> QED
  BY <1>4, <1>5, <1>6, <1>7, <1>8 DEF Forward

\* Nothing is seen of a run that was raced for.
LEMMA UnseenRefines ==
    ASSUME raced' = raced, \A r \in Runs \ raced : saved'[r] = saved[r]
    PROVE  [Lifecycle!LifecycleNext]_(Lifecycle!lifecycleVars)
<1>1. Visible' = Visible
  BY DEF Visible
<1>2. Percent' = Percent
  BY DEF Percent
<1>3. Readable' = Readable
  BY DEF Readable
<1> QED
  BY <1>1, <1>2, <1>3 DEF Visible, Percent, Readable, Lifecycle!lifecycleVars

LEMMA CreateRefines ==
    ASSUME IInv, NEW r \in Runs, CreateRun(r)
    PROVE  [Lifecycle!LifecycleNext]_(Lifecycle!lifecycleVars)
<1>1. saved[r] = Absent /\ saved' = [saved EXCEPT ![r] = NewRun] /\ raced' = raced /\ TypeOK
  BY DEF CreateRun, IInv, BaseInv
<1>2. CASE r \notin raced
  <2>1. /\ Visible' = [Visible EXCEPT ![r] = "pending"] /\ Percent' = [Percent EXCEPT ![r] = 0]
        /\ Readable' = Readable \ {r}
    BY <1>1, <1>2, NewRunType, SeenOfOne DEF NewRun, SeenStatus, Over
  <2>2. Visible[r] = "absent" /\ Percent[r] = 0 /\ r \notin Readable
    BY <1>1, <1>2 DEF Visible, Percent, Readable, Absent, SeenStatus, HasReport
  <2>3. Percent' = Percent /\ Readable' = Readable
    BY <2>1, <2>2 DEF Percent
  <2>4. Lifecycle!Create(r)
    BY <2>1, <2>2, <2>3 DEF Lifecycle!Create, Visible, Percent, Readable
  <2> QED
    BY <2>4 DEF Lifecycle!LifecycleNext
<1>3. CASE r \in raced
  <2>1. \A q \in Runs \ raced : saved'[q] = saved[q]
    BY <1>1, <1>3 DEF TypeOK
  <2> QED
    BY <1>1, <2>1, UnseenRefines
<1> QED
  BY <1>2, <1>3

\* A run that a second call finds pending drops out of what callers are promised.
LEMMA RaceRefines ==
    ASSUME IInv, NEW c \in Calls, FindToStart(c), Startable(Found(c)), Overlaps(c),
           Run(c) \notin raced
    PROVE  [Lifecycle!LifecycleNext]_(Lifecycle!lifecycleVars)
<1>1. call[c].at = "finding" /\ HasTurn(c) /\ raced' = raced \cup {Run(c)}
  BY DEF FindToStart
<1>2. Run(c) \in Runs /\ BaseInv /\ TypeOK
  BY <1>1, BaseOf DEF IInv
<1>3. store = "rows" /\ saved' = saved
  BY <1>1, <1>2, NoRaceInMemory DEF FindToStart, Change
<1>4. saved[Run(c)].status = "pending"
  BY DEF Startable, Found
<1>5. PICK r \in Runs : r = Run(c)
  BY <1>2
<1>6. Visible[r] = "pending"
  BY <1>4, <1>5 DEF Visible, SeenStatus
<1>7. Visible' = [Visible EXCEPT ![r] = "gone"]
  <2>1. \A q \in Runs : Visible'[q] = IF q = r THEN "gone" ELSE Visible[q]
    BY <1>1, <1>3, <1>5 DEF Visible
  <2> QED
    BY <2>1 DEF Visible
<1>8. Percent' = [Percent EXCEPT ![r] = 0]
  <2>1. \A q \in Runs : Percent'[q] = IF q = r THEN 0 ELSE Percent[q]
    BY <1>1, <1>3, <1>5 DEF Percent
  <2> QED
    BY <2>1 DEF Percent
<1>9. Readable' = Readable \ {r}
  BY <1>1, <1>3, <1>5 DEF Readable
<1>10. Lifecycle!Remove(r)
  BY <1>6, <1>7, <1>8, <1>9
     DEF Lifecycle!Remove, Lifecycle!Visible, Visible, Percent, Readable
<1> QED
  BY <1>10 DEF Lifecycle!LifecycleNext

LEMMA TaskRefines ==
    ASSUME IInv, IInv', NEW c \in Calls, TaskStep(c)
    PROVE  [Lifecycle!LifecycleNext]_(Lifecycle!lifecycleVars)
<1>1. /\ Run(c) \in Runs /\ Run(c)' = Run(c) /\ TypeOK /\ TypeOK'
      /\ saved' = saved \/ saved' = [saved EXCEPT ![Run(c)] = saved'[Run(c)]]
      /\ \A q \in Runs : q # Run(c) => saved'[q] = saved[q]
      /\ raced \subseteq raced' /\ raced' \subseteq raced \cup {Run(c)}
      /\ raced' # raced => FindToStart(c) /\ Startable(Found(c)) /\ Overlaps(c)
  BY Frame DEF IInv, BaseInv
<1>2. Found(c) = saved[Run(c)] /\ Found(c)' = saved'[Run(c)]
  BY <1>1 DEF Found
<1>3. CASE raced' # raced
  BY <1>1, <1>3, RaceRefines
<1>4. CASE raced' = raced /\ Run(c) \in raced
  BY <1>1, <1>4, UnseenRefines
<1>5. CASE raced' = raced /\ saved' = saved
  BY <1>5, UnseenRefines
<1>6. CASE raced' = raced /\ Run(c) \notin raced /\ saved' # saved
  <2>1. Forward(saved[Run(c)], saved'[Run(c)])
    BY <1>2, <1>6, StepForward
  <2>2. saved'[Run(c)] \in Aggregates
    BY <2>1 DEF Forward, Unseen, Starts, Advances, Completes, Fails, Is, AtWork
  <2>3. CASE saved[Run(c)] # Absent
    BY <1>1, <1>6, <2>1, <2>2, <2>3, ForwardRefines
  <2>4. CASE saved[Run(c)] = Absent
    <3>1. Absent \notin Aggregates
      BY Transitions
    <3>2. Unseen(Absent, saved'[Run(c)])
      BY <2>1, <2>4, <3>1 DEF Forward, Starts, Advances, Completes, Fails, Is, AtWork
    <3>3. saved'[Run(c)].status \in Statuses
      BY <2>2 DEF Aggregates
    <3> QED
      BY <3>2, <3>3 DEF Unseen, SeenStatus, Statuses, Absent
  <2> QED
    BY <2>3, <2>4
<1> QED
  BY <1>3, <1>4, <1>5, <1>6

\* What callers see of the runs implements RunLifecycle; a run that two calls raced for
\* is as good as removed.
THEOREM Refinement == Spec => ImplementsLifecycle
<1>1. Init => Lifecycle!LifecycleInit
  BY DEF Init, Lifecycle!LifecycleInit, HasReport, Absent, SeenStatus
<1>2. IInv /\ IInv' /\ [Next]_vars => [Lifecycle!LifecycleNext]_(Lifecycle!lifecycleVars)
  <2> SUFFICES ASSUME IInv, IInv', [Next]_vars
               PROVE  [Lifecycle!LifecycleNext]_(Lifecycle!lifecycleVars)
    OBVIOUS
  <2>1. CASE saved' = saved /\ raced' = raced
    BY <2>1, UnseenRefines
  <2>2. CASE UNCHANGED vars
    BY <2>1, <2>2 DEF vars
  <2>3. ASSUME NEW r \in Runs, NEW c \in Calls, CallStart(c, r)
        PROVE  [Lifecycle!LifecycleNext]_(Lifecycle!lifecycleVars)
    BY <2>1, <2>3 DEF CallStart
  <2>4. ASSUME NEW c \in Calls, Stranded(c)
        PROVE  [Lifecycle!LifecycleNext]_(Lifecycle!lifecycleVars)
    BY <2>1, <2>4 DEF Stranded
  <2> QED
    BY <2>2, <2>3, <2>4, CreateRefines, TaskRefines DEF Next
<1> QED
  BY Invariant, <1>1, <1>2, PTL DEF Spec, ImplementsLifecycle, Lifecycle!LifecycleSpec
=============================================================================
