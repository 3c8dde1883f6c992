------------------------------ MODULE LoadTest ------------------------------
(***************************************************************************)
(* PipelineTester.run_load_test of preflight/analysis/pipeline_tester.py:  *)
(* a producer puts requests in a bounded asyncio.Queue while the test      *)
(* lasts, a fixed pool of workers takes them and runs the query under a    *)
(* timeout, and the call waits for the producer, then for the queue to     *)
(* drain (under a timeout of its own), cancels the workers and counts the  *)
(* metrics.                                                                *)
(*                                                                         *)
(* Time is discrete, one tick for the half second of the poll of the queue *)
(* and of the cap on the producer's sleep.  Timers count down; the clock   *)
(* moves only when the event loop has nothing ready to run, so a timer     *)
(* fires in the tick in which it is due, in any order with what else       *)
(* happens there.  Request identifiers serve no purpose in the code but to *)
(* be passed on, so the queue is its length.                               *)
(***************************************************************************)
EXTENDS Integers, FiniteSets

CONSTANTS Workers,    \* range(test_config.concurrent_workers)
          Duration,   \* duration_seconds, in ticks
          Timeout,    \* timeout_ms, in ticks
          Drain,      \* the 5 s that the queue is given to drain, in ticks
          MaxSent,    \* bound: requests the producer makes
          Cancellable, \* whether the task that awaits the call may be cancelled
          Swallows     \* whether asyncio.wait_for may lose a cancellation: before
                       \* Python 3.12 it returns a result that is already there

ASSUME Assumption ==
    /\ Workers # {} /\ IsFiniteSet(Workers)
    /\ Duration \in Nat \ {0} /\ Timeout \in Nat \ {0} /\ Drain \in Nat \ {0}
    /\ MaxSent \in Nat \ {0}
    /\ Cancellable \in BOOLEAN /\ Swallows \in BOOLEAN

VARIABLES
    elapsed,     \* ticks since the start, up to Limit
    producer,    \* where the producer is: loop, put, sleep, stopped, cancelled
    rest,        \* ticks left of the producer's sleep
    queued,      \* queue.qsize()
    unfinished,  \* queue._unfinished_tasks, which join() waits for
    stop,        \* stop_event.is_set()
    worker,      \* where each worker is and the ticks left of its wait_for
    sent,        \* request_counter: requests put in the queue
    passed,      \* metrics with success
    failed,      \* metrics without success
    dropped,     \* history: requests taken whose worker was cancelled
    caller,      \* run_load_test: produce, drain, gather, returned, cancelled
    patience     \* ticks left of wait_for(queue.join(), timeout=5.0)

loadVars == <<elapsed, producer, rest, queued, unfinished, stop, worker, sent,
              passed, failed, dropped, caller, patience>>
queueVars == <<queued, unfinished>>
counts == <<sent, passed, failed, dropped>>
callVars == <<caller, patience>>

Capacity == 2 * Cardinality(Workers)

\* The latest tick at which the workers are cancelled: the last put may wait for
\* a worker that waits for a query, and the drain runs its full length.
CancelBy == Duration + Timeout + Drain

\* The latest tick by which the call returns: a worker that its cancellation
\* missed empties the queue first.
Limit == CancelBy + IF Swallows THEN Timeout * (Capacity + 1) ELSE 0

Polling  == [at |-> "poll", left |-> 1]
Busy     == [at |-> "busy", left |-> Timeout]
Answered == [at |-> "busy", left |-> 0]
Ended    == [at |-> "ended", left |-> 0]

At(place) == {w \in Workers : worker[w].at = place}

LoadInit ==
    /\ elapsed = 0
    /\ producer = "loop" /\ rest = 0
    /\ queued = 0 /\ unfinished = 0
    /\ stop = FALSE
    /\ worker = [w \in Workers |-> Polling]
    /\ sent = 0 /\ passed = 0 /\ failed = 0 /\ dropped = 0
    /\ caller = "produce" /\ patience = 0

-----------------------------------------------------------------------------
(***************************************************************************)
(* The producer.                                                           *)
(***************************************************************************)

\* Mutant: the sleep between two requests is not capped.
LongPause == 8
\* The cap on the sleep, 0.5 s.
Pause == 1

Sleep == producer' = "sleep" /\ rest' = Pause

\* while True: the test still lasts and the current rate is positive.
WantPut ==
    /\ producer = "loop" /\ elapsed < Duration /\ sent < MaxSent
    /\ producer' = "put"
    /\ UNCHANGED <<elapsed, rest, queueVars, stop, worker, counts, callVars>>

\* The ramp-up makes the rate 0 at the very start; MaxSent idles as well.
Idle ==
    /\ producer = "loop" /\ elapsed < Duration
    /\ (sent = 0 /\ elapsed = 0) \/ sent = MaxSent
    /\ Sleep
    /\ UNCHANGED <<elapsed, queueVars, stop, worker, counts, callVars>>

HasSlot == queued < Capacity

\* await queue.put(req_id), which waits while the queue is full.
Put ==
    /\ producer = "put" /\ HasSlot
    /\ queued' = queued + 1 /\ unfinished' = unfinished + 1
    /\ sent' = sent + 1
    /\ Sleep
    /\ UNCHANGED <<elapsed, stop, worker, passed, failed, dropped, callVars>>

\* The sleep is at most one tick, min(1.0 / current_qps, 0.5), and a whole one
\* when the producer idles: time passes between two looks at the clock.
Wake ==
    /\ producer = "sleep"
    /\ rest = 0 \/ sent \in 1..(MaxSent - 1)
    /\ producer' = "loop" /\ rest' = 0
    /\ UNCHANGED <<elapsed, queueVars, stop, worker, counts, callVars>>

TimeIsUp == elapsed >= Duration

Stop ==
    /\ producer = "loop" /\ TimeIsUp
    /\ producer' = "stopped" /\ stop' = TRUE
    /\ UNCHANGED <<elapsed, rest, queueVars, worker, counts, callVars>>

-----------------------------------------------------------------------------
(***************************************************************************)
(* The workers.                                                            *)
(***************************************************************************)

\* Mutant: the worker never looks at the stop event.
NeverLeave == FALSE
LeaveLoop == stop /\ queued = 0

\* while not stop_event.is_set() or not queue.empty()
Again == IF LeaveLoop THEN Ended ELSE Polling

\* queue.get() returns a request and the query starts.
Take(w) ==
    /\ worker[w].at = "poll" /\ queued > 0
    /\ queued' = queued - 1
    /\ worker' = [worker EXCEPT ![w] = Busy]
    /\ UNCHANGED <<elapsed, producer, rest, unfinished, stop, counts, callVars>>

\* asyncio.TimeoutError of the poll: continue.
PollAgain(w) ==
    /\ worker[w] = [Polling EXCEPT !.left = 0]
    /\ worker' = [worker EXCEPT ![w] = Again]
    /\ UNCHANGED <<elapsed, producer, rest, queueVars, stop, counts, callVars>>

TaskDone == unfinished' = unfinished - 1

\* The query answers, raises or times out: one metric, and task_done().
Record(w) ==
    /\ worker[w].at = "busy"
    /\ worker' = [worker EXCEPT ![w] = Again]
    /\ TaskDone
    /\ UNCHANGED <<elapsed, producer, rest, queued, stop, sent, dropped, callVars>>

QueryPasses(w) == passed' = passed + 1 /\ UNCHANGED failed /\ Record(w)

\* A false answer, an exception, or the timeout when its time has come.
QueryFails(w) == failed' = failed + 1 /\ UNCHANGED passed /\ Record(w)

-----------------------------------------------------------------------------
(***************************************************************************)
(* The call itself.                                                        *)
(***************************************************************************)

\* await producer_task returns: wait for the queue.
ProducerDone ==
    /\ caller = "produce" /\ producer = "stopped"
    /\ caller' = "drain" /\ patience' = Drain
    /\ UNCHANGED <<elapsed, producer, rest, queueVars, stop, worker, counts>>

\* A worker that the cancellation misses has the answer of its query, or the
\* request it has just been given, already there when it is cancelled.
Missed(w, next) ==
    /\ Swallows /\ worker[w].at = "busy"
    /\ next \in {Answered} \cup ({Busy} \cap {worker[w]})

\* Cancel every worker: a query under way ends without a metric, but the
\* finally clause still calls task_done().
CancelWorkers ==
    /\ \E next \in [Workers -> {Ended, Answered, Busy}] :
          LET killed == {w \in At("busy") : next[w] = Ended}
          IN  /\ \A w \in Workers : next[w] = Ended \/ Missed(w, next[w])
              /\ worker' = next
              /\ dropped' = dropped + Cardinality(killed)
              /\ unfinished' = unfinished - Cardinality(killed)
    /\ caller' = "gather" /\ patience' = 0
    /\ UNCHANGED <<elapsed, producer, rest, queued, stop, sent, passed, failed>>

\* Mutant: the call waits for the queue to be empty, not for its requests.
QueueIsEmpty == queued = 0
Joined == unfinished = 0

Drained    == caller = "drain" /\ Joined /\ CancelWorkers
DrainEnded == caller = "drain" /\ patience = 0 /\ CancelWorkers

\* asyncio.gather(*workers) and the counting of the metrics.
Return ==
    /\ caller = "gather" /\ At("ended") = Workers
    /\ caller' = "returned"
    /\ UNCHANGED <<elapsed, producer, rest, queueVars, stop, worker, counts,
                   patience>>

\* CancelledError at an await of the call.  At await producer_task it cancels
\* the producer too, before it sets the stop event; nobody cancels the workers.
\* Left out: a second cancellation, at the gather, of workers the first missed.
CancelCall ==
    /\ Cancellable /\ caller \in {"produce", "drain"}
    /\ caller' = "cancelled" /\ patience' = 0
    /\ producer' = IF producer = "stopped" THEN "stopped" ELSE "cancelled"
    /\ rest' = 0
    /\ UNCHANGED <<elapsed, queueVars, stop, worker, counts>>

-----------------------------------------------------------------------------
(***************************************************************************)
(* The clock.                                                              *)
(***************************************************************************)

Blocked ==
    /\ \/ producer = "put" /\ ~ HasSlot
       \/ producer = "sleep" /\ rest > 0
       \/ producer \in {"stopped", "cancelled"}
    /\ \A w \in Workers : \/ worker[w].at = "ended"
                          \/ worker[w].at = "poll" /\ worker[w].left > 0 /\ queued = 0
                          \/ worker[w].at = "busy" /\ worker[w].left > 0
    /\ \/ caller = "produce" /\ producer # "stopped"
       \/ caller = "drain" /\ unfinished > 0 /\ patience > 0
       \/ caller \in {"gather", "cancelled"} /\ At("ended") # Workers

CountDown(t) == IF t = 0 THEN 0 ELSE t - 1

Tick ==
    /\ Blocked
    /\ elapsed' = IF elapsed > Limit THEN elapsed ELSE elapsed + 1
    /\ rest' = CountDown(rest)
    /\ patience' = CountDown(patience)
    /\ worker' = [w \in Workers |-> [worker[w] EXCEPT !.left = CountDown(@)]]
    /\ UNCHANGED <<producer, queueVars, stop, counts, caller>>

Finished ==
    /\ caller \in {"returned", "cancelled"} /\ At("ended") = Workers
    /\ UNCHANGED loadVars

LoadNext ==
    \/ WantPut \/ Idle \/ Put \/ Wake \/ Stop
    \/ \E w \in Workers : Take(w) \/ PollAgain(w) \/ QueryPasses(w) \/ QueryFails(w)
    \/ ProducerDone \/ Drained \/ DrainEnded \/ Return \/ CancelCall
    \/ Tick \/ Finished

LoadSpec == LoadInit /\ [][LoadNext]_loadVars

(***************************************************************************)
(* Fairness.  The event loop runs what is ready and time passes.  Nothing  *)
(* obliges a query to answer before its timeout, so only the timeout is    *)
(* fair.  Cancellation is never obliged to happen.                         *)
(***************************************************************************)
QueryTimesOut(w) == worker[w].left = 0 /\ QueryFails(w)

Fairness ==
    /\ WF_loadVars(WantPut \/ Idle \/ Put \/ Wake \/ Stop) /\ WF_loadVars(Tick)
    /\ \A w \in Workers : WF_loadVars(Take(w)) /\ WF_loadVars(PollAgain(w))
                          /\ WF_loadVars(QueryTimesOut(w))
    /\ WF_loadVars(ProducerDone \/ Drained \/ DrainEnded \/ Return)

FairLoadSpec == LoadSpec /\ Fairness

-----------------------------------------------------------------------------
(***************************************************************************)
(* What the call reports: PipelineTestResult.                              *)
(***************************************************************************)

Total == passed + failed

AtLeastPercent(p) == Total > 0 /\ failed * 100 >= p * Total

\* bottleneck_analysis()'s grade of the error rate.
ErrorGrade == CASE AtLeastPercent(10) -> "CRITICAL"
                [] AtLeastPercent(5) /\ ~ AtLeastPercent(10) -> "HIGH"
                [] OTHER -> "none"

-----------------------------------------------------------------------------
LoadTypeOK ==
    /\ elapsed \in 0..(Limit + 1) /\ rest \in 0..Pause /\ patience \in 0..Drain
    /\ producer \in {"loop", "put", "sleep", "stopped", "cancelled"}
    /\ queued \in 0..Capacity /\ unfinished \in 0..(Capacity + Cardinality(Workers))
    /\ stop \in BOOLEAN
    /\ worker \in [Workers -> [at : {"poll"}, left : 0..1]
                       \cup [at : {"busy"}, left : 0..Timeout] \cup {Ended}]
    /\ sent \in Nat /\ passed \in Nat /\ failed \in Nat /\ dropped \in Nat
    /\ caller \in {"produce", "drain", "gather", "returned", "cancelled"}

\* Every request put in the queue is waiting, under way, counted once, or was
\* dropped with its worker, and join() waits for exactly those not finished.
RequestsAddUp ==
    /\ sent = queued + Cardinality(At("busy")) + Total + dropped
    /\ unfinished = queued + Cardinality(At("busy"))

\* A request goes uncounted only if the drain took its full time: whenever the
\* call returns sooner the totals are those of every request sent.
UncountedOnlyAfterDrain ==
    caller \in {"gather", "returned"} /\ Total # sent => elapsed >= Duration + Drain

\* A system that never answers a request, when the test sent one, is graded
\* CRITICAL and never healthy for want of metrics, provided a query may take
\* no longer than the drain (both are 5 s by default).
DeadSystemIsCritical ==
    caller = "returned" /\ passed = 0 /\ sent > 0 /\ Timeout <= Drain
        => ErrorGrade = "CRITICAL"

\* The workers are cancelled by CancelBy and the call returns by Limit, however
\* slow the system, and no worker outlives a call that returns.
ReturnsInTime ==
    /\ caller \in {"produce", "drain"} => elapsed <= CancelBy
    /\ caller \in {"gather", "returned"} => elapsed <= Limit
    /\ caller = "returned" => At("ended") = Workers

\* Once the producer has stopped every worker ends, even if the call is then
\* cancelled while it waits for the queue and nobody cancels the workers.
WorkersEnd == stop ~> At("ended") = Workers
=============================================================================
