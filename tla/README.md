# Preflight: TLA+ models and proofs

Preflight judges whether a company's systems are ready for an AI deployment: it
connects read-only to CRM, ERP and data-warehouse systems, compares their
schemas, stresses their read paths, and answers with a score and a verdict
(GO, NOT_YET, NOT_READY). It runs as a command, as an HTTP service and, in
principle, as a Celery task. This directory holds TLA+ modules of the parts of
it that are concurrent or intricate, TLC configurations that check them on small
instances, and proofs that TLAPS checks for every value of the constants.

`PROJECT.json` lists the components, the runs, the mutants (one plausible bug per
property, which the property's run must catch), the source lines each definition
stands for, the findings, the hazards and the theorems. Paths below are relative
to `src/`; `core/...` means `preflight/core/...`.

    tlc -workers 2 -config LoadTest.cfg MCLoadTest.tla    # one run
    tlapm InMemoryProofs.tla                              # one module's proofs

## 1. Inventory

| Component | State it keeps | Operations | Interacts with |
|---|---|---|---|
| Connection manager `core/infrastructure/connectors/connection_manager.py` | a status per system, a semaphore, a health task | connect_all, health checks, disconnect_all | connectors, asyncio |
| Driver connectors `.../postgresql_connector.py`, `snowflake_…`, `salesforce_…` | one connection, a pool of four threads | connect, ping, get_metadata, execute_read_query, disconnect | database clients |
| HTTP API `preflight/api/routes/` | three dictionaries: connections, runs, reports | create, test, delete; run, poll, report, delete | pipeline runner, as a background task |
| Pipeline runner `preflight/analysis/pipeline_runner.py` | the systems of one call | collect, match, stress, score, disconnect | connectors, every analysis |
| Load tester `preflight/analysis/pipeline_tester.py` | queue, stop event, workers, metrics | run_load_test | one connector's query |
| Entity matcher `preflight/analysis/entity_matcher.py` | groups, assigned and used tables | build_entity_groups | schemas |
| Schema analyzer `preflight/analysis/schema_analyzer.py` | none between calls | compare fields, list inconsistencies | entity groups |
| Schema analysis service and report service `core/application/services/` | none between calls | map entities, detect inconsistencies; plan, effort, score | DiagnosticService |
| Readiness calculator `preflight/analysis/readiness_calculator.py` | none between calls | calculate | findings of all analyses |
| Middleware analyzer, data quality | none between calls | analyze | readiness |
| Cache `core/infrastructure/cache.py` | two dictionaries without a lock (or Redis, or diskcache) | get, set, delete by pattern, clear | executor threads |
| Rate limiter `preflight/api/middleware.py` | a token bucket per address | dispatch | every request |
| DiagnosticService, DiagnosticRun, repositories `core/` | runs by id, profiles by run | create, start, execute, query | nothing in the HTTP API: tests and documents only |
| Celery worker `preflight/worker.py` | a database row per run | run_full_diagnostic, retry | nothing enqueues its tasks |
| Reports, authentication, CLI, assembly, database models | files, rows | formatting, input/output | – |

How a run travels: a client POSTs connections (each is probed before it is
stored), then a diagnostic over some of them. The handler answers at once and a
background task calls `run_diagnostic`, which connects to the systems one after
another, matches entities in a thread, stresses each real system with
`run_load_test`, scores, disconnects in its `finally`, and hands a payload to
the task, which stores the report. The client polls and may delete anything at
any time.

What is hard here, and what makes each part correct:

- *Connection manager.* Attempts, health checks and disconnects overlap. Permits
  must be conserved, checks must never touch a connector being closed, nothing
  may stay open, counts given to the progress callback must be exact.
- *HTTP API.* Every `await` lets another handler change the stores. A client must
  see runs move forward only, never a completed run without report, never a
  deleted object again.
- *Pipeline runner.* Any system may fail, and the task may be cancelled, at any
  await. Everything opened must be closed, nothing skipped without a warning,
  no schema overwritten by a namesake.
- *Load tester.* Timeouts, a drain with a timeout of its own, cancellation of
  workers. Every request must be accounted for and the call must end in time.
- *Entity matcher.* Four passes, each on what the previous ones left. Groups must
  stay disjoint, honestly labelled and complete.
- *Readiness.* Penalties, floors, thresholds and an override. Findings must not
  improve the score or the verdict.
- *Cache.* Three dictionary operations of one call interleave with those of
  another thread. Values must live exactly as long as they should.
- *Rate limiter.* A clock that jumps. No window may admit too much, and
  Retry-After must be true.
- *Application service and worker.* Check-then-act across awaits, retries,
  references shared with the store against fresh copies.
- *Driver connectors.* Statements that outlive their timeout hold the threads that
  everything else, disconnect included, needs.

`PROJECT.json` lists these hazards line by line.

## 2. The modules and the code

Each step of a module is what the code does from one `await` (or, in the cache,
one dictionary operation) to the next.

**ConnectionManager** – `connection_manager.py`. `task[s]` is where
`_connect_one` of a system is, `permits` the semaphore, `open` what
`connector.is_connected` says, `connected` what `status.connected` says (the two
differ, which matters), `pinging` and `closing` the checks and disconnects in
flight. `CancelConnectAll` and `CancelDisconnectAll` are the cancellations of
the caller inside the two `gather` calls. A failure carries a text or, as
`wait_for`'s TimeoutError, an empty one; `_build_progress` counts the latter as
pending. Connectors are modelled by what their operations may return.

**RunLifecycle** – what a client is promised about a run: created, started,
advanced, completed with a report or failed without, removed for good.
**DiagnosticApi** – `routes/diagnostics.py`, `connections.py`, `reports.py`,
`dependencies.py`. A run's background task keeps the run's dict and goes on
writing to it after the run is gone from the store, so `status` and `progress`
are kept for every run and `runs` says which are visible. `task[r]` names the
await the task is at; the stages inside `run_diagnostic` are those of
PipelineRunner. DiagnosticApi implements RunLifecycle
(`ImplementsLifecycle`).

**PipelineContract** – what the API's task relies on: stages in order, over once,
a payload only after all of them. **PipelineRunner** – one call of
`run_diagnostic` on real connections: `collect_real_inputs` with its renaming of
duplicate names (a name is a base and the list of suffixes appended to it),
refused, mock, fallback and real connectors, warnings, the stress test, the
`finally` and the two exception handlers, and a cancellation at any place of
`CancelAt`. `open` says which connectors are open; any disconnect may fail, which
`_safe_disconnect` swallows (and the connector itself logs), and `stuck` remembers
the connectors it failed to close. PipelineRunner implements PipelineContract.

**LoadTest** – `run_load_test`: producer, bounded queue, workers, stop event,
`queue.join()` under the drain's timeout, cancellation of the workers, the grade
of the error rate. Time is discrete, a tick is half a second; `CountDown` lets
time pass only when nothing on the event loop is ready. `Swallows` is the
behaviour of `asyncio.wait_for` before Python 3.12 (the Dockerfile builds on
3.11), which may lose a cancellation.

**MemoryCache** – `_InMemoryBackend` under `DiagnosticCache`, whose calls run on
executor threads: one step per operation on `_store` or `_expiry`. `use` says how
a behaviour uses the cache: calls on one key kept apart and every value with a
ttl, or neither.

**EntityMatcher** – `build_entity_groups`: exact names, declared entities,
vocabulary (with its merging of islands), field overlap with its sweep. `pass` and `at`
say which table, entity or entry comes next. The list of groups is a function on
their places, so that the group an island is merged into keeps its place and the
island's stays empty. Which islands are taken in is stated rather than computed: the
only set of them in which each shares no system with those before it. Similarity of
field names is a relation given as a constant.

**Readiness** – `calculate`. The findings come one at a time so that a step
compares a report with the report of one finding more; scores are integers in
hundredths. **Diagnosis** puts the analyses in front of it: an estate of systems
with their tables, grouped by canonical name, whose fields `SchemaAnalyzer`
matches greedily pair by pair (exact names, then the best ratio), the middleware
gaps that follow from the types of the systems and from the inconsistencies, and
the remediation plan. A behaviour adds one system after another, and each time the
whole estate is grouped again, as `run_diagnostic` does: `groups` may then be any
grouping that `build_entity_groups` can return (disjoint groups with one table of a
system at most), so a system more can part tables that were together. What
`SequenceMatcher` says of two names is the constant `Ratio`, of the one and the other.
It is not quite symmetric, and the analyzer's cache makes the answer it first gets count
both ways; the model takes both answers as given, whichever comparison comes first.

**DriverConnector** – the three real connectors over their `ThreadPoolExecutor`,
and the mocks that `create_connector` puts in their place. `call[c]` is what a task
awaits (which method, how many driver calls are left of it, and whether the present
one is queued, running in a thread, doomed for want of a connection, or a mock's
sleep); `ahead` is the executor's queue; `abandoned` counts driver calls that were
given up and still hold a thread; `self` is what the connector's fields say. One
owner connects and disconnects, in turn; any number of others read.

**DiagnosticService** – `diagnostic_service.py`, the aggregate `DiagnosticRun` and the
repositories behind one variable: `store` is `memory` (the repository keeps the
caller's object and never suspends, so `turn` stays with a task until it ends) or
`rows` (every call suspends and may raise, and `find_by_id` makes a fresh object
from a row that keeps neither connections, analysis nor events; `mine[c]` is the
object a task holds). `call[c]` is the await that a call of `start_run`, or the
pipeline it spawned, has reached; any number of calls may name one run. The check of
the status at line 115 refuses a second start, but on rows two calls that overlap both
read `pending`: two pipelines then work on the run, and `raced` remembers that it
happened to it. A save that raises leaves the row as it was. What a run's connections
and its analysis contain is not modelled here: SchemaAnalysis and Assessment say what
the analysis makes of the profiles. DiagnosticService implements RunLifecycle too, under
what `get_run_status` and `get_run_results` show of the runs not raced for.

**SchemaAnalysis** – `analyze_schemas`, `map_entity`, `detect_inconsistencies`.
**Assessment** – extends it with `generate_report`, the effort estimate and
`calculate_score`. A behaviour grows by a connection or a finding at a time. The plan is
modelled by `Precedes`, which of two items may come first: a higher priority, then a
higher severity, then, as the sort is stable, the order of the list (schema, pipeline,
middleware, data quality; within one of them either order). An estimate is any range of
days with any level, as a gap may carry; `FromLevel` gives the canonical ones that every
other item has. `LostDay` says where `int(total * 0.70)` falls a day short in binary
floating point, for totals below three million days.

**RateLimit** – the token bucket of `RateLimitMiddleware`. A token is counted in
parts, one minute's units of time to the token, so a rate per minute refills
whole parts. `SetClock` moves `time.time()` anywhere, backwards too.

The `MC…` modules only give constants their values.

## 3. The runs

| Run | What it shows | Bounds, and why they are enough |
|---|---|---|
| `manager` | permits conserved, checks end before closing starts, what stays open was given up, both calls end | three systems, two permits: one attempt always waits; one stubborn connector; both calls may be cancelled. No action relates more than two systems |
| `api` | reports cover the request, RunLifecycle implemented, every visible run ends unless its task is cancelled | two runs over two connections, cancellation at every await; runs touch each other only through connections. A million states, without symmetry because one property is a liveness |
| `pipeline` | what is left open was disconnected in vain, nothing skipped silently, PipelineContract implemented, the call ends | three definitions of every kind; the names `prod` and `prod (2)` collide with generated ones; any disconnect may fail; one cancellation anywhere but in a cleanup |
| `load` | uncounted requests only after a drain that ran out, a dead system is CRITICAL, the call returns by its limit, workers end | two workers, queue of four, seven requests: the queue fills while every worker is busy; queries and drain may each run out; cancellation of the call |
| `cache` | values live until their ttl, never later; what a deletion removed is never served | two callers, two keys, two values, clock of four ticks: any two calls overlap |
| `driver` | disconnect closes and releases for good; which methods end by their timeouts alone, and that the others end if the driver does | every class `create_connector` may return, the owner and one reader, two threads (a third caller would repeat the reader), one table |
| `service` | a run not raced for is executed once and its events told once and in order, RunLifecycle implemented; raced for or not, a run that shows as under way is worked on, and a started run ends | two runs, three calls, either repository: two or three calls may race for one run, or two while the third works on the other; the database raises anywhere |
| `readiness` | what a GO may hide, the plan accounts for the verdict, no finding improves it but the first blocking gap, and no system does unless tables are regrouped | estates of up to five systems and four tables from a menu of four that yields every kind of inconsistency and gap, grouped in every way the matcher may (up to three systems afresh at each step, which is what parting a pair takes; beyond that the groups grow by the new system); or up to seven of each of the five costliest findings, which reach every floor |
| `verdict_critical` | *violated*: a CRITICAL inconsistency makes NOT_READY | three systems and tables; two suffice |
| `assessment` | what a perfect score hides, what comes before a blocking gap, the effort covers its items, nothing added raises the score | four connections or findings in any mixture, two findings at most: three names, so one namesake; two findings are what an order relates; a canonical estimate and one of 10 to 25 days that the discount takes below its level. Findings of severity HIGH and LOW are left to the theorems |
| `rate` | no window admits more than burst and refill; Retry-After is enough while the clock is never set back | one address (buckets do not interact), one token a minute (the tightest rate), burst two, clock of three minutes |
| `matching` | groups disjoint, method no stronger than links, no pair left behind, no known table excluded from its entity's groups | every estate of four systems over five kinds of table, with three lists of declared entities: four systems are what two islands and a latecomer need |

`CHECK_DEADLOCK FALSE` stands where the system really stops: a closed manager,
finished runs and calls, a clock or a count at its bound.

Every property has a mutant in `PROJECT.json`: a definition of the model replaced
by a plausible bug (a cap dropped, a permit kept, a stage swapped, an await
forgotten) under which its run must fail.

### Fairness

- *manager*: `connect` is under `wait_for(timeout + 5)`, `ping` under
  `wait_for(10)`; `get_metadata` and `disconnect` have no timeout in the manager
  and are assumed to return, which `EveryCallEnds` of the driver reduces to the driver
  library. The event loop runs what is ready. Nobody owes the manager a call or a
  cancellation.
- *api*: weak fairness of the task's next step, whatever its outcome; handlers owe
  nothing, and a task may be cancelled.
- *pipeline*: weak fairness of the call's next step; its awaits are bounded by
  timeouts or assumed to return as above. The run's names and systems are finite, so
  no further assumption is needed for the loop that searches a free suffix.
- *driver*: timers fire, sleeps end, a free thread takes the first entry of the queue
  and a call without a connection fails. Nothing is assumed of the driver libraries;
  that their calls return is the hypothesis of `EveryCallEnds` and of nothing else.
- *service*: weak fairness of each task's next step, whatever its outcome. The
  database's exceptions and cancellations (`Stranded`) are never obliged to happen.
- *load*: weak fairness of the event loop and of the clock. Nothing is assumed of
  queries: their `wait_for` ends them.

## 4. What is proved

`ConnectionManagerProofs`, `DiagnosticApiProofs`, `PipelineProofs` (PipelineRunner and
LoadTest), `DriverConnectorProofs`, `DiagnosticServiceProofs`, `DiagnosisProofs`
(Readiness and Diagnosis), `AnalysisProofs` (SchemaAnalysis with Assessment, and
EntityMatcher) and `InMemoryProofs` (MemoryCache and RateLimit), all checked to the last
leaf, for every value of the constants that satisfies the named assumptions of the
module. Every safety invariant, action property and refinement that a passing run checks is a
theorem.

*ConnectionManager* (assumption: finitely many systems, at least one permit).
`IInv == TypeOK /\ PermitsConserved /\ Phasing /\ Accounted`. `PermitsConserved` is
not inductive alone: a release must not exceed the range that `TypeOK` states, and
that a cancelled `connect_all` gives every permit back needs the places of the
tasks. `Phasing` ties `pinging`, `closing` and `health` to the phase;
`Accounted` says an attempt has an outcome recorded exactly when it is over. From
them: `TypeCorrect`, `PermitsAreConserved`, `ChecksPrecedeClose`,
`OnlyGivenUpStayOpen`, `ProgressAddsUp` (with a lemma that splits the cardinality
of a finite set) and the action property `PoolShrinks`.

*DiagnosticApi.* `IInv` is `TypeOK` and, for each run, what the place of its task
implies about its status, its progress and its `gathered` connections. It gives
`TypeCorrect`, `ReportsMatchRuns`, `ReportsCover`, `DeletionIsFinal`, and
`Refinement`: the API implements RunLifecycle under the mapping that shows a run's
status only while it is in the store. The proof goes through a lemma on what a step
of one run changes of what clients see, so the fifteen actions are cased once.

*PipelineRunner.* `IInv == Shape /\ Naming /\ Covered`: the list of systems is
never longer than the definitions passed; its names are different and the connector in
flight has one that none of them has; a definition already passed is in the list or named by a
warning. `TypeCorrect`, `DistinctNames` and `NoSilentSkip` hold for any number of
definitions and any cancellations, and so does `Refinement`, that a call implements
PipelineContract, which needs besides that the `finally` clause always knows how the
call will end (`Ending`). `NothingLeaks` says that a connector the call leaves open is
one whose own disconnect was tried and failed; the invariant behind it is that what is
open and did not fail to close is still ahead of the cleanup loop (`OpenAccounted`). It
holds under `CleanupUndisturbed`: a cancellation inside a cleanup leaves the connectors
after it open untried, so without it the theorem would be false.

*LoadTest* (finitely many workers, positive times). `LoadInv` adds up the requests
(`RequestsAddUp`: sent is queued, under way, counted or dropped; `unfinished` is
queued and under way), which needs the cardinality of the busy workers to move by one
with every step, and by the number killed when they are cancelled; and `Phases`, that
the producer has stopped and how much of the drain is over when the call waits. From
it `NoRequestIsLost` and `EverythingCounted`: a call that returned before its drain
ran out counted everything. `Schedule` adds the times: how long each phase may still
take (`StopsInTime`, `EmptiedInTime`), where a swallowed cancellation costs one more
pass over what is queued, and that a request is always due (`SomeRequestIsDue`).
`TheCallReturnsInTime` and `ADeadSystemIsCritical` follow, the second because a call
that sent anything has counted something unless its drain is shorter than one query.

*DriverConnector* (finitely many readers, at least one thread). `IInv` is `TypeOK`,
who may be in which method (`Ownership`: only the owner connects and disconnects),
`ConnectedTellsTruth` and `NothingLeftOpen`; it gives `NothingLeaks`, `FlagsTellTruth`
and the action property `StaysReleased`. `ThreadsBounded`, that the calls running and
those abandoned never exceed the threads and that the queue is an order, rests on the
cardinality of the running calls.

*DiagnosticService* (any number of runs and calls, over either repository, with nothing
assumed of how calls overlap). The invariant has two parts. `BaseInv` holds whatever
the races: what a call holds fits the place it has reached. From it, and from a step lemma
that a run which becomes visible as under way has the call that made it so, follow
`TypeCorrect` and `UnderWayHasPipeline`. The rest of `IInv` is about the runs no two
calls raced for: for every call, what its place implies about the aggregate it holds
(`HeldAs`), the saved run (`SavedAs`) and the events collected (`EventsAs`); for every
run, what its status implies (`RunInv`); and that active calls have different runs
(`Alone`). In memory nothing is ever raced for, because between the check and the change
nobody else has the turn, and that is part of `BaseInv`; on rows the race takes a run out
of `Alone` at the moment it happens, and what the racing calls do afterwards cannot
reach another run. It gives `RunsExecuteOnce`, `EventsAreTold` and `Refinement` of
RunLifecycle: every step either shows nothing, moves one run forward (`Forward`), in
memory when the aggregate changes, on rows when it is saved, or drops a run that was
raced for.

*Readiness* (weights are naturals that add up to 100). `ScoreStaysInRange` and
`ScoreOnlyFalls`. The work is in monotonicity: a penalty grows, its score falls, the
weighted sum falls, and a lower score is graded no better.

*Diagnosis* (finitely many names of groups; any menu of systems, ratios and types, any
grouping). `EstateInv` says that the groups are a grouping and that, once there is a
system, the findings are those counted in the estate. All counts are of finite sets.
`VerdictOnlyFalls` is about findings handed to `calculate`. For estates, a system more
keeps what was found before (`FoundAgain`) as long as the matcher still puts every
earlier pair of tables together: no group's findings overwrite a namesake's
(`NothingOverwritten`), every rule that inferred a gap still fires (`RulesKeepFiring`), so
every penalty grows (`EstatePenaltiesGrow`). Hence `OnlyRegroupingHelps`: a better verdict
after one more system has no other cause than a pair of tables that the matcher parted or
turned round. `GoHidesLittle`, `PlanExplainsItsVerdict` and `OnlyRegroupingHelps` have
the hypothesis `Weight = DefaultWeights`, the only weights `run_diagnostic` uses; with
others they need not hold.

*SchemaAnalysis and Assessment* (finitely many fields). The invariant only says of
what type the connections and findings are. The substance is a theory of sums over
finite sets, since the model's sums are folds and the provers cannot instantiate an
induction theorem: that a sum exists, may be taken in any order (`SumWithout`) and
grows with the set is proved by the smallest counterexample, strict inclusion being
well-founded on the subsets of a finite set. `PerfectScore` then needs that a mean of
percentages is a hundred only if all of them are (`FullPercentages`);
`BlockingComesFirst` goes through the priorities of each kind of item, and leaves a tie
only at the cap; `EffortIsCovered` through what the discount leaves of the least total of
each level (`DiscountBounds`), whatever the ranges of the gaps; and
`ScoreOnlyFalls` through the costs being natural numbers and the items of a bigger
run a superset.

*EntityMatcher* (assumption `MatchAssumption`: a system's tables are contiguous,
fields are finite, the synonyms of different vocabulary entries are disjoint and
normalized, as those of SEED_VOCABULARY are). `MInv` says of each group that it has one
table of a system and two at least and that its labels are true (`Good`); that groups
are disjoint and the passes' records agree with them (`Bookkept`); and three things on
which the passes rely. A group's method follows from its links until an entry of the
vocabulary has come to its name (`Linked`, `Fresh`), which is what makes the merge of two
exact islands no longer exact; the exact pass comes to every name once (`ExactSoFar`);
an anchor once tried has no partner left (`Tried`), because later anchors only take
tables away. They give `GroupsSound`, `MethodsTellHow` and `NoPairIsLeft`.
`KnownTablesIncluded` has the hypothesis `KnownNames`, that a name which normalizes to
a known one is itself known, and a second invariant, `KInv`, that what the entries heard so far
have brought together stays together. Without the hypothesis it is false, and section
5 says how.

*MemoryCache* (any callers, keys and values). For deletion, `GoneInv`: a value is under
one key only, a set brings one that is nowhere yet, and what a delete found is
under a key it has still to sweep; hence `ServedNoneDeleted`, whatever the interleaving.
For lifetime, `TtlInv`: callers that keep apart have their keys to themselves, so what
a call read still stands when it acts on it; hence `ValuesLiveForTheirTtl`, which is
about values of calls that do not overlap on a key.

*RateLimit* (any rate, burst, minute and clock bound). `WindowIsBounded` needs that,
once an address was admitted in the window, what it was admitted and what its bucket
holds come together from the burst and the refill between `low` and its last refill,
which is no earlier than `low`, and that `low <= now <= high`; the product of rate and time is kept opaque behind three
lemmas. `RetryIsEnough` needs that, while the clock was never set back, no bucket
is overdrawn and `retryAt` is one minute after the last refill.

Only model-checked: everything under fairness (`BothCallsEnd`, `EveryRunEnds`,
`CallEnds`, `WorkersEnd`, `BoundedCallsEnd`, `EveryCallEnds`, `StartedRunEnds`), since
TLAPS proves no liveness and no ENABLED.

## 5. Findings

`verdict_critical`: TLC shows that a CRITICAL inconsistency (a key mismatch) need not
make NOT_READY. It reaches the verdict only through the one blocking gap it causes, and
one blocking gap makes NOT_YET (`readiness_calculator.py:105`), against
`docs/ddd/bounded-contexts.md:289`.

Observed while modelling, without a run of their own:

- *Manager.* `disconnect_all` skips a connector that a health check gave up
  (`connection_manager.py:224`, `:279`), then logs "all connections closed".
- *API.* A run deleted while its task works still stores a report that no request can
  remove (`diagnostics.py:208`, against the docstring at 373).
- *Pipeline.* A cancellation during the `finally` of `run_diagnostic` leaves the
  connectors after the interrupted one open (`pipeline_runner.py:679`; the comment at
  404 says they are disconnected). Excepted by the constant `CancelAt`, and by the
  hypothesis of `NothingLeaks`. Without any cancellation a disconnect that fails is
  swallowed (`pipeline_runner.py:419`) or only logged (`postgresql_connector.py:186`),
  and nobody tries again: excepted by `stuck` in `OnlyFailedClosesLeftOpen`.
- *Cache.* A `set` without ttl keeps the old deadline, and a `get` that overlaps a `set`
  may pop the new value (`cache.py:62`, `:70`; the docstring at 51 says "no eviction
  beyond TTL"). Excepted by `use.apart` and by the ttls of `Apart`.
- *Matcher.* A declared entity's group is stored under its raw name and looked up under
  the normalized one (`entity_matcher.py:312`, `:339`): a group declared as "Customers"
  is not extended. Excepted by the list of declared entities.
- *Load tester.* A `run_load_test` cancelled before its stop event leaves the workers
  polling (`pipeline_tester.py:210`); with Python 3.11 the drain may exceed the five
  seconds of the comment at 212.
- *Calculator.* The override lifts NOT_READY to NOT_YET for the first blocking gap
  (`readiness_calculator.py:105`, against the comment at 103). It takes findings no
  estate yields under the default weights.
- *Regrouping.* One system more can turn NOT_YET into GO. A table `account(client_id)` of
  one system and `customer(clients_id)` of another are one group, and their keys clash;
  a third system with both tables makes two groups of exact names
  (`entity_matcher.py:226`), which are not merged because they share a system (`:347`), so
  the comparison, and with it the blocking gap, is gone. `OnlyRegroupingImproves` excepts
  it, and says that nothing else improves an estate.
- *Schema analyzer.* Keys are compared by raw name: `Id` against `id` is CRITICAL and
  blocks, and "id" is also found in `valid` and `paid`. The greedy match lets two
  source fields take one target; what is missing in the source is computed and never
  reported, so the findings depend on the order of the systems. The plan leaves out
  MEDIUM inconsistencies, gaps that do not block and stress failures, though
  `bounded-contexts.md:290` promises every finding from MEDIUM on.
- *Connectors.* `disconnect` awaits one of four threads that statements past their
  timeout may hold (`postgresql_connector.py:183`), without a limit in any caller.
  A connect that timed out may leave a driver connection that nobody holds; after a
  cancelled disconnect the flags may still say connected; Salesforce's `get_metadata`
  after the shutdown returns tables without fields. `get_metadata` is under `wait_for`
  in `pipeline_runner.py:368` but not in `connection_manager.py:175`.
- *Service.* Two callers that start one pending run on rows at once both get through
  (`diagnostic_service.py:112` to `:121`), and two pipelines execute it: a run may then go
  back from completed to analyzing and tell its completion twice. The row has no version
  that would stop the second. From rows a run comes back without its connections, so its
  pipeline analyses none. The service analyses connected profiles only
  (`schema_analysis_service.py:70`). The first `find_by_id` of the pipeline is outside its `try`. Nothing
  keeps a reference to the task (`diagnostic_service.py:123`).
- *Assessment.* A consistency score of 1.0 ("perfectly consistent", `entities.py:227`)
  goes with fields missing from systems; connections of one name overwrite each other
  (`schema_analysis_service.py:85`). A blocking gap of MEDIUM severity comes after a HIGH
  inconsistency, and a blocking CRITICAL gap may come after one that does not block: the
  cap `min(10, ...)` (`report_service.py:409`) ties them and the stable sort keeps the
  order of the list; both are against the comment at `report_service.py:228`, "blocking/critical
  first". The total may be a level below an item: one gap of 10 to 25 days, HIGH, totals
  17 days, MEDIUM. And `int(total * 0.70)` loses a day at 90, 170, 180, 330.
- *Rate limiter.* After the clock was set back a bucket may be overdrawn and Retry-After
  untrue; buckets are never evicted. In `app.py` the limiter is not outermost, though the
  comment at 58 says so, and a crashed request leaves without the security headers that
  the comment at 61 promises on every response.
- *Worker.* `worker.py:124` starts a second event loop inside a running one, before the
  `try`, so the task fails and its row stays pending.
- *Repositories.* `connection_repository.py` leaves an index entry behind when a profile
  moves to another run; `diagnostic_repository.py:69` promises deep copies and stores
  references.

## 6. Not modelled, and why

Reasons per component are in `PROJECT.json`. In short: executive summary and HTML,
authentication, command line, assembly, database models and deployment are formatting,
wiring or input/output; nothing calls the data-quality checks; the Celery task cannot get past
its first call. The Redis and diskcache backends hand every operation to a
library. Inside modelled parts the abstractions are: latencies, percentiles and
timestamps; texts of messages and of statements; similarity of names (a relation or a
table of ratios); the host allowlist's parsing; `mock=True`, which opens and awaits
nothing; rounding of float sums by one unit in the last place.

One behaviour the code allows is kept out of a run by a constant, because what goes wrong
then is known and stated above: a cancellation inside a cleanup (`CancelAt`).

## 7. Plan

Done, in this order: ConnectionManager; RunLifecycle and DiagnosticApi;
PipelineContract and PipelineRunner; LoadTest; MemoryCache; Readiness; RateLimit;
EntityMatcher; DriverConnector; DiagnosticService; SchemaAnalysis and Assessment;
Diagnosis; proofs for all of them.

What would add most next:

1. Theorems about what the code promises beyond the runs' properties: that a closed
   connection manager has all its permits back, and that a finished load test's grade
   agrees with its counts.
2. The confidence of a matched group, an average of scores, which must not exceed what
   its weakest link justifies.
3. The Celery task over the repositories, once its event loop is repaired.
