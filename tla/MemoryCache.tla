---------------------------- MODULE MemoryCache -----------------------------
(***************************************************************************)
(* _InMemoryBackend of preflight/core/infrastructure/cache.py, under       *)
(* DiagnosticCache, which runs every operation on a thread of the default  *)
(* executor.  The backend keeps two dicts, _store and _expiry, without a   *)
(* lock: a step of the model is one operation on one dict, what the        *)
(* interpreter makes atomic, and the operations of several callers         *)
(* interleave between the steps.                                           *)
(*                                                                         *)
(* A value stands for the call of set that stores it, so no two calls      *)
(* store the same one.  The glob pattern of delete_pattern is the set of   *)
(* keys it matches.                                                        *)
(***************************************************************************)
EXTENDS Naturals, FiniteSets

CONSTANTS Callers,   \* tasks with a call under way, one executor thread each
          Keys,
          Patterns,  \* the sets of keys the patterns match
          MaxSets,   \* bound: calls of set
          MaxTime,   \* bound: ticks of the monotonic clock
          Uses       \* the ways to use the cache: whether calls on the same key are
                     \* kept apart, and the ttls in ticks (0 stands for None and 0)

ASSUME Assumption ==
    /\ Patterns \subseteq SUBSET Keys
    /\ MaxSets \in Nat /\ MaxTime \in Nat \ {0}
    /\ \A u \in Uses : u.apart \in BOOLEAN /\ u.ttls \subseteq Nat

VARIABLES
    store,     \* _store: the value of a key, 0 when it has none
    expiry,    \* _expiry: the deadline of a key, 0 when it has none
    call,      \* what each caller's call does next
    now,       \* time.monotonic()
    sets,      \* calls of set so far, which number the values
    promised,  \* history: the value each key should have, and until when
    lost,      \* history: values stored before a finished invalidation began
    use        \* the way this behaviour uses the cache

vars == <<store, expiry, call, now, sets, promised, lost, use>>
history == <<promised, lost, use>>

Values == 1..MaxSets
Forever == MaxTime + 1

NoPromise == [value |-> 0, until |-> 0]

Idle == [at |-> "idle", keys |-> {}]

Goto(c, next) == call' = [call EXCEPT ![c] = next]

\* May a call on these keys begin?
Free(K) == use.apart => \A d \in Callers : call[d].keys \cap K = {}

Init ==
    /\ store = [k \in Keys |-> 0]
    /\ expiry = [k \in Keys |-> 0]
    /\ call = [c \in Callers |-> Idle]
    /\ now = 1
    /\ sets = 0
    /\ promised = [k \in Keys |-> NoPromise]
    /\ lost = {}
    /\ use \in Uses

-----------------------------------------------------------------------------
(***************************************************************************)
(* get                                                                     *)
(***************************************************************************)

\* The value that a get which begins now finds past its deadline, if any.
Late(k) == IF promised[k].until \in 1..(now - 1) THEN promised[k].value ELSE 0

Get(c, k) ==
    /\ call[c] = Idle /\ Free({k})
    /\ Goto(c, [at |-> "look", keys |-> {k}, key |-> k,
                exp |-> 0, value |-> 0, late |-> Late(k), gone |-> lost])
    /\ UNCHANGED <<store, expiry, now, sets, history>>

\* exp = self._expiry.get(key)
Look(c) ==
    /\ call[c].at = "look"
    /\ LET exp == expiry[call[c].key]
       IN  Goto(c, [call[c] EXCEPT !.at = IF exp = 0 THEN "read" ELSE "judge",
                                   !.exp = exp])
    /\ UNCHANGED <<store, expiry, now, sets, history>>

\* Mutant: a deadline that has just come counts as passed.
PastOrNow(c) == now >= call[c].exp
\* time.monotonic() > exp
Past(c) == now > call[c].exp

Judge(c) ==
    /\ call[c].at = "judge"
    /\ Goto(c, [call[c] EXCEPT !.at = IF Past(c) THEN "pop" ELSE "read"])
    /\ UNCHANGED <<store, expiry, now, sets, history>>

\* self._store.pop(key, None)
PopStore(c) ==
    /\ call[c].at = "pop"
    /\ store' = [store EXCEPT ![call[c].key] = 0]
    /\ Goto(c, [call[c] EXCEPT !.at = "popExpiry"])
    /\ UNCHANGED <<expiry, now, sets, history>>

Answer(c, v) == Goto(c, [call[c] EXCEPT !.at = "answer", !.value = v])

\* self._expiry.pop(key, None); return None
PopExpiry(c) ==
    /\ call[c].at = "popExpiry"
    /\ expiry' = [expiry EXCEPT ![call[c].key] = 0]
    /\ Answer(c, 0)
    /\ UNCHANGED <<store, now, sets, history>>

\* return self._store.get(key)
Read(c) ==
    /\ call[c].at = "read"
    /\ Answer(c, store[call[c].key])
    /\ UNCHANGED <<store, expiry, now, sets, history>>

-----------------------------------------------------------------------------
(***************************************************************************)
(* set                                                                     *)
(***************************************************************************)

\* Does this caller's call store or delete a value of the key?
Writes(d, k) ==
    /\ k \in call[d].keys
    /\ call[d].at \notin {"look", "judge", "pop", "popExpiry", "read", "answer"}

\* A call that writes these keys ends what was promised of them.
Withdraw(K) == promised' = [k \in Keys |-> IF k \in K THEN NoPromise ELSE promised[k]]

\* A set that no other call to write the key overlaps promises its value; the
\* promise counts from the moment the set returns.
Prepare(k, v) ==
    promised' = [promised EXCEPT ![k] =
                    IF \E d \in Callers : Writes(d, k) THEN NoPromise
                    ELSE [value |-> v, until |-> 0]]

Promise(c, until) ==
    LET k == call[c].key
    IN  promised' = IF promised[k].value = call[c].value
                    THEN [promised EXCEPT ![k].until = until] ELSE promised

Set(c, k, ttl) ==
    /\ call[c] = Idle /\ Free({k})
    /\ sets < MaxSets /\ sets' = sets + 1
    /\ Goto(c, [at |-> "store", keys |-> {k}, key |-> k, value |-> sets',
                ttl |-> ttl])
    /\ Prepare(k, sets')
    /\ UNCHANGED <<store, expiry, now, lost, use>>

\* self._store[key] = value, and that is all without a ttl.
Store(c) ==
    /\ call[c].at = "store"
    /\ store' = [store EXCEPT ![call[c].key] = call[c].value]
    /\ IF call[c].ttl = 0
       THEN Goto(c, Idle) /\ Promise(c, Forever)
       ELSE Goto(c, [call[c] EXCEPT !.at = "expire"]) /\ UNCHANGED promised
    /\ UNCHANGED <<expiry, now, sets, lost, use>>

NewDeadline(k, ttl) == now + ttl

\* self._expiry[key] = time.monotonic() + ttl
Expire(c) ==
    /\ call[c].at = "expire"
    /\ expiry' = [expiry EXCEPT ![call[c].key] = NewDeadline(call[c].key, call[c].ttl)]
    /\ Promise(c, now + call[c].ttl)
    /\ Goto(c, Idle)
    /\ UNCHANGED <<store, now, sets, lost, use>>

-----------------------------------------------------------------------------
(***************************************************************************)
(* delete_pattern and clear                                                *)
(***************************************************************************)

Invalidate(c, K) ==
    /\ call[c] = Idle /\ Free(K)
    /\ Goto(c, [at |-> "match", keys |-> K, todo |-> {}, picked |-> {},
                before |-> {store[k] : k \in K} \ {0}])
    /\ Withdraw(K)
    /\ UNCHANGED <<store, expiry, now, sets, lost, use>>

\* Mutant: the keys are looked for among those with a deadline.
WithDeadline(K) == {k \in K : expiry[k] # 0}
\* matched = [k for k in list(self._store) if fnmatch.fnmatch(k, pattern)]
Matched(K) == {k \in K : store[k] # 0}

Match(c) ==
    /\ call[c].at = "match"
    /\ Goto(c, [call[c] EXCEPT !.at = "sweep", !.todo = Matched(call[c].keys)])
    /\ UNCHANGED <<store, expiry, now, sets, history>>

SweepStore(c, k) ==
    /\ call[c].at = "sweep" /\ k \in call[c].todo
    /\ store' = [store EXCEPT ![k] = 0]
    /\ Goto(c, [call[c] EXCEPT !.at = "sweepExpiry", !.picked = {k},
                               !.todo = @ \ {k}])
    /\ UNCHANGED <<expiry, now, sets, history>>

ForgetDeadlines(K) == [k \in Keys |-> IF k \in K THEN 0 ELSE expiry[k]]

SweepExpiry(c) ==
    /\ call[c].at = "sweepExpiry"
    /\ expiry' = ForgetDeadlines(call[c].picked)
    /\ Goto(c, [call[c] EXCEPT !.at = "sweep", !.picked = {}])
    /\ UNCHANGED <<store, now, sets, history>>

SweptAll(c) ==
    /\ call[c].at = "sweep" /\ call[c].todo = {}
    /\ lost' = lost \cup call[c].before
    /\ Goto(c, Idle)
    /\ UNCHANGED <<store, expiry, now, sets, promised, use>>

\* self._store.clear(), then self._expiry.clear()
Clear(c) ==
    /\ call[c] = Idle /\ Free(Keys)
    /\ store' = [k \in Keys |-> 0]
    /\ Goto(c, [at |-> "clearExpiry", keys |-> Keys,
                before |-> {store[k] : k \in Keys} \ {0}])
    /\ Withdraw(Keys)
    /\ UNCHANGED <<expiry, now, sets, lost, use>>

ClearExpiry(c) ==
    /\ call[c].at = "clearExpiry"
    /\ expiry' = [k \in Keys |-> 0]
    /\ lost' = lost \cup call[c].before
    /\ Goto(c, Idle)
    /\ UNCHANGED <<store, now, sets, promised, use>>

-----------------------------------------------------------------------------
\* The caller has its answer.
Answered(c) ==
    /\ call[c].at = "answer"
    /\ Goto(c, Idle)
    /\ UNCHANGED <<store, expiry, now, sets, history>>

Tick ==
    /\ now < MaxTime /\ now' = now + 1
    /\ UNCHANGED <<store, expiry, call, sets, history>>

Next ==
    \/ \E c \in Callers :
          \/ \E k \in Keys : Get(c, k) \/ (\E ttl \in use.ttls : Set(c, k, ttl))
                             \/ SweepStore(c, k)
          \/ \E K \in Patterns : Invalidate(c, K)
          \/ Look(c) \/ Judge(c) \/ PopStore(c) \/ PopExpiry(c) \/ Read(c)
          \/ Store(c) \/ Expire(c)
          \/ Match(c) \/ SweepExpiry(c) \/ SweptAll(c)
          \/ Clear(c) \/ ClearExpiry(c)
          \/ Answered(c)
    \/ Tick

Spec == Init /\ [][Next]_vars

-----------------------------------------------------------------------------
Places == {"idle", "look", "judge", "pop", "popExpiry", "read", "answer", "store",
           "expire", "match", "sweep", "sweepExpiry", "clearExpiry"}

TypeOK ==
    /\ store \in [Keys -> 0..sets]
    /\ expiry \in [Keys -> Nat]
    /\ DOMAIN call = Callers
    /\ \A c \in Callers : call[c].at \in Places /\ call[c].keys \subseteq Keys
    /\ now \in 1..MaxTime /\ sets \in 0..MaxSets
    /\ promised \in [Keys -> [value : 0..sets, until : Nat]]
    /\ lost \subseteq 1..sets
    /\ use \in Uses

\* "No eviction beyond TTL": a value whose set has returned is there until its
\* time is over, unless another call to write its key overlapped or followed.
NoEvictionBeyondTtl ==
    \A k \in Keys : promised[k].until # 0 /\ now <= promised[k].until
                      => store[k] = promised[k].value

\* When calls on a key do not overlap a value lives for its ttl: until then it is
\* there, provided every value has one, and a get that begins later does not
\* answer it.
LivesForItsTtl ==
    use.apart =>
        /\ 0 \notin use.ttls => NoEvictionBeyondTtl
        /\ \A c \in Callers : call[c].at = "answer" /\ call[c].late # 0
                          => call[c].value # call[c].late

\* A get that begins after delete_pattern or clear has returned does not answer
\* a value stored before that call began, however the calls interleave.
NeverServedAfterDelete ==
    \A c \in Callers : call[c].at = "answer" => call[c].value \notin call[c].gone
=============================================================================
