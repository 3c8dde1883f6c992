---------------------------- MODULE InMemoryProofs ----------------------------
(***************************************************************************)
(* The two tables the process keeps in memory: the dicts of the cache's    *)
(* backend, and the buckets of the rate limiter.                           *)
(*                                                                         *)
(* The cache.  Deletion: a value is under one key and number, a call of    *)
(* set brings one that is nowhere yet, and what a delete found is under a  *)
(* key it has still to sweep; so once the delete has returned the value is *)
(* nowhere, and no get that begins then can find it.  Lifetime: callers    *)
(* that keep apart have their keys to themselves, so what a call read      *)
(* still stands when it acts on it.                                        *)
(*                                                                         *)
(* The limiter, for every rate, burst and clock.  The refill multiplies    *)
(* the rate by a time, so the lemmas on products come first and hide it;   *)
(* the rest is linear arithmetic.                                          *)
(***************************************************************************)
EXTENDS MemoryCache, RateLimit, TLAPS

\* Where the call of each operation can be, and what it carries there.
GetPlaces == {"look", "judge", "pop", "popExpiry", "read", "answer"}
SetPlaces == {"store", "expire"}
SweepPlaces == {"match", "sweep", "sweepExpiry"}

Reading  == [at : GetPlaces, keys : SUBSET Keys, key : Keys, exp : Nat, value : Nat,
             late : Nat, gone : SUBSET Nat]
Setting  == [at : SetPlaces, keys : SUBSET Keys, key : Keys, value : Nat, ttl : Nat]
Sweeping == [at : SweepPlaces, keys : SUBSET Keys, todo : SUBSET Keys, picked : SUBSET Keys,
             before : SUBSET Nat]
Clearing == [at : {"clearExpiry"}, keys : SUBSET Keys, before : SUBSET Nat]
Calls == Reading \cup Setting \cup Sweeping \cup Clearing \cup {Idle}

\* The type invariant with the records of the calls, which the steps keep by
\* themselves; TypeOK follows from it at the end.
Typing ==
    /\ store \in [Keys -> Nat] /\ expiry \in [Keys -> Nat]
    /\ call \in [Callers -> Calls]
    /\ now \in 1..MaxTime /\ sets \in Nat
    /\ promised \in [Keys -> [value : Nat, until : Nat]]
    /\ lost \subseteq Nat /\ use \in Uses

\* Where a call is tells what it carries.
LEMMA Kinds ==
    ASSUME Typing, NEW c \in Callers
    PROVE  /\ call[c] \in Calls
           /\ call[c].at \in GetPlaces => call[c] \in Reading
           /\ call[c].at \in SetPlaces => call[c] \in Setting
           /\ call[c].at \in SweepPlaces => call[c] \in Sweeping
           /\ call[c].at = "clearExpiry" => call[c] \in Clearing
BY DEF Typing, Calls, Reading, Setting, Sweeping, Clearing, Idle, GetPlaces, SetPlaces, SweepPlaces

LEMMA TypingInit == Init => Typing
BY Assumption DEF Init, Typing, Calls, Idle, NoPromise

\* The steps of a get and those that end a call.
LEMMA TypingReads ==
    ASSUME Typing, NEW c \in Callers,
           \/ \E k \in Keys : Get(c, k)
           \/ Look(c) \/ Judge(c) \/ PopStore(c) \/ PopExpiry(c) \/ Read(c) \/ Answered(c)
    PROVE  Typing'
<1> USE DEF history
<1>1. call' \in [Callers -> Calls]
  <2>1. CASE \E k \in Keys : Get(c, k)
    <3>1. PICK k \in Keys : Get(c, k)
      BY <2>1
    <3>2. Late(k) \in Nat
      BY DEF Late, Typing
    <3> DEFINE new == [at |-> "look", keys |-> {k}, key |-> k,
                       exp |-> 0, value |-> 0, late |-> Late(k), gone |-> lost]
    <3>3. new \in Reading
      BY <3>2 DEF Reading, GetPlaces, Typing
    <3> QED
      BY <3>1, <3>3 DEF Get, Goto, Typing, Calls
  <2>2. CASE Look(c)
    <3>1. call[c] \in Reading
      BY <2>2, Kinds DEF Look, GetPlaces
    <3>2. expiry[call[c].key] \in Nat
      BY <3>1 DEF Typing, Reading
    <3>3. [call[c] EXCEPT !.at = IF expiry[call[c].key] = 0 THEN "read" ELSE "judge",
                          !.exp = expiry[call[c].key]] \in Reading
      BY <3>1, <3>2 DEF Reading, GetPlaces
    <3> QED
      BY <2>2, <3>3 DEF Look, Goto, Typing, Calls
  <2>3. CASE Judge(c)
    <3>1. call[c] \in Reading
      BY <2>3, Kinds DEF Judge, GetPlaces
    <3>2. [call[c] EXCEPT !.at = IF Past(c) THEN "pop" ELSE "read"] \in Reading
      BY <3>1 DEF Reading, GetPlaces
    <3> QED
      BY <2>3, <3>2 DEF Judge, Goto, Typing, Calls
  <2>4. CASE PopStore(c)
    <3>1. call[c] \in Reading
      BY <2>4, Kinds DEF PopStore, GetPlaces
    <3>2. [call[c] EXCEPT !.at = "popExpiry"] \in Reading
      BY <3>1 DEF Reading, GetPlaces
    <3> QED
      BY <2>4, <3>2 DEF PopStore, Goto, Typing, Calls
  <2>5. CASE PopExpiry(c) \/ Read(c)
    <3>1. call[c] \in Reading
      BY <2>5, Kinds DEF PopExpiry, Read, GetPlaces
    <3>2. \A v \in Nat : [call[c] EXCEPT !.at = "answer", !.value = v] \in Reading
      BY <3>1 DEF Reading, GetPlaces
    <3>3. store[call[c].key] \in Nat
      BY <3>1 DEF Typing, Reading
    <3>4. \E v \in Nat : Answer(c, v)
      BY <2>5, <3>3 DEF PopExpiry, Read
    <3>5. PICK v \in Nat : Answer(c, v)
      BY <3>4
    <3>6. [call[c] EXCEPT !.at = "answer", !.value = v] \in Calls
      BY <3>2 DEF Calls
    <3> QED
      BY <3>5, <3>6 DEF Answer, Goto, Typing
  <2>6. CASE Answered(c)
    BY <2>6 DEF Answered, Goto, Typing, Calls
  <2> QED
    BY <2>1, <2>2, <2>3, <2>4, <2>5, <2>6
<1>2. store' \in [Keys -> Nat] /\ expiry' \in [Keys -> Nat]
  <2>1. store' = store \/ store' = [store EXCEPT ![call[c].key] = 0]
    BY DEF Get, Look, Judge, PopStore, PopExpiry, Read, Answered
  <2>2. expiry' = expiry \/ expiry' = [expiry EXCEPT ![call[c].key] = 0]
    BY DEF Get, Look, Judge, PopStore, PopExpiry, Read, Answered
  <2> QED
    BY <2>1, <2>2 DEF Typing
<1>3. UNCHANGED <<now, sets, promised, lost, use>>
  BY DEF Get, Look, Judge, PopStore, PopExpiry, Read, Answered
<1> QED
  BY <1>1, <1>2, <1>3 DEF Typing

\* The steps of a set.
LEMMA TypingSets ==
    ASSUME Typing, NEW c \in Callers,
           \/ \E k \in Keys : \E ttl \in use.ttls : Set(c, k, ttl)
           \/ Store(c) \/ Expire(c)
    PROVE  Typing'
<1>1. CASE \E k \in Keys : \E ttl \in use.ttls : Set(c, k, ttl)
  <2>1. PICK k \in Keys, ttl \in use.ttls : Set(c, k, ttl)
    BY <1>1
  <2>2. sets' = sets + 1 /\ sets' \in Nat /\ ttl \in Nat
    BY <2>1, Assumption DEF Set, Typing
  <2>3. [at |-> "store", keys |-> {k}, key |-> k, value |-> sets', ttl |-> ttl] \in Setting
    BY <2>2 DEF Setting, SetPlaces
  <2>4. call' \in [Callers -> Calls]
    BY <2>1, <2>3 DEF Set, Goto, Typing, Calls
  <2>5. promised' \in [Keys -> [value : Nat, until : Nat]]
    BY <2>1, <2>2 DEF Set, Prepare, Typing, NoPromise
  <2> QED
    BY <2>1, <2>2, <2>4, <2>5 DEF Set, Typing
<1>2. CASE Store(c) \/ Expire(c)
  <2>1. call[c] \in Setting
    BY <1>2, Kinds DEF Store, Expire, SetPlaces
  <2>2. /\ call[c].key \in Keys /\ call[c].value \in Nat /\ call[c].ttl \in Nat
        /\ [call[c] EXCEPT !.at = "expire"] \in Setting
    BY <2>1 DEF Setting, SetPlaces
  <2>3. call' \in [Callers -> Calls]
    BY <1>2, <2>2 DEF Store, Expire, Goto, Typing, Calls
  <2>4. /\ Forever \in Nat /\ NewDeadline(call[c].key, call[c].ttl) \in Nat
        /\ now + call[c].ttl \in Nat
    BY <2>2, Assumption DEF Typing, Forever, NewDeadline
  <2>5. \A u \in Nat : Promise(c, u) => promised' \in [Keys -> [value : Nat, until : Nat]]
    BY <2>2 DEF Promise, Typing
  <2>6. promised' \in [Keys -> [value : Nat, until : Nat]]
    BY <1>2, <2>4, <2>5 DEF Store, Expire, Typing
  <2>7. store' \in [Keys -> Nat] /\ expiry' \in [Keys -> Nat]
    BY <1>2, <2>2, <2>4 DEF Store, Expire, Typing
  <2> QED
    BY <1>2, <2>3, <2>6, <2>7 DEF Store, Expire, Typing
<1> QED
  BY <1>1, <1>2

\* The steps of delete_pattern and clear.
LEMMA TypingDeletes ==
    ASSUME Typing, NEW c \in Callers,
           \/ \E K \in Patterns : Invalidate(c, K)
           \/ \E k \in Keys : SweepStore(c, k)
           \/ Match(c) \/ SweepExpiry(c) \/ SweptAll(c) \/ Clear(c) \/ ClearExpiry(c)
    PROVE  Typing'
<1> USE DEF history
<1>0. \A K \in SUBSET Keys : {store[k] : k \in K} \ {0} \in SUBSET Nat
  BY DEF Typing
<1>1. CASE \E K \in Patterns : Invalidate(c, K)
  <2>1. PICK K \in Patterns : Invalidate(c, K)
    BY <1>1
  <2>2. K \in SUBSET Keys
    BY Assumption
  <2>3. [at |-> "match", keys |-> K, todo |-> {}, picked |-> {},
         before |-> {store[k] : k \in K} \ {0}] \in Sweeping
    BY <1>0, <2>2 DEF Sweeping, SweepPlaces
  <2>4. call' \in [Callers -> Calls]
    BY <2>1, <2>3 DEF Invalidate, Goto, Typing, Calls
  <2>5. promised' \in [Keys -> [value : Nat, until : Nat]]
    BY <2>1 DEF Invalidate, Withdraw, Typing, NoPromise
  <2> QED
    BY <2>1, <2>4, <2>5 DEF Invalidate, Typing
<1>2. CASE Clear(c)
  <2>1. [at |-> "clearExpiry", keys |-> Keys, before |-> {store[k] : k \in Keys} \ {0}] \in Clearing
    BY <1>0 DEF Clearing
  <2>2. call' \in [Callers -> Calls]
    BY <1>2, <2>1 DEF Clear, Goto, Typing, Calls
  <2>3. promised' \in [Keys -> [value : Nat, until : Nat]]
    BY <1>2 DEF Clear, Withdraw, Typing, NoPromise
  <2> QED
    BY <1>2, <2>2, <2>3 DEF Clear, Typing
<1>3. CASE ClearExpiry(c)
  <2>1. call[c] \in Clearing
    BY <1>3, Kinds DEF ClearExpiry
  <2>2. call[c].before \in SUBSET Nat
    BY <2>1 DEF Clearing
  <2> QED
    BY <1>3, <2>2 DEF ClearExpiry, Goto, Typing, Calls
<1>4. CASE Match(c) \/ (\E k \in Keys : SweepStore(c, k)) \/ SweepExpiry(c) \/ SweptAll(c)
  <2>1. call[c] \in Sweeping
    BY <1>4, Kinds DEF Match, SweepStore, SweepExpiry, SweptAll, SweepPlaces
  <2>2. /\ call[c].before \in SUBSET Nat /\ call[c].keys \in SUBSET Keys
        /\ call[c].todo \in SUBSET Keys
    BY <2>1 DEF Sweeping
  <2>3. call' \in [Callers -> Calls]
    <3>1. [call[c] EXCEPT !.at = "sweep", !.todo = Matched(call[c].keys)] \in Sweeping
      BY <2>1, <2>2 DEF Sweeping, SweepPlaces, Matched
    <3>2. \A k \in Keys : [call[c] EXCEPT !.at = "sweepExpiry", !.picked = {k},
                                          !.todo = call[c].todo \ {k}] \in Sweeping
      BY <2>1, <2>2 DEF Sweeping, SweepPlaces
    <3>3. [call[c] EXCEPT !.at = "sweep", !.picked = {}] \in Sweeping
      BY <2>1 DEF Sweeping, SweepPlaces
    <3> QED
      BY <1>4, <3>1, <3>2, <3>3 DEF Match, SweepStore, SweepExpiry, SweptAll, Goto, Typing, Calls
  <2>4. store' \in [Keys -> Nat] /\ expiry' \in [Keys -> Nat] /\ lost' \subseteq Nat
    <3>1. store' = store \/ \E k \in Keys : store' = [store EXCEPT ![k] = 0]
      BY <1>4 DEF Match, SweepStore, SweepExpiry, SweptAll
    <3>2. expiry' = expiry \/ expiry' = ForgetDeadlines(call[c].picked)
      BY <1>4 DEF Match, SweepStore, SweepExpiry, SweptAll
    <3>3. lost' = lost \/ lost' = lost \cup call[c].before
      BY <1>4 DEF Match, SweepStore, SweepExpiry, SweptAll
    <3>4. store' \in [Keys -> Nat]
      BY <3>1 DEF Typing
    <3>5. expiry' \in [Keys -> Nat]
      BY <3>2 DEF ForgetDeadlines, Typing
    <3>6. lost' \subseteq Nat
      BY <2>2, <3>3 DEF Typing
    <3> QED
      BY <3>4, <3>5, <3>6
  <2> QED
    BY <1>4, <2>3, <2>4 DEF Match, SweepStore, SweepExpiry, SweptAll, Typing
<1> QED
  BY <1>1, <1>2, <1>3, <1>4

LEMMA TypingTick ==
    ASSUME Typing, Tick
    PROVE  Typing'
BY Assumption DEF Tick, history, Typing

LEMMA Typed == Spec => []Typing
<1>1. Typing /\ [Next]_vars => Typing'
  <2> SUFFICES ASSUME Typing, [Next]_vars
               PROVE  Typing'
    OBVIOUS
  <2>1. CASE UNCHANGED vars
    BY <2>1 DEF vars, Typing
  <2>2. ASSUME NEW c \in Callers,
               \/ \E k \in Keys : Get(c, k) \/ (\E ttl \in use.ttls : Set(c, k, ttl))
                             \/ SweepStore(c, k)
               \/ \E K \in Patterns : Invalidate(c, K)
               \/ Look(c) \/ Judge(c) \/ PopStore(c) \/ PopExpiry(c) \/ Read(c)
               \/ Store(c) \/ Expire(c)
               \/ Match(c) \/ SweepExpiry(c) \/ SweptAll(c)
               \/ Clear(c) \/ ClearExpiry(c)
               \/ Answered(c)
        PROVE  Typing'
    BY <2>2, TypingReads, TypingSets, TypingDeletes
  <2> QED
    BY <2>1, <2>2, TypingTick DEF Next
<1> QED
  BY TypingInit, <1>1, PTL DEF Spec

-----------------------------------------------------------------------------
(* The cache: nothing deleted is served *)

Deletes == SweepPlaces \cup {"clearExpiry"}

\* A value is under one key at most, numbered by a set that has begun, and gone
\* for good when the call that deletes it returns.
Stored ==
    /\ \A k \in Keys : store[k] <= sets /\ store[k] \notin lost
    /\ \A k, l \in Keys : store[k] = store[l] /\ store[k] # 0 => k = l
    /\ \A v \in lost : v \in 1..sets

\* What a call owes: a get knows some of the lost values and answers none of
\* these; a set brings a value that is nowhere yet; what a delete found when it
\* began is under a key it has still to match, or to sweep.
Owes(c) ==
    /\ call[c].at \in GetPlaces => call[c].gone \subseteq lost
    /\ call[c].at = "answer" => call[c].value \notin call[c].gone
    /\ call[c].at = "store" => /\ call[c].value \in 1..sets /\ call[c].value \notin lost
                               /\ \A k \in Keys : store[k] # call[c].value
    /\ call[c].at \in Deletes => \A v \in call[c].before : v \in 1..sets
    /\ call[c].at = "match" => \A k \in Keys : store[k] \in call[c].before => k \in call[c].keys
    /\ call[c].at \in {"sweep", "sweepExpiry"} =>
          \A k \in Keys : store[k] \in call[c].before => k \in call[c].todo
    /\ call[c].at = "clearExpiry" => \A k \in Keys : store[k] \notin call[c].before

\* No two sets bring one value, and none brings what a delete is deleting.
Brought ==
    \A c, d \in Callers :
        call[c].at = "store" =>
            /\ call[d].at = "store" /\ c # d => call[c].value # call[d].value
            /\ call[d].at \in Deletes => call[c].value \notin call[d].before

GoneInv == Stored /\ (\A c \in Callers : Owes(c)) /\ Brought

\* What the steps of a get do to the call.
LEMMA ReadSteps ==
    ASSUME Typing, NEW c \in Callers,
           Look(c) \/ Judge(c) \/ PopStore(c) \/ PopExpiry(c) \/ Read(c)
    PROVE  /\ call[c] \in Reading /\ call'[c] \in Reading
           /\ \A d \in Callers : d # c => call'[d] = call[d]
           /\ call'[c].keys = call[c].keys /\ call'[c].key = call[c].key
           /\ call'[c].late = call[c].late /\ call'[c].gone = call[c].gone
           /\ Look(c) => /\ call'[c].exp = expiry[call[c].key]
                         /\ call'[c].at = IF expiry[call[c].key] = 0 THEN "read" ELSE "judge"
           /\ Judge(c) => /\ call'[c].at = IF now > call[c].exp THEN "pop" ELSE "read"
                          /\ call'[c].exp = call[c].exp
           /\ PopStore(c) => call'[c].at = "popExpiry"
           /\ PopExpiry(c) => call'[c].at = "answer" /\ call'[c].value = 0
           /\ Read(c) => call'[c].at = "answer" /\ call'[c].value = store[call[c].key]
<1>1. call[c] \in Reading
  BY Kinds DEF Look, Judge, PopStore, PopExpiry, Read, GetPlaces
<1>2. /\ \A d \in Callers : d # c => call'[d] = call[d]
      /\ Look(c) => call'[c] = [call[c] EXCEPT
                        !.at = IF expiry[call[c].key] = 0 THEN "read" ELSE "judge",
                        !.exp = expiry[call[c].key]]
      /\ Judge(c) => call'[c] = [call[c] EXCEPT !.at = IF now > call[c].exp THEN "pop" ELSE "read"]
      /\ PopStore(c) => call'[c] = [call[c] EXCEPT !.at = "popExpiry"]
      /\ PopExpiry(c) => call'[c] = [call[c] EXCEPT !.at = "answer", !.value = 0]
      /\ Read(c) => call'[c] = [call[c] EXCEPT !.at = "answer", !.value = store[call[c].key]]
  BY DEF Look, Judge, Past, PopStore, PopExpiry, Read, Answer, Goto, Typing
<1>3. expiry[call[c].key] \in Nat /\ store[call[c].key] \in Nat
  BY <1>1 DEF Reading, Typing
<1>4. /\ Look(c) => call[c].at = "look"
      /\ Judge(c) => call[c].at = "judge"
      /\ PopStore(c) => call[c].at = "pop"
      /\ PopExpiry(c) => call[c].at = "popExpiry"
      /\ Read(c) => call[c].at = "read"
  BY DEF Look, Judge, PopStore, PopExpiry, Read
<1>5. CASE Look(c)
  BY <1>1, <1>2, <1>3, <1>4, <1>5 DEF Reading, GetPlaces
<1>6. CASE Judge(c)
  BY <1>1, <1>2, <1>3, <1>4, <1>6 DEF Reading, GetPlaces
<1>7. CASE PopStore(c)
  BY <1>1, <1>2, <1>3, <1>4, <1>7 DEF Reading, GetPlaces
<1>8. CASE PopExpiry(c)
  <2>1. call'[c] = [call[c] EXCEPT !.at = "answer", !.value = 0]
    BY <1>2, <1>8
  <2>2. ~Look(c) /\ ~Judge(c) /\ ~PopStore(c) /\ ~Read(c)
    BY <1>4, <1>8
  <2>3. PICK v \in Nat : v = 0
    OBVIOUS
  <2>4. call'[c] = [call[c] EXCEPT !.at = "answer", !.value = v]
    BY <2>1, <2>3
  <2>5. /\ call'[c] \in Reading /\ call'[c].at = "answer" /\ call'[c].value = v
        /\ call'[c].keys = call[c].keys /\ call'[c].key = call[c].key
        /\ call'[c].late = call[c].late /\ call'[c].gone = call[c].gone
    BY <1>1, <2>4 DEF Reading, GetPlaces
  <2> QED
    BY <1>1, <1>2, <1>8, <2>2, <2>3, <2>5
<1>9. CASE Read(c)
  BY <1>1, <1>2, <1>3, <1>4, <1>9 DEF Reading, GetPlaces
<1> QED
  BY <1>5, <1>6, <1>7, <1>8, <1>9

LEMMA GoneInit == Init => GoneInv
BY DEF Init, GoneInv, Stored, Owes, Brought, Idle, GetPlaces, Deletes, SweepPlaces

\* Taking values out of the store and adding none keeps everybody's debts.
LEMMA StoreShrinks ==
    ASSUME Typing, GoneInv, sets' = sets, lost' = lost,
           \A k \in Keys : store'[k] = store[k] \/ store'[k] = 0
    PROVE  /\ Stored'
           /\ \A d \in Callers : call'[d] = call[d] => Owes(d)'
<1>1. \A v \in lost : v \in 1..sets
  BY DEF GoneInv, Stored
<1>2. Stored'
  BY <1>1 DEF GoneInv, Stored, Typing
<1>3. ASSUME NEW d \in Callers, call'[d] = call[d]
      PROVE  Owes(d)'
  <2>1. Owes(d)
    BY DEF GoneInv
  <2>2. \A v \in call[d].before : call[d].at \in Deletes => v # 0
    BY <2>1 DEF Owes
  <2>3. {"match", "sweep", "sweepExpiry", "clearExpiry"} \subseteq Deletes
    BY DEF Deletes, SweepPlaces
  <2> QED
    BY <1>3, <2>1, <2>2, <2>3 DEF Owes
<1> QED
  BY <1>2, <1>3

\* The steps that neither begin a set nor a delete, store a value or end a delete.
LEMMA GoneReads ==
    ASSUME Typing, GoneInv, NEW c \in Callers,
           \/ \E k \in Keys : Get(c, k)
           \/ Look(c) \/ Judge(c) \/ PopStore(c) \/ PopExpiry(c) \/ Read(c) \/ Answered(c)
    PROVE  GoneInv'
<1> USE DEF history
<1>1. /\ sets' = sets /\ lost' = lost
      /\ \A k \in Keys : store'[k] = store[k] \/ store'[k] = 0
      /\ \A d \in Callers : d # c => call'[d] = call[d]
  BY DEF Get, Look, Judge, PopStore, PopExpiry, Read, Answer, Answered, Goto, Typing
<1>2. call'[c].at \in GetPlaces \cup {"idle"}
  <2>1. CASE \E k \in Keys : Get(c, k)
    BY <2>1 DEF Get, Goto, Typing, GetPlaces
  <2>3. CASE Answered(c)
    BY <2>3 DEF Answered, Goto, Typing, Idle
  <2>2. CASE Look(c) \/ Judge(c) \/ PopStore(c) \/ PopExpiry(c) \/ Read(c)
    BY <2>2, ReadSteps DEF Reading
  <2> QED
    BY <2>1, <2>2, <2>3
<1>3. Owes(c)'
  <2> SUFFICES /\ call'[c].at \in GetPlaces => call'[c].gone \subseteq lost
               /\ call'[c].at = "answer" => call'[c].value \notin call'[c].gone
    BY <1>1, <1>2 DEF Owes, GetPlaces, Deletes, SweepPlaces
  <2>0. Owes(c)
    BY DEF GoneInv
  <2>1. CASE \E k \in Keys : Get(c, k)
    BY <2>1 DEF Get, Goto, Typing, GetPlaces
  <2>3. CASE Answered(c)
    BY <2>3 DEF Answered, Goto, Typing, Idle, GetPlaces
  <2>2. CASE Look(c) \/ Judge(c) \/ PopStore(c) \/ PopExpiry(c) \/ Read(c)
    <3>1. call[c] \in Reading /\ call[c].at \in GetPlaces /\ call'[c].gone = call[c].gone
      BY <2>2, ReadSteps DEF Reading
    <3>2. call'[c].gone \subseteq lost
      BY <2>0, <3>1 DEF Owes
    <3>3. \A k \in Keys : store[k] \notin lost
      BY DEF GoneInv, Stored
    <3>4. 0 \notin lost
      BY DEF GoneInv, Stored
    <3>5. call'[c].at = "answer" => call'[c].value \notin lost
      BY <2>2, <3>1, <3>3, <3>4, ReadSteps DEF Reading
    <3> QED
      BY <3>2, <3>5
  <2> QED
    BY <2>1, <2>2, <2>3
<1>4. Brought'
  BY <1>1, <1>2 DEF GoneInv, Brought, GetPlaces, Deletes, SweepPlaces
<1> QED
  BY <1>1, <1>3, <1>4, StoreShrinks DEF GoneInv

LEMMA GoneSets ==
    ASSUME Typing, GoneInv, NEW c \in Callers,
           \/ \E k \in Keys : \E ttl \in use.ttls : Set(c, k, ttl)
           \/ Store(c) \/ Expire(c)
    PROVE  GoneInv'
<1> USE DEF GetPlaces, Deletes, SweepPlaces
<1>0. /\ \A d \in Callers : Owes(d)
      /\ Stored /\ Brought
  BY DEF GoneInv
<1>1. CASE \E k \in Keys : \E ttl \in use.ttls : Set(c, k, ttl)
  <2>1. PICK k \in Keys, ttl \in use.ttls : Set(c, k, ttl)
    BY <1>1
  <2>2. /\ sets \in Nat /\ sets' = sets + 1 /\ lost' = lost /\ store' = store
        /\ \A d \in Callers : d # c => call'[d] = call[d]
        /\ call'[c].at = "store" /\ call'[c].value = sets + 1
    BY <2>1 DEF Set, Goto, Typing
  <2>3. Stored'
    BY <1>0, <2>2 DEF Stored, Typing
  <2>4. ASSUME NEW d \in Callers
        PROVE  Owes(d)'
    <3>1. CASE d = c
      BY <1>0, <2>2, <3>1 DEF Owes, Stored, Typing
    <3>2. CASE d # c
      BY <1>0, <2>2, <3>2 DEF Owes
    <3> QED
      BY <3>1, <3>2
  <2>5. Brought'
    <3>1. \A d \in Callers : call[d].at = "store" => call[d].value \in 1..sets
      BY <1>0 DEF Owes
    <3>2. \A d \in Callers : call[d].at \in Deletes => sets + 1 \notin call[d].before
      BY <1>0, <2>2 DEF Owes
    <3> QED
      BY <1>0, <2>2, <3>1, <3>2 DEF Brought
  <2> QED
    BY <2>3, <2>4, <2>5 DEF GoneInv
<1>2. CASE Store(c)
  <2>1. call[c] \in Setting /\ call[c].at = "store" /\ call[c].key \in Keys
    BY <1>2, Kinds DEF Store, SetPlaces, Setting
  <2> DEFINE v == call[c].value
  <2>2. /\ sets' = sets /\ lost' = lost /\ store' = [store EXCEPT ![call[c].key] = v]
        /\ \A d \in Callers : d # c => call'[d] = call[d]
        /\ call'[c].at \in {"idle", "expire"}
    BY <1>2, <2>1 DEF Store, Goto, Typing, Idle, Setting
  <2>3. v \in 1..sets /\ v \notin lost /\ \A k \in Keys : store[k] # v
    BY <1>0, <2>1 DEF Owes
  <2>4. \A k \in Keys : store'[k] = IF k = call[c].key THEN v ELSE store[k]
    BY <2>1, <2>2 DEF Typing
  <2>5. \A d \in Callers : d # c =>
            /\ call[d].at = "store" => v # call[d].value
            /\ call[d].at \in Deletes => v \notin call[d].before
    BY <1>0, <2>1 DEF Brought
  <2> HIDE DEF v
  <2>6. Stored'
    BY <1>0, <2>2, <2>3, <2>4 DEF Stored, Typing
  <2>7. ASSUME NEW d \in Callers
        PROVE  Owes(d)'
    <3>1. CASE d = c
      BY <2>2, <3>1 DEF Owes
    <3>2. CASE d # c
      BY <1>0, <2>2, <2>4, <2>5, <3>2 DEF Owes
    <3> QED
      BY <3>1, <3>2
  <2>8. Brought'
    BY <1>0, <2>2 DEF Brought
  <2> QED
    BY <2>6, <2>7, <2>8 DEF GoneInv
<1>3. CASE Expire(c)
  <2>1. /\ sets' = sets /\ lost' = lost /\ store' = store
        /\ \A d \in Callers : d # c => call'[d] = call[d]
        /\ call'[c].at = "idle"
    BY <1>3 DEF Expire, Goto, Typing, Idle
  <2>2. Owes(c)' /\ Brought'
    BY <1>0, <2>1 DEF Owes, Brought
  <2> QED
    BY <2>1, <2>2, StoreShrinks DEF GoneInv
<1> QED
  BY <1>1, <1>2, <1>3

\* The steps of a delete that take nothing that is lost off its list.
LEMMA GoneDeletes ==
    ASSUME Typing, GoneInv, NEW c \in Callers,
           \/ \E K \in Patterns : Invalidate(c, K)
           \/ \E k \in Keys : SweepStore(c, k)
           \/ Match(c) \/ SweepExpiry(c) \/ Clear(c)
    PROVE  GoneInv'
<1> USE DEF GetPlaces, Deletes, SweepPlaces, history
<1>0. /\ \A d \in Callers : Owes(d)
      /\ Stored /\ Brought
  BY DEF GoneInv
<1>1. /\ sets' = sets /\ lost' = lost
      /\ \A k \in Keys : store'[k] = store[k] \/ store'[k] = 0
      /\ \A d \in Callers : d # c => call'[d] = call[d]
  BY DEF Invalidate, SweepStore, Match, SweepExpiry, Clear, Goto, Typing
<1>2. /\ call'[c].at \in Deletes
      /\ \A v \in call'[c].before : \/ \E k \in Keys : store[k] = v /\ v # 0
                                    \/ call[c].at \in Deletes /\ v \in call[c].before
      /\ Owes(c)'
  <2>1. CASE \E K \in Patterns : Invalidate(c, K)
    <3>1. PICK K \in Patterns : Invalidate(c, K)
      BY <2>1
    <3>2. K \subseteq Keys
      BY Assumption
    <3>3. /\ call'[c].at = "match" /\ call'[c].keys = K
          /\ call'[c].before = {store[k] : k \in K} \ {0} /\ store' = store
      BY <3>1 DEF Invalidate, Goto, Typing
    <3>4. \A v \in call'[c].before : v \in 1..sets
      BY <1>0, <3>2, <3>3 DEF Stored, Typing
    <3>5. \A k \in Keys : store[k] \in call'[c].before => k \in K
      BY <1>0, <3>2, <3>3 DEF Stored
    <3> QED
      BY <1>1, <3>2, <3>3, <3>4, <3>5 DEF Owes
  <2>2. CASE Clear(c)
    <3>1. /\ call'[c].at = "clearExpiry"
          /\ call'[c].before = {store[k] : k \in Keys} \ {0}
          /\ \A k \in Keys : store'[k] = 0
      BY <2>2 DEF Clear, Goto, Typing
    <3>2. \A v \in call'[c].before : v \in 1..sets
      BY <1>0, <3>1 DEF Stored, Typing
    <3> QED
      BY <1>1, <3>1, <3>2 DEF Owes
  <2>3. CASE Match(c)
    <3>1. call[c] \in Sweeping /\ call[c].at = "match" /\ store' = store
      BY <2>3, Kinds DEF Match
    <3>2. /\ call'[c].at = "sweep" /\ call'[c].before = call[c].before
          /\ call'[c].todo = {k \in call[c].keys : store[k] # 0}
      BY <2>3, <3>1 DEF Match, Matched, Goto, Typing, Sweeping
    <3>3. \A v \in call[c].before : v \in 1..sets
      BY <1>0, <3>1 DEF Owes
    <3>4. \A k \in Keys : store[k] \in call[c].before => k \in call'[c].todo
      BY <1>0, <3>1, <3>2, <3>3 DEF Owes
    <3> QED
      BY <1>1, <3>1, <3>2, <3>3, <3>4 DEF Owes
  <2>4. CASE \E k \in Keys : SweepStore(c, k)
    <3>1. PICK k \in Keys : SweepStore(c, k)
      BY <2>4
    <3>2. call[c] \in Sweeping /\ call[c].at = "sweep" /\ store' = [store EXCEPT ![k] = 0]
      BY <3>1, Kinds DEF SweepStore
    <3>3. /\ call'[c].at = "sweepExpiry" /\ call'[c].before = call[c].before
          /\ call'[c].todo = call[c].todo \ {k}
      BY <3>1, <3>2 DEF SweepStore, Goto, Typing, Sweeping
    <3>4. \A v \in call[c].before : v \in 1..sets
      BY <1>0, <3>2 DEF Owes
    <3>5. \A l \in Keys : store'[l] \in call[c].before => l \in call[c].todo /\ l # k
      BY <1>0, <3>2, <3>4 DEF Owes, Typing
    <3> QED
      BY <1>1, <3>2, <3>3, <3>4, <3>5 DEF Owes
  <2>5. CASE SweepExpiry(c)
    <3>1. call[c] \in Sweeping /\ call[c].at = "sweepExpiry" /\ store' = store
      BY <2>5, Kinds DEF SweepExpiry
    <3>2. /\ call'[c].at = "sweep" /\ call'[c].before = call[c].before
          /\ call'[c].todo = call[c].todo
      BY <2>5, <3>1 DEF SweepExpiry, Goto, Typing, Sweeping
    <3> QED
      BY <1>0, <1>1, <3>1, <3>2 DEF Owes
  <2> QED
    BY <2>1, <2>2, <2>3, <2>4, <2>5
<1>3. Brought'
  <2>1. \A d \in Callers : call[d].at = "store" => \A k \in Keys : store[k] # call[d].value
    BY <1>0 DEF Owes
  <2>2. \A d \in Callers : call[d].at = "store" /\ d # c => call[d].value \notin call'[c].before
    BY <1>0, <1>2, <2>1 DEF Brought
  <2> QED
    BY <1>0, <1>1, <1>2, <2>2 DEF Brought
<1> QED
  BY <1>1, <1>2, <1>3, StoreShrinks DEF GoneInv

\* A delete returns: what it found when it began is lost, and is nowhere.
LEMMA GoneReturns ==
    ASSUME Typing, GoneInv, NEW c \in Callers, SweptAll(c) \/ ClearExpiry(c)
    PROVE  GoneInv'
<1> USE DEF GetPlaces, Deletes, SweepPlaces
<1>0. /\ \A d \in Callers : Owes(d)
      /\ Stored /\ Brought
  BY DEF GoneInv
<1>1. /\ sets' = sets /\ store' = store /\ lost' = lost \cup call[c].before
      /\ \A d \in Callers : d # c => call'[d] = call[d]
      /\ call'[c].at = "idle" /\ call[c].at \in Deletes
      /\ \/ call[c].at = "clearExpiry"
         \/ call[c].at = "sweep" /\ call[c].todo = {}
  <2>1. /\ sets' = sets /\ store' = store /\ lost' = lost \cup call[c].before
        /\ call' = [call EXCEPT ![c] = Idle]
    BY DEF SweptAll, ClearExpiry, Goto
  <2>2. \/ call[c].at = "clearExpiry"
        \/ call[c].at = "sweep" /\ call[c].todo = {}
    BY DEF SweptAll, ClearExpiry
  <2>3. call[c].at \in Deletes
    BY <2>2
  <2>4. call'[c] = Idle /\ \A d \in Callers : d # c => call'[d] = call[d]
    BY <2>1 DEF Typing
  <2>5. call'[c].at = "idle"
    BY <2>4 DEF Idle
  <2> QED
    BY <2>1, <2>2, <2>3, <2>4, <2>5
<1>2. \A k \in Keys : store[k] \notin call[c].before
  BY <1>0, <1>1 DEF Owes
<1>3. \A v \in call[c].before : v \in 1..sets
  BY <1>0, <1>1 DEF Owes
<1>4. Stored'
  BY <1>0, <1>1, <1>2, <1>3 DEF Stored
<1>5. \A d \in Callers : call[d].at = "store" => call[d].value \notin call[c].before
  BY <1>0, <1>1 DEF Brought
<1>6. ASSUME NEW d \in Callers
      PROVE  Owes(d)'
  <2>1. CASE d = c
    BY <1>1, <2>1 DEF Owes
  <2>2. CASE d # c
    BY <1>0, <1>1, <1>5, <2>2 DEF Owes
  <2> QED
    BY <2>1, <2>2
<1>7. Brought'
  BY <1>0, <1>1 DEF Brought
<1> QED
  BY <1>4, <1>6, <1>7 DEF GoneInv

LEMMA GoneTick ==
    ASSUME Typing, GoneInv, Tick \/ UNCHANGED vars
    PROVE  GoneInv'
BY DEF Tick, vars, history, GoneInv, Stored, Owes, Brought

LEMMA GoneForGood == Spec => []GoneInv
<1>1. Typing /\ GoneInv /\ [Next]_vars => GoneInv'
  <2> SUFFICES ASSUME Typing, GoneInv, [Next]_vars
               PROVE  GoneInv'
    OBVIOUS
  <2>1. ASSUME NEW c \in Callers,
               \/ \E k \in Keys : Get(c, k) \/ (\E ttl \in use.ttls : Set(c, k, ttl))
                             \/ SweepStore(c, k)
               \/ \E K \in Patterns : Invalidate(c, K)
               \/ Look(c) \/ Judge(c) \/ PopStore(c) \/ PopExpiry(c) \/ Read(c)
               \/ Store(c) \/ Expire(c)
               \/ Match(c) \/ SweepExpiry(c) \/ SweptAll(c)
               \/ Clear(c) \/ ClearExpiry(c)
               \/ Answered(c)
        PROVE  GoneInv'
    BY <2>1, GoneReads, GoneSets, GoneDeletes, GoneReturns
  <2> QED
    BY <2>1, GoneTick DEF Next
<1> QED
  BY GoneInit, Typed, <1>1, PTL DEF Spec

\* However the calls of any number of callers interleave, a get that begins after
\* delete_pattern or clear has returned does not answer a value that was stored
\* before that call began.
THEOREM ServedNoneDeleted == Spec => []NeverServedAfterDelete
<1>1. GoneInv => NeverServedAfterDelete
  BY DEF GoneInv, Owes, NeverServedAfterDelete
<1> QED
  BY GoneForGood, <1>1, PTL

-----------------------------------------------------------------------------
(* The cache: a value lives for its ttl *)

\* When a value has been promised until a moment the clock can reach, its deadline
\* is that moment as long as it is there; and if every value has a ttl, it is
\* there until then.
Kept(k) ==
    /\ promised[k].until # 0 => promised[k].value # 0
    /\ promised[k].until \in 1..MaxTime /\ store[k] = promised[k].value
          => expiry[k] = promised[k].until
    /\ 0 \notin use.ttls /\ promised[k].until # 0 /\ now <= promised[k].until
          => store[k] = promised[k].value /\ expiry[k] = promised[k].until

\* What a call knows of the keys it has to itself.
Knows(c) ==
    /\ call[c].at \in GetPlaces =>
          /\ call[c].key \in call[c].keys
          /\ call[c].late # 0 => /\ promised[call[c].key].value = call[c].late
                                 /\ promised[call[c].key].until \in 1..(now - 1)
    /\ call[c].at = "judge" => call[c].exp = expiry[call[c].key] /\ call[c].exp # 0
    /\ call[c].at \in {"pop", "popExpiry"} =>
          \/ 0 \in use.ttls
          \/ promised[call[c].key].until = 0
          \/ now > promised[call[c].key].until
    /\ call[c].at = "popExpiry" => store[call[c].key] = 0
    /\ call[c].at = "read" /\ call[c].late # 0 => store[call[c].key] # call[c].late
    /\ call[c].at = "answer" /\ call[c].late # 0 => call[c].value # call[c].late
    /\ call[c].at \in SetPlaces =>
          /\ call[c].key \in call[c].keys /\ call[c].ttl \in use.ttls
          /\ promised[call[c].key].until = 0 /\ call[c].value # 0
    /\ call[c].at = "expire" => store[call[c].key] = call[c].value
    /\ call[c].at \in Deletes => \A k \in call[c].keys : promised[k].until = 0
    /\ call[c].at = "clearExpiry" => call[c].keys = Keys
    /\ call[c].at \in SweepPlaces => /\ call[c].todo \subseteq call[c].keys
                                     /\ call[c].picked \subseteq call[c].keys

Separate == \A c, d \in Callers : c # d => call[c].keys \cap call[d].keys = {}

TtlInv == use.apart => /\ Separate
                       /\ \A k \in Keys : Kept(k)
                       /\ \A c \in Callers : Knows(c)

LEMMA TtlInit == Init => TtlInv
<1> SUFFICES ASSUME Init
             PROVE  TtlInv
  OBVIOUS
<1>1. \A c \in Callers : call[c].at = "idle" /\ call[c].keys = {}
  BY DEF Init, Idle
<1>2. \A k \in Keys : promised[k].until = 0
  BY DEF Init, NoPromise
<1>3. Separate
  BY <1>1 DEF Separate
<1>4. \A k \in Keys : Kept(k)
  BY <1>2 DEF Kept
<1>5. \A c \in Callers : Knows(c)
  BY <1>1 DEF Knows, GetPlaces, SetPlaces, SweepPlaces, Deletes
<1> QED
  BY <1>3, <1>4, <1>5 DEF TtlInv

\* A step that writes only these keys leaves alone what is said of the others,
\* and of the calls that have none of them.
LEMMA Frame ==
    ASSUME Typing, Typing', TtlInv, use.apart, use' = use, now' >= now,
           NEW K \in SUBSET Keys,
           \A k \in Keys \ K : /\ store'[k] = store[k] /\ expiry'[k] = expiry[k]
                               /\ promised'[k] = promised[k]
    PROVE  /\ \A k \in Keys \ K : Kept(k)'
           /\ \A d \in Callers : call'[d] = call[d] /\ call[d].keys \cap K = {} => Knows(d)'
<1>1. ASSUME NEW k \in Keys \ K
      PROVE  Kept(k)'
  <2>1. Kept(k)
    BY DEF TtlInv
  <2>2. /\ now \in Nat /\ now' \in Nat /\ promised[k].until \in Nat
    BY Assumption DEF Typing
  <2> QED
    BY <2>1, <2>2 DEF Kept
<1>2. ASSUME NEW d \in Callers, call'[d] = call[d], call[d].keys \cap K = {}
      PROVE  Knows(d)'
  <2>1. Knows(d)
    BY DEF TtlInv
  <2>2. call[d].keys \subseteq Keys
    BY Kinds DEF Calls, Reading, Setting, Sweeping, Clearing, Idle
  <2>3. \A k \in call[d].keys : /\ store'[k] = store[k] /\ expiry'[k] = expiry[k]
                                /\ promised'[k] = promised[k] /\ promised[k].until \in Nat
    BY <1>2, <2>2 DEF Typing
  <2>4. now \in Nat /\ now' \in Nat
    BY Assumption DEF Typing
  <2>5. /\ call[d].at \in GetPlaces \cup SetPlaces => call[d].key \in call[d].keys
        /\ {"judge", "pop", "popExpiry", "read", "answer"} \subseteq GetPlaces
        /\ "expire" \in SetPlaces
    BY <2>1 DEF Knows, GetPlaces, SetPlaces
  <2> HIDE DEF GetPlaces, SetPlaces
  <2>6. call[d].at \in GetPlaces =>
          /\ call[d].key \in call[d].keys
          /\ call[d].late # 0 => /\ promised'[call[d].key].value = call[d].late
                                 /\ promised'[call[d].key].until \in 1..(now' - 1)
    BY <2>1, <2>3, <2>4, <2>5 DEF Knows
  <2>7. call[d].at \in {"pop", "popExpiry"} =>
          \/ 0 \in use.ttls
          \/ promised'[call[d].key].until = 0
          \/ now' > promised'[call[d].key].until
    BY <2>1, <2>3, <2>4, <2>5 DEF Knows
  <2> QED
    BY <1>2, <2>1, <2>3, <2>5, <2>6, <2>7 DEF Knows
<1> QED
  BY <1>1, <1>2

\* A call has its keys to itself from its beginning.
LEMMA Alone ==
    ASSUME Typing, TtlInv, use.apart, NEW c \in Callers,
           \A d \in Callers : d # c => call'[d] = call[d],
           call'[c].keys \subseteq call[c].keys \/ Free(call'[c].keys)
    PROVE  Separate'
BY DEF TtlInv, Separate, Free

\* What is said of all calls and keys, from what is said of one call and its keys.
LEMMA Whole ==
    ASSUME Typing, Typing', TtlInv, use.apart, use' = use, now' >= now, NEW c \in Callers,
           \A d \in Callers : d # c => call'[d] = call[d],
           call'[c].keys \subseteq call[c].keys \/ Free(call'[c].keys),
           NEW K \in SUBSET Keys, K \subseteq call[c].keys \/ Free(K),
           \A k \in Keys \ K : /\ store'[k] = store[k] /\ expiry'[k] = expiry[k]
                               /\ promised'[k] = promised[k],
           \A k \in K : Kept(k)',
           Knows(c)'
    PROVE  TtlInv'
<1>1. Separate'
  BY Alone
<1>2. \A d \in Callers : d # c => call[d].keys \cap K = {}
  BY DEF TtlInv, Separate, Free
<1>3. \A d \in Callers : Knows(d)'
  BY <1>2, Frame
<1>4. \A k \in Keys : Kept(k)'
  BY Frame
<1> QED
  BY <1>1, <1>3, <1>4 DEF TtlInv

LEMMA TtlGet ==
    ASSUME Typing, Typing', TtlInv, use.apart, NEW c \in Callers,
           (\E k \in Keys : Get(c, k)) \/ Answered(c)
    PROVE  TtlInv'
<1> USE DEF history
<1>1. /\ UNCHANGED <<store, expiry, now, promised, use>>
      /\ \A d \in Callers : d # c => call'[d] = call[d]
  BY DEF Get, Answered, Goto, Typing
<1>2. now' >= now
  BY <1>1, Assumption DEF Typing
<1>3. /\ call'[c].keys \subseteq call[c].keys \/ Free(call'[c].keys)
      /\ Knows(c)'
  <2>1. CASE Answered(c)
    <3>1. call'[c] = Idle
      BY <2>1 DEF Answered, Goto, Typing
    <3> QED
      BY <3>1 DEF Idle, Knows, GetPlaces, SetPlaces, Deletes, SweepPlaces
  <2>2. CASE \E k \in Keys : Get(c, k)
    <3>1. PICK k \in Keys : Get(c, k)
      BY <2>2
    <3>2. /\ call'[c].at = "look" /\ call'[c].keys = {k} /\ call'[c].key = k
          /\ call'[c].late = Late(k) /\ Free({k})
      BY <3>1 DEF Get, Goto, Typing
    <3>3. Late(k) # 0 => promised[k].value = Late(k) /\ promised[k].until \in 1..(now - 1)
      BY DEF Late
    <3> QED
      BY <1>1, <3>2, <3>3 DEF Knows, GetPlaces, SetPlaces, Deletes, SweepPlaces
  <2> QED
    BY <2>1, <2>2
<1>4. /\ {} \in SUBSET Keys /\ {} \subseteq call[c].keys
      /\ \A k \in Keys \ {} : /\ store'[k] = store[k] /\ expiry'[k] = expiry[k]
                               /\ promised'[k] = promised[k]
      /\ \A k \in {} : Kept(k)'
      /\ use' = use
  BY <1>1
<1> QED
  BY <1>1, <1>2, <1>3, <1>4, Whole

LEMMA TtlReads ==
    ASSUME Typing, Typing', TtlInv, use.apart, NEW c \in Callers,
           Look(c) \/ Judge(c) \/ PopStore(c) \/ PopExpiry(c) \/ Read(c)
    PROVE  TtlInv'
<1> USE DEF history
<1>0. call[c] \in Reading /\ call[c].key \in Keys
  BY ReadSteps DEF Reading
<1> SUFFICES ASSUME NEW k \in Keys, k = call[c].key
             PROVE  TtlInv'
  BY <1>0
<1>1. call[c] \in Reading /\ call[c].at \in GetPlaces
  BY <1>0 DEF Reading
<1>2. /\ call'[c].keys = call[c].keys /\ call'[c].key = k /\ call'[c].late = call[c].late
      /\ \A d \in Callers : d # c => call'[d] = call[d]
  BY ReadSteps
<1>3. UNCHANGED <<now, promised, use>> /\ now \in Nat /\ now \in 1..MaxTime
  BY Assumption DEF Look, Judge, PopStore, PopExpiry, Read, Typing
<1>4. /\ k \in call[c].keys
      /\ call[c].late # 0 => promised[k].value = call[c].late /\ promised[k].until \in 1..(now - 1)
  BY <1>1 DEF TtlInv, Knows
<1>5. /\ store[k] \in Nat /\ expiry[k] \in Nat /\ promised[k].value \in Nat /\ promised[k].until \in Nat
  BY <1>1 DEF Typing
<1>6. Kept(k) /\ Knows(c)
  BY <1>1 DEF TtlInv
<1>7. /\ \A l \in Keys \ {k} : store'[l] = store[l] /\ expiry'[l] = expiry[l]
      /\ store'[k] = IF PopStore(c) THEN 0 ELSE store[k]
      /\ expiry'[k] = IF PopExpiry(c) THEN 0 ELSE expiry[k]
  BY <1>1 DEF Look, Judge, PopStore, PopExpiry, Read, Typing
<1>8. /\ Look(c) => call[c].at = "look"
      /\ Judge(c) => call[c].at = "judge"
      /\ PopStore(c) => call[c].at = "pop"
      /\ PopExpiry(c) => call[c].at = "popExpiry"
      /\ Read(c) => call[c].at = "read"
  BY DEF Look, Judge, PopStore, PopExpiry, Read
<1>9. Knows(c)' /\ Kept(k)' => TtlInv'
  <2>1. {k} \in SUBSET Keys /\ {k} \subseteq call[c].keys
    BY <1>4
  <2>2. now' >= now /\ use' = use
    BY <1>3
  <2>3. /\ \A l \in Keys \ {k} : /\ store'[l] = store[l] /\ expiry'[l] = expiry[l]
                                  /\ promised'[l] = promised[l]
        /\ call'[c].keys \subseteq call[c].keys
    BY <1>2, <1>3, <1>7
  <2> QED
    BY <1>2, <2>1, <2>2, <2>3, Whole
<1>10. CASE Look(c)
  <2>1. /\ store'[k] = store[k] /\ expiry'[k] = expiry[k]
        /\ call'[c].exp = expiry[k]
        /\ call'[c].at = IF expiry[k] = 0 THEN "read" ELSE "judge"
    BY <1>7, <1>8, <1>10, ReadSteps
  <2>2. expiry[k] = 0 /\ call[c].late # 0 => store[k] # call[c].late
    BY <1>3, <1>4, <1>6, <1>5, Assumption DEF Kept
  <2>3. Knows(c)'
    BY <1>2, <1>3, <1>4, <2>1, <2>2 DEF Knows, GetPlaces, SetPlaces, Deletes, SweepPlaces
  <2>4. Kept(k)'
    BY <1>3, <1>6, <2>1 DEF Kept
  <2> QED
    BY <2>3, <2>4, <1>9
<1>11. CASE Judge(c)
  <2>1. /\ store'[k] = store[k] /\ expiry'[k] = expiry[k]
        /\ call[c].exp = expiry[k] /\ expiry[k] # 0
        /\ call'[c].at = IF now > expiry[k] THEN "pop" ELSE "read"
    BY <1>6, <1>7, <1>8, <1>11, ReadSteps DEF Knows
  <2>2. now > expiry[k] => 0 \in use.ttls \/ promised[k].until = 0 \/ now > promised[k].until
    BY <1>3, <1>5, <1>6 DEF Kept
  <2>3. now <= expiry[k] /\ call[c].late # 0 => store[k] # call[c].late
    BY <1>3, <1>4, <1>5, <1>6, Assumption DEF Kept
  <2>4. Knows(c)'
    <3>1. CASE now > expiry[k]
      BY <1>2, <1>3, <1>4, <2>1, <2>2, <3>1 DEF Knows, GetPlaces, SetPlaces, Deletes, SweepPlaces
    <3>2. CASE now <= expiry[k]
      BY <1>2, <1>3, <1>4, <1>5, <2>1, <2>3, <3>2 DEF Knows, GetPlaces, SetPlaces, Deletes, SweepPlaces
    <3> QED
      BY <1>3, <1>5, <3>1, <3>2
  <2>5. Kept(k)'
    BY <1>3, <1>6, <2>1 DEF Kept
  <2> QED
    BY <2>4, <2>5, <1>9
<1>12. CASE PopStore(c)
  <2>1. /\ store'[k] = 0 /\ expiry'[k] = expiry[k] /\ call'[c].at = "popExpiry"
        /\ 0 \in use.ttls \/ promised[k].until = 0 \/ now > promised[k].until
    BY <1>6, <1>7, <1>8, <1>12, ReadSteps DEF Knows
  <2>2. Knows(c)'
    BY <1>2, <1>3, <1>4, <2>1 DEF Knows, GetPlaces, SetPlaces, Deletes, SweepPlaces
  <2>3. Kept(k)'
    BY <1>3, <1>5, <1>6, <2>1 DEF Kept
  <2> QED
    BY <2>2, <2>3, <1>9
<1>13. CASE PopExpiry(c)
  <2>1. /\ store'[k] = 0 /\ store[k] = 0 /\ expiry'[k] = 0
        /\ call'[c].at = "answer" /\ call'[c].value = 0
        /\ 0 \in use.ttls \/ promised[k].until = 0 \/ now > promised[k].until
    BY <1>6, <1>7, <1>8, <1>13, ReadSteps DEF Knows
  <2>2. Knows(c)'
    BY <1>2, <1>3, <1>4, <2>1 DEF Knows, GetPlaces, SetPlaces, Deletes, SweepPlaces
  <2>3. Kept(k)'
    BY <1>3, <1>5, <1>6, <2>1 DEF Kept
  <2> QED
    BY <2>2, <2>3, <1>9
<1>14. CASE Read(c)
  <2>1. /\ store'[k] = store[k] /\ expiry'[k] = expiry[k]
        /\ call'[c].at = "answer" /\ call'[c].value = store[k]
        /\ call[c].late # 0 => store[k] # call[c].late
    BY <1>6, <1>7, <1>8, <1>14, ReadSteps DEF Knows
  <2>2. Knows(c)'
    BY <1>2, <1>3, <1>4, <2>1 DEF Knows, GetPlaces, SetPlaces, Deletes, SweepPlaces
  <2>3. Kept(k)'
    BY <1>3, <1>6, <2>1 DEF Kept
  <2> QED
    BY <2>2, <2>3, <1>9
<1> QED
  BY <1>10, <1>11, <1>12, <1>13, <1>14

LEMMA TtlSets ==
    ASSUME Typing, Typing', TtlInv, use.apart, NEW c \in Callers,
           \/ \E k \in Keys : \E ttl \in use.ttls : Set(c, k, ttl)
           \/ Store(c) \/ Expire(c)
    PROVE  TtlInv'
<1> USE DEF GetPlaces, SetPlaces, Deletes, SweepPlaces
<1>0. now \in Nat /\ MaxTime \in Nat
  BY Assumption DEF Typing
<1>1. CASE \E k \in Keys : \E ttl \in use.ttls : Set(c, k, ttl)
  <2>1. PICK k \in Keys, ttl \in use.ttls : Set(c, k, ttl)
    BY <1>1
  <2>2. /\ sets' = sets + 1 /\ sets \in Nat /\ UNCHANGED <<store, expiry, now, use>> /\ Free({k})
        /\ \A d \in Callers : d # c => call'[d] = call[d]
    BY <2>1 DEF Set, Goto, Typing
  <2>3. /\ call'[c].at = "store" /\ call'[c].keys = {k} /\ call'[c].key = k
        /\ call'[c].value = sets + 1 /\ call'[c].ttl = ttl
    BY <2>1 DEF Set, Goto, Typing
  <2>4. /\ \A l \in Keys \ {k} : promised'[l] = promised[l]
        /\ promised'[k].until = 0
    BY <2>1 DEF Set, Prepare, NoPromise, Typing
  <2>5. Knows(c)'
    BY <2>2, <2>3, <2>4 DEF Knows
  <2>6. Kept(k)'
    BY <2>4 DEF Kept
  <2>7. /\ \A l \in Keys \ {k} : /\ store'[l] = store[l] /\ expiry'[l] = expiry[l]
                                 /\ promised'[l] = promised[l]
        /\ now' >= now /\ use' = use /\ {k} \in SUBSET Keys /\ Free(call'[c].keys)
    BY <1>0, <2>2, <2>3, <2>4
  <2> QED
    BY <2>2, <2>5, <2>6, <2>7, Whole
<1>2. CASE Store(c) \/ Expire(c)
  <2>1. call[c] \in Setting /\ call[c].at \in SetPlaces
    BY <1>2, Kinds DEF Store, Expire
  <2>2. call[c].key \in Keys
    BY <2>1 DEF Setting
  <2> SUFFICES ASSUME NEW k \in Keys, k = call[c].key
               PROVE  TtlInv'
    BY <2>2
  <2>3. /\ k \in call[c].keys /\ call[c].ttl \in use.ttls /\ call[c].ttl \in Nat
        /\ promised[k].until = 0 /\ call[c].value # 0 /\ call[c].value \in Nat
        /\ call[c].at = "expire" => store[k] = call[c].value
    BY <2>1 DEF TtlInv, Knows, Setting
  <2>4. now' = now /\ use' = use /\ \A d \in Callers : d # c => call'[d] = call[d]
    BY <1>2 DEF Store, Expire, Goto, Typing
  <2>5. \A u \in Nat : Promise(c, u) =>
            /\ \A l \in Keys \ {k} : promised'[l] = promised[l]
            /\ \/ promised'[k].until = 0
               \/ promised'[k].until = u /\ promised'[k].value = call[c].value
    BY <2>3 DEF Promise, Typing
  <2>6. Knows(c)' /\ Kept(k)' => TtlInv'
    <3>1. \A l \in Keys \ {k} : /\ store'[l] = store[l] /\ expiry'[l] = expiry[l]
                                /\ promised'[l] = promised[l]
      <4>1. Forever \in Nat /\ now + call[c].ttl \in Nat
        BY <1>0, <2>3 DEF Forever
      <4>2. /\ store' = store \/ store' = [store EXCEPT ![k] = call[c].value]
            /\ \/ expiry' = expiry
               \/ expiry' = [expiry EXCEPT ![k] = NewDeadline(call[c].key, call[c].ttl)]
            /\ promised' = promised \/ Promise(c, Forever) \/ Promise(c, now + call[c].ttl)
        BY <1>2 DEF Store, Expire
      <4> QED
        BY <2>5, <4>1, <4>2 DEF Typing
    <3>2. call'[c].keys \subseteq call[c].keys
      <4>1. call' = [call EXCEPT ![c] = Idle] \/ call' = [call EXCEPT ![c] = [call[c] EXCEPT !.at = "expire"]]
        BY <1>2 DEF Store, Expire, Goto
      <4>2. call'[c] = Idle \/ call'[c] = [call[c] EXCEPT !.at = "expire"]
        BY <4>1 DEF Typing
      <4> QED
        BY <2>1, <4>2 DEF Idle, Setting
    <3>3. {k} \in SUBSET Keys /\ {k} \subseteq call[c].keys /\ now' >= now
      BY <1>0, <2>3, <2>4
    <3> QED
      BY <2>4, <3>1, <3>2, <3>3, Whole
  <2>7. CASE Store(c) /\ call[c].ttl = 0
    <3>1. call' = [call EXCEPT ![c] = Idle] /\ Promise(c, Forever)
          /\ store' = [store EXCEPT ![k] = call[c].value]
      BY <2>7 DEF Store, Goto
    <3>2. call'[c].at = "idle"
      BY <3>1 DEF Typing, Idle
    <3>3. Knows(c)'
      BY <3>2 DEF Knows
    <3>4. Forever \in Nat /\ Forever > MaxTime /\ 0 \in use.ttls
      BY <1>0, <2>3, <2>7 DEF Forever
    <3>5. Kept(k)'
      <4>1. \/ promised'[k].until = 0
            \/ promised'[k].until = Forever /\ promised'[k].value = call[c].value
        BY <2>5, <3>1, <3>4
      <4> QED
        BY <1>0, <2>3, <2>4, <3>4, <4>1 DEF Kept
    <3> QED
      BY <2>6, <3>3, <3>5
  <2>8. CASE Store(c) /\ call[c].ttl # 0
    <3>1. /\ call' = [call EXCEPT ![c] = [call[c] EXCEPT !.at = "expire"]]
          /\ store' = [store EXCEPT ![k] = call[c].value] /\ promised' = promised
      BY <2>8 DEF Store, Goto
    <3>2. call'[c] = [call[c] EXCEPT !.at = "expire"] /\ store'[k] = call[c].value
      BY <3>1 DEF Typing
    <3>3. /\ call'[c].at = "expire" /\ call'[c].key = k /\ call'[c].keys = call[c].keys
          /\ call'[c].ttl = call[c].ttl /\ call'[c].value = call[c].value
      BY <2>1, <3>2 DEF Setting
    <3>4. Knows(c)'
      BY <2>3, <2>4, <3>1, <3>2, <3>3 DEF Knows
    <3>5. Kept(k)'
      BY <2>3, <3>1 DEF Kept
    <3> QED
      BY <2>6, <3>4, <3>5
  <2>9. CASE Expire(c)
    <3>1. /\ call' = [call EXCEPT ![c] = Idle] /\ Promise(c, now + call[c].ttl)
          /\ expiry' = [expiry EXCEPT ![k] = now + call[c].ttl] /\ store' = store
          /\ call[c].at = "expire"
      BY <2>9 DEF Expire, Goto, NewDeadline
    <3>2. call'[c].at = "idle" /\ expiry'[k] = now + call[c].ttl
      BY <3>1 DEF Typing, Idle
    <3>3. Knows(c)'
      BY <3>2 DEF Knows
    <3>4. now + call[c].ttl \in Nat /\ store'[k] = call[c].value
      BY <1>0, <2>3, <3>1
    <3>5. \/ promised'[k].until = 0
          \/ promised'[k].until = now + call[c].ttl /\ promised'[k].value = call[c].value
      BY <2>5, <3>1, <3>4
    <3>6. Kept(k)'
      BY <2>3, <3>2, <3>4, <3>5 DEF Kept
    <3> QED
      BY <2>6, <3>3, <3>6
  <2> QED
    BY <1>2, <2>7, <2>8, <2>9
<1> QED
  BY <1>1, <1>2

\* Nothing is promised of the keys of a delete, which it has to itself.
LEMMA TtlDeletes ==
    ASSUME Typing, Typing', TtlInv, use.apart, NEW c \in Callers,
           \/ \E K \in Patterns : Invalidate(c, K)
           \/ \E k \in Keys : SweepStore(c, k)
           \/ Match(c) \/ SweepExpiry(c) \/ SweptAll(c) \/ Clear(c) \/ ClearExpiry(c)
    PROVE  TtlInv'
<1> USE DEF GetPlaces, SetPlaces, Deletes, SweepPlaces, history
<1>0. /\ now \in Nat /\ now' = now /\ use' = use
      /\ \A d \in Callers : d # c => call'[d] = call[d]
  <2>1. now \in Nat
    BY Assumption DEF Typing
  <2>2. now' = now /\ use' = use
    BY DEF Invalidate, SweepStore, Match, SweepExpiry, SweptAll, Clear, ClearExpiry
  <2>3. ASSUME NEW next, call' = [call EXCEPT ![c] = next]
        PROVE  \A d \in Callers : d # c => call'[d] = call[d]
    BY <2>3 DEF Typing
  <2>4. \E next : call' = [call EXCEPT ![c] = next]
    <3>1. CASE \E K \in Patterns : Invalidate(c, K)
      BY <3>1 DEF Invalidate, Goto
    <3>2. CASE \E k \in Keys : SweepStore(c, k)
      BY <3>2 DEF SweepStore, Goto
    <3>3. CASE Match(c) \/ SweepExpiry(c) \/ SweptAll(c)
      BY <3>3 DEF Match, SweepExpiry, SweptAll, Goto
    <3>4. CASE Clear(c) \/ ClearExpiry(c)
      BY <3>4 DEF Clear, ClearExpiry, Goto
    <3> QED
      BY <3>1, <3>2, <3>3, <3>4
  <2> QED
    BY <2>1, <2>2, <2>3, <2>4
<1>1. ASSUME NEW K \in SUBSET Keys, K \subseteq call[c].keys \/ Free(K),
             call'[c].keys \subseteq call[c].keys \/ Free(call'[c].keys),
             \A l \in Keys \ K : /\ store'[l] = store[l] /\ expiry'[l] = expiry[l]
                                 /\ promised'[l] = promised[l],
             \A k \in K : promised'[k].until = 0,
             Knows(c)'
      PROVE  TtlInv'
  <2>1. \A k \in K : Kept(k)'
    BY <1>1 DEF Kept
  <2>2. now' >= now
    BY <1>0
  <2> QED
    BY <1>0, <1>1, <2>1, <2>2, Whole
<1>2. CASE \E K \in Patterns : Invalidate(c, K)
  <2>1. PICK K \in Patterns : Invalidate(c, K)
    BY <1>2
  <2>2. K \in SUBSET Keys
    BY Assumption
  <2>3. /\ call'[c].at = "match" /\ call'[c].keys = K /\ call'[c].todo = {} /\ call'[c].picked = {}
        /\ Free(K) /\ store' = store /\ expiry' = expiry
    BY <2>1 DEF Invalidate, Goto, Typing
  <2>4. /\ \A k \in K : promised'[k].until = 0
        /\ \A l \in Keys \ K : promised'[l] = promised[l]
    BY <2>1, <2>2 DEF Invalidate, Withdraw, NoPromise
  <2>5. Knows(c)'
    BY <2>3, <2>4 DEF Knows
  <2> QED
    BY <1>1, <2>2, <2>3, <2>4, <2>5
<1>3. CASE Clear(c)
  <2>1. call'[c].at = "clearExpiry" /\ call'[c].keys = Keys /\ Free(Keys)
    BY <1>3 DEF Clear, Goto, Typing
  <2>2. \A k \in Keys : promised'[k].until = 0
    BY <1>3 DEF Clear, Withdraw, NoPromise
  <2>3. Knows(c)'
    BY <2>1, <2>2 DEF Knows
  <2> QED
    BY <1>1, <2>1, <2>2, <2>3
<1>4. CASE SweptAll(c) \/ ClearExpiry(c)
  <2>1. /\ call[c].at \in Deletes /\ promised' = promised /\ store' = store
        /\ call' = [call EXCEPT ![c] = Idle]
        /\ expiry' = expiry \/ call[c].at = "clearExpiry"
    BY <1>4 DEF SweptAll, ClearExpiry, Goto
  <2>2. call'[c].at = "idle" /\ call'[c].keys = {}
    BY <2>1 DEF Typing, Idle
  <2>3. call[c].keys \in SUBSET Keys
    BY Kinds DEF Calls, Reading, Setting, Sweeping, Clearing, Idle
  <2>4. \A k \in call[c].keys : promised[k].until = 0
    BY <2>1 DEF TtlInv, Knows
  <2>5. Knows(c)'
    BY <2>2 DEF Knows
  <2>6. \A l \in Keys \ call[c].keys : expiry'[l] = expiry[l]
    BY <2>1 DEF TtlInv, Knows
  <2> QED
    BY <1>1, <2>1, <2>2, <2>3, <2>4, <2>5, <2>6
<1>5. CASE Match(c) \/ (\E k \in Keys : SweepStore(c, k)) \/ SweepExpiry(c)
  <2>1. call[c] \in Sweeping /\ call[c].at \in Deletes /\ call[c].at \in SweepPlaces /\ promised' = promised
    BY <1>5, Kinds DEF Match, SweepStore, SweepExpiry
  <2>2. /\ \A k \in call[c].keys : promised[k].until = 0
        /\ call[c].todo \subseteq call[c].keys /\ call[c].picked \subseteq call[c].keys
        /\ call[c].keys \in SUBSET Keys
    BY <2>1 DEF TtlInv, Knows, Sweeping
  <2>3. /\ call'[c].at \in SweepPlaces /\ call'[c].keys = call[c].keys
        /\ call'[c].todo \subseteq call[c].keys /\ call'[c].picked \subseteq call[c].keys
    <3>1. CASE Match(c)
      BY <2>1, <2>2, <3>1 DEF Match, Matched, Goto, Typing, Sweeping
    <3>2. CASE \E k \in Keys : SweepStore(c, k)
      <4>1. PICK k \in Keys : SweepStore(c, k)
        BY <3>2
      <4>2. call'[c] = [call[c] EXCEPT !.at = "sweepExpiry", !.picked = {k},
                                       !.todo = call[c].todo \ {k}]
        BY <4>1 DEF SweepStore, Goto, Typing
      <4>3. k \in call[c].todo
        BY <4>1 DEF SweepStore
      <4>4. /\ call'[c].at = "sweepExpiry" /\ call'[c].keys = call[c].keys
            /\ call'[c].picked = {k} /\ call'[c].todo = call[c].todo \ {k}
        BY <2>1, <4>2 DEF Sweeping
      <4> QED
        BY <2>2, <4>3, <4>4
    <3>3. CASE SweepExpiry(c)
      BY <2>1, <2>2, <3>3 DEF SweepExpiry, Goto, Typing, Sweeping
    <3> QED
      BY <1>5, <3>1, <3>2, <3>3
  <2>4. \A l \in Keys \ call[c].keys : store'[l] = store[l] /\ expiry'[l] = expiry[l]
    <3>1. CASE Match(c)
      BY <3>1 DEF Match
    <3>2. CASE \E k \in Keys : SweepStore(c, k)
      BY <2>2, <3>2 DEF SweepStore, Typing
    <3>3. CASE SweepExpiry(c)
      BY <2>2, <3>3 DEF SweepExpiry, ForgetDeadlines, Typing
    <3> QED
      BY <1>5, <3>1, <3>2, <3>3
  <2>5. Knows(c)'
    BY <2>1, <2>2, <2>3 DEF Knows
  <2> QED
    BY <1>1, <2>1, <2>2, <2>3, <2>4, <2>5
<1> QED
  BY <1>2, <1>3, <1>4, <1>5

LEMMA TtlTick ==
    ASSUME Typing, Typing', TtlInv, use.apart, Tick \/ UNCHANGED vars
    PROVE  TtlInv'
<1>1. /\ UNCHANGED <<store, expiry, call, promised, use>> /\ now' >= now
  BY Assumption DEF Tick, vars, history, Typing
<1>2. Separate'
  BY <1>1 DEF TtlInv, Separate
<1>3. {} \in SUBSET Keys /\ \A d \in Callers : call[d].keys \cap {} = {} /\ call'[d] = call[d]
  BY <1>1
<1> QED
  BY <1>1, <1>2, <1>3, Frame DEF TtlInv

LEMMA Ttl == Spec => []TtlInv
<1>1. Typing /\ Typing' /\ TtlInv /\ [Next]_vars => TtlInv'
  <2> SUFFICES ASSUME Typing, Typing', TtlInv, [Next]_vars
               PROVE  TtlInv'
    OBVIOUS
  <2>1. use' = use
    BY DEF Next, vars, history, Get, Look, Judge, PopStore, PopExpiry, Read, Set, Store, Expire,
           Invalidate, Match, SweepStore, SweepExpiry, SweptAll, Clear, ClearExpiry, Answered, Tick
  <2>2. CASE ~use.apart
    BY <2>1, <2>2 DEF TtlInv
  <2>3. CASE use.apart
    <3>1. ASSUME NEW c \in Callers,
                 \/ \E k \in Keys : Get(c, k) \/ (\E ttl \in use.ttls : Set(c, k, ttl))
                             \/ SweepStore(c, k)
                 \/ \E K \in Patterns : Invalidate(c, K)
                 \/ Look(c) \/ Judge(c) \/ PopStore(c) \/ PopExpiry(c) \/ Read(c)
                 \/ Store(c) \/ Expire(c)
                 \/ Match(c) \/ SweepExpiry(c) \/ SweptAll(c)
                 \/ Clear(c) \/ ClearExpiry(c)
                 \/ Answered(c)
          PROVE  TtlInv'
      BY <2>3, <3>1, TtlGet, TtlReads, TtlSets, TtlDeletes
    <3> QED
      BY <2>3, <3>1, TtlTick DEF Next
  <2> QED
    BY <2>2, <2>3
<1> QED
  BY TtlInit, Typed, <1>1, PTL DEF Spec

\* When calls on a key do not overlap a value whose set has returned lives for its
\* ttl and no longer: no get evicts it earlier if every value has a ttl, and no
\* get that begins later answers it.
THEOREM ValuesLiveForTheirTtl == Spec => []LivesForItsTtl
<1>1. TtlInv => LivesForItsTtl
  BY DEF TtlInv, Kept, Knows, LivesForItsTtl, NoEvictionBeyondTtl
<1> QED
  BY Ttl, <1>1, PTL
-----------------------------------------------------------------------------
(* The cache: types *)

Counted == sets <= MaxSets /\ \A k \in Keys : promised[k].value <= sets

LEMMA CountedStep ==
    ASSUME Typing, Typing', Counted, [Next]_vars
    PROVE  Counted'
<1> USE DEF history
<1>1. sets \in Nat /\ sets' \in Nat /\ \A k \in Keys : promised[k].value \in Nat /\ promised'[k].value \in Nat
  BY DEF Typing
<1>2. ASSUME NEW c \in Callers, NEW k \in Keys, NEW ttl, Set(c, k, ttl)
      PROVE  Counted'
  <2>1. sets' = sets + 1 /\ sets' <= MaxSets
    BY <1>1, <1>2, Assumption DEF Set
  <2>2. \A l \in Keys : promised'[l].value \in {promised[l].value, 0, sets'}
    BY <1>2 DEF Set, Prepare, NoPromise, Typing
  <2> QED
    BY <1>1, <2>1, <2>2 DEF Counted
<1>3. ASSUME sets' = sets, \A l \in Keys : promised'[l].value \in {promised[l].value, 0}
      PROVE  Counted'
  BY <1>1, <1>3 DEF Counted
<1>4. ASSUME NEW c \in Callers, Store(c) \/ Expire(c)
      PROVE  Counted'
  <2>1. \E until \in Nat : promised' = promised \/ Promise(c, until)
    <3>1. CASE Store(c)
      BY <3>1, Assumption DEF Store, Forever
    <3>2. CASE Expire(c)
      <4>1. call[c] \in Setting
        BY <3>2, Kinds DEF Expire, SetPlaces
      <4>2. now + call[c].ttl \in Nat
        BY <4>1, Assumption DEF Typing, Setting
      <4> QED
        BY <3>2, <4>2 DEF Expire
    <3> QED
      BY <1>4, <3>1, <3>2
  <2>2. PICK until \in Nat : promised' = promised \/ Promise(c, until)
    BY <2>1
  <2>3. \A l \in Keys : promised'[l].value = promised[l].value
    BY <2>2 DEF Promise, Typing
  <2> QED
    BY <1>3, <1>4, <2>3 DEF Store, Expire
<1>5. ASSUME NEW c \in Callers, (\E K \in Patterns : Invalidate(c, K)) \/ Clear(c)
      PROVE  Counted'
  <2>1. sets' = sets /\ \E K : Withdraw(K)
    BY <1>5 DEF Invalidate, Clear
  <2>2. \A l \in Keys : promised'[l].value \in {promised[l].value, 0}
    BY <2>1 DEF Withdraw, NoPromise
  <2> QED
    BY <1>3, <2>1, <2>2
<1>6. ASSUME NEW c \in Callers,
             \/ \E k \in Keys : Get(c, k) \/ SweepStore(c, k)
             \/ Look(c) \/ Judge(c) \/ PopStore(c) \/ PopExpiry(c) \/ Read(c)
             \/ Match(c) \/ SweepExpiry(c) \/ SweptAll(c) \/ ClearExpiry(c) \/ Answered(c)
      PROVE  Counted'
  <2>1. sets' = sets /\ promised' = promised
    BY <1>6 DEF Get, SweepStore, Look, Judge, PopStore, PopExpiry, Read, Match, SweepExpiry,
                SweptAll, ClearExpiry, Answered
  <2> QED
    BY <1>3, <2>1
<1>7. CASE Tick \/ UNCHANGED vars
  BY <1>3, <1>7 DEF Tick, vars
<1> QED
  BY <1>2, <1>4, <1>5, <1>6, <1>7 DEF Next

\* The two dicts and the calls keep their shape, and a value in the store is one
\* that a set has brought (_InMemoryBackend._store, _expiry).
THEOREM TypeCorrect == Spec => []TypeOK
<1>1. Init => Counted
  BY Assumption DEF Init, Counted, NoPromise
<1>2. Typing /\ GoneInv /\ Counted => TypeOK
  <2> SUFFICES ASSUME Typing, GoneInv, Counted
               PROVE  TypeOK
    OBVIOUS
  <2>1. sets \in 0..MaxSets /\ store \in [Keys -> 0..sets] /\ lost \subseteq 1..sets
    BY Assumption DEF Typing, GoneInv, Stored, Counted
  <2>2. promised \in [Keys -> [value : 0..sets, until : Nat]]
    BY DEF Typing, Counted
  <2>3. \A c \in Callers : call[c].at \in Places /\ call[c].keys \subseteq Keys
    BY Kinds DEF Calls, Reading, Setting, Sweeping, Clearing, Idle, GetPlaces, SetPlaces,
                 SweepPlaces, Places
  <2> QED
    BY <2>1, <2>2, <2>3 DEF Typing, TypeOK
<1> QED
  BY <1>1, <1>2, CountedStep, Typed, GoneForGood, PTL DEF Spec

-----------------------------------------------------------------------------
(* The limiter: products *)

\* The refill of a time, opaque below.
Refill(d) == Rpm * d

LEMMA RefillInt ==
    ASSUME NEW d \in Int
    PROVE  Refill(d) \in Int
BY RateAssumption DEF Refill

\* Two times one after the other refill what they refill together.
LEMMA RefillAdds ==
    ASSUME NEW d \in Int, NEW e \in Int
    PROVE  Refill(d + e) = Refill(d) + Refill(e)
BY RateAssumption DEF Refill

\* A longer time refills no less.
LEMMA RefillMonotonic ==
    ASSUME NEW d \in Int, NEW e \in Int, d <= e
    PROVE  Refill(d) <= Refill(e)
<1> DEFINE k == e - d
<1>1. k \in Nat /\ e = d + k
  OBVIOUS
<1>2. Refill(k) \in Nat
  BY RateAssumption DEF Refill
<1>3. Refill(e) = Refill(d) + Refill(k)
  BY <1>1, RefillAdds
<1> QED
  BY <1>2, <1>3, RefillInt

LEMMA RefillZero == Refill(0) = 0
BY RateAssumption DEF Refill

\* A minute refills a token at least, if the rate is not zero.
LEMMA MinuteRefillsToken ==
    ASSUME Rpm > 0
    PROVE  Refill(Minute) >= Minute
<1> DEFINE k == Rpm - 1
<1>1. k \in Nat /\ Rpm = 1 + k
  BY RateAssumption
<1>2. k * Minute \in Nat
  BY RateAssumption
<1>3. Rpm * Minute = Minute + k * Minute
  BY <1>1, RateAssumption
<1> QED
  BY <1>2, <1>3, RateAssumption DEF Refill

\* The capacity is a number, and at least a token if the burst is not zero.
LEMMA CapacityNat == Capacity \in Nat
BY RateAssumption DEF Capacity

LEMMA CapacityHoldsToken ==
    ASSUME Burst > 0
    PROVE  Capacity >= Minute
<1> DEFINE k == Burst - 1
<1>1. k \in Nat /\ Burst = 1 + k
  BY RateAssumption
<1>2. k * Minute \in Nat
  BY RateAssumption
<1>3. Burst * Minute = Minute + k * Minute
  BY <1>1, RateAssumption
<1> QED
  BY <1>2, <1>3, RateAssumption DEF Capacity

-----------------------------------------------------------------------------
(* The limiter: types *)

\* What a bucket holds is a number of parts.
LEMMA TokensInt ==
    ASSUME RateTypeOK, NEW a \in Addresses
    PROVE  /\ Refilled(a) \in Int /\ Tokens(a) \in Int /\ Left(a) \in Int
           /\ Refilled(a) <= Capacity /\ Tokens(a) <= Capacity
           /\ Refilled(a) <= tokens[a] + Refill(clock - last[a])
<1>1. clock - last[a] \in Int /\ tokens[a] \in Int
  BY RateAssumption DEF RateTypeOK
<1>2. Refill(clock - last[a]) \in Int
  BY <1>1, RefillInt
<1>3. Refilled(a) = MinOf(Capacity, tokens[a] + Refill(clock - last[a]))
  BY DEF Refilled, Refill
<1>4. Refilled(a) \in Int /\ Refilled(a) <= Capacity
      /\ Refilled(a) <= tokens[a] + Refill(clock - last[a])
  BY <1>1, <1>2, <1>3, CapacityNat DEF MinOf
<1>5. Tokens(a) \in Int /\ Tokens(a) <= Capacity
  BY <1>4, CapacityNat DEF Tokens
<1> QED
  BY <1>4, <1>5, RateAssumption DEF Left

LEMMA RateTypeStep ==
    ASSUME RateTypeOK, [RateNext]_rateVars
    PROVE  RateTypeOK'
<1>1. CASE UNCHANGED rateVars
  BY <1>1 DEF RateTypeOK, rateVars
<1>2. ASSUME NEW a \in Addresses, Request(a)
      PROVE  RateTypeOK'
  <2>1. Left(a) \in Int
    BY TokensInt
  <2>2. tokens' \in [Addresses -> Int] /\ last' \in [Addresses -> 0..MaxClock]
    BY <1>2, <2>1 DEF RateTypeOK, Request
  <2>3. admitted' \in [Addresses -> Nat]
    <3>1. [admitted EXCEPT ![a] = @ + 1] \in [Addresses -> Nat]
      BY DEF RateTypeOK
    <3> QED
      BY <1>2, <3>1 DEF RateTypeOK, Request
  <2>4. retryAt' \in [Addresses -> Int]
    <3>1. (IF Admits(a) THEN NoRetry ELSE clock + Minute) \in Int
      BY RateAssumption DEF RateTypeOK, NoRetry
    <3> QED
      BY <1>2, <3>1 DEF RateTypeOK, Request
  <2>5. seen' \subseteq Addresses
    BY <1>2 DEF RateTypeOK, Request
  <2> QED
    BY <1>2, <2>2, <2>3, <2>4, <2>5 DEF RateTypeOK, Request
<1>3. ASSUME NEW t \in 0..MaxClock, SetClock(t)
      PROVE  RateTypeOK'
  BY <1>3, RateAssumption DEF RateTypeOK, SetClock, MinOf, MaxOf
<1>4. CASE BeginWindow
  BY <1>4 DEF RateTypeOK, BeginWindow
<1> QED
  BY <1>1, <1>2, <1>3, <1>4 DEF RateNext

\* The limiter's state keeps its shape (RateLimitMiddleware._buckets).
THEOREM RateTypeCorrect == RateSpec => []RateTypeOK
<1>1. RateInit => RateTypeOK
  <2> SUFFICES ASSUME RateInit
               PROVE  RateTypeOK
    OBVIOUS
  <2>1. 0 \in 0..MaxClock /\ NoRetry \in Int /\ 0 \in Nat /\ 0 \in Int
    BY RateAssumption DEF NoRetry
  <2>2. clock \in 0..MaxClock /\ low \in 0..MaxClock /\ high \in 0..MaxClock
    BY DEF RateInit
  <2>3. seen \subseteq Addresses /\ setBack \in BOOLEAN
    BY DEF RateInit
  <2>4. /\ tokens \in [Addresses -> Int] /\ last \in [Addresses -> 0..MaxClock]
        /\ admitted \in [Addresses -> Nat] /\ retryAt \in [Addresses -> Int]
    BY <2>1 DEF RateInit
  <2> QED
    BY <2>2, <2>3, <2>4 DEF RateTypeOK
<1> QED
  BY <1>1, RateTypeStep, PTL DEF RateSpec

-----------------------------------------------------------------------------
(* The limiter: requests admitted in a window *)

\* What the admitted requests cost, opaque below.
Cost(n) == Minute * n

LEMMA CostGrows ==
    ASSUME NEW n \in Nat
    PROVE  /\ Cost(n) \in Int /\ Cost(n + 1) = Cost(n) + Minute
           /\ Cost(0) = 0
BY RateAssumption DEF Cost

\* Once an address was admitted in the window, what it has left and what it was
\* given come from the burst and from the refill since the window's lowest clock.
WindowInv(a) ==
    /\ tokens[a] <= Capacity
    /\ admitted[a] > 0 =>
          /\ a \in seen
          /\ low <= last[a]
          /\ tokens[a] + Cost(admitted[a]) <= Capacity + Refill(last[a] - low)
    /\ Cost(admitted[a]) <= Capacity + Refill(high - low)

WindowIndInv ==
    /\ low <= clock
    /\ clock <= high
    /\ \A a \in Addresses : WindowInv(a)

\* A request keeps the account of its own address.
LEMMA RequestKeepsWindow ==
    ASSUME RateTypeOK, WindowIndInv, NEW a \in Addresses, Request(a)
    PROVE  WindowInv(a)'
<1> DEFINE n == admitted[a]
<1>1. /\ tokens'[a] = Left(a) /\ last'[a] = clock /\ a \in seen'
      /\ low' = low /\ high' = high
      /\ admitted'[a] = IF Admits(a) THEN n + 1 ELSE n
  BY DEF Request, RateTypeOK
<1>2. /\ clock \in Int /\ low \in Int /\ high \in Int /\ last[a] \in Int
      /\ tokens[a] \in Int /\ n \in Nat /\ low <= clock /\ clock <= high
  BY RateAssumption DEF RateTypeOK, WindowIndInv
<1>3. WindowInv(a)
  BY DEF WindowIndInv
<1>4. /\ Refilled(a) \in Int /\ Tokens(a) \in Int /\ Left(a) \in Int
      /\ Refilled(a) <= Capacity /\ Tokens(a) <= Capacity
      /\ Refilled(a) <= tokens[a] + Refill(clock - last[a])
  BY TokensInt
<1>5. /\ Refill(clock - low) \in Int /\ Refill(high - low) \in Int
      /\ Refill(last[a] - low) \in Int /\ Refill(clock - last[a]) \in Int
  BY <1>2, RefillInt
<1>6. Refill(clock - low) <= Refill(high - low) /\ 0 <= Refill(clock - low)
  BY <1>2, RefillMonotonic, RefillZero
<1>7. Refill(clock - low) = Refill(clock - last[a]) + Refill(last[a] - low)
  <2>1. clock - low = (clock - last[a]) + (last[a] - low)
    BY <1>2
  <2>2. clock - last[a] \in Int /\ last[a] - low \in Int
    BY <1>2
  <2>3. Refill((clock - last[a]) + (last[a] - low)) = Refill(clock - last[a]) + Refill(last[a] - low)
    BY <2>2, RefillAdds
  <2> QED
    BY <2>1, <2>3
<1>8. Cost(n) \in Int /\ Cost(n + 1) = Cost(n) + Minute /\ Cost(0) = 0
  BY <1>2, CostGrows
<1>9. Tokens(a) + Cost(n) <= Capacity + Refill(clock - low)
  <2>1. CASE n = 0
    BY <2>1, <1>4, <1>5, <1>6, <1>8, CapacityNat
  <2>2. CASE n > 0
    <3>1. Tokens(a) <= tokens[a] + Refill(clock - last[a])
      BY <2>2, <1>3, <1>4 DEF WindowInv, Tokens
    <3>2. tokens[a] + Cost(n) <= Capacity + Refill(last[a] - low)
      BY <2>2, <1>3 DEF WindowInv
    <3> QED
      BY <3>1, <3>2, <1>2, <1>4, <1>5, <1>7, <1>8, CapacityNat
  <2> QED
    BY <2>1, <2>2, <1>2
<1>10. CASE Admits(a)
  <2>1. Left(a) = Tokens(a) - Minute /\ Tokens(a) >= Minute /\ admitted'[a] = n + 1
    BY <1>10, <1>1 DEF Left, Admits
  <2>2. Left(a) <= Capacity /\ Left(a) >= 0
    BY <2>1, <1>4, CapacityNat, RateAssumption
  <2>3. Left(a) + Cost(n + 1) <= Capacity + Refill(clock - low)
    BY <2>1, <1>4, <1>5, <1>8, <1>9, CapacityNat, RateAssumption
  <2>4. Cost(n + 1) <= Capacity + Refill(high - low)
    BY <2>2, <2>3, <1>4, <1>5, <1>6, <1>8, CapacityNat, RateAssumption
  <2> QED
    BY <2>1, <2>2, <2>3, <2>4, <1>1, <1>2, CapacityNat DEF WindowInv, Cost, Refill, Capacity
<1>11. CASE ~Admits(a)
  <2>1. Left(a) = Tokens(a) /\ admitted'[a] = n
    BY <1>11, <1>1 DEF Left
  <2> QED
    BY <2>1, <1>1, <1>2, <1>3, <1>4, <1>9 DEF WindowInv, Cost, Refill, Capacity
<1> QED
  BY <1>10, <1>11

LEMMA WindowStep ==
    ASSUME RateTypeOK, WindowIndInv, [RateNext]_rateVars
    PROVE  WindowIndInv'
<1>1. CASE UNCHANGED rateVars
  BY <1>1 DEF WindowIndInv, WindowInv, rateVars, Cost, Refill, Capacity
<1>2. ASSUME NEW a \in Addresses, Request(a)
      PROVE  WindowIndInv'
  <2>1. WindowInv(a)'
    BY <1>2, RequestKeepsWindow
  <2>2. ASSUME NEW b \in Addresses, b # a
        PROVE  WindowInv(b)'
    <3>1. /\ tokens'[b] = tokens[b] /\ last'[b] = last[b] /\ admitted'[b] = admitted[b]
          /\ b \in seen => b \in seen'
          /\ low' = low /\ high' = high
      BY <1>2, <2>2 DEF Request, RateTypeOK
    <3> QED
      BY <3>1 DEF WindowIndInv, WindowInv, Cost, Refill, Capacity
  <2>3. clock' = clock /\ low' = low /\ high' = high
    BY <1>2 DEF Request
  <2> QED
    BY <2>1, <2>2, <2>3 DEF WindowIndInv
<1>3. ASSUME NEW t \in 0..MaxClock, SetClock(t)
      PROVE  WindowIndInv'
  <2>1. /\ low' \in Int /\ high' \in Int /\ low \in Int /\ high \in Int
        /\ low' <= low /\ high <= high' /\ low' <= t /\ t <= high' /\ clock' = t
    BY <1>3, RateAssumption DEF SetClock, RateTypeOK, MinOf, MaxOf
  <2>2. ASSUME NEW b \in Addresses
        PROVE  WindowInv(b)'
    <3>1. /\ tokens'[b] = tokens[b] /\ last'[b] = last[b] /\ admitted'[b] = admitted[b]
          /\ seen' = seen
      BY <1>3 DEF SetClock
    <3>2. last[b] \in Int /\ tokens[b] \in Int /\ admitted[b] \in Nat
      BY RateAssumption DEF RateTypeOK
    <3>3. /\ Refill(last[b] - low) \in Int /\ Refill(last[b] - low') \in Int
          /\ Refill(high - low) \in Int /\ Refill(high' - low') \in Int
      BY <2>1, <3>2, RefillInt
    <3>4. /\ Refill(last[b] - low) <= Refill(last[b] - low')
          /\ Refill(high - low) <= Refill(high' - low')
      BY <2>1, <3>2, RefillMonotonic
    <3>5. Cost(admitted[b]) \in Int
      BY <3>2, CostGrows
    <3>6. WindowInv(b)
      BY DEF WindowIndInv
    <3>7. /\ tokens[b] <= Capacity
          /\ admitted[b] > 0 =>
                /\ b \in seen
                /\ low' <= last[b]
                /\ tokens[b] + Cost(admitted[b]) <= Capacity + Refill(last[b] - low')
          /\ Cost(admitted[b]) <= Capacity + Refill(high' - low')
      BY <2>1, <3>2, <3>3, <3>4, <3>5, <3>6, CapacityNat DEF WindowInv
    <3> QED
      BY <3>1, <3>7 DEF WindowInv, Cost, Refill, Capacity
  <2> QED
    BY <2>1, <2>2 DEF WindowIndInv
<1>4. CASE BeginWindow
  <2>1. clock' = clock /\ low' = clock /\ high' = clock /\ clock \in Int
    BY <1>4, RateAssumption DEF BeginWindow, RateTypeOK
  <2>2. ASSUME NEW b \in Addresses
        PROVE  WindowInv(b)'
    <3>1. tokens'[b] = tokens[b] /\ admitted'[b] = 0
      BY <1>4 DEF BeginWindow
    <3>2. tokens[b] <= Capacity
      BY DEF WindowIndInv, WindowInv
    <3>3. Cost(0) = 0 /\ Refill(clock - clock) = 0
      BY <2>1, CostGrows, RefillZero
    <3>4. Cost(0) <= Capacity + Refill(clock - clock)
      BY <3>3, CapacityNat
    <3> QED
      BY <2>1, <3>1, <3>2, <3>4 DEF WindowInv, Cost, Refill, Capacity
  <2> QED
    BY <2>1, <2>2 DEF WindowIndInv
<1> QED
  BY <1>1, <1>2, <1>3, <1>4 DEF RateNext

\* However requests come and however the clock is set, an address is admitted no
\* more often than the burst and the refill allow (_consume_token, _get_tokens).
THEOREM WindowIsBounded == RateSpec => []WindowBound
<1>1. RateInit => WindowIndInv
  <2> SUFFICES ASSUME RateInit
               PROVE  WindowIndInv
    OBVIOUS
  <2>1. low = clock /\ high = clock /\ clock \in Int
    BY RateAssumption DEF RateInit
  <2>2. ASSUME NEW a \in Addresses
        PROVE  WindowInv(a)
    <3>1. tokens[a] = 0 /\ admitted[a] = 0
      BY DEF RateInit
    <3>2. Cost(0) = 0 /\ Refill(clock - clock) = 0
      BY <2>1, CostGrows, RefillZero
    <3> QED
      BY <2>1, <3>1, <3>2, CapacityNat DEF WindowInv
  <2> QED
    BY <2>1, <2>2 DEF WindowIndInv
<1>2. WindowIndInv => WindowBound
  BY DEF WindowIndInv, WindowInv, WindowBound, Cost, Refill
<1> QED
  BY <1>1, <1>2, WindowStep, RateTypeCorrect, PTL DEF RateSpec

-----------------------------------------------------------------------------
(* The limiter: Retry-After *)

\* While the clock is never set back no bucket is overdrawn, and a refusal was
\* the last thing its bucket saw.
RetryIndInv ==
    ~setBack => \A a \in Addresses :
        /\ tokens[a] >= 0
        /\ a \in seen => last[a] <= clock
        /\ retryAt[a] # NoRetry => a \in seen /\ retryAt[a] = last[a] + Minute

LEMMA TokensNat ==
    ASSUME RateTypeOK, RetryIndInv, ~setBack, NEW a \in Addresses
    PROVE  Tokens(a) >= 0
<1>1. CASE a \notin seen
  BY <1>1, CapacityNat DEF Tokens
<1>2. CASE a \in seen
  <2>1. clock - last[a] \in Nat /\ tokens[a] \in Nat
    BY <1>2, RateAssumption DEF RetryIndInv, RateTypeOK
  <2>2. Refill(clock - last[a]) \in Int /\ 0 <= Refill(clock - last[a])
    BY <2>1, RefillInt, RefillMonotonic, RefillZero
  <2>3. Refilled(a) = MinOf(Capacity, tokens[a] + Refill(clock - last[a]))
    BY DEF Refilled, Refill
  <2> QED
    BY <1>2, <2>1, <2>2, <2>3, CapacityNat DEF Tokens, MinOf
<1> QED
  BY <1>1, <1>2

LEMMA RetryStep ==
    ASSUME RateTypeOK, RetryIndInv, [RateNext]_rateVars
    PROVE  RetryIndInv'
<1> SUFFICES ASSUME ~setBack'
             PROVE  \A a \in Addresses :
                      /\ tokens'[a] >= 0
                      /\ a \in seen' => last'[a] <= clock'
                      /\ retryAt'[a] # NoRetry => a \in seen' /\ retryAt'[a] = last'[a] + Minute
  BY DEF RetryIndInv, NoRetry
<1>1. CASE UNCHANGED rateVars
  BY <1>1 DEF RetryIndInv, rateVars
<1>2. ASSUME NEW a \in Addresses, Request(a)
      PROVE  \A b \in Addresses :
                      /\ tokens'[b] >= 0
                      /\ b \in seen' => last'[b] <= clock'
                      /\ retryAt'[b] # NoRetry => b \in seen' /\ retryAt'[b] = last'[b] + Minute
  <2>1. ~setBack /\ clock' = clock /\ clock \in Int
    BY <1>2, RateAssumption DEF Request, RateTypeOK
  <2>2. /\ tokens'[a] = Left(a) /\ last'[a] = clock /\ a \in seen'
        /\ retryAt'[a] = IF Admits(a) THEN NoRetry ELSE clock + Minute
    BY <1>2 DEF Request, RateTypeOK
  <2>3. Left(a) >= 0
    <3>1. Tokens(a) >= 0 /\ Tokens(a) \in Int
      BY <2>1, TokensNat, TokensInt
    <3> QED
      BY <3>1, RateAssumption DEF Left, Admits
  <2>4. ASSUME NEW b \in Addresses, b # a
        PROVE  /\ tokens'[b] = tokens[b] /\ last'[b] = last[b] /\ retryAt'[b] = retryAt[b]
               /\ b \in seen' <=> b \in seen
    BY <1>2, <2>4 DEF Request, RateTypeOK
  <2> QED
    BY <2>1, <2>2, <2>3, <2>4 DEF RetryIndInv
<1>3. ASSUME NEW t \in 0..MaxClock, SetClock(t)
      PROVE  \A b \in Addresses :
                      /\ tokens'[b] >= 0
                      /\ b \in seen' => last'[b] <= clock'
                      /\ retryAt'[b] # NoRetry => b \in seen' /\ retryAt'[b] = last'[b] + Minute
  <2>1. ~setBack /\ ~(t < clock)
    BY <1>3 DEF SetClock
  <2>2. /\ clock' = t /\ clock \in Int /\ t \in Int
        /\ UNCHANGED <<seen, tokens, last, retryAt>>
        /\ last \in [Addresses -> 0..MaxClock]
    BY <1>3, RateAssumption DEF SetClock, RateTypeOK
  <2>3. clock <= t
    BY <2>1, <2>2
  <2> QED
    BY <2>1, <2>2, <2>3, RateAssumption DEF RetryIndInv
<1>4. CASE BeginWindow
  BY <1>4 DEF RetryIndInv, BeginWindow
<1> QED
  BY <1>1, <1>2, <1>3, <1>4 DEF RateNext

\* A 429 tells the truth: on a clock never set back, who comes again after its
\* Retry-After is admitted (dispatch).
THEOREM RetryIsEnough == RateSpec => []RetryAfterSuffices
<1>1. RateInit => RetryIndInv
  <2> SUFFICES ASSUME RateInit, NEW a \in Addresses
               PROVE  /\ tokens[a] >= 0
                      /\ a \in seen => last[a] <= clock
                      /\ retryAt[a] # NoRetry => a \in seen /\ retryAt[a] = last[a] + Minute
    BY DEF RetryIndInv
  <2>1. tokens[a] = 0 /\ seen = {} /\ retryAt[a] = NoRetry
    BY DEF RateInit
  <2> QED
    BY <2>1
<1>2. RateTypeOK /\ RetryIndInv => RetryAfterSuffices
  <2> SUFFICES ASSUME RateTypeOK, RetryIndInv, NEW a \in Addresses,
                      Burst > 0, Rpm > 0, ~setBack, retryAt[a] # NoRetry, clock >= retryAt[a]
               PROVE  Admits(a)
    BY DEF RetryAfterSuffices
  <2>1. /\ a \in seen /\ tokens[a] \in Nat /\ clock \in Int /\ last[a] \in Int
        /\ Minute \in Int /\ Minute <= clock - last[a]
    BY RateAssumption DEF RetryIndInv, RateTypeOK
  <2>2. Refill(clock - last[a]) \in Int /\ Refill(clock - last[a]) >= Minute
    <3>1. Refill(Minute) <= Refill(clock - last[a])
      BY <2>1, RefillMonotonic
    <3>2. Refill(Minute) \in Int /\ Refill(clock - last[a]) \in Int
      BY <2>1, RefillInt
    <3> QED
      BY <2>1, <3>1, <3>2, MinuteRefillsToken
  <2>3. Refilled(a) = MinOf(Capacity, tokens[a] + Refill(clock - last[a]))
    BY DEF Refilled, Refill
  <2> QED
    BY <2>1, <2>2, <2>3, CapacityNat, CapacityHoldsToken DEF Admits, Tokens, MinOf
<1> QED
  BY <1>1, <1>2, RetryStep, RateTypeCorrect, PTL DEF RateSpec
=============================================================================
