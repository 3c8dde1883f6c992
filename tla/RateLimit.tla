------------------------------ MODULE RateLimit ------------------------------
(***************************************************************************)
(* RateLimitMiddleware (preflight/api/middleware.py) outside dev mode: a   *)
(* token bucket for each client address.                                   *)
(*                                                                         *)
(* A token is counted as Minute parts, so that Rpm tokens a minute refill  *)
(* Rpm parts in each unit of time; the code's unit is the second and its   *)
(* Minute is 60.  There is no await between the look at the bucket and the *)
(* consumption, so a request is one step.  The clock is time.time(), which *)
(* may be set back.                                                        *)
(***************************************************************************)
EXTENDS Integers

CONSTANTS Addresses,  \* client addresses
          Minute,     \* units of time in a minute, and parts of a token
          Rpm,        \* RATE_LIMIT_RPM
          Burst,      \* RATE_LIMIT_BURST
          MaxClock    \* bound on the clock

ASSUME RateAssumption ==
    Minute \in Nat \ {0} /\ Rpm \in Nat /\ Burst \in Nat /\ MaxClock \in Nat

VARIABLES clock,    \* time.time()
          seen,     \* the keys of _buckets
          tokens,   \* the first component of each bucket, in parts
          last      \* the second one

\* History: the requests admitted to each address since a moment somebody
\* chose, the lowest and the highest clock since, whether the clock was ever set
\* back, and the moment the last 429 of an address told it to come again.
VARIABLES admitted, low, high, setBack, retryAt

rateVars == <<clock, seen, tokens, last, admitted, low, high, setBack, retryAt>>

Capacity == Burst * Minute
NoRetry == -1
MinOf(a, b) == IF a < b THEN a ELSE b
MaxOf(a, b) == IF a < b THEN b ELSE a

RateInit ==
    /\ clock \in 0..MaxClock
    /\ seen = {}
    /\ tokens = [a \in Addresses |-> 0]
    /\ last = [a \in Addresses |-> 0]
    /\ admitted = [a \in Addresses |-> 0]
    /\ low = clock
    /\ high = clock
    /\ setBack = FALSE
    /\ retryAt = [a \in Addresses |-> NoRetry]

\* What a bucket holds after the time since its last refill.  Mutant: it is not
\* capped.
Uncapped(a) == tokens[a] + Rpm * (clock - last[a])
Refilled(a) == MinOf(Capacity, tokens[a] + Rpm * (clock - last[a]))

\* _get_tokens
Tokens(a) == IF a \in seen THEN Refilled(a) ELSE Capacity

Admits(a) == Tokens(a) >= Minute

\* What _consume_token leaves in the bucket.  Mutant: a refused request pays too.
ChargeAlways(a) == Tokens(a) - Minute
Left(a) == IF Admits(a) THEN Tokens(a) - Minute ELSE Tokens(a)

\* dispatch, of a path other than /health: admitted, or a 429 with Retry-After.
Request(a) ==
    /\ seen' = seen \cup {a}
    /\ tokens' = [tokens EXCEPT ![a] = Left(a)]
    /\ last' = [last EXCEPT ![a] = clock]
    /\ admitted' = IF Admits(a) THEN [admitted EXCEPT ![a] = @ + 1] ELSE admitted
    /\ retryAt' = [retryAt EXCEPT ![a] = IF Admits(a) THEN NoRetry ELSE clock + Minute]
    /\ UNCHANGED <<clock, low, high, setBack>>

\* The clock goes on, or is set back.
SetClock(t) ==
    /\ t # clock
    /\ clock' = t
    /\ low' = MinOf(low, t)
    /\ high' = MaxOf(high, t)
    /\ setBack' = (setBack \/ t < clock)
    /\ UNCHANGED <<seen, tokens, last, admitted, retryAt>>

\* Somebody begins to count.
BeginWindow ==
    /\ admitted' = [a \in Addresses |-> 0]
    /\ low' = clock
    /\ high' = clock
    /\ UNCHANGED <<clock, seen, tokens, last, setBack, retryAt>>

RateNext ==
    \/ \E a \in Addresses : Request(a)
    \/ \E t \in 0..MaxClock : SetClock(t)
    \/ BeginWindow

RateSpec == RateInit /\ [][RateNext]_rateVars

-----------------------------------------------------------------------------
(* Properties *)

RateTypeOK ==
    /\ clock \in 0..MaxClock
    /\ seen \subseteq Addresses
    /\ tokens \in [Addresses -> Int]
    /\ last \in [Addresses -> 0..MaxClock]
    /\ admitted \in [Addresses -> Nat]
    /\ low \in 0..MaxClock
    /\ high \in 0..MaxClock
    /\ setBack \in BOOLEAN
    /\ retryAt \in [Addresses -> Int]

\* "60 requests/minute per IP, burst of 20": whenever one begins to count, an
\* address is admitted no more than the burst and the refill of the time the
\* clock has covered since, however the requests come and however the clock is set.
WindowBound ==
    \A a \in Addresses : Minute * admitted[a] <= Capacity + Rpm * (high - low)

\* "Retry-After": on a clock never set back, an address that comes again when the
\* 429 said is admitted, if the configuration ever admits anything.
RetryAfterSuffices ==
    \A a \in Addresses :
        /\ Burst > 0 /\ Rpm > 0 /\ ~setBack
        /\ retryAt[a] # NoRetry /\ clock >= retryAt[a]
        => Admits(a)
=============================================================================
