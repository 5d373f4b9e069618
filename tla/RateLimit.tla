----------------------------- MODULE RateLimit -----------------------------
(***************************************************************************)
(* The token buckets of server/rate_limit.py.  The unit is what one tick   *)
(* of the clock refills, and a request costs Cost units.  The class calls  *)
(* itself thread-safe, and is modelled so: a call reads the clock before   *)
(* it takes the lock.  RateLimitMiddleware, its one caller, runs check()   *)
(* on the thread of the event loop, which is the case of a single caller.  *)
(***************************************************************************)
EXTENDS Integers

CONSTANTS
    Callers,    \* concurrent calls of check()
    Keys,       \* request identities
    NoKey,      \* not a key: the caller is idle
    Capacity,   \* capacity of a bucket, in units
    Cost,       \* what one request takes
    Second,     \* ticks in a second, the unit of Retry-After
    Slack,      \* 0.999 of a second, in ticks
    LastTick    \* bound: ticks of the clock

ASSUME RateLimitAssumption ==
    /\ Capacity \in Nat /\ Cost \in Nat \ {0} /\ Cost <= Capacity
    /\ Second \in Nat \ {0} /\ Slack \in 0..(Second - 1)
    /\ LastTick \in Nat
    /\ NoKey \notin Keys

VARIABLES
    ticks,      \* time.monotonic()
    keyOf,      \* the key of a caller's request
    stamp,      \* the clock as the caller read it
    tokens,     \* tokens of a bucket
    refilled,   \* its last_refill
    opened,     \* the keys in _buckets
    \* history
    mark,       \* the start of an arbitrary window
    admitted,   \* units taken since by requests that arrived since
    retryAt     \* when the first client denied since an admission comes back

limiter == <<ticks, keyOf, stamp, tokens, refilled, opened,
             mark, admitted, retryAt>>

Never == -1

RateInit ==
    /\ ticks = 0 /\ mark = 0
    /\ keyOf = [c \in Callers |-> NoKey]
    /\ stamp = [c \in Callers |-> 0]
    /\ opened = {}
    /\ tokens = [k \in Keys |-> Capacity]
    /\ refilled = [k \in Keys |-> 0]
    /\ admitted = [k \in Keys |-> 0]
    /\ retryAt = [k \in Keys |-> Never]

TimeTicks ==
    /\ ticks < LastTick
    /\ ticks' = ticks + 1
    /\ UNCHANGED <<keyOf, stamp, tokens, refilled, opened,
                   mark, admitted, retryAt>>

\* A window to count in begins.
Watch ==
    /\ mark < ticks
    /\ mark' = ticks
    /\ admitted' = [k \in Keys |-> 0]
    /\ UNCHANGED <<ticks, keyOf, stamp, tokens, refilled, opened, retryAt>>

\* A request that is not exempt: check() reads the key and the clock.
Arrive(c, k) ==
    /\ keyOf[c] = NoKey
    /\ keyOf' = [keyOf EXCEPT ![c] = k]
    /\ stamp' = [stamp EXCEPT ![c] = ticks]
    /\ UNCHANGED <<ticks, tokens, refilled, opened, mark, admitted, retryAt>>

\* Mutant of Level: what the time refills is not capped.
LevelUncapped(k, t) == IF k \in opened THEN tokens[k] + (t - refilled[k])
                                       ELSE Capacity

\* The tokens of k once refilled to time t; a bucket is created full.
Level(k, t) ==
    IF k \notin opened THEN Capacity
    ELSE IF tokens[k] + (t - refilled[k]) < Capacity
         THEN tokens[k] + (t - refilled[k]) ELSE Capacity

\* The part under the lock that both answers share.
Refill(c, k, left) ==
    /\ tokens' = [tokens EXCEPT ![k] = left]
    /\ refilled' = [refilled EXCEPT ![k] = stamp[c]]
    /\ opened' = opened \cup {k}
    /\ keyOf' = [keyOf EXCEPT ![c] = NoKey]
    /\ UNCHANGED <<ticks, stamp, mark>>

Admit(c, k) ==
    /\ keyOf[c] = k
    /\ Level(k, stamp[c]) >= Cost
    /\ Refill(c, k, Level(k, stamp[c]) - Cost)
    /\ admitted' = IF stamp[c] >= mark
                   THEN [admitted EXCEPT ![k] = @ + Cost] ELSE admitted
    /\ retryAt' = [retryAt EXCEPT ![k] = Never]

\* Mutant of RetryAfter: the seconds are cut off, not rounded up.
RetryAfterCut(left) ==
    IF Cost - left < Second THEN 1 ELSE (Cost - left) \div Second

\* max(1, int(retry_after + 0.999)): the seconds until one request can be paid
\* for.  Less than a thousandth above a whole second is cut off.
RetryAfter(left) ==
    LET missing == Cost - left IN
    IF missing + Slack < Second THEN 1 ELSE (missing + Slack) \div Second

\* 429 with Retry-After, which the client counts from the answer.
Deny(c, k) ==
    /\ keyOf[c] = k
    /\ Level(k, stamp[c]) < Cost
    /\ Refill(c, k, Level(k, stamp[c]))
    /\ retryAt' = IF retryAt[k] = Never
                  THEN [retryAt EXCEPT ![k] = ticks
                            + Second * RetryAfter(Level(k, stamp[c]))]
                  ELSE retryAt
    /\ UNCHANGED admitted

RateNext ==
    \/ TimeTicks
    \/ Watch
    \/ \E c \in Callers, k \in Keys : Arrive(c, k) \/ Admit(c, k) \/ Deny(c, k)

RateSpec == RateInit /\ [][RateNext]_limiter

-----------------------------------------------------------------------------
(* Properties.                                                             *)

\* The types of the limiter's state; readings are never of the future.
RateTypeOK ==
    /\ ticks \in Nat /\ mark \in 0..ticks
    /\ keyOf \in [Callers -> Keys \cup {NoKey}]
    /\ stamp \in [Callers -> 0..ticks]
    /\ tokens \in [Keys -> Int] /\ \A k \in Keys : tokens[k] <= Capacity
    /\ refilled \in [Keys -> 0..ticks]
    /\ opened \subseteq Keys
    /\ admitted \in [Keys -> Nat]
    /\ retryAt \in [Keys -> Nat \cup {Never}]

\* TokenBucketRateLimiter, "Thread-safe rate limiter": whatever order the
\* calls take the lock in, the requests that arrived in a window and were let
\* through cost at most one burst and what the window refilled.
WindowBounded == \A k \in Keys : admitted[k] <= Capacity + (ticks - mark)

\* What the rounding of Retry-After may fall short of: the thousandth of a
\* second that 0.999 lacks.
Rounding == Second - 1 - Slack

\* A client that waits for Retry-After and that thousandth of a second is let
\* through, if nobody else was in between: a denial that came later has not
\* put its turn off, nor has a call that read the clock earlier.
RetryAfterSuffices ==
    \A k \in Keys : retryAt[k] # Never => Level(k, retryAt[k] + Rounding) >= Cost

\* Why the two hold: what is left and what was taken pay for each other, and
\* a debt is never larger than the time the bucket has gone back.
Paid ==
    \A k \in opened :
        /\ tokens[k] + (ticks - refilled[k]) >= 0
        /\ admitted[k] = 0
           \/ admitted[k] + tokens[k] - refilled[k] <= Capacity - mark

Unopened == \A k \in Keys \ opened : admitted[k] = 0 /\ retryAt[k] = Never

RateInv == RateTypeOK /\ Paid /\ Unopened /\ RetryAfterSuffices

=============================================================================
