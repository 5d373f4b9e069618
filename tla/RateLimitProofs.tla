-------------------------- MODULE RateLimitProofs --------------------------
(***************************************************************************)
(* Proofs about RateLimit.  RateInv is inductive: Paid relates what a      *)
(* bucket holds to what was taken from it, and bounds its debt by the time *)
(* it has been set back.                                                   *)
(***************************************************************************)
EXTENDS RateLimit, TLAPS

\* What a bucket holds at a time: a whole number, never above the capacity.
LEMMA LevelType ==
    ASSUME RateTypeOK, NEW k \in Keys, NEW t \in Int
    PROVE  Level(k, t) \in Int /\ Level(k, t) <= Capacity
BY RateLimitAssumption DEF Level, RateTypeOK

\* Refilling neither makes nor hides tokens: it only cuts at the capacity.
LEMMA LevelOfOpened ==
    ASSUME RateTypeOK, NEW k \in opened, NEW t \in Int
    PROVE  /\ Level(k, t) <= tokens[k] + (t - refilled[k])
           /\ \/ Level(k, t) = tokens[k] + (t - refilled[k])
              \/ Level(k, t) = Capacity
BY RateLimitAssumption DEF Level, RateTypeOK

\* The new limiter satisfies the invariant.
LEMMA RateInitInv == RateInit => RateInv
BY RateLimitAssumption
   DEF RateInit, RateInv, RateTypeOK, Paid, Unopened, RetryAfterSuffices,
       Never

\* A call under the lock keeps the debt of its bucket below the set-back, and
\* what is left and taken below the window's allowance.
LEMMA RefillPays ==
    ASSUME RateInv, NEW c \in Callers, NEW k \in Keys, keyOf[c] = k,
           NEW paid \in {0, Cost}, paid = 0 \/ Level(k, stamp[c]) >= paid,
           NEW sum \in Nat,
           sum = admitted[k] + (IF stamp[c] >= mark THEN paid ELSE 0)
    PROVE  /\ (Level(k, stamp[c]) - paid) + (ticks - stamp[c]) >= 0
           /\ sum = 0
              \/ sum + (Level(k, stamp[c]) - paid) - stamp[c]
                    <= Capacity - mark
<1>1. /\ ticks \in Nat /\ mark \in Nat /\ stamp[c] \in Nat
      /\ stamp[c] <= ticks /\ Capacity \in Nat /\ Cost \in Nat
      /\ tokens[k] \in Int /\ tokens[k] <= Capacity /\ refilled[k] \in Nat
      /\ refilled[k] <= ticks /\ admitted[k] \in Nat
  BY RateLimitAssumption DEF RateInv, RateTypeOK
<1>2. /\ Level(k, stamp[c]) \in Int
      /\ Level(k, stamp[c]) <= Capacity
  BY <1>1, LevelType DEF RateInv
<1>3. (Level(k, stamp[c]) - paid) + (ticks - stamp[c]) >= 0
  <2>1. CASE k \in opened
    <3>1. tokens[k] + (ticks - refilled[k]) >= 0
      BY <2>1 DEF RateInv, Paid
    <3>2. \/ Level(k, stamp[c]) = tokens[k] + (stamp[c] - refilled[k])
          \/ Level(k, stamp[c]) = Capacity
      BY <1>1, <2>1, LevelOfOpened DEF RateInv
    <3>. QED  BY <1>1, <1>2, <3>1, <3>2
  <2>2. CASE k \notin opened
    <3>1. Level(k, stamp[c]) = Capacity
      BY <2>2 DEF Level
    <3>. QED  BY <1>1, <3>1
  <2>. QED  BY <2>1, <2>2
<1>4. CASE k \in opened
  <2>1. Level(k, stamp[c]) <= tokens[k] + (stamp[c] - refilled[k])
    BY <1>1, <1>4, LevelOfOpened DEF RateInv
  <2>2. admitted[k] = 0
        \/ admitted[k] + tokens[k] - refilled[k] <= Capacity - mark
    BY <1>4 DEF RateInv, Paid
  <2>. QED  BY <1>1, <1>2, <1>3, <2>1, <2>2
<1>5. CASE k \notin opened
  <2>1. admitted[k] = 0
    BY <1>5 DEF RateInv, Unopened
  <2>. QED  BY <1>1, <1>2, <1>3, <2>1
<1>. QED  BY <1>4, <1>5

\* Time only eases every bound.
LEMMA TickInv == ASSUME RateInv, TimeTicks PROVE RateInv'
<1>1. RateTypeOK'
  BY DEF RateInv, RateTypeOK, TimeTicks
<1>2. Paid'
  BY RateLimitAssumption DEF RateInv, RateTypeOK, Paid, TimeTicks
<1>3. Unopened' /\ RetryAfterSuffices'
  BY DEF RateInv, Unopened, RetryAfterSuffices, Level, TimeTicks
<1>. QED  BY <1>1, <1>2, <1>3 DEF RateInv

\* A new window starts with nothing taken.
LEMMA WatchInv == ASSUME RateInv, Watch PROVE RateInv'
<1>1. RateTypeOK'
  BY DEF RateInv, RateTypeOK, Watch
<1>2. Paid'
  BY DEF RateInv, RateTypeOK, Paid, Watch
<1>3. Unopened' /\ RetryAfterSuffices'
  BY DEF RateInv, RateTypeOK, Unopened, RetryAfterSuffices, Level, Watch
<1>. QED  BY <1>1, <1>2, <1>3 DEF RateInv

\* An arrival only reads.
LEMMA ArriveInv ==
    ASSUME RateInv, NEW c \in Callers, NEW k \in Keys, Arrive(c, k)
    PROVE  RateInv'
<1>1. RateTypeOK'
  BY DEF RateInv, RateTypeOK, Arrive
<1>2. Paid' /\ Unopened' /\ RetryAfterSuffices'
  BY DEF RateInv, Paid, Unopened, RetryAfterSuffices, Level, Arrive
<1>. QED  BY <1>1, <1>2 DEF RateInv

\* A request that is let through pays, and voids the promise made to others.
LEMMA AdmitInv ==
    ASSUME RateInv, NEW c \in Callers, NEW k \in Keys, Admit(c, k)
    PROVE  RateInv'
<1>0. /\ keyOf[c] = k /\ stamp[c] \in 0..ticks /\ ticks \in Nat
      /\ admitted[k] \in Nat /\ mark \in 0..ticks
      /\ Capacity \in Nat /\ Cost \in Nat \ {0}
  BY RateLimitAssumption DEF Admit, RateInv, RateTypeOK
<1>1. /\ Level(k, stamp[c]) \in Int /\ Level(k, stamp[c]) <= Capacity
      /\ Level(k, stamp[c]) >= Cost
  BY <1>0, LevelType DEF Admit, RateInv
<1>2. RateTypeOK'
  BY <1>0, <1>1 DEF RateInv, RateTypeOK, Admit, Refill, Never
<1> DEFINE sum == admitted[k] + (IF stamp[c] >= mark THEN Cost ELSE 0)
<1>3. admitted'[k] = sum /\ sum \in Nat
  BY <1>0 DEF Admit, RateInv, RateTypeOK
<1>4. /\ (Level(k, stamp[c]) - Cost) + (ticks - stamp[c]) >= 0
      /\ sum = 0
         \/ sum + (Level(k, stamp[c]) - Cost) - stamp[c] <= Capacity - mark
  <2> HIDE DEF sum
  <2>. QED  BY <1>0, <1>1, <1>3, RefillPays DEF sum
<1>5. /\ tokens'[k] = Level(k, stamp[c]) - Cost
      /\ refilled'[k] = stamp[c] /\ ticks' = ticks /\ mark' = mark
      /\ \A j \in Keys \ {k} :
            /\ tokens'[j] = tokens[j] /\ refilled'[j] = refilled[j]
            /\ admitted'[j] = admitted[j] /\ retryAt'[j] = retryAt[j]
      /\ retryAt'[k] = Never /\ opened' = opened \cup {k}
  BY DEF Admit, Refill, RateInv, RateTypeOK
<1> HIDE DEF sum
<1>6. Paid'
  <2> SUFFICES ASSUME NEW j \in opened'
               PROVE  /\ tokens'[j] + (ticks' - refilled'[j]) >= 0
                      /\ admitted'[j] = 0
                         \/ admitted'[j] + tokens'[j] - refilled'[j]
                               <= Capacity - mark'
    BY DEF Paid
  <2>1. CASE j = k
    BY <2>1, <1>3, <1>4, <1>5
  <2>2. CASE j # k
    BY <2>2, <1>5 DEF RateInv, Paid, RateTypeOK
  <2>. QED  BY <2>1, <2>2
<1>7. Unopened'
  BY <1>5 DEF RateInv, Unopened, RateTypeOK
<1>8. RetryAfterSuffices'
  BY <1>5 DEF RateInv, RetryAfterSuffices, Level, RateTypeOK
<1>. QED  BY <1>2, <1>6, <1>7, <1>8 DEF RateInv

\* A whole number of seconds, at least one, and short of what is missing by
\* the rounding at most.
LEMMA RoundingBound ==
    ASSUME NEW left \in Int, left < Cost
    PROVE  /\ RetryAfter(left) \in Nat \ {0}
           /\ Second * RetryAfter(left) \in Nat
           /\ Second * RetryAfter(left) + Rounding >= Cost - left
<1>. DEFINE a == Cost - left + Slack
            q == a \div Second
<1>1. /\ Second \in Nat /\ Second > 0 /\ Slack \in Nat /\ Slack < Second
      /\ Cost \in Nat /\ a \in Nat /\ Rounding = Second - 1 - Slack
  BY RateLimitAssumption DEF Rounding
<1>. HIDE DEF a
<1>2. /\ q \in Int /\ Second * q <= a /\ a < Second * q + Second
  BY <1>1
<1>. HIDE DEF q
<1>3. CASE a < Second
  <2>1. RetryAfter(left) = 1
    BY <1>3 DEF RetryAfter, a
  <2>2. Second * 1 = Second
    BY <1>1
  <2>. QED  BY <1>1, <1>3, <2>1, <2>2 DEF a
<1>4. CASE ~(a < Second)
  <2>1. RetryAfter(left) = q
    BY <1>4 DEF RetryAfter, a, q
  <2>2. Second * q \in Int
    BY <1>1, <1>2
  <2>3. q > 0
    <3>1. ASSUME q <= 0
          PROVE  Second * q <= 0
      BY <1>1, <1>2, <3>1
    <3>. QED  BY <1>1, <1>2, <1>4, <2>2, <3>1
  <2>4. Second * q >= 0 /\ Second * q + Rounding >= Cost - left
    BY <1>1, <1>2, <1>4, <2>2 DEF a
  <2>. QED  BY <1>2, <2>1, <2>2, <2>3, <2>4
<1>. QED  BY <1>3, <1>4

\* A denial promises what is missing and leaves an older promise standing.
LEMMA DenyInv ==
    ASSUME RateInv, NEW c \in Callers, NEW k \in Keys, Deny(c, k)
    PROVE  RateInv'
<1>0. /\ keyOf[c] = k /\ stamp[c] \in 0..ticks /\ ticks \in Nat
      /\ admitted[k] \in Nat /\ mark \in 0..ticks
      /\ Capacity \in Nat /\ Cost \in Nat \ {0} /\ Cost <= Capacity
      /\ retryAt[k] \in Nat \cup {Never}
  BY RateLimitAssumption DEF Deny, RateInv, RateTypeOK
<1> DEFINE left == Level(k, stamp[c])
<1>1. left \in Int /\ left <= Capacity /\ left < Cost
  BY <1>0, LevelType DEF Deny, RateInv
<1> DEFINE wait == Second * RetryAfter(left)
<1>9. wait \in Nat /\ wait + Rounding >= Cost - left
  BY <1>1, RoundingBound
<1>10. Rounding \in Nat
  BY RateLimitAssumption DEF Rounding
<1>2. RateTypeOK'
  <2>1. retryAt' = IF retryAt[k] = Never THEN [retryAt EXCEPT ![k] = ticks + wait]
                                         ELSE retryAt
    BY DEF Deny
  <2> HIDE DEF wait
  <2>2. retryAt' \in [Keys -> Nat \cup {Never}]
    BY <1>0, <1>9, <2>1 DEF RateInv, RateTypeOK
  <2>. QED  BY <1>0, <1>1, <2>2 DEF RateInv, RateTypeOK, Deny, Refill
<1>3. /\ tokens'[k] = left
      /\ refilled'[k] = stamp[c] /\ ticks' = ticks /\ mark' = mark
      /\ \A j \in Keys \ {k} :
            /\ tokens'[j] = tokens[j] /\ refilled'[j] = refilled[j]
            /\ retryAt'[j] = retryAt[j]
      /\ admitted' = admitted
      /\ retryAt'[k] = IF retryAt[k] = Never THEN ticks + wait
                                             ELSE retryAt[k]
      /\ opened' = opened \cup {k}
  BY DEF Deny, Refill, RateInv, RateTypeOK
<1>4. /\ left + (ticks - stamp[c]) >= 0
      /\ admitted[k] = 0
         \/ admitted[k] + left - stamp[c] <= Capacity - mark
  <2>1. admitted[k] = admitted[k] + (IF stamp[c] >= mark THEN 0 ELSE 0)
    BY <1>0
  <2>2. /\ (left - 0) + (ticks - stamp[c]) >= 0
        /\ admitted[k] = 0
           \/ admitted[k] + (left - 0) - stamp[c] <= Capacity - mark
    BY <1>0, <2>1, RefillPays
  <2>. QED  BY <1>0, <1>1, <2>2
<1> HIDE DEF left, wait
<1>5. Paid'
  <2> SUFFICES ASSUME NEW j \in opened'
               PROVE  /\ tokens'[j] + (ticks' - refilled'[j]) >= 0
                      /\ admitted'[j] = 0
                         \/ admitted'[j] + tokens'[j] - refilled'[j]
                               <= Capacity - mark'
    BY DEF Paid
  <2>1. CASE j = k
    BY <2>1, <1>3, <1>4
  <2>2. CASE j # k
    BY <2>2, <1>3 DEF RateInv, Paid, RateTypeOK
  <2>. QED  BY <2>1, <2>2
<1>7. Unopened'
  BY <1>3 DEF RateInv, Unopened, RateTypeOK
<1>8. RetryAfterSuffices'
  <2> SUFFICES ASSUME NEW j \in Keys, retryAt'[j] # Never
               PROVE  Level(j, retryAt[j] + Rounding)' >= Cost
    BY DEF RetryAfterSuffices
  <2>1. CASE j # k
    BY <2>1, <1>3, <1>10 DEF RateInv, RetryAfterSuffices, Level, RateTypeOK
  <2>2. CASE j = k /\ retryAt[k] = Never
    <3>1. retryAt'[k] = ticks + wait
      BY <2>2, <1>3
    <3>2. left + ((retryAt'[k] + Rounding) - stamp[c]) >= Cost
      BY <3>1, <1>0, <1>1, <1>9, <1>10
    <3>. QED  BY <2>2, <3>1, <3>2, <1>0, <1>1, <1>3, <1>9, <1>10 DEF Level
  <2>3. CASE j = k /\ retryAt[k] # Never
    <3>1. retryAt'[k] = retryAt[k] /\ retryAt[k] \in Nat
      BY <2>3, <1>0, <1>3
    <3>2. Level(k, retryAt[k] + Rounding) >= Cost
      BY <2>3 DEF RateInv, RetryAfterSuffices
    <3>3. k \in opened
      BY <2>3 DEF RateInv, Unopened
    <3>4. /\ tokens[k] \in Int /\ refilled[k] \in Nat
      BY DEF RateInv, RateTypeOK
    <3>5. left + ((retryAt[k] + Rounding) - stamp[c]) >= Cost
      BY <1>0, <1>1, <1>10, <3>1, <3>2, <3>3, <3>4 DEF Level, left
    <3>. QED  BY <2>3, <3>1, <3>5, <1>0, <1>1, <1>3, <1>10 DEF Level
  <2>. QED  BY <2>1, <2>2, <2>3
<1>. QED  BY <1>2, <1>5, <1>7, <1>8 DEF RateInv

\* The invariant is inductive.
THEOREM RateInvariant == RateSpec => []RateInv
<1>1. RateInit => RateInv
  BY RateInitInv
<1>2. RateInv /\ [RateNext]_limiter => RateInv'
  <2> SUFFICES ASSUME RateInv, [RateNext]_limiter PROVE RateInv'
    OBVIOUS
  <2>1. CASE TimeTicks
    BY <2>1, TickInv
  <2>2. CASE Watch
    BY <2>2, WatchInv
  <2>3. ASSUME NEW c \in Callers, NEW k \in Keys, Arrive(c, k)
        PROVE  RateInv'
    BY <2>3, ArriveInv
  <2>4. ASSUME NEW c \in Callers, NEW k \in Keys, Admit(c, k)
        PROVE  RateInv'
    BY <2>4, AdmitInv
  <2>5. ASSUME NEW c \in Callers, NEW k \in Keys, Deny(c, k)
        PROVE  RateInv'
    BY <2>5, DenyInv
  <2>6. CASE UNCHANGED limiter
    BY <2>6 DEF limiter, RateInv, RateTypeOK, Paid, Unopened,
                RetryAfterSuffices, Level
  <2>. QED  BY <2>1, <2>2, <2>3, <2>4, <2>5, <2>6 DEF RateNext
<1>. QED  BY <1>1, <1>2, PTL DEF RateSpec

\* check: in no window do the calls of a key that read the clock in it take
\* more than one burst and what the window refilled, in whatever order they
\* take the lock.
THEOREM WindowTheorem == RateSpec => []WindowBounded
<1>1. RateInv => WindowBounded
  <2> SUFFICES ASSUME RateInv, NEW k \in Keys
               PROVE  admitted[k] <= Capacity + (ticks - mark)
    BY DEF WindowBounded
  <2>1. /\ ticks \in Nat /\ mark \in 0..ticks /\ Capacity \in Nat
        /\ tokens[k] \in Int /\ refilled[k] \in Nat /\ admitted[k] \in Nat
    BY RateLimitAssumption DEF RateInv, RateTypeOK
  <2>2. CASE k \in opened
    BY <2>1, <2>2 DEF RateInv, Paid
  <2>3. CASE k \notin opened
    BY <2>1, <2>3 DEF RateInv, Unopened
  <2>. QED  BY <2>2, <2>3
<1>. QED  BY <1>1, RateInvariant, PTL

\* consume and dispatch: who waits for Retry-After, and the thousandth of a
\* second its rounding may fall short of, is let through.
THEOREM RetryAfterTheorem == RateSpec => []RetryAfterSuffices
<1>1. RateInv => RetryAfterSuffices
  BY DEF RateInv
<1>. QED  BY <1>1, RateInvariant, PTL

=============================================================================
