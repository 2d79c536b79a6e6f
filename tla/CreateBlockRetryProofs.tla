----------------------- MODULE CreateBlockRetryProofs -----------------------
(***************************************************************************)
(* How createBlockWithRetry ends and how long it sleeps, for every set of  *)
(* errors.                                                                 *)
(***************************************************************************)
EXTENDS CreateBlockRetry, TLAPS

\* The posts made are those the attempt counter stands for: the counter is
\* raised after the sleep, so it lags by one until the next post.
Counted ==
    /\ attempts \in 0..TotalRetryAttempts
    /\ at \in Ends \cup {"post", "sleep"}
    /\ at = "post" => posts = attempts
    /\ at # "post" => posts = attempts + 1
    /\ at = "sleep" => attempts < TotalRetryAttempts

\* What the two questions need of the last error.
RetryInv == Counted /\ EndsForAReason /\ FatalOnlyIfCritical

\* The three answers RetryDecision gives, and when.
LEMMA Decisions ==
    ASSUME NEW err, NEW n \in 0..TotalRetryAttempts
    PROVE  /\ RetryDecision(err, n) \in {"retry", "skip", "fatal"}
           /\ RetryDecision(err, n) = "retry"
                 => n < TotalRetryAttempts /\ IsRetryable(err)
           /\ RetryDecision(err, n) # "retry" /\ IsRetryable(err)
                 => n = TotalRetryAttempts
           /\ RetryDecision(err, n) = "fatal"
                 => IsCritical(err) /\ ~ IsRetryable(err)
BY DEF RetryDecision, TotalRetryAttempts

LEMMA RetryInvInit == Init => RetryInv
BY DEF Init, RetryInv, Counted, EndsForAReason, FatalOnlyIfCritical, Ends,
       TotalRetryAttempts

LEMMA RetryInvInductive == RetryInv /\ [Next]_vars => RetryInv'
<1> SUFFICES ASSUME RetryInv, [Next]_vars PROVE RetryInv'
  OBVIOUS
<1> USE DEF RetryInv, Counted, EndsForAReason, FatalOnlyIfCritical, Ends
<1>1. CASE Succeeds
  BY <1>1 DEF Succeeds
<1>2. CASE Sleeps
  BY <1>2 DEF Sleeps, TotalRetryAttempts
<1>3. ASSUME NEW err \in Errors, Fails(err)
      PROVE  RetryInv'
  <2>1. /\ at = "post" /\ posts' = attempts + 1 /\ last' = err
        /\ attempts' = attempts
        /\ at' = IF RetryDecision(err, attempts) = "retry" THEN "sleep"
                 ELSE RetryDecision(err, attempts)
    BY <1>3 DEF Fails
  <2>2. Counted'
    BY <2>1, Decisions
  <2>3. EndsForAReason'
    BY <2>1, Decisions
  <2>4. FatalOnlyIfCritical'
    BY <2>1, Decisions
  <2> QED
    BY <2>2, <2>3, <2>4
<1>4. CASE UNCHANGED vars
  BY <1>4 DEF vars
<1> QED
  BY <1>1, <1>2, <1>3, <1>4 DEF Next

\* The counter, the posts and the way the call ends, at every step.
THEOREM RetryInvariant == Spec => []RetryInv
BY RetryInvInit, RetryInvInductive, PTL DEF Spec

\* An error that allows no retry ends the call at once, one that does only when
\* every retry is spent.
THEOREM EndsOnlyForAReason == Spec => []EndsForAReason
<1>1. RetryInv => EndsForAReason
  BY DEF RetryInv
<1> QED
  BY <1>1, RetryInvariant, PTL

\* The process stops only for a critical error that no retry can mend.
THEOREM FatalIsCritical == Spec => []FatalOnlyIfCritical
<1>1. RetryInv => FatalOnlyIfCritical
  BY DEF RetryInv
<1> QED
  BY <1>1, RetryInvariant, PTL

-----------------------------------------------------------------------------
(* The time slept.                                                         *)

\* The doubling loop ends: its delays are defined for every attempt.  The
\* delay stops at 32, so that five values and a constant are a solution of
\* the equation Doubled is defined by.
LEMMA DoubledDef ==
    Doubled = [n \in Nat |->
                IF n = 0 THEN 1
                ELSE IF Doubled[n - 1] < 30 THEN 2 * Doubled[n - 1]
                     ELSE Doubled[n - 1]]
<1> DEFINE D(f) == [n \in Nat |->
                      IF n = 0 THEN 1
                      ELSE IF f[n - 1] < 30 THEN 2 * f[n - 1] ELSE f[n - 1]]
           g == [n \in Nat |-> IF n = 0 THEN 1 ELSE IF n = 1 THEN 2
                               ELSE IF n = 2 THEN 4 ELSE IF n = 3 THEN 8
                               ELSE IF n = 4 THEN 16 ELSE 32]
<1>1. g = D(g)
  <2>1. ASSUME NEW n \in Nat
        PROVE  g[n] = D(g)[n]
    <3>1. CASE n = 0
      BY <3>1
    <3>2. CASE n # 0
      <4>1. n - 1 \in Nat
        BY <3>2
      <4> QED
        BY <3>2, <4>1
    <3> QED
      BY <3>1, <3>2
  <2> QED
    BY <2>1
<1>2. \E f : f = D(f)
  BY <1>1, Zenon
<1> QED
  BY <1>2, Zenon DEF Doubled

\* The delay doubles, as far as the three retries reach.
LEMMA DoubledValues == Doubled[0] = 1 /\ Doubled[1] = 2 /\ Doubled[2] = 4
<1>1. ASSUME NEW n \in Nat
      PROVE  Doubled[n] = IF n = 0 THEN 1
                          ELSE IF Doubled[n - 1] < 30 THEN 2 * Doubled[n - 1]
                               ELSE Doubled[n - 1]
  BY DoubledDef, Zenon
<1>2. Doubled[0] = 1
  BY <1>1
<1>3. Doubled[1] = 2
  BY <1>1, <1>2
<1>4. Doubled[2] = 4
  BY <1>1, <1>3
<1> QED
  BY <1>2, <1>3, <1>4

\* A retry is always preceded by a wait, of at most 2^n seconds.
LEMMA DelayBounds ==
    ASSUME NEW err, NEW n \in 0..TotalRetryAttempts - 1, IsRetryable(err)
    PROVE  /\ GetRetryDelay(err, n) \in Nat
           /\ 1 <= GetRetryDelay(err, n)
           /\ GetRetryDelay(err, n) <= 2^n
<1>1. n \in {0, 1, 2}
  BY DEF TotalRetryAttempts
<1>2. /\ Doubled[n] = 2^n
      /\ n = 0 => 2^n = 1
      /\ n = 1 => 2^n = 2
      /\ n = 2 => 2^n = 4
  <2>1. n = 0 => Doubled[n] = 2^n /\ 2^n = 1
    BY DoubledValues
  <2>2. n = 1 => Doubled[n] = 2^n /\ 2^n = 2
    BY DoubledValues
  <2>3. n = 2 => Doubled[n] = 2^n /\ 2^n = 4
    BY DoubledValues
  <2> QED
    BY <1>1, <2>1, <2>2, <2>3
<1> QED
  BY <1>1, <1>2 DEF GetRetryDelay

\* The call sleeps only for an error that may be retried, and what it has
\* slept is bounded by the attempts counted so far.
Waits ==
    /\ slept \in Nat
    /\ last \in Errors \cup {<<>>}
    /\ at = "sleep" => IsRetryable(last)
    /\ WaitsBounded

\* Only retryable errors are retried.
LEMMA RetryDecided ==
    ASSUME NEW err, NEW n, RetryDecision(err, n) = "retry"
    PROVE  IsRetryable(err)
BY DEF RetryDecision

LEMMA WaitsInductive == RetryInv /\ Waits /\ [Next]_vars => Waits'
<1> SUFFICES ASSUME RetryInv, Waits, [Next]_vars PROVE Waits'
  OBVIOUS
<1>0. Counted
  BY DEF RetryInv
<1>1. CASE Succeeds
  BY <1>1 DEF Succeeds, Waits, WaitsBounded
<1>2. CASE Sleeps
  <2> DEFINE d == GetRetryDelay(last, attempts)
  <2>1. attempts \in 0..TotalRetryAttempts - 1 /\ IsRetryable(last)
    BY <1>0, <1>2 DEF Counted, Waits, Sleeps, TotalRetryAttempts
  <2>2. d \in Nat /\ 1 <= d /\ d <= 2^attempts
    BY <2>1, DelayBounds
  <2>3. 2^attempts + 2^attempts = 2^(attempts + 1) /\ 2^attempts \in Nat
    <3>1. attempts \in {0, 1, 2}
      BY <2>1 DEF TotalRetryAttempts
    <3>2. attempts = 0 => 2^attempts = 1 /\ 2^(attempts + 1) = 2
      OBVIOUS
    <3>3. attempts = 1 => 2^attempts = 2 /\ 2^(attempts + 1) = 4
      OBVIOUS
    <3>4. attempts = 2 => 2^attempts = 4 /\ 2^(attempts + 1) = 8
      OBVIOUS
    <3> QED
      BY <3>1, <3>2, <3>3, <3>4
  <2> HIDE DEF d
  <2>4. /\ slept' = slept + d /\ attempts' = attempts + 1
        /\ at' = "post" /\ last' = last
    BY <1>2 DEF Sleeps, d
  <2>5. slept \in Nat /\ attempts <= slept /\ slept <= 2^attempts - 1
    BY DEF Waits, WaitsBounded
  <2>6. WaitsBounded'
    <3>1. attempts \in Nat
      BY <2>1 DEF TotalRetryAttempts
    <3>2. attempts + 1 <= slept + d
      BY <2>2, <2>5, <3>1
    <3>3. slept + d <= 2^(attempts + 1) - 1
      BY <2>2, <2>3, <2>5
    <3> QED
      BY <2>4, <3>2, <3>3 DEF WaitsBounded
  <2>7. slept' \in Nat
    BY <2>2, <2>4, <2>5
  <2> QED
    BY <2>4, <2>6, <2>7 DEF Waits
<1>3. ASSUME NEW err \in Errors, Fails(err)
      PROVE  Waits'
  <2>1. /\ last' = err /\ attempts' = attempts /\ slept' = slept
        /\ at' = IF RetryDecision(err, attempts) = "retry" THEN "sleep"
                 ELSE RetryDecision(err, attempts)
    BY <1>3 DEF Fails
  <2>2. RetryDecision(err, attempts) \in {"retry", "skip", "fatal"}
    BY <1>0, Decisions DEF Counted
  <2>3. at' = "sleep" => IsRetryable(last')
    BY <2>1, <2>2, RetryDecided
  <2> QED
    BY <2>1, <2>3 DEF Waits, WaitsBounded
<1>4. CASE UNCHANGED vars
  BY <1>4 DEF vars, Waits, WaitsBounded
<1> QED
  BY <1>1, <1>2, <1>3, <1>4 DEF Next

LEMMA WaitsInit == Init => Waits
<1>1. 2^0 = 1
  OBVIOUS
<1> QED
  BY <1>1 DEF Init, Waits, WaitsBounded

\* What has been slept so far is bounded by the attempts counted so far.
THEOREM WaitsInvariant == Spec => [](RetryInv /\ Waits)
<1>1. Init => RetryInv /\ Waits
  BY RetryInvInit, WaitsInit
<1>2. (RetryInv /\ Waits) /\ [Next]_vars => (RetryInv /\ Waits)'
  BY RetryInvInductive, WaitsInductive
<1> QED
  BY <1>1, <1>2, PTL DEF Spec

\* Whatever errors come in whatever order, each retry is preceded by a second
\* of waiting at least, and three retries by seven seconds at most.
THEOREM WaitsAlwaysBounded == Spec => []WaitsBounded
<1>1. Waits => WaitsBounded
  BY DEF Waits
<1> QED
  BY <1>1, WaitsInvariant, PTL

\* No more posts, sleeps or attempts than the call is meant to make.
THEOREM TypeAlways == Spec => []TypeOK
<1>1. RetryInv /\ Waits => TypeOK
  BY DEF RetryInv, Counted, Waits, TypeOK, Ends, TotalRetryAttempts
<1> QED
  BY <1>1, WaitsInvariant, PTL
=============================================================================
