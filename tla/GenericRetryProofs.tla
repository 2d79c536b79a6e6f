------------------------- MODULE GenericRetryProofs -------------------------
(***************************************************************************)
(* What RequestResourceWithRetries returns, and how often it performs the  *)
(* operation, for every configuration and every set of errors.             *)
(***************************************************************************)
EXTENDS GenericRetry, TLAPS

Running == {"loop", "sleep", "operation"}

Types ==
    /\ MaxRetries \in Int
    /\ at \in Running \cup Ends
    /\ retries \in Nat
    /\ outcomes \in Seq(Failures \cup {<<>>})
    /\ effects \in Nat
    /\ sleeps \in Nat

\* While the call runs every attempt so far has failed, the counter is the
\* number of attempts, and only the loop's head may see it beyond the bound.
Loops ==
    at \in Running =>
        /\ retries = Attempts
        /\ retries > 0 => retries <= MaxRetries + 1 /\ lastErr = outcomes[retries]
        /\ retries = 0 => lastErr = <<>>
        /\ at # "loop" => retries <= MaxRetries
        /\ \A n \in 1..Attempts : outcomes[n] \in Failures
        /\ effects <= Attempts
        /\ sleeps = IF at = "loop" /\ retries > 0 THEN retries - 1 ELSE retries

RetryInv == Types /\ Loops /\ ErrorAccountsForAttempts /\ EffectsBounded

LEMMA InitHolds == Init => RetryInv
<1> SUFFICES ASSUME Init PROVE RetryInv
  OBVIOUS
<1>0. MaxRetries \in Int
  <2>1. MaxRetries = 3 \/ MaxRetries \in MaxRetriesSet
    BY DEF Init, DefaultMaxRetries
  <2>2. ASSUME MaxRetries \in MaxRetriesSet PROVE MaxRetries \in Int
    <3>1. MaxRetriesSet \subseteq Int
      BY GenericRetryAssumption
    <3> QED
      BY <2>2, <3>1, Zenon
  <2> QED
    BY <2>1, <2>2
<1> USE DEF Init, Attempts
<1>1. Types
  <2>1. MaxRetries \in Int
    BY <1>0
  <2>2. outcomes \in Seq(Failures \cup {<<>>})
    OBVIOUS
  <2> QED
    BY <2>1, <2>2 DEF Types, Running
<1>2. Loops
  BY DEF Loops
<1>3. ErrorAccountsForAttempts /\ EffectsBounded
  BY DEF ErrorAccountsForAttempts, EffectsBounded
<1> QED
  BY <1>1, <1>2, <1>3 DEF RetryInv

\* What one more attempt appends.
LEMMA OneMoreAttempt ==
    ASSUME Types, NEW e \in Failures \cup {<<>>},
           outcomes' = Append(outcomes, e)
    PROVE  /\ outcomes' \in Seq(Failures \cup {<<>>})
           /\ Attempts' = Attempts + 1 /\ Attempts \in Nat
           /\ outcomes'[Attempts + 1] = e
           /\ \A n \in 1..Attempts : outcomes'[n] = outcomes[n]
BY DEF Types, Attempts

LEMMA InvInductive == RetryInv /\ [Next]_vars => RetryInv'
<1> SUFFICES ASSUME RetryInv, [Next]_vars PROVE RetryInv'
  OBVIOUS
<1> USE DEF RetryInv, Running, Ends
<1> Attempts \in Nat
  BY DEF Types, Attempts
<1>1. CASE Iterate
  <2>1. /\ UNCHANGED <<MaxRetries, retries, lastErr, outcomes, effects, err>>
        /\ at = "loop" /\ retries <= MaxRetries
        /\ at' = IF retries = 0 THEN "operation" ELSE "sleep"
        /\ sleeps' = IF retries = 0 THEN sleeps ELSE sleeps + 1
        /\ Attempts' = Attempts
    BY <1>1 DEF Iterate, MoreAttempts, config, Attempts
  <2>2. Types'
    BY <2>1 DEF Types
  <2>3. Loops'
    BY <2>1 DEF Loops, Types
  <2>4. ErrorAccountsForAttempts' /\ EffectsBounded'
    BY <2>1 DEF ErrorAccountsForAttempts, EffectsBounded, Loops, Types
  <2> QED
    BY <2>2, <2>3, <2>4
<1>2. CASE Wake
  <2>1. /\ UNCHANGED <<MaxRetries, retries, lastErr, outcomes, effects, sleeps,
                       err>>
        /\ at = "sleep" /\ at' = "operation" /\ Attempts' = Attempts
    BY <1>2 DEF Wake, config, Attempts
  <2>2. Types'
    BY <2>1 DEF Types
  <2>3. Loops'
    BY <2>1 DEF Loops, Types
  <2>4. ErrorAccountsForAttempts' /\ EffectsBounded'
    BY <2>1 DEF ErrorAccountsForAttempts, EffectsBounded, Loops, Types
  <2> QED
    BY <2>2, <2>3, <2>4
<1>3. CASE Succeeds
  <2>1. /\ UNCHANGED <<MaxRetries, retries, sleeps, err>>
        /\ at = "operation" /\ at' = "returned" /\ lastErr' = <<>>
        /\ effects' = effects + 1 /\ outcomes' = Append(outcomes, <<>>)
    BY <1>3 DEF Succeeds, config
  <2>2. /\ outcomes' \in Seq(Failures \cup {<<>>})
        /\ Attempts' = Attempts + 1
        /\ outcomes'[Attempts + 1] = <<>>
        /\ \A n \in 1..Attempts : outcomes'[n] = outcomes[n]
    BY <2>1, OneMoreAttempt
  <2>3. Types' /\ Loops'
    BY <2>1, <2>2 DEF Types, Loops
  <2>4. ErrorAccountsForAttempts'
    <3>1. Attempts' > 0 /\ Attempts' - 1 = Attempts
      BY <2>2
    <3>2. outcomes'[Attempts'] = <<>>
      BY <2>2
    <3>3. \A n \in 1..Attempts : outcomes'[n] \in Failures
      BY <2>1, <2>2 DEF Loops
    <3> QED
      BY <3>1, <3>2, <3>3 DEF ErrorAccountsForAttempts
  <2>5. EffectsBounded'
    BY <2>1, <2>2 DEF EffectsBounded, Loops, Types
  <2> QED
    BY <2>3, <2>4, <2>5
<1>4. ASSUME NEW e \in Failures, Fails(e)
      PROVE  RetryInv'
  <2>1. /\ UNCHANGED <<MaxRetries, sleeps, err>>
        /\ at = "operation" /\ lastErr' = e
        /\ \/ at' = "panic" /\ retries' = retries
           \/ at' = "loop" /\ retries' = retries + 1
        /\ effects' \in {effects, effects + 1}
        /\ outcomes' = Append(outcomes, e)
    BY <1>4 DEF Fails, config
  <2>2. /\ outcomes' \in Seq(Failures \cup {<<>>})
        /\ Attempts' = Attempts + 1
        /\ outcomes'[Attempts + 1] = e
        /\ \A n \in 1..Attempts : outcomes'[n] = outcomes[n]
    BY <2>1, OneMoreAttempt
  <2>3. Types'
    BY <2>1, <2>2 DEF Types
  <2>4. Loops'
    <3>1. \A n \in 1..Attempts' : outcomes'[n] \in Failures
      <4>1. \A n \in 1..Attempts : outcomes[n] \in Failures
        BY <2>1 DEF Loops
      <4>2. TAKE n \in 1..Attempts'
      <4>3. n \in 1..Attempts \/ n = Attempts + 1
        BY <4>2, <2>2
      <4> QED
        BY <4>1, <4>3, <2>2
    <3>2. /\ effects' <= Attempts'
          /\ retries = Attempts /\ retries <= MaxRetries
          /\ sleeps = retries
      BY <2>1, <2>2 DEF Loops, Types
    <3>3. lastErr' = outcomes'[Attempts']
      BY <2>1, <2>2
    <3>4. CASE at' = "panic"
      BY <3>4 DEF Loops
    <3>5. CASE at' = "loop" /\ retries' = retries + 1
      <4>1. retries' = Attempts' /\ retries' > 0 /\ retries' <= MaxRetries' + 1
        BY <2>1, <2>2, <3>2, <3>5 DEF Types
      <4>2. sleeps' = retries' - 1
        BY <2>1, <3>2, <3>5 DEF Types
      <4>3. lastErr' = outcomes'[retries']
        BY <3>3, <4>1
      <4>4. retries' # 0
        BY <4>1, <2>3 DEF Types
      <4> QED
        BY <3>1, <3>2, <3>5, <4>1, <4>2, <4>3, <4>4 DEF Loops
    <3> QED
      BY <2>1, <3>4, <3>5
  <2>5. ErrorAccountsForAttempts'
    BY <2>1 DEF ErrorAccountsForAttempts
  <2>6. EffectsBounded'
    BY <2>1, <2>2 DEF EffectsBounded, Loops, Types
  <2> QED
    BY <2>3, <2>4, <2>5, <2>6
<1>5. CASE GivesUp
  <2>1. /\ UNCHANGED <<MaxRetries, retries, lastErr, outcomes, effects, sleeps>>
        /\ at = "loop" /\ ~ (retries <= MaxRetries) /\ at' = "returned"
        /\ err' = [attempts |-> MaxRetries + 1, wraps |-> lastErr]
        /\ Attempts' = Attempts
    BY <1>5 DEF GivesUp, MoreAttempts, config, Attempts
  <2>2. Types' /\ Loops'
    BY <2>1 DEF Types, Loops
  <2>3. MaxRetries >= -1 => Attempts = MaxRetries + 1
    BY <2>1 DEF Loops, Types
  <2>4. ErrorAccountsForAttempts'
    BY <2>1, <2>3 DEF ErrorAccountsForAttempts, Loops, Types
  <2>5. EffectsBounded'
    BY <2>1 DEF EffectsBounded, Loops, Types
  <2> QED
    BY <2>2, <2>4, <2>5
<1>6. CASE UNCHANGED vars
  BY <1>6 DEF vars, config, Types, Loops, ErrorAccountsForAttempts,
              EffectsBounded, Attempts
<1> QED
  BY <1>1, <1>2, <1>3, <1>4, <1>5, <1>6 DEF Next

\* Everything known of the call, at every step of it.
THEOREM RetryInvariant == Spec => []RetryInv
BY InitHolds, InvInductive, PTL DEF Spec

\* The error returned is the last attempt's, with the right count.
THEOREM ErrorAccounts == Spec => []ErrorAccountsForAttempts
<1>1. RetryInv => ErrorAccountsForAttempts
  BY DEF RetryInv
<1> QED
  BY <1>1, RetryInvariant, PTL

\* No operation is performed more than MaxRetries + 1 times.
THEOREM EffectsAreBounded == Spec => []EffectsBounded
<1>1. RetryInv => EffectsBounded
  BY DEF RetryInv
<1> QED
  BY <1>1, RetryInvariant, PTL
=============================================================================
