---------------------------- MODULE GenericRetry ----------------------------
(***************************************************************************)
(* utils.RequestResourceWithRetries, the retry helper nothing calls yet:   *)
(* one call, with the configuration of the caller or the default one.      *)
(*                                                                         *)
(* The operation may have its effect and still report a failure.  A        *)
(* context cancelled while the call runs changes nothing: it is not read.  *)
(***************************************************************************)
EXTENDS IndexerErrors

CONSTANTS MaxRetriesSet,   \* values a caller gives RetryConfig.MaxRetries
          Failures         \* the errors the operation may return

ASSUME GenericRetryAssumption ==
    /\ MaxRetriesSet \subseteq Int
    /\ <<>> \notin Failures

VARIABLES
    MaxRetries,  \* config.MaxRetries
    Logger,      \* config.Logger: "nil" or "set"
    at,          \* "loop", "sleep", "operation", or how the call ended
    retries,     \* the loop counter
    lastErr,     \* <<>> for nil
    outcomes,    \* what the operation returned, in order (history)
    effects,     \* how often it had its effect (history)
    sleeps,      \* sleeps begun (history)
    err          \* the error returned: its attempt count and what it wraps

config == <<MaxRetries, Logger>>
vars == <<config, at, retries, lastErr, outcomes, effects, sleeps, err>>

Ends == {"returned", "panic"}
NoError == [attempts |-> 0, wraps |-> <<>>]

DefaultMaxRetries == 3

Init == /\ \/ MaxRetries = DefaultMaxRetries
           \/ MaxRetries \in MaxRetriesSet
        /\ Logger \in {"nil", "set"}
        /\ at = "loop"
        /\ retries = 0
        /\ lastErr = <<>>
        /\ outcomes = <<>>
        /\ effects = 0
        /\ sleeps = 0
        /\ err = NoError

\* Faulty variant: one iteration too many.
MoreAttemptsOneMore == retries <= MaxRetries + 1

MoreAttempts == retries <= MaxRetries

\* The head of the loop; from the second time on it logs, through a logger
\* that has already logged the failure, and sleeps.
Iterate ==
    /\ at = "loop"
    /\ MoreAttempts
    /\ IF retries = 0 THEN at' = "operation" /\ UNCHANGED sleeps
       ELSE at' = "sleep" /\ sleeps' = sleeps + 1
    /\ UNCHANGED <<config, retries, lastErr, outcomes, effects, err>>

Wake == /\ at = "sleep"
        /\ at' = "operation"
        /\ UNCHANGED <<config, retries, lastErr, outcomes, effects, sleeps,
                       err>>

\* A success that is not the first attempt is logged.
Succeeds ==
    /\ at = "operation"
    /\ lastErr' = <<>>
    /\ outcomes' = Append(outcomes, <<>>)
    /\ effects' = effects + 1
    /\ at' = "returned"
    /\ UNCHANGED <<config, retries, sleeps, err>>

\* Faulty variant: an error that asks for no retry ends the loop.
FailsForGood(e) ==
    /\ at = "operation"
    /\ lastErr' = e
    /\ outcomes' = Append(outcomes, e)
    /\ effects' \in {effects, effects + 1}
    /\ at' = IF Logger = "nil" THEN "panic" ELSE "loop"
    /\ retries' = IF IsRetryable(e) THEN retries + 1 ELSE MaxRetries + 1
    /\ UNCHANGED <<config, sleeps, err>>

\* The failure is logged, whatever it is, and a nil logger panics.
Fails(e) ==
    /\ at = "operation"
    /\ lastErr' = e
    /\ outcomes' = Append(outcomes, e)
    /\ effects' \in {effects, effects + 1}
    /\ IF Logger = "nil"
       THEN at' = "panic" /\ UNCHANGED retries
       ELSE at' = "loop" /\ retries' = retries + 1
    /\ UNCHANGED <<config, sleeps, err>>

\* Faulty variant: only if there is an error to wrap.
GivesUpOnError ==
    /\ at = "loop"
    /\ ~ MoreAttempts
    /\ lastErr # <<>>
    /\ at' = "returned"
    /\ err' = [attempts |-> MaxRetries + 1, wraps |-> lastErr]
    /\ UNCHANGED <<config, retries, lastErr, outcomes, effects, sleeps>>

\* "failed ... after %d attempts: %w"
GivesUp ==
    /\ at = "loop"
    /\ ~ MoreAttempts
    /\ at' = "returned"
    /\ err' = [attempts |-> MaxRetries + 1, wraps |-> lastErr]
    /\ UNCHANGED <<config, retries, lastErr, outcomes, effects, sleeps>>

Next == \/ Iterate \/ Wake \/ Succeeds
        \/ \E e \in Failures : Fails(e)
        \/ GivesUp

Spec == Init /\ [][Next]_vars

\* The operation returns and the sleep ends.
FairSpec == Spec /\ WF_vars(Next)

-----------------------------------------------------------------------------
(* Properties.                                                             *)

Attempts == Len(outcomes)

\* The error the call returns says how many attempts were made and wraps what
\* the last of them returned; an error comes back only if every attempt
\* failed, and none only if the last one succeeded.  With a negative
\* MaxRetries, down to -1, the count is still right: no attempt at all.
ErrorAccountsForAttempts ==
    at = "returned" /\ MaxRetries >= -1 =>
        \/ /\ err = [attempts |-> Attempts, wraps |-> lastErr]
           /\ Attempts > 0 => lastErr = outcomes[Attempts]
           /\ \A n \in 1..Attempts : outcomes[n] \in Failures
        \/ /\ Attempts > 0 /\ outcomes[Attempts] = <<>>
           /\ \A n \in 1..Attempts - 1 : outcomes[n] \in Failures

\* An operation that fails after its effect is performed again, but never
\* more often than MaxRetries + 1 times, with a sleep before each repetition.
EffectsBounded ==
    /\ Attempts >= 1 => effects <= MaxRetries + 1
    /\ at = "operation" => sleeps = Attempts
    /\ Attempts > 0 => sleeps \in {Attempts - 1, Attempts}

\* Whatever the configuration, the call ends.
CallEnds == <>(at \in Ends)
=============================================================================
