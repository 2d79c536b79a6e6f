-------------------------- MODULE CreateBlockRetry --------------------------
(***************************************************************************)
(* createBlockWithRetry on its own, for every error CreateBlock could      *)
(* return: how often it posts, how long it sleeps, how it ends.            *)
(***************************************************************************)
EXTENDS RetryPolicy

CONSTANT Errors    \* the errors CreateBlock may return, as Unwrap chains

VARIABLES
    at,         \* "post", "sleep", or how the call ended
    attempts,   \* blockRetryAttempts
    last,       \* the error of the last CreateBlock, <<>> before the first
    posts,      \* CreateBlock calls made (history)
    slept       \* seconds slept so far (history)

vars == <<at, attempts, last, posts, slept>>

Ends == {"stored", "skip", "fatal"}

Init == /\ at = "post"
        /\ attempts = 0
        /\ last = <<>>
        /\ posts = 0
        /\ slept = 0

Succeeds == /\ at = "post"
            /\ at' = "stored"
            /\ posts' = posts + 1
            /\ UNCHANGED <<attempts, last, slept>>

Fails(err) ==
    /\ at = "post"
    /\ posts' = posts + 1
    /\ last' = err
    /\ at' = LET decision == RetryDecision(err, attempts)
             IN  IF decision = "retry" THEN "sleep" ELSE decision
    /\ UNCHANGED <<attempts, slept>>

Sleeps == /\ at = "sleep"
          /\ slept' = slept + GetRetryDelay(last, attempts)
          /\ attempts' = attempts + 1
          /\ at' = "post"
          /\ UNCHANGED <<last, posts>>

Next == Succeeds \/ Sleeps \/ \E err \in Errors : Fails(err)

Spec == Init /\ [][Next]_vars

-----------------------------------------------------------------------------
TypeOK ==
    /\ at \in Ends \cup {"post", "sleep"}
    /\ attempts \in 0..TotalRetryAttempts
    /\ last \in Errors \cup {<<>>}
    /\ posts \in 0..TotalRetryAttempts + 1
    /\ slept \in Nat

\* The waits double from one second: three retries of any mixture of errors
\* hold the main loop up for at least a second each and seven in all, so a
\* 13-second block time is not exceeded by the sleeping alone.
WaitsBounded == attempts <= slept /\ slept <= 2^attempts - 1

\* An error that allows no retry is never slept on: it ends the call at once.
\* One that allows it ends the call only when every retry is spent.
EndsForAReason ==
    /\ at = "sleep" => IsRetryable(last)
    /\ at \in {"skip", "fatal"} /\ IsRetryable(last) =>
          posts = TotalRetryAttempts + 1

\* The process is stopped only for a critical error that no retry can mend.
FatalOnlyIfCritical ==
    at = "fatal" => IsCritical(last) /\ ~ IsRetryable(last)

-----------------------------------------------------------------------------
(* A statement of the repository that the code does not live up to.        *)

\* pkg/defra/error_logging_test.go:135,198 simulates "the retry logic from
\* main.go" with maxRetries = 3 and expects "3 error entries (one per
\* attempt)"; so no block is posted more than three times.
ThreeAttempts == posts <= TotalRetryAttempts
=============================================================================
