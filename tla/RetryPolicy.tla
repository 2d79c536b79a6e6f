---------------------------- MODULE RetryPolicy ----------------------------
(***************************************************************************)
(* What createBlockWithRetry does with the error of one CreateBlock call.  *)
(***************************************************************************)
EXTENDS IndexerErrors

TotalRetryAttempts == 3

\* Faulty variants: one retry too many, one too few, and a log call mistaken
\* for another in the last branch.
RetryDecisionOnceMore(err, attempts) ==
    IF IsRetryable(err) /\ attempts <= TotalRetryAttempts THEN "retry"
    ELSE IF IsDataError(err) \/ attempts >= TotalRetryAttempts THEN "skip"
    ELSE IF IsCritical(err) THEN "fatal"
    ELSE "skip"

RetryDecisionOnceLess(err, attempts) ==
    IF IsRetryable(err) /\ attempts < TotalRetryAttempts - 1 THEN "retry"
    ELSE IF IsDataError(err) \/ attempts >= TotalRetryAttempts THEN "skip"
    ELSE IF IsCritical(err) THEN "fatal"
    ELSE "skip"

RetryDecisionUnknownFatal(err, attempts) ==
    IF IsRetryable(err) /\ attempts < TotalRetryAttempts THEN "retry"
    ELSE IF IsDataError(err) \/ attempts >= TotalRetryAttempts THEN "skip"
    ELSE "fatal"

RetryDecision(err, attempts) ==
    IF IsRetryable(err) /\ attempts < TotalRetryAttempts THEN "retry"
    ELSE IF IsDataError(err) \/ attempts >= TotalRetryAttempts THEN "skip"
    ELSE IF IsCritical(err) THEN "fatal"
    ELSE "skip"

\* CreateBlock wraps every failure of PostToCollection in a QueryFailed,
\* whether DefraDB refused the block or could not be reached.
CreateBlockFailed == <<"QueryFailed", "QueryFailed">>

\* What CreateBlock returns today: a nil block, a bad number, and the failures
\* of PostToCollection on its own, of the JSON it reads, of the transport.
CreateBlockErrors ==
    {<<"InvalidBlockFormat">>,
     <<"InvalidHex">>, <<"InvalidHex", "standard">>,
     <<"QueryFailed", "QueryFailed">>,
     <<"QueryFailed", "QueryFailed", "standard">>,
     <<"QueryFailed", "QueryFailed", "QueryFailed", "standard">>}
=============================================================================
