--------------------------- MODULE IndexerErrors ---------------------------
(***************************************************************************)
(* The error package: the constructors' table and the predicates the main  *)
(* loop branches on.  An error is the sequence of its Unwrap chain,        *)
(* outermost first; "standard" is any error that is not an IndexerError.   *)
(***************************************************************************)
EXTENDS Integers, Sequences

ErrorKind(class, severity, retry) ==
    [class |-> class, severity |-> severity, retry |-> retry]

\* One entry per New... constructor.
Constructors ==
    [HTTPConnectionFailed |-> ErrorKind("Network", "Error", "Retryable"),
     RPCTimeout           |-> ErrorKind("Network", "Error", "Retryable"),
     RPCConnectionFailed  |-> ErrorKind("Network", "Error", "Retryable"),
     RateLimited          |->
        ErrorKind("Network", "Warning", "RetryableWithBackoff"),
     InvalidHex           |-> ErrorKind("Data", "Error", "NonRetryable"),
     InvalidBlockFormat   |-> ErrorKind("Data", "Error", "NonRetryable"),
     InvalidInputFormat   |-> ErrorKind("Data", "Error", "NonRetryable"),
     ParsingFailed        |-> ErrorKind("Data", "Error", "NonRetryable"),
     DBConnectionFailed   |-> ErrorKind("Storage", "Critical", "Retryable"),
     QueryFailed          |-> ErrorKind("Storage", "Error", "Retryable"),
     DocumentNotFound     |-> ErrorKind("Storage", "Warning", "NonRetryable"),
     ConfigurationError   |-> ErrorKind("System", "Critical", "NonRetryable"),
     ServiceUnavailable   |->
        ErrorKind("System", "Critical", "RetryableWithBackoff")]

IndexerErrorNames == DOMAIN Constructors

\* The members of the chain that implement IndexerError.
Indexed(err) == {n \in DOMAIN err : err[n] \in IndexerErrorNames}

\* errors.As(err, &indexerErr): the outermost of them.
Outermost(err) ==
    Constructors[err[CHOOSE n \in Indexed(err) :
                        \A m \in Indexed(err) : n <= m]]

IsIndexerError(err) == Indexed(err) # {}

IsRetryable(err) ==
    IsIndexerError(err) /\ Outermost(err).retry # "NonRetryable"

IsRetryableWithBackoff(err) ==
    IsIndexerError(err) /\ Outermost(err).retry = "RetryableWithBackoff"

IsCritical(err) ==
    IsIndexerError(err) /\ Outermost(err).severity = "Critical"

\* errors.As(err, &dataErr) and its like: any member of the chain.
HasClass(err, class) ==
    \E n \in Indexed(err) : Constructors[err[n]].class = class

IsNetworkError(err) == HasClass(err, "Network")
IsStorageError(err) == HasClass(err, "Storage")
IsDataError(err) == HasClass(err, "Data")

-----------------------------------------------------------------------------
(* GetRetryDelay, in seconds.                                              *)

\* The doubling loop: it stops once the delay has reached 30 seconds.
Doubled[n \in Nat] ==
    IF n = 0 THEN 1
    ELSE IF Doubled[n - 1] < 30 THEN 2 * Doubled[n - 1] ELSE Doubled[n - 1]

\* Faulty variant: the next attempt is counted instead of this one.
GetRetryDelayOfNext(err, attemptCount) ==
    IF ~ IsRetryable(err) THEN 0
    ELSE IF ~ IsRetryableWithBackoff(err) THEN 1
    ELSE IF Doubled[attemptCount + 1] > 30 THEN 30
    ELSE Doubled[attemptCount + 1]

GetRetryDelay(err, attemptCount) ==
    IF ~ IsRetryable(err) THEN 0
    ELSE IF ~ IsRetryableWithBackoff(err) THEN 1
    ELSE IF Doubled[attemptCount] > 30 THEN 30 ELSE Doubled[attemptCount]
=============================================================================
