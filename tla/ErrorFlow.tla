----------------------------- MODULE ErrorFlow -----------------------------
(***************************************************************************)
(* An error on its way up: made by a constructor of the error package or   *)
(* by a library, wrapped by constructors, by fmt.Errorf's %w and by        *)
(* WrapError in any order, and written to the log by logger.LogError or by *)
(* one of the calls of cmd/block_poster.                                   *)
(***************************************************************************)
EXTENDS RetryPolicy

CONSTANT MaxChain    \* bound on the length of an Unwrap chain

VARIABLES
    err,    \* the error in hand, as its Unwrap chain
    line    \* what the last report wrote to the log: who made it, its level

vars == <<err, line>>

\* In the place of an error once a call has panicked: the program is gone.
Panic == <<>>

\* The constructor without a parameter for an underlying error.
Causeless == {"DocumentNotFound"}

\* The calls whose errors main reports, and the level it chooses for each.
Sites ==
    [NewEthereumClient     |-> "FATAL",
     NewBlockHandler       |-> "FATAL",
     GetLatestBlock        |-> "ERROR",
     GetNetworkID          |-> "WARN",
     CreateBlock           |-> "ERROR",
     CreateTransaction     |-> "ERROR",
     GetTransactionReceipt |-> "WARN",
     CreateAccessListEntry |-> "ERROR",
     CreateLog             |-> "ERROR"]

SiteErrors(site) ==
    CASE site = "NewEthereumClient" -> {<<"RPCConnectionFailed", "standard">>}
      [] site = "NewBlockHandler" -> {<<"ConfigurationError">>}
      [] site \in {"GetLatestBlock", "GetNetworkID",
                   "GetTransactionReceipt"} ->
            {<<"standard">>, <<"standard", "standard">>}
      [] site = "CreateBlock" -> CreateBlockErrors \ {<<"InvalidBlockFormat">>}
      [] OTHER -> {e \in CreateBlockErrors : e[1] = "QueryFailed"}

-----------------------------------------------------------------------------
(* pkg/errors                                                              *)

\* A constructor called with the error in hand.
Constructed(c, e) == IF c \in Causeless THEN <<c>> ELSE <<c>> \o e

\* Faulty variant: a type assertion in the place of errors.As.
WrapErrorByAssertion(e) == IF e[1] \in IndexerErrorNames THEN e ELSE Panic

\* What lies above the outermost IndexerError is dropped.  For any other error
\* the code means to make a WRAPPED_ERROR, but hands newBaseError a nil
\* ContextOption, which newBaseError calls.
WrapError(e) ==
    IF IsIndexerError(e)
    THEN LET n == CHOOSE n \in Indexed(e) : \A m \in Indexed(e) : n <= m
         IN  SubSeq(e, n, Len(e))
    ELSE Panic

GetErrorCode(e) ==
    IF IsIndexerError(e) THEN WrapError(e)[1] ELSE "UNKNOWN"

-----------------------------------------------------------------------------
(* pkg/logger                                                              *)

LevelOf(severity) ==
    [Critical |-> "ERROR", Error |-> "ERROR", Warning |-> "WARN",
     Info |-> "INFO"][severity]

\* Faulty variant: an error that is no IndexerError is only warned of.
LogErrorLevelWarns(e) ==
    IF e[1] \in IndexerErrorNames THEN LevelOf(Constructors[e[1]].severity)
    ELSE "WARN"

\* A type assertion: an IndexerError below another error is not seen here.
LogErrorLevel(e) ==
    IF e[1] \in IndexerErrorNames THEN LevelOf(Constructors[e[1]].severity)
    ELSE "ERROR"

-----------------------------------------------------------------------------
Init == /\ err \in {<<"standard">>} \cup {<<c>> : c \in IndexerErrorNames}
        /\ line = <<>>

\* A constructor, handed the error as its underlying one if it takes one.
Construct(c) == /\ err # Panic /\ Len(err) < MaxChain
                /\ err' = Constructed(c, err)
                /\ line' = <<>>

\* Faulty variant: fmt.Errorf with %v, which keeps the text only.
ErrorfOfText == /\ err # Panic /\ Len(err) < MaxChain
                /\ err' = <<"standard">>
                /\ line' = <<>>

\* fmt.Errorf with %w.
Errorf == /\ err # Panic /\ Len(err) < MaxChain
          /\ err' = <<"standard">> \o err
          /\ line' = <<>>

Wrap == /\ err # Panic
        /\ err' = WrapError(err)
        /\ line' = <<>>

LogError == /\ err # Panic
            /\ line' = <<"LogError", LogErrorLevel(err)>>
            /\ UNCHANGED err

\* One of main's own log calls.
Report(site) == /\ err \in SiteErrors(site)
                /\ line' = <<site, Sites[site]>>
                /\ UNCHANGED err

Next == \/ \E c \in IndexerErrorNames : Construct(c)
        \/ Errorf
        \/ Wrap
        \/ LogError
        \/ \E site \in DOMAIN Sites : Report(site)

Spec == Init /\ [][Next]_vars

-----------------------------------------------------------------------------
(* Properties.                                                             *)

\* What a caller decides by: whether and how to retry, whether to stop, the
\* class and the code.
Verdict(e) == <<GetErrorCode(e), IsRetryable(e), IsRetryableWithBackoff(e),
                IsCritical(e), IsNetworkError(e), IsDataError(e),
                IsStorageError(e)>>

\* Where there is an IndexerError, however deep under standard errors,
\* WrapError returns one and changes no decision: a retryable failure does not
\* become a permanent one by being wrapped again.  It panics for every other
\* error and for no other reason.
WrapErrorKeepsVerdict ==
    [][Wrap => IF IsIndexerError(err)
               THEN /\ err' # Panic
                    /\ err'[1] \in IndexerErrorNames
                    /\ Verdict(err') = Verdict(err)
               ELSE err' = Panic]_vars

\* What WrapError's comment says of it: a standard error is wrapped.
WrapErrorWraps == err # Panic

\* A layer that wraps may change what is retried, as CreateBlock does, but
\* never hides that data were bad or that the network or the store failed:
\* createBlockWithRetry gives up on bad data wherever they were found.  Only
\* NewDocumentNotFound, which is handed no error, starts anew.
ClassesStick ==
    [][err' # <<"DocumentNotFound">> =>
         /\ IsDataError(err) => IsDataError(err')
         /\ IsNetworkError(err) => IsNetworkError(err')
         /\ IsStorageError(err) => IsStorageError(err')]_vars

\* errorfile.log takes lines of ERROR and above.  Whatever an error is wrapped
\* in, LogError writes it there, unless it is itself a warning; and what main
\* only warns of is never an error of the indexer's own: what the store or the
\* handler reports always reaches the file.
ErrorsReachTheErrorFile ==
    line # <<>> /\ line[2] \notin {"ERROR", "FATAL"} =>
        IF line[1] = "LogError"
        THEN /\ err[1] \in IndexerErrorNames
             /\ Constructors[err[1]].severity \in {"Warning", "Info"}
        ELSE ~ IsIndexerError(err)
=============================================================================
