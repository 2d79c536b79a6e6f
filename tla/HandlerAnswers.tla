--------------------------- MODULE HandlerAnswers ---------------------------
(***************************************************************************)
(* One call of the block handler and the answer DefraDB gives it: the      *)
(* checks before anything is sent, SendToGraphql, what the server does     *)
(* with the request, and how the handler reads the body that comes back.   *)
(* The status code of the answer is never looked at, and an answer may     *)
(* have been replaced or cut on its way, so that the body and what was     *)
(* done need not agree.  A document's id, when there is one, is not empty. *)
(*                                                                         *)
(* Errors are Unwrap chains, as in IndexerErrors; <<>> is nil.             *)
(***************************************************************************)
EXTENDS RetryPolicy

CONSTANT Heights    \* the block numbers a store may hold, all positive

VARIABLES
    op,         \* the function called
    input,      \* its arguments: in order, or what is wrong with them
    stored,     \* the numbers of the blocks in the store
    at,         \* "check", "sent", "answered", "done"
    performed,  \* the store has performed the mutation
    body,       \* the answer, by what json.Unmarshal makes of it
    id,         \* the results: the document id or the number, and the error
    err

vars == <<op, input, stored, at, performed, body, id, err>>

Creates == {"CreateBlock", "CreateTransaction", "CreateAccessListEntry",
            "CreateLog"}
Updates == {"UpdateTransactionRelationships", "UpdateLogRelationships",
            "UpdateEventRelationships"}
Mutations == Creates \cup Updates
Operations == Mutations \cup {"GetHighestBlockNumber"}

-----------------------------------------------------------------------------
(* Checks of the arguments.                                                *)

BadInputs ==
    [CreateBlock |-> {"nil", "number"},
     CreateTransaction |-> {"nil", "number"},
     CreateAccessListEntry |-> {"nil", "tx_Id"},
     CreateLog |-> {"nil", "number", "block_id", "tx_Id"},
     UpdateTransactionRelationships |-> {"blockId", "txHash"},
     UpdateLogRelationships |-> {"blockId", "txId", "txHash", "logIndex"},
     UpdateEventRelationships |-> {"logDocId", "txHash", "logIndex"},
     GetHighestBlockNumber |-> {}]

\* HexToInt of an empty string, and of one that is no number.
HexErrors == {<<"InvalidHex">>, <<"InvalidHex", "standard">>}

\* The call does not return.
Panic == <<"panic">>

\* CreateLog reads log.BlockNumber before it compares log with nil.
Rejections ==
    CASE op = "CreateBlock" /\ input = "nil" -> {<<"InvalidBlockFormat">>}
      [] op = "CreateLog" /\ input = "nil" -> {Panic}
      [] op = "CreateBlock" /\ input = "number" -> HexErrors
      [] op # "CreateBlock" /\ input = "number" ->
            {<<"ParsingFailed">> \o e : e \in HexErrors}
      [] OTHER -> {<<"InvalidInputFormat">>}

-----------------------------------------------------------------------------
(* DefraDB and what lies between.                                          *)

\* The schema has no Event any more.
TypeInSchema == op # "UpdateEventRelationships"

\* No answer in time, a body that is no JSON object, or one without an id.
Broken == {"none", "garbage", "noDocID"}
Done == {"list", "object"}
Refused == {"noData", "noField", "null", "emptyList"}

\* The highest block comes first; its number in each form the code expects,
\* and in two it does not.
Numbers == {"int", "decimal", "0x"}
NotNumbers == {"0xbad", "text", "null"}

\* What SendToGraphql is given.
Ascending == "ASC"
Order == "DESC"

FirstOf(S) == IF Order = "DESC" THEN CHOOSE n \in S : \A m \in S : m <= n
              ELSE CHOOSE n \in S : \A m \in S : n <= m

ServeMutation ==
    /\ op \in Mutations
    /\ \/ TypeInSchema /\ performed' = TRUE /\ body' \in Done \cup Broken
       \/ performed' = FALSE /\ body' \in Refused \cup Broken

ServeQuery ==
    /\ op = "GetHighestBlockNumber"
    /\ body' \in {"none", "garbage", "noData", "noField"}
                 \cup (IF stored = {} THEN {"emptyList"}
                       ELSE Numbers \cup NotNumbers)
    /\ UNCHANGED performed

-----------------------------------------------------------------------------
(* Reading the answer.                                                     *)

TransportFailed == <<"QueryFailed", "standard">>

\* Faulty variant: only the single object is read.
PostToCollectionOneShape(b) ==
    CASE b = "object" -> <<>>
      [] b = "none" -> <<"QueryFailed">> \o TransportFailed
      [] b = "garbage" -> <<"QueryFailed", "standard">>
      [] OTHER -> <<"QueryFailed">>

PostToCollection(b) ==
    CASE b \in {"object", "list"} -> <<>>
      [] b = "none" -> <<"QueryFailed">> \o TransportFailed
      [] b = "garbage" -> <<"QueryFailed", "standard">>
      [] OTHER -> <<"QueryFailed">>

\* Faulty variants: an unreadable answer is taken for bad data; the error of
\* PostToCollection is handed on as it is.
CreateErrorAsParsing(e) == IF e = <<>> THEN e ELSE <<"ParsingFailed">> \o e
CreateErrorBare(e) == e

CreateError(e) == IF e = <<>> THEN e ELSE <<"QueryFailed">> \o e

\* The id parseGraphQLResponse returns; its error is dropped.  A single
\* object does not fit the type of types.Response.
ParsedID(b) == IF b = "list" THEN "id" ELSE ""

\* Faulty variant: the error of the parser is looked at instead of the id, and
\* an item without an id is no error.
UpdateErrorOfParser(b) ==
    CASE b = "none" -> <<"QueryFailed">> \o TransportFailed
      [] b \in {"list", "noDocID"} -> <<>>
      [] OTHER -> <<"QueryFailed">>

UpdateError(b) ==
    IF b = "none" THEN <<"QueryFailed">> \o TransportFailed
    ELSE IF ParsedID(b) = "" THEN <<"QueryFailed">> ELSE <<>>

HighestError(b) ==
    CASE b \in Numbers -> <<>>
      [] b = "none" -> <<"QueryFailed">> \o TransportFailed
      [] b = "garbage" -> <<"ParsingFailed", "standard">>
      [] b = "0xbad" -> <<"ParsingFailed", "InvalidHex", "standard">>
      [] OTHER -> <<"DocumentNotFound">>

ReadError(b) == CASE op \in Creates -> CreateError(PostToCollection(b))
                  [] op \in Updates -> UpdateError(b)
                  [] OTHER -> HighestError(b)

NoResult == IF op \in Mutations THEN "" ELSE 0
Result == IF op \in Mutations THEN "id" ELSE FirstOf(stored)

-----------------------------------------------------------------------------
Init == /\ op \in Operations
        /\ input \in BadInputs[op] \cup {"ok"}
        /\ stored \in SUBSET Heights
        /\ at = "check"
        /\ performed = FALSE
        /\ body = "none"
        /\ id = NoResult
        /\ err = <<>>

Reject == /\ at = "check"
          /\ input # "ok"
          /\ err' \in Rejections
          /\ at' = "done"
          /\ UNCHANGED <<op, input, stored, performed, body, id>>

SendToGraphql == /\ at = "check"
                 /\ input = "ok"
                 /\ at' = "sent"
                 /\ UNCHANGED <<op, input, stored, performed, body, id, err>>

Serve == /\ at = "sent"
         /\ at' = "answered"
         /\ ServeMutation \/ ServeQuery
         /\ UNCHANGED <<op, input, stored, id, err>>

Read == /\ at = "answered"
        /\ at' = "done"
        /\ err' = ReadError(body)
        /\ id' = IF err' = <<>> THEN Result ELSE NoResult
        /\ UNCHANGED <<op, input, stored, performed, body>>

\* A request whose connection broke arrives after the handler gave it up.
PerformLate == /\ op \in Mutations /\ TypeInSchema
               /\ at \in {"answered", "done"} /\ input = "ok"
               /\ body = "none" /\ ~ performed
               /\ performed' = TRUE
               /\ UNCHANGED <<op, input, stored, at, body, id, err>>

Next == Reject \/ SendToGraphql \/ Serve \/ Read \/ PerformLate

Spec == Init /\ [][Next]_vars

-----------------------------------------------------------------------------
(* Properties.                                                             *)

Returned == at = "done" /\ err # Panic

\* A nil error and a document id come together, and only when the store has
\* performed the mutation, whatever the answer looked like on its way.
AckMeansDone ==
    Returned /\ op \in Mutations =>
        /\ err = <<>> <=> id = "id"
        /\ err = <<>> => performed

\* What was done and acknowledged is not reported as a failure, with one
\* exception: the create functions take the document as a list and as a single
\* object, the Update...Relationships functions take a list only, and report
\* an update that is acknowledged with an object as failed.
WholeAnswerTaken ==
    Returned /\ performed /\ body \in Done =>
        (err = <<>> <=> op \in Creates \/ body = "list")

\* A mutation that left the process is never given up as hopeless: whatever
\* went wrong with it afterwards is an error that may be retried.  Errors that
\* may not be come from the arguments alone.
HopelessMeansUnsent ==
    Returned /\ op \in Mutations /\ err # <<>> =>
        (IsRetryable(err) <=> input = "ok")

\* The errors CreateBlockRetry is checked with are those CreateBlock returns,
\* and for a well-formed block the one error BlockPoster uses stands for them
\* all: createBlockWithRetry decides alike at every attempt.
OneErrorStandsForAll ==
    Returned /\ op = "CreateBlock" /\ err # <<>> =>
        /\ err \in CreateBlockErrors
        /\ input = "ok" =>
             \A n \in 0..TotalRetryAttempts :
                RetryDecision(err, n) = RetryDecision(CreateBlockFailed, n)

\* GetHighestBlockNumber answers with the highest number stored, in whichever
\* form the server writes it, and with zero and an error otherwise.
HighestOrError ==
    Returned /\ op = "GetHighestBlockNumber" =>
        IF err = <<>> THEN id \in stored /\ \A n \in stored : n <= id
        ELSE id = 0
=============================================================================
