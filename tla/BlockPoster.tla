---------------------------- MODULE BlockPoster ----------------------------
(***************************************************************************)
(* cmd/block_poster: each indexer process copies the newest block of the   *)
(* Geth node, its transactions, and their access lists and logs, into      *)
(* DefraDB, one call at a time.  Between two calls anything may happen:    *)
(* the chain reorganises, another indexer writes, an abandoned request     *)
(* commits, the process dies.                                              *)
(*                                                                         *)
(* A label of pc names the call the process is about to make.              *)
(***************************************************************************)
EXTENDS GethNode, DefraDB, RetryPolicy

CONSTANT Indexers

VARIABLES
    pc,         \* the next call
    hdr,        \* GetLatestBlock: latestHeader.Number
    retries,    \* GetLatestBlock: the loop counter
    blk,        \* the block in hand
    attempts,   \* createBlockWithRetry: blockRetryAttempts
    txi,        \* processTransactions: position in the block
    rcpt,       \* the block the receipt in hand was taken from
    k,          \* position in the access list or in the receipt's logs
    errs        \* failures logged since the block was fetched (history)

poster == <<pc, hdr, retries, blk, attempts, txi, rcpt, k, errs>>
vars == <<canon, docs, inflight, poster>>

FetchRetries == 3

Posting == {"CreateBlock", "CreateTransaction", "CreateAccessListEntry",
            "CreateLog"}
Labels == Posting \cup {"GetLatestBlock", "BlockByNumber", "Backoff",
                        "GetTransactionReceipt", "Sleep", "Down"}

\* What a log line can report: a document not created, a receipt not fetched.
ReceiptOf(t) == [type |-> "Receipt", hash |-> t]
Reports == Documents \cup [type : {"Receipt"}, hash : Txs]

CurTx(i) == TxsOf[blk[i]][txi[i]]

\* Faulty variant, for the sensitivity runs: the last transaction is left out.
MoreTransactionsButLast(i) == txi[i] < Len(TxsOf[blk[i]])

MoreTransactions(i) == txi[i] <= Len(TxsOf[blk[i]])
MoreEntries(i) == k[i] <= Len(AccessList[CurTx(i)])
MoreLogs(i) == k[i] <= LogCount[CurTx(i)]

TxDocAt(i) == TxDoc(blk[i], CurTx(i))
AleDocAt(i) == AleDoc(CurTx(i), AccessList[CurTx(i)][k[i]])
LogDocAt(i) == LogDoc(blk[i], CurTx(i), rcpt[i], k[i])

\* The request under way at a posting label may outlive the process.
LeavesRequest(i) ==
    \/ pc[i] = "CreateBlock" /\ Abandoned(BlockDoc(blk[i]))
    \/ /\ pc[i] = "CreateTransaction" /\ MoreTransactions(i)
       /\ Abandoned(TxDocAt(i))
    \/ /\ pc[i] = "CreateAccessListEntry" /\ MoreEntries(i)
       /\ Abandoned(AleDocAt(i))
    \/ /\ pc[i] = "CreateLog" /\ MoreLogs(i)
       /\ Abandoned(LogDocAt(i))

-----------------------------------------------------------------------------
Init ==
    /\ GethInit
    /\ DefraInit
    /\ pc = [i \in Indexers |-> "GetLatestBlock"]
    /\ hdr = [i \in Indexers |-> 0]
    /\ retries = [i \in Indexers |-> 0]
    /\ blk = [i \in Indexers |-> NoBlock]
    /\ attempts = [i \in Indexers |-> 0]
    /\ txi = [i \in Indexers |-> 0]
    /\ rcpt = [i \in Indexers |-> NoBlock]
    /\ k = [i \in Indexers |-> 0]
    /\ errs = [i \in Indexers |-> {}]

\* The variables of one turn of the main loop go out of scope.
Leave(i, label) ==
    /\ pc' = [pc EXCEPT ![i] = label]
    /\ hdr' = [hdr EXCEPT ![i] = 0]
    /\ retries' = [retries EXCEPT ![i] = 0]
    /\ blk' = [blk EXCEPT ![i] = NoBlock]
    /\ attempts' = [attempts EXCEPT ![i] = 0]
    /\ txi' = [txi EXCEPT ![i] = 0]
    /\ rcpt' = [rcpt EXCEPT ![i] = NoBlock]
    /\ k' = [k EXCEPT ![i] = 0]
    /\ errs' = [errs EXCEPT ![i] = {}]

Poll(i) == Leave(i, "GetLatestBlock")

-----------------------------------------------------------------------------
(* EthereumClient.GetLatestBlock                                           *)

FetchHeader(i) ==
    /\ pc[i] = "GetLatestBlock"
    /\ \E h \in canon : IsHead(h) /\ hdr' = [hdr EXCEPT ![i] = Number[h]]
    /\ pc' = [pc EXCEPT ![i] = "BlockByNumber"]
    /\ UNCHANGED <<canon, docs, inflight, retries, blk, attempts, txi, rcpt,
                   k, errs>>

\* The main loop logs the failure and asks again at once, without sleeping.
FetchHeaderFails(i) ==
    /\ pc[i] = "GetLatestBlock"
    /\ Poll(i)
    /\ UNCHANGED <<canon, docs, inflight>>

\* GetNetworkID, called before the block is posted, decides nothing.
FetchBlock(i) ==
    /\ pc[i] = "BlockByNumber"
    /\ \E b \in CanonicalAt(hdr[i]) :
          b \notin Unsupported /\ blk' = [blk EXCEPT ![i] = b]
    /\ pc' = [pc EXCEPT ![i] = "CreateBlock"]
    /\ UNCHANGED <<canon, docs, inflight, hdr, retries, attempts, txi, rcpt,
                   k, errs>>

\* Faulty variants: one step too many, or none.
StepsBackOnceMore(n) == n < FetchRetries
StepsBackNever(n) == n < 0

\* The guard on retrying inside the loop, not the loop's own bound.
StepsBack(n) == n < 2

\* "transaction type not supported": try the block below.  A loop that ran
\* out of retries here would go on with a nil block.
FetchBlockUnsupported(i) ==
    /\ pc[i] = "BlockByNumber"
    /\ StepsBack(retries[i])
    /\ \E b \in CanonicalAt(hdr[i]) : b \in Unsupported
    /\ hdr' = [hdr EXCEPT ![i] = hdr[i] - 1]
    /\ retries' = [retries EXCEPT ![i] = retries[i] + 1]
    /\ pc' = [pc EXCEPT ![i] = IF retries[i] + 1 < FetchRetries
                               THEN "BlockByNumber" ELSE "CreateBlock"]
    /\ UNCHANGED <<canon, docs, inflight, blk, attempts, txi, rcpt, k, errs>>

\* Any other error, a height no longer canonical included, ends the call.
FetchBlockFails(i) ==
    /\ pc[i] = "BlockByNumber"
    /\ Poll(i)
    /\ UNCHANGED <<canon, docs, inflight>>

-----------------------------------------------------------------------------
(* createBlockWithRetry                                                    *)

BlockStored(i) ==
    /\ pc[i] = "CreateBlock"
    /\ Stored(BlockDoc(blk[i]))
    /\ pc' = [pc EXCEPT ![i] = "CreateTransaction"]
    /\ txi' = [txi EXCEPT ![i] = 1]
    /\ UNCHANGED <<canon, hdr, retries, blk, attempts, rcpt, k, errs>>

BlockRetried(i) ==
    /\ pc[i] = "CreateBlock"
    /\ RetryDecision(CreateBlockFailed, attempts[i]) = "retry"
    /\ PostFails(BlockDoc(blk[i]))
    /\ pc' = [pc EXCEPT ![i] = "Backoff"]
    /\ UNCHANGED <<canon, hdr, retries, blk, attempts, txi, rcpt, k, errs>>

\* Faulty variant: the error is logged but not returned.
BlockSkippedGoesOn(i) ==
    /\ pc[i] = "CreateBlock"
    /\ RetryDecision(CreateBlockFailed, attempts[i]) = "skip"
    /\ PostFails(BlockDoc(blk[i]))
    /\ pc' = [pc EXCEPT ![i] = "CreateTransaction"]
    /\ txi' = [txi EXCEPT ![i] = 1]
    /\ UNCHANGED <<canon, hdr, retries, blk, attempts, rcpt, k, errs>>

\* No CreateBlock error of a block in hand is fatal (see CreateBlockRetry).
\* The main loop asks for the newest block again at once, without sleeping.
BlockSkipped(i) ==
    /\ pc[i] = "CreateBlock"
    /\ RetryDecision(CreateBlockFailed, attempts[i]) = "skip"
    /\ PostFails(BlockDoc(blk[i]))
    /\ Poll(i)
    /\ UNCHANGED canon

\* Faulty variant: the attempt is not counted.
BackoffUncounted(i) ==
    /\ pc[i] = "Backoff"
    /\ pc' = [pc EXCEPT ![i] = "CreateBlock"]
    /\ UNCHANGED <<canon, docs, inflight, hdr, retries, blk, attempts, txi,
                   rcpt, k, errs>>

Backoff(i) ==
    /\ pc[i] = "Backoff"
    /\ pc' = [pc EXCEPT ![i] = "CreateBlock"]
    /\ attempts' = [attempts EXCEPT ![i] = attempts[i] + 1]
    /\ UNCHANGED <<canon, docs, inflight, hdr, retries, blk, txi, rcpt, k,
                   errs>>

-----------------------------------------------------------------------------
(* processTransactions and processSingleTransaction                        *)

\* The loop variables move to the next transaction of the block.
NextTransaction(i) ==
    /\ pc' = [pc EXCEPT ![i] = "CreateTransaction"]
    /\ txi' = [txi EXCEPT ![i] = txi[i] + 1]
    /\ rcpt' = [rcpt EXCEPT ![i] = NoBlock]
    /\ k' = [k EXCEPT ![i] = 0]

TransactionStored(i) ==
    /\ pc[i] = "CreateTransaction"
    /\ MoreTransactions(i)
    /\ Stored(TxDocAt(i))
    /\ pc' = [pc EXCEPT ![i] = "GetTransactionReceipt"]
    /\ UNCHANGED <<canon, hdr, retries, blk, attempts, txi, rcpt, k, errs>>

\* Faulty variant: the error is logged but the function goes on.
TransactionFailsGoesOn(i) ==
    /\ pc[i] = "CreateTransaction"
    /\ MoreTransactions(i)
    /\ PostFails(TxDocAt(i))
    /\ pc' = [pc EXCEPT ![i] = "GetTransactionReceipt"]
    /\ errs' = [errs EXCEPT ![i] = errs[i] \cup {TxDocAt(i)}]
    /\ UNCHANGED <<canon, hdr, retries, blk, attempts, txi, rcpt, k>>

\* Logged; the transaction's receipt, access list and logs are given up.
TransactionFails(i) ==
    /\ pc[i] = "CreateTransaction"
    /\ MoreTransactions(i)
    /\ PostFails(TxDocAt(i))
    /\ errs' = [errs EXCEPT ![i] = errs[i] \cup {TxDocAt(i)}]
    /\ NextTransaction(i)
    /\ UNCHANGED <<canon, hdr, retries, blk, attempts>>

\* "Successfully processed block" is logged and the process goes to sleep.
TransactionsDone(i) ==
    /\ pc[i] = "CreateTransaction"
    /\ ~ MoreTransactions(i)
    /\ pc' = [pc EXCEPT ![i] = "Sleep"]
    /\ UNCHANGED <<canon, docs, inflight, hdr, retries, blk, attempts, txi,
                   rcpt, k, errs>>

ReceiptFetched(i) ==
    /\ pc[i] = "GetTransactionReceipt"
    /\ \E c \in ReceiptBlocks(CurTx(i)) : rcpt' = [rcpt EXCEPT ![i] = c]
    /\ pc' = [pc EXCEPT ![i] = "CreateAccessListEntry"]
    /\ k' = [k EXCEPT ![i] = 1]
    /\ UNCHANGED <<canon, docs, inflight, hdr, retries, blk, attempts, txi,
                   errs>>

\* Logged; the access list is given up with the logs.
ReceiptFails(i) ==
    /\ pc[i] = "GetTransactionReceipt"
    /\ errs' = [errs EXCEPT ![i] = errs[i] \cup {ReceiptOf(CurTx(i))}]
    /\ NextTransaction(i)
    /\ UNCHANGED <<canon, docs, inflight, hdr, retries, blk, attempts>>

-----------------------------------------------------------------------------
(* processAccessListEntries                                                *)

AccessListEntryStored(i) ==
    /\ pc[i] = "CreateAccessListEntry"
    /\ MoreEntries(i)
    /\ Stored(AleDocAt(i))
    /\ k' = [k EXCEPT ![i] = k[i] + 1]
    /\ UNCHANGED <<canon, pc, hdr, retries, blk, attempts, txi, rcpt, errs>>

AccessListEntryFails(i) ==
    /\ pc[i] = "CreateAccessListEntry"
    /\ MoreEntries(i)
    /\ PostFails(AleDocAt(i))
    /\ errs' = [errs EXCEPT ![i] = errs[i] \cup {AleDocAt(i)}]
    /\ k' = [k EXCEPT ![i] = k[i] + 1]
    /\ UNCHANGED <<canon, pc, hdr, retries, blk, attempts, txi, rcpt>>

AccessListDone(i) ==
    /\ pc[i] = "CreateAccessListEntry"
    /\ ~ MoreEntries(i)
    /\ pc' = [pc EXCEPT ![i] = "CreateLog"]
    /\ k' = [k EXCEPT ![i] = 1]
    /\ UNCHANGED <<canon, docs, inflight, hdr, retries, blk, attempts, txi,
                   rcpt, errs>>

-----------------------------------------------------------------------------
(* processTransactionLogs                                                  *)

LogStored(i) ==
    /\ pc[i] = "CreateLog"
    /\ MoreLogs(i)
    /\ Stored(LogDocAt(i))
    /\ k' = [k EXCEPT ![i] = k[i] + 1]
    /\ UNCHANGED <<canon, pc, hdr, retries, blk, attempts, txi, rcpt, errs>>

LogFails(i) ==
    /\ pc[i] = "CreateLog"
    /\ MoreLogs(i)
    /\ PostFails(LogDocAt(i))
    /\ errs' = [errs EXCEPT ![i] = errs[i] \cup {LogDocAt(i)}]
    /\ k' = [k EXCEPT ![i] = k[i] + 1]
    /\ UNCHANGED <<canon, pc, hdr, retries, blk, attempts, txi, rcpt>>

LogsDone(i) ==
    /\ pc[i] = "CreateLog"
    /\ ~ MoreLogs(i)
    /\ NextTransaction(i)
    /\ UNCHANGED <<canon, docs, inflight, hdr, retries, blk, attempts, errs>>

-----------------------------------------------------------------------------
Wake(i) ==
    /\ pc[i] = "Sleep"
    /\ Poll(i)
    /\ UNCHANGED <<canon, docs, inflight>>

\* The process is killed (nothing catches a signal); a create request it had
\* sent may still be performed.
Crash(i) ==
    /\ pc[i] # "Down"
    /\ UNCHANGED inflight \/ LeavesRequest(i)
    /\ Leave(i, "Down")
    /\ UNCHANGED <<canon, docs>>

Restart(i) ==
    /\ pc[i] = "Down"
    /\ Poll(i)
    /\ UNCHANGED <<canon, docs, inflight>>

\* A step of the process itself.
Step(i) ==
    \/ FetchHeader(i) \/ FetchHeaderFails(i)
    \/ FetchBlock(i) \/ FetchBlockUnsupported(i) \/ FetchBlockFails(i)
    \/ BlockStored(i) \/ BlockRetried(i) \/ BlockSkipped(i) \/ Backoff(i)
    \/ TransactionStored(i) \/ TransactionFails(i) \/ TransactionsDone(i)
    \/ ReceiptFetched(i) \/ ReceiptFails(i)
    \/ AccessListEntryStored(i) \/ AccessListEntryFails(i)
    \/ AccessListDone(i)
    \/ LogStored(i) \/ LogFails(i) \/ LogsDone(i)
    \/ Wake(i) \/ Restart(i)

GethStep == \E b \in Blocks : NewHead(b) /\ UNCHANGED <<docs, inflight, poster>>

DefraStep == \E d \in inflight :
                /\ LateCommit(d) \/ LateDrop(d)
                /\ UNCHANGED <<canon, poster>>

Next == \/ \E i \in Indexers : Step(i) \/ Crash(i)
        \/ GethStep
        \/ DefraStep

Spec == Init /\ [][Next]_vars

\* Every call returns and every sleep ends; the two servers, asked again and
\* again, do not fail the same call for ever.
FairSpec ==
    /\ Spec
    /\ \A i \in Indexers : /\ WF_vars(Step(i))
                           /\ SF_vars(FetchHeader(i))
                           /\ SF_vars(FetchBlock(i))
                           /\ SF_vars(FetchBlockUnsupported(i))
                           /\ SF_vars(BlockStored(i))
=============================================================================
