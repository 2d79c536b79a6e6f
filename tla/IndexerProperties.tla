------------------------- MODULE IndexerProperties -------------------------
(***************************************************************************)
(* What is claimed of BlockPoster.                                         *)
(***************************************************************************)
EXTENDS BlockPoster

\* The collections, seen by a reader, behave like ChainIndex.
Index == INSTANCE ChainIndex WITH index <- docs
ImplementsChainIndex == Index!Spec

HasBlock == Labels \ {"GetLatestBlock", "BlockByNumber", "Down"}
OnTransaction == {"GetTransactionReceipt", "CreateAccessListEntry",
                  "CreateLog"}
OnReceipt == {"CreateAccessListEntry", "CreateLog"}

\* Types, and which local variables hold something at which call.
TypeOK ==
    /\ GethTypeOK
    /\ DefraTypeOK
    /\ pc \in [Indexers -> Labels]
    /\ hdr \in [Indexers -> Nat]
    /\ retries \in [Indexers -> 0..FetchRetries - 1]
    /\ blk \in [Indexers -> Blocks \cup {NoBlock}]
    /\ attempts \in [Indexers -> 0..TotalRetryAttempts]
    /\ txi \in [Indexers -> Nat]
    /\ rcpt \in [Indexers -> Blocks \cup {NoBlock}]
    /\ k \in [Indexers -> Nat]
    /\ errs \in [Indexers -> SUBSET Reports]

\* main dereferences the block GetLatestBlock returned without a nil check:
\* however often the client steps back over undecodable blocks, it never
\* returns a nil block with a nil error.
BlockInHand == \A i \in Indexers : pc[i] \in HasBlock => blk[i] \in Blocks

\* Only the process whose create_Transaction was acknowledged goes on to the
\* receipt, the access list and the logs, so two indexers, or one before and
\* after a crash, never write the logs of a transaction together.
OneWriter ==
    \A i, j \in Indexers :
        /\ pc[i] \in OnTransaction
        /\ pc[j] \in OnTransaction
        /\ CurTx(i) = CurTx(j)
        => i = j

\* A document on its way to the store, abandoned or not, already finds the
\* document it refers to: no order of late commits can leave a relation
\* unresolved.
LateLinksResolve ==
    \A d \in inflight :
        /\ d.type = "Transaction" => BlockDoc(d.block_id) \in docs
        /\ d.type = "AccessListEntry" => Index!Indexed(d.transaction_id)
        /\ d.type = "Log" => Index!IndexedIn(d.block_id, d.transaction_id)

\* A document is in the store or the failure to create it was logged.
Settled(i, d) == d \in docs \cup errs[i]

AccessListSettled(i, t) ==
    \A n \in 1..Len(AccessList[t]) : Settled(i, AleDoc(t, AccessList[t][n]))

LogsSettled(i, t) ==
    \E c \in Blocks : \A n \in 1..LogCount[t] :
        Settled(i, LogDoc(blk[i], t, c, n))

TransactionSettled(i, t) ==
    \/ TxDoc(blk[i], t) \in errs[i]
    \/ /\ TxDoc(blk[i], t) \in docs
       /\ \/ ReceiptOf(t) \in errs[i]
          \/ AccessListSettled(i, t) /\ LogsSettled(i, t)

\* When "Successfully processed block" is logged, every transaction, entry
\* and log of the block is in the store or a logged failure accounts for it:
\* the nested loops and their early returns lose nothing silently.
NothingLostSilently ==
    \A i \in Indexers : pc[i] = "Sleep" =>
        /\ BlockDoc(blk[i]) \in docs
        /\ \A n \in 1..Len(TxsOf[blk[i]]) :
              TransactionSettled(i, TxsOf[blk[i]][n])

\* Whatever fails, a process that is up comes back to ask for the newest
\* block, unless it is killed first: no retry loop runs for ever.
AlwaysPollsAgain ==
    \A i \in Indexers :
        pc[i] # "Down" ~> pc[i] \in {"GetLatestBlock", "Down"}

\* The block GetLatestBlock reports while h is the head: h itself or, when the
\* client cannot decode it, the first it can decode of the two below.
Newest(h, b) ==
    /\ IsHead(h)
    /\ b \in canon \ Unsupported
    /\ Number[h] - Number[b] < FetchRetries
    /\ \A a \in canon : Number[a] > Number[b] => a \in Unsupported

\* If the head stops changing, the newest block the client can decode is
\* indexed in spite of failed calls and crashes.
StableHeadIndexed ==
    \A h \in Blocks, b \in Blocks :
        <>[]Newest(h, b) => <>(BlockDoc(b) \in docs)

\* No process is down, no failure is logged, no request is abandoned.
Calm == inflight = {} /\ \A i \in Indexers : pc[i] # "Down" /\ errs[i] = {}

\* As long as nothing fails, each transaction of a stored block follows it
\* into the store, and so do its logs.
CalmRunIndexesAll ==
    []Calm =>
        \A b \in Blocks : \A n \in 1..Len(TxsOf[b]) :
            BlockDoc(b) \in docs ~>
                /\ Index!Indexed(TxsOf[b][n])
                /\ \A m \in 1..LogCount[TxsOf[b][n]] :
                      \E d \in Index!LogsOf(TxsOf[b][n]) : d.logIndex = m

-----------------------------------------------------------------------------
(* Statements of the repository that the code does not live up to.         *)

\* cmd/block_poster/main.go:87 logs "Successfully processed block": then the
\* block's transactions are in the store.
SuccessMeansComplete ==
    \A i \in Indexers : pc[i] = "Sleep" =>
        \A n \in 1..Len(TxsOf[blk[i]]) :
            TxDoc(blk[i], TxsOf[blk[i]][n]) \in docs

\* README.md, Data Model: a log "belongs to block and transaction"; so the
\* block it belongs to is the one whose hash it carries.
LogBelongsToItsBlock ==
    \A d \in docs : d.type = "Log" => d.blockHash = d.block_id

\* pkg/errors/types.go:43: "Retryable - Can be retried immediately (network
\* timeouts, temp issues)"; so a block is not retried when the store already
\* holds it and will refuse it every time.
RetryOnlyTemporary ==
    \A i \in Indexers : pc[i] = "Backoff" => BlockDoc(blk[i]) \notin docs

\* cmd/block_poster/main.go:84: "Process all transactions for this block"; so,
\* once failures and crashes have stopped, each transaction of a stored block
\* ends up in the store.
StoredBlockGetsItsTransactions ==
    <>[]Calm =>
        \A b \in Blocks : \A n \in 1..Len(TxsOf[b]) :
            BlockDoc(b) \in docs ~> Index!Indexed(TxsOf[b][n])
=============================================================================
