-------------------------- MODULE ImplementsProofs --------------------------
(***************************************************************************)
(* BlockPoster implements ChainIndex, for every block tree, every content, *)
(* every number of indexers and of abandoned requests.  The proof carries  *)
(* an invariant about the documents in the store or on their way there,    *)
(* and about what each process knows of them; on the same invariant rests  *)
(* the proof that no document is missing without an error.                 *)
(***************************************************************************)
EXTENDS IndexerProofs

\* What the store holds or may still come to hold.
Known == docs \cup inflight

IsLogOf(d, t) == d.type = "Log" /\ d.transaction_id = t

\* d finds what it refers to, and says what the block tree says.
Filed(d) ==
    /\ d.type = "Transaction" =>
          BlockDoc(d.block_id) \in docs /\ InBlock(d.hash, d.block_id)
    /\ d.type = "AccessListEntry" =>
          /\ \E b \in Blocks : TxDoc(b, d.transaction_id) \in docs
          /\ \E n \in 1..Len(AccessList[d.transaction_id]) :
                AccessList[d.transaction_id][n] = d.address
    /\ d.type = "Log" =>
          /\ TxDoc(d.block_id, d.transaction_id) \in docs
          /\ InBlock(d.transaction_id, d.blockHash)
          /\ d.logIndex \in 1..LogCount[d.transaction_id]

KnownFiled == \A d \in Known : Filed(d)

\* The unique index on Transaction.hash.
TxOnce ==
    \A t \in Txs, b, c \in Blocks :
        TxDoc(b, t) \in docs /\ TxDoc(c, t) \in docs => b = c

LogsAgree ==
    \A d, e \in Known, t \in Txs :
        IsLogOf(d, t) /\ IsLogOf(e, t) => d.blockHash = e.blockHash

AfterBlock == {"CreateTransaction", "Sleep"} \cup OnTransaction

\* What a process relies on when it files its next document.
Holds(i) ==
    /\ pc[i] \in AfterBlock => BlockDoc(blk[i]) \in docs
    /\ pc[i] \in OnTransaction => TxDocAt(i) \in docs
    /\ pc[i] \in {"GetTransactionReceipt", "CreateAccessListEntry"} =>
          \A d \in Known : ~ IsLogOf(d, CurTx(i))
    /\ pc[i] = "CreateLog" =>
          \A d \in Known : IsLogOf(d, CurTx(i)) => d.blockHash = rcpt[i]

\* OneWriter and the refinement are consequences of this invariant: neither
\* is inductive without what is known of the abandoned requests.
StoreInv ==
    /\ TypeInv
    /\ KnownFiled
    /\ TxOnce
    /\ LogsAgree
    /\ \A i \in Indexers : Holds(i)
    /\ OneWriter

-----------------------------------------------------------------------------
(* What a step may do to the store.                                        *)

\* Process i is about to send d.
Sends(i, d) ==
    \/ pc[i] = "CreateBlock" /\ d = BlockDoc(blk[i])
    \/ pc[i] = "CreateTransaction" /\ MoreTransactions(i) /\ d = TxDocAt(i)
    \/ pc[i] = "CreateAccessListEntry" /\ MoreEntries(i) /\ d = AleDocAt(i)
    \/ pc[i] = "CreateLog" /\ MoreLogs(i) /\ d = LogDocAt(i)

\* Nothing is committed, and what becomes known some process was sending.
Quiet ==
    /\ docs' = docs
    /\ \A d \in inflight' : d \in inflight \/ \E i \in Indexers : Sends(i, d)

\* One acceptable document is committed, sent now or before.
Commits(d) ==
    /\ Accepts(d)
    /\ d \in inflight \/ \E i \in Indexers : Sends(i, d)
    /\ docs' = docs \cup {d}
    /\ inflight' \subseteq inflight

\* What a process sends is a document.
LEMMA SendsDocument ==
    ASSUME TypeInv, NEW i \in Indexers, NEW d, Sends(i, d)
    PROVE  d \in Documents
BY SentIsDocument DEF Sends

\* Every step is quiet or commits one document.
LEMMA StepEffect ==
    ASSUME TypeInv, [Next]_vars
    PROVE  Quiet \/ \E d \in Documents : Commits(d)
<1>1. ASSUME NEW i \in Indexers, NEW d, Sends(i, d), Stored(d)
      PROVE  \E e \in Documents : Commits(e)
  BY <1>1, SendsDocument DEF Stored, Commits
<1>2. ASSUME NEW i \in Indexers, NEW d, Sends(i, d), PostFails(d)
      PROVE  Quiet
  BY <1>2 DEF PostFails, Abandoned, Quiet
<1>3. ASSUME UNCHANGED <<docs, inflight>>
      PROVE  Quiet
  BY <1>3 DEF Quiet
<1>4. ASSUME NEW i \in Indexers, Step(i)
      PROVE  Quiet \/ \E d \in Documents : Commits(d)
  <2>1. CASE BlockStored(i)
    BY <2>1, <1>1 DEF BlockStored, Sends
  <2>2. CASE TransactionStored(i)
    BY <2>2, <1>1 DEF TransactionStored, Sends
  <2>3. CASE AccessListEntryStored(i)
    BY <2>3, <1>1 DEF AccessListEntryStored, Sends
  <2>4. CASE LogStored(i)
    BY <2>4, <1>1 DEF LogStored, Sends
  <2>5. CASE BlockRetried(i) \/ BlockSkipped(i)
    BY <2>5, <1>2 DEF BlockRetried, BlockSkipped, Sends
  <2>6. CASE TransactionFails(i)
    BY <2>6, <1>2 DEF TransactionFails, Sends
  <2>7. CASE AccessListEntryFails(i)
    BY <2>7, <1>2 DEF AccessListEntryFails, Sends
  <2>8. CASE LogFails(i)
    BY <2>8, <1>2 DEF LogFails, Sends
  <2>9. CASE \/ FetchHeader(i) \/ FetchHeaderFails(i) \/ FetchBlock(i)
             \/ FetchBlockUnsupported(i) \/ FetchBlockFails(i)
             \/ Backoff(i) \/ TransactionsDone(i) \/ ReceiptFetched(i)
             \/ ReceiptFails(i) \/ AccessListDone(i) \/ LogsDone(i)
             \/ Wake(i) \/ Restart(i)
    BY <2>9, <1>3
       DEF FetchHeader, FetchHeaderFails, FetchBlock, FetchBlockUnsupported,
           FetchBlockFails, Backoff, TransactionsDone, ReceiptFetched,
           ReceiptFails, AccessListDone, LogsDone, Wake, Restart
  <2> QED
    BY <1>4, <2>1, <2>2, <2>3, <2>4, <2>5, <2>6, <2>7, <2>8, <2>9 DEF Step
<1>5. ASSUME NEW i \in Indexers, Crash(i)
      PROVE  Quiet
  BY <1>5 DEF Crash, LeavesRequest, Abandoned, Quiet, Sends
<1>6. CASE GethStep
  BY <1>6, <1>3 DEF GethStep
<1>7. ASSUME NEW d \in inflight, LateCommit(d)
      PROVE  \E e \in Documents : Commits(e)
  BY <1>7 DEF LateCommit, Commits, TypeInv, TypeOK, DefraTypeOK
<1>8. ASSUME NEW d \in inflight, LateDrop(d)
      PROVE  Quiet
  BY <1>8 DEF LateDrop, Quiet
<1>9. CASE UNCHANGED vars
  BY <1>9, <1>3 DEF vars
<1> QED
  BY <1>4, <1>5, <1>6, <1>7, <1>8, <1>9 DEF Next, DefraStep

-----------------------------------------------------------------------------
(* What the documents in the store keep from one step to the next.         *)

\* What a process sends is filed.
LEMMA SendsFiled ==
    ASSUME StoreInv, NEW i \in Indexers, NEW d, Sends(i, d)
    PROVE  Filed(d)
<1>1. TypeInv /\ Holds(i)
  BY DEF StoreInv
<1>2. CASE pc[i] = "CreateBlock"
  BY <1>2 DEF Sends, BlockDoc, Filed
<1>3. CASE pc[i] = "CreateTransaction"
  <2>1. d = TxDocAt(i) /\ BlockDoc(blk[i]) \in docs /\ MoreTransactions(i)
    BY <1>1, <1>3 DEF Sends, Holds, AfterBlock
  <2>2. InBlock(CurTx(i), blk[i])
    BY <1>1, <1>3, <2>1, CurTxIsTx
  <2> QED
    BY <2>1, <2>2 DEF TxDocAt, TxDoc, Filed
<1>4. CASE pc[i] = "CreateAccessListEntry"
  <2>1. /\ d = AleDocAt(i)
        /\ TxDoc(blk[i], CurTx(i)) \in docs
        /\ k[i] \in 1..Len(AccessList[CurTx(i)])
    BY <1>1, <1>4, CurTxIsTx, Contents
       DEF Sends, Holds, OnTransaction, TxDocAt, MoreEntries, TypeInv,
           TypeOK, Shape, OnReceipt
  <2>2. blk[i] \in Blocks
    BY <1>1, <1>4, CurTxIsTx DEF OnTransaction
  <2> QED
    BY <2>1, <2>2 DEF AleDocAt, AleDoc, Filed
<1>5. CASE pc[i] = "CreateLog"
  <2>1. /\ d = LogDocAt(i)
        /\ TxDoc(blk[i], CurTx(i)) \in docs
        /\ k[i] \in 1..LogCount[CurTx(i)]
        /\ InBlock(CurTx(i), rcpt[i])
    BY <1>1, <1>5, CurTxIsTx, Contents
       DEF Sends, Holds, OnTransaction, TxDocAt, MoreLogs, TypeInv,
           TypeOK, Shape, OnReceipt
  <2> QED
    BY <2>1 DEF LogDocAt, LogDoc, Filed
<1> QED
  BY <1>2, <1>3, <1>4, <1>5 DEF Sends

\* The store only grows, and what becomes known was being sent.
LEMMA StoreGrows ==
    ASSUME StoreInv, [Next]_vars
    PROVE  /\ docs \subseteq docs'
           /\ \A d \in Known' : d \in Known \/ \E i \in Indexers : Sends(i, d)
BY StepEffect DEF StoreInv, Quiet, Commits, Known

LEMMA KnownFiledStep ==
    ASSUME StoreInv, [Next]_vars
    PROVE  KnownFiled'
<1>1. ASSUME NEW d, Filed(d)
      PROVE  Filed(d)'
  BY <1>1, StoreGrows DEF Filed
<1> QED
  BY <1>1, StoreGrows, SendsFiled DEF KnownFiled, StoreInv

\* Acceptance keeps the unique index.
LEMMA TxOnceStep ==
    ASSUME StoreInv, [Next]_vars
    PROVE  TxOnce'
<1>1. CASE Quiet
  BY <1>1 DEF Quiet, TxOnce, StoreInv
<1>2. ASSUME NEW d \in Documents, Commits(d)
      PROVE  TxOnce'
  <2> SUFFICES ASSUME NEW t \in Txs, NEW b \in Blocks, NEW c \in Blocks,
                      TxDoc(b, t) \in docs', TxDoc(c, t) \in docs'
               PROVE  b = c
    BY DEF TxOnce
  <2>1. ASSUME NEW a \in Blocks, d = TxDoc(a, t)
        PROVE  \A e \in Blocks : TxDoc(e, t) \notin docs
    BY <1>2, <2>1 DEF Commits, Accepts, Clashes, UniqueHash, TxDoc
  <2>2. CASE TxDoc(b, t) \in docs /\ TxDoc(c, t) \in docs
    BY <2>2 DEF StoreInv, TxOnce
  <2>3. CASE TxDoc(b, t) = d /\ TxDoc(c, t) = d
    BY <2>3 DEF TxDoc
  <2> QED
    BY <1>2, <2>1, <2>2, <2>3 DEF Commits
<1> QED
  BY <1>1, <1>2, StepEffect DEF StoreInv

\* A log on its way out comes from the one process that holds the receipt.
LEMMA SendsLog ==
    ASSUME StoreInv, NEW i \in Indexers, NEW d, NEW t, Sends(i, d),
           IsLogOf(d, t)
    PROVE  pc[i] = "CreateLog" /\ CurTx(i) = t /\ d.blockHash = rcpt[i]
BY DEF Sends, IsLogOf, BlockDoc, TxDocAt, TxDoc, AleDocAt, AleDoc, LogDocAt,
       LogDoc

LEMMA LogsAgreeStep ==
    ASSUME StoreInv, [Next]_vars
    PROVE  LogsAgree'
<1> SUFFICES ASSUME NEW d \in Known', NEW e \in Known', NEW t \in Txs,
                    IsLogOf(d, t), IsLogOf(e, t)
             PROVE  d.blockHash = e.blockHash
  BY DEF LogsAgree, IsLogOf
<1>1. CASE d \in Known /\ e \in Known
  BY <1>1 DEF StoreInv, LogsAgree
<1>2. ASSUME NEW i \in Indexers, Sends(i, d), e \in Known
      PROVE  d.blockHash = e.blockHash
  BY <1>2, SendsLog DEF StoreInv, Holds
<1>3. ASSUME NEW i \in Indexers, Sends(i, e), d \in Known
      PROVE  d.blockHash = e.blockHash
  BY <1>3, SendsLog DEF StoreInv, Holds
<1>4. ASSUME NEW i \in Indexers, Sends(i, d), NEW j \in Indexers, Sends(j, e)
      PROVE  d.blockHash = e.blockHash
  BY <1>4, SendsLog DEF StoreInv, OneWriter, OnTransaction
<1> QED
  BY <1>1, <1>2, <1>3, <1>4, StoreGrows

-----------------------------------------------------------------------------
(* What a process relies on.                                               *)

\* The variables Holds and OneWriter speak of, for one process.
Kept(i) == /\ pc'[i] = pc[i] /\ blk'[i] = blk[i]
           /\ txi'[i] = txi[i] /\ rcpt'[i] = rcpt[i]

\* A step of one process, seen by the rest and by Holds and OneWriter.
Moves(i) ==
    /\ \A j \in Indexers \ {i} : Kept(j)
    /\ \/ Kept(i)
       \/ pc'[i] \notin AfterBlock
       \/ BlockStored(i)
       \/ TransactionStored(i)
       \/ ReceiptFetched(i)
       \/ AccessListDone(i)
       \/ /\ pc[i] \in AfterBlock /\ pc'[i] \in {"CreateTransaction", "Sleep"}
          /\ blk'[i] = blk[i]

LEMMA StepMoves ==
    ASSUME TypeInv, NEW i \in Indexers, Step(i) \/ Crash(i)
    PROVE  Moves(i)
<1>0. TypeOK
  BY DEF TypeInv
<1>1. CASE FetchHeader(i) \/ FetchBlock(i)
  BY <1>0, <1>1
     DEF FetchHeader, FetchBlock, Moves, Kept, AfterBlock, OnTransaction,
         TypeOK
<1>2. CASE FetchHeaderFails(i) \/ FetchBlockFails(i) \/ Wake(i) \/ Restart(i)
  BY <1>0, <1>2
     DEF FetchHeaderFails, FetchBlockFails, Wake, Restart, Poll, Leave, Moves,
         Kept, AfterBlock, OnTransaction, TypeOK
<1>3. CASE FetchBlockUnsupported(i)
  BY <1>0, <1>3
     DEF FetchBlockUnsupported, Moves, Kept, AfterBlock, OnTransaction, TypeOK
<1>4. CASE BlockStored(i) \/ TransactionStored(i)
  BY <1>0, <1>4 DEF BlockStored, TransactionStored, Moves, Kept, TypeOK
<1>5. CASE BlockRetried(i) \/ Backoff(i)
  BY <1>0, <1>5
     DEF BlockRetried, Backoff, Moves, Kept, AfterBlock, OnTransaction, TypeOK
<1>6. CASE BlockSkipped(i) \/ Crash(i)
  BY <1>0, <1>6
     DEF BlockSkipped, Crash, Poll, Leave, Moves, Kept, AfterBlock,
         OnTransaction, TypeOK
<1>7. CASE TransactionFails(i) \/ ReceiptFails(i) \/ LogsDone(i)
  BY <1>0, <1>7
     DEF TransactionFails, ReceiptFails, LogsDone, NextTransaction, Moves,
         Kept, AfterBlock, OnTransaction, TypeOK
<1>8. CASE TransactionsDone(i)
  BY <1>0, <1>8
     DEF TransactionsDone, Moves, Kept, AfterBlock, TypeOK
<1>9. CASE ReceiptFetched(i) \/ AccessListDone(i)
  BY <1>0, <1>9 DEF ReceiptFetched, AccessListDone, Moves, Kept, TypeOK
<1>10. CASE \/ AccessListEntryStored(i) \/ AccessListEntryFails(i)
            \/ LogStored(i) \/ LogFails(i)
  BY <1>10
     DEF AccessListEntryStored, AccessListEntryFails, LogStored, LogFails,
         Moves, Kept
<1> QED
  BY <1>1, <1>2, <1>3, <1>4, <1>5, <1>6, <1>7, <1>8, <1>9, <1>10 DEF Step

\* A process whose variables a step leaves alone relies on no less: a new log
\* of its transaction could only be its own.
LEMMA KeptHolds ==
    ASSUME StoreInv, [Next]_vars, NEW i \in Indexers, Kept(i)
    PROVE  Holds(i)'
<1>1. /\ pc'[i] = pc[i] /\ blk'[i] = blk[i] /\ rcpt'[i] = rcpt[i]
      /\ CurTx(i)' = CurTx(i) /\ TxDocAt(i)' = TxDocAt(i)
  BY DEF Kept, CurTx, TxDocAt
<1>2. Holds(i) /\ OneWriter
  BY DEF StoreInv
<1>3. ASSUME pc[i] \in {"GetTransactionReceipt", "CreateAccessListEntry"},
             NEW d \in Known', IsLogOf(d, CurTx(i))
      PROVE  FALSE
  <2>1. d \notin Known
    BY <1>2, <1>3 DEF Holds
  <2>2. PICK j \in Indexers : Sends(j, d)
    BY <2>1, StoreGrows
  <2>3. pc[j] = "CreateLog" /\ CurTx(j) = CurTx(i)
    BY <1>3, <2>2, SendsLog
  <2> QED
    BY <1>2, <1>3, <2>3 DEF OneWriter, OnTransaction
<1>4. ASSUME pc[i] = "CreateLog", NEW d \in Known', IsLogOf(d, CurTx(i))
      PROVE  d.blockHash = rcpt[i]
  <2>1. CASE d \in Known
    BY <1>2, <1>4, <2>1 DEF Holds
  <2>2. ASSUME NEW j \in Indexers, Sends(j, d)
        PROVE  d.blockHash = rcpt[i]
    <3>1. pc[j] = "CreateLog" /\ CurTx(j) = CurTx(i) /\ d.blockHash = rcpt[j]
      BY <1>4, <2>2, SendsLog
    <3> QED
      BY <1>2, <1>4, <3>1 DEF OneWriter, OnTransaction
  <2> QED
    BY <2>1, <2>2, StoreGrows
<1> QED
  BY <1>1, <1>2, <1>3, <1>4, StoreGrows DEF Holds, IsLogOf

\* A transaction that the store accepts has no log yet, and nobody's hands
\* are on it.
LEMMA AcceptedTxIsNew ==
    ASSUME StoreInv, NEW i \in Indexers, TransactionStored(i)
    PROVE  /\ \A d \in Known : ~ IsLogOf(d, CurTx(i))
           /\ \A j \in Indexers :
                 ~ (pc[j] \in OnTransaction /\ CurTx(j) = CurTx(i))
<1>1. \A d \in docs : ~ (d.type = "Transaction" /\ d.hash = CurTx(i))
  BY DEF TransactionStored, Stored, Accepts, Clashes, UniqueHash, TxDocAt,
         TxDoc
<1>2. \A b : TxDoc(b, CurTx(i)) \notin docs
  BY <1>1 DEF TxDoc
<1> QED
  BY <1>2 DEF StoreInv, KnownFiled, Filed, IsLogOf, Holds, TxDocAt

LEMMA MovesHolds ==
    ASSUME StoreInv, [Next]_vars, NEW i \in Indexers, Step(i) \/ Crash(i)
    PROVE  \A j \in Indexers : Holds(j)'
<1>1. Moves(i) /\ TypeOK /\ Holds(i)
  BY StepMoves DEF StoreInv, TypeInv
<1>2. \A j \in Indexers \ {i} : Holds(j)'
  BY <1>1, KeptHolds DEF Moves
<1>3. CASE Kept(i)
  BY <1>2, <1>3, KeptHolds
<1>4. CASE pc'[i] \notin AfterBlock
  BY <1>2, <1>4 DEF Holds, AfterBlock, OnTransaction
<1>5. CASE BlockStored(i)
  <2>1. /\ pc'[i] = "CreateTransaction" /\ blk'[i] = blk[i]
        /\ BlockDoc(blk[i]) \in docs'
    BY <1>1, <1>5 DEF BlockStored, Stored, TypeOK
  <2> QED
    BY <1>2, <2>1 DEF Holds, OnTransaction
<1>6. CASE TransactionStored(i)
  <2>1. /\ pc'[i] = "GetTransactionReceipt" /\ blk'[i] = blk[i]
        /\ CurTx(i)' = CurTx(i) /\ TxDocAt(i)' = TxDocAt(i)
        /\ pc[i] = "CreateTransaction"
        /\ TxDocAt(i) \in docs'
        /\ Known' = Known \cup {TxDocAt(i)}
    BY <1>1, <1>6
       DEF TransactionStored, Stored, TypeOK, CurTx, TxDocAt, Known
  <2>2. ~ IsLogOf(TxDocAt(i), CurTx(i))
    BY DEF TxDocAt, TxDoc, IsLogOf
  <2>3. \A d \in Known' : ~ IsLogOf(d, CurTx(i)')
    BY <1>6, <2>1, <2>2, AcceptedTxIsNew
  <2>4. BlockDoc(blk[i]) \in docs'
    BY <1>1, <2>1, StoreGrows DEF Holds, AfterBlock
  <2>5. Holds(i)'
    BY <2>1, <2>3, <2>4 DEF Holds, OnTransaction, IsLogOf
  <2> QED
    BY <1>2, <2>5
<1>7. CASE ReceiptFetched(i)
  <2>1. /\ pc[i] = "GetTransactionReceipt"
        /\ pc'[i] = "CreateAccessListEntry" /\ blk'[i] = blk[i]
        /\ CurTx(i)' = CurTx(i) /\ TxDocAt(i)' = TxDocAt(i)
        /\ docs' = docs /\ Known' = Known
    BY <1>1, <1>7 DEF ReceiptFetched, TypeOK, CurTx, TxDocAt, Known
  <2>2. Holds(i)'
    BY <1>1, <2>1 DEF Holds, AfterBlock, OnTransaction, IsLogOf
  <2> QED
    BY <1>2, <2>2
<1>8. CASE AccessListDone(i)
  <2>1. /\ pc[i] = "CreateAccessListEntry"
        /\ pc'[i] = "CreateLog" /\ blk'[i] = blk[i]
        /\ CurTx(i)' = CurTx(i) /\ TxDocAt(i)' = TxDocAt(i)
        /\ docs' = docs /\ Known' = Known
    BY <1>1, <1>8 DEF AccessListDone, TypeOK, CurTx, TxDocAt, Known
  <2>2. Holds(i)'
    BY <1>1, <2>1 DEF Holds, AfterBlock, OnTransaction, IsLogOf
  <2> QED
    BY <1>2, <2>2
<1>9. CASE /\ pc[i] \in AfterBlock
           /\ pc'[i] \in {"CreateTransaction", "Sleep"}
           /\ blk'[i] = blk[i]
  <2>1. Holds(i)'
    BY <1>1, <1>9, StoreGrows DEF Holds, OnTransaction
  <2> QED
    BY <1>2, <2>1
<1> QED
  BY <1>1, <1>3, <1>4, <1>5, <1>6, <1>7, <1>8, <1>9 DEF Moves

LEMMA MovesOneWriter ==
    ASSUME StoreInv, NEW i \in Indexers, Step(i) \/ Crash(i)
    PROVE  OneWriter'
<1>1. Moves(i) /\ TypeOK /\ OneWriter
  BY StepMoves DEF StoreInv, TypeInv
<1>2. \A j \in Indexers \ {i} : pc'[j] = pc[j] /\ CurTx(j)' = CurTx(j)
  BY <1>1 DEF Moves, Kept, CurTx
<1>3. CASE pc'[i] \notin OnTransaction
  BY <1>1, <1>2, <1>3 DEF OneWriter
<1>4. CASE pc[i] \in OnTransaction /\ CurTx(i)' = CurTx(i)
  BY <1>1, <1>2, <1>4 DEF OneWriter
<1>5. CASE TransactionStored(i)
  <2>1. CurTx(i)' = CurTx(i)
    BY <1>5 DEF TransactionStored, CurTx
  <2>2. \A j \in Indexers \ {i} :
           ~ (pc'[j] \in OnTransaction /\ CurTx(j)' = CurTx(i)')
    BY <1>2, <1>5, <2>1, AcceptedTxIsNew
  <2> QED
    BY <1>1, <1>2, <2>2 DEF OneWriter
<1>6. CASE Kept(i)
  BY <1>1, <1>3, <1>4, <1>6 DEF Kept, CurTx
<1>7. CASE BlockStored(i)
  BY <1>1, <1>3, <1>7 DEF BlockStored, TypeOK, OnTransaction
<1>8. CASE ReceiptFetched(i) \/ AccessListDone(i)
  BY <1>4, <1>8 DEF ReceiptFetched, AccessListDone, OnTransaction, CurTx
<1>9. CASE \/ pc'[i] \notin AfterBlock
           \/ pc'[i] \in {"CreateTransaction", "Sleep"}
  BY <1>3, <1>9 DEF AfterBlock, OnTransaction
<1> QED
  BY <1>1, <1>5, <1>6, <1>7, <1>8, <1>9 DEF Moves

LEMMA StoreInvInit == Init => StoreInv
BY TypeInvInit
   DEF Init, DefraInit, StoreInv, KnownFiled, Known, TxOnce, LogsAgree,
       Holds, OneWriter, AfterBlock, OnTransaction

LEMMA StoreInvInductive == StoreInv /\ [Next]_vars => StoreInv'
<1> SUFFICES ASSUME StoreInv, [Next]_vars PROVE StoreInv'
  OBVIOUS
<1>1. TypeInv'
  BY TypeInvInductive DEF StoreInv
<1>2. KnownFiled' /\ TxOnce' /\ LogsAgree'
  BY KnownFiledStep, TxOnceStep, LogsAgreeStep
<1>3. ASSUME NEW i \in Indexers, Step(i) \/ Crash(i)
      PROVE  OneWriter' /\ \A j \in Indexers : Holds(j)'
  BY <1>3, MovesHolds, MovesOneWriter
<1>4. ASSUME UNCHANGED poster
      PROVE  OneWriter' /\ \A j \in Indexers : Holds(j)'
  <2>1. /\ \A j \in Indexers : Kept(j)
        /\ \A j \in Indexers : pc'[j] = pc[j] /\ CurTx(j)' = CurTx(j)
    BY <1>4 DEF poster, Kept, CurTx
  <2> QED
    BY <2>1, KeptHolds DEF StoreInv, OneWriter
<1> QED
  BY <1>1, <1>2, <1>3, <1>4
     DEF StoreInv, Next, GethStep, DefraStep, vars

\* What the store holds, and what every process relies on, at every step.
THEOREM StoreInvariant == Spec => []StoreInv
BY StoreInvInit, StoreInvInductive, PTL DEF Spec

\* No two processes ever work on the receipt, access list or logs of the same
\* transaction, on however many branches it is included.
THEOREM OneWriterAlways == Spec => []OneWriter
<1>1. StoreInv => OneWriter
  BY DEF StoreInv
<1> QED
  BY <1>1, StoreInvariant, PTL

\* An abandoned request that commits late finds what it refers to.
THEOREM LateLinksAlwaysResolve == Spec => []LateLinksResolve
<1>1. StoreInv => LateLinksResolve
  BY DEF StoreInv, KnownFiled, Known, Filed, LateLinksResolve,
         Index!Indexed, Index!IndexedIn, Index!TxDoc, TxDoc
<1> QED
  BY <1>1, StoreInvariant, PTL

-----------------------------------------------------------------------------
(* The refinement.                                                         *)

\* The documents of ChainIndex are those of BlockPoster.
LEMMA SameDocuments ==
    /\ \A b : Index!BlockDoc(b) = BlockDoc(b)
    /\ \A b, t : Index!TxDoc(b, t) = TxDoc(b, t)
    /\ \A t, e : Index!AleDoc(t, e) = AleDoc(t, e)
    /\ \A b, t, c, n : Index!LogDoc(b, t, c, n) = LogDoc(b, t, c, n)
    /\ \A t, b : Index!InBlock(t, b) <=> InBlock(t, b)
BY DEF Index!BlockDoc, Index!TxDoc, Index!AleDoc, Index!LogDoc,
       Index!InBlock, BlockDoc, TxDoc, AleDoc, LogDoc, InBlock

\* Committing an acceptable document that is filed, and whose receipt agrees
\* with the logs already there, is a step of ChainIndex.
LEMMA CommitImplements ==
    ASSUME StoreInv, NEW d \in Documents, Accepts(d), Filed(d),
           docs' = docs \cup {d},
           \A e \in docs : d.type = "Log" /\ IsLogOf(e, d.transaction_id)
                              => e.blockHash = d.blockHash
    PROVE  Index!Next
<1>1. CASE d \in BlockDocs
  <2>1. PICK b \in Blocks : d = BlockDoc(b)
    BY <1>1 DEF BlockDocs, BlockDoc
  <2>2. Index!AddBlock(b)
    BY <2>1, SameDocuments DEF Index!AddBlock, Accepts
  <2> QED
    BY <2>2 DEF Index!Next
<1>2. CASE d \in TxDocs
  <2>1. PICK b \in Blocks, t \in Txs : d = TxDoc(b, t)
    BY <1>2 DEF TxDocs, TxDoc
  <2>2. BlockDoc(b) \in docs /\ InBlock(t, b)
    BY <2>1 DEF Filed, TxDoc
  <2>3. \A a \in Blocks : TxDoc(a, t) \notin docs
    BY <2>1 DEF Accepts, Clashes, UniqueHash, TxDoc
  <2>4. Index!AddTransaction(b, t)
    BY <2>1, <2>2, <2>3, SameDocuments DEF Index!AddTransaction, Index!Indexed
  <2> QED
    BY <2>4 DEF Index!Next
<1>3. CASE d \in AleDocs
  <2>1. PICK t \in Txs, e \in Entries : d = AleDoc(t, e)
    BY <1>3 DEF AleDocs, AleDoc
  <2>2. /\ \E b \in Blocks : TxDoc(b, t) \in docs
        /\ \E n \in 1..Len(AccessList[t]) : AccessList[t][n] = e
    BY <2>1 DEF Filed, AleDoc
  <2>3. Index!AddAccessListEntry(t, e)
    BY <2>1, <2>2, SameDocuments
       DEF Index!AddAccessListEntry, Index!Indexed, Accepts
  <2> QED
    BY <2>3 DEF Index!Next
<1>4. CASE d \in LogDocs
  <2>1. PICK b \in Blocks, t \in Txs, c \in Blocks, n \in Nat :
            d = LogDoc(b, t, c, n)
    BY <1>4 DEF LogDocs, LogDoc
  <2>2. /\ TxDoc(b, t) \in docs
        /\ InBlock(t, c)
        /\ n \in 1..LogCount[t]
    BY <2>1 DEF Filed, LogDoc
  <2>3. ASSUME NEW e \in docs, e.type = "Log", e.transaction_id = t
        PROVE  e.logIndex # n /\ e.blockHash = c
    <3>1. e.blockHash = c
      BY <2>1, <2>3 DEF IsLogOf, LogDoc
    <3>2. PICK a \in Blocks, m \in Nat : e = LogDoc(a, t, c, m)
      BY <2>3, <3>1
         DEF StoreInv, TypeInv, TypeOK, DefraTypeOK, Documents, BlockDocs,
             TxDocs, AleDocs, LogDocs, LogDoc
    <3>3. TxDoc(a, t) \in docs
      BY <3>2 DEF StoreInv, KnownFiled, Known, Filed, LogDoc
    <3>4. a = b
      BY <2>2, <3>3 DEF StoreInv, TxOnce
    <3>5. m # n
      BY <2>1, <2>3, <3>2, <3>4 DEF Accepts
    <3> QED
      BY <3>1, <3>2, <3>5 DEF LogDoc
  <2>4. Index!AddLog(b, t, c, n)
    BY <2>1, <2>2, <2>3, SameDocuments
       DEF Index!AddLog, Index!IndexedIn, Index!LogsOf
  <2> QED
    BY <2>2, <2>4 DEF Index!Next
<1> QED
  BY <1>1, <1>2, <1>3, <1>4 DEF Documents

LEMMA StepImplements ==
    ASSUME StoreInv, [Next]_vars
    PROVE  [Index!Next]_docs
<1>1. CASE Quiet
  BY <1>1 DEF Quiet
<1>2. ASSUME NEW d \in Documents, Commits(d)
      PROVE  Index!Next
  <2>1. Filed(d)
    BY <1>2, SendsFiled DEF Commits, StoreInv, KnownFiled, Known
  <2>2. ASSUME NEW e \in docs, d.type = "Log", IsLogOf(e, d.transaction_id)
        PROVE  e.blockHash = d.blockHash
    <3>1. d \in Known' /\ e \in Known'
      BY <1>2 DEF Commits, Known
    <3>2. d.transaction_id \in Txs
      BY <2>2 DEF Documents, BlockDocs, TxDocs, AleDocs, LogDocs
    <3> QED
      BY <2>2, <3>1, <3>2, LogsAgreeStep DEF LogsAgree, IsLogOf
  <2> QED
    BY <1>2, <2>1, <2>2, CommitImplements DEF Commits
<1> QED
  BY <1>1, <1>2, StepEffect DEF StoreInv

\* Whatever fails, is abandoned, crashes or reorganises, and however many
\* indexers write, the collections show a reader only what ChainIndex allows.
THEOREM Implements == Spec => ImplementsChainIndex
<1>1. Init => Index!Init
  BY DEF Init, DefraInit, Index!Init
<1>2. StoreInv /\ [Next]_vars => [Index!Next]_docs
  BY StepImplements
<1> QED
  BY <1>1, <1>2, StoreInvariant, PTL DEF Spec, ImplementsChainIndex, Index!Spec

-----------------------------------------------------------------------------
(* What ChainIndex promises a reader holds of the documents BlockPoster    *)
(* stores: ChainIndex's theorems, carried over along the refinement.       *)

Reader == INSTANCE ChainIndexProofs WITH index <- docs

\* Two names for each document, from two instances of ChainIndex.
LEMMA SameForReader ==
    /\ \A b : Reader!BlockDoc(b) = Index!BlockDoc(b)
    /\ \A b, t : Reader!TxDoc(b, t) = Index!TxDoc(b, t)
    /\ \A t, e : Reader!AleDoc(t, e) = Index!AleDoc(t, e)
    /\ \A b, t, c, n : Reader!LogDoc(b, t, c, n) = Index!LogDoc(b, t, c, n)
    /\ \A t, b : Reader!InBlock(t, b) <=> Index!InBlock(t, b)
BY DEF Index!BlockDoc, Index!TxDoc, Index!AleDoc, Index!LogDoc,
       Index!InBlock, Reader!BlockDoc, Reader!TxDoc, Reader!AleDoc,
       Reader!LogDoc, Reader!InBlock

\* Each action is the same.
LEMMA ReaderNext == Index!Next => Reader!Next
<1>1. \A b : Index!AddBlock(b) => Reader!AddBlock(b)
  BY SameForReader DEF Index!AddBlock, Reader!AddBlock
<1>2. \A t : Index!Indexed(t) <=> Reader!Indexed(t)
  BY SameForReader DEF Index!Indexed, Reader!Indexed
<1>3. \A b, t : Index!AddTransaction(b, t) => Reader!AddTransaction(b, t)
  BY <1>2, SameForReader DEF Index!AddTransaction, Reader!AddTransaction
<1>4. \A t, e :
        Index!AddAccessListEntry(t, e) => Reader!AddAccessListEntry(t, e)
  BY <1>2, SameForReader
     DEF Index!AddAccessListEntry, Reader!AddAccessListEntry
<1>5. \A b, t, c, n : Index!AddLog(b, t, c, n) => Reader!AddLog(b, t, c, n)
  BY SameForReader
     DEF Index!AddLog, Reader!AddLog, Index!IndexedIn, Reader!IndexedIn,
         Index!LogsOf, Reader!LogsOf
<1> QED
  BY <1>1, <1>3, <1>4, <1>5 DEF Index!Next, Reader!Next

LEMMA ReaderImplements == Spec => Reader!Spec
<1>1. Init => Reader!Init
  BY DEF Init, DefraInit, Reader!Init
<1>2. StoreInv /\ [Next]_vars => [Reader!Next]_docs
  BY ReaderNext, StepImplements
<1> QED
  BY <1>1, <1>2, StoreInvariant, PTL DEF Spec, Reader!Spec

\* However many indexers write and whatever fails, the collections hold no
\* transaction and no log twice, resolve every relation, and mix no receipts.
THEOREM ReaderPromises ==
    Spec => [](Index!StoredOnce /\ Index!LinksResolve /\ Index!OneReceipt)
<1>1. Reader!StoredOnce /\ Reader!LinksResolve /\ Reader!OneReceipt
        => Index!StoredOnce /\ Index!LinksResolve /\ Index!OneReceipt
  BY SameForReader
     DEF Index!StoredOnce, Index!LinksResolve, Index!OneReceipt,
         Index!Indexed, Index!IndexedIn,
         Reader!StoredOnce, Reader!LinksResolve, Reader!OneReceipt,
         Reader!Indexed, Reader!IndexedIn
<1>2. Reader!Spec => []Reader!StoredOnce
  BY TreeAssumption, ContentAssumption, Reader!StoredOnceAlways, PTL
     DEF Reader!StoredOnceAlways
<1>3. Reader!Spec => []Reader!LinksResolve
  BY TreeAssumption, ContentAssumption, Reader!LinksAlwaysResolve, PTL
     DEF Reader!LinksAlwaysResolve
<1>4. Reader!Spec => []Reader!OneReceipt
  BY TreeAssumption, ContentAssumption, Reader!OneReceiptAlways, PTL
     DEF Reader!OneReceiptAlways
<1> QED
  BY <1>1, <1>2, <1>3, <1>4, ReaderImplements, PTL

-----------------------------------------------------------------------------
(* NothingLostSilently, for every block tree, every content and every      *)
(* number of indexers: an induction along the nested loops of              *)
(* processTransactions, over what the loops have already passed.           *)

\* What the loops of process i have left behind them is settled.
Passed(i) ==
    /\ pc[i] \in AfterBlock =>
          \A n \in 1..Len(TxsOf[blk[i]]) :
             n < txi[i] => TransactionSettled(i, TxsOf[blk[i]][n])
    /\ pc[i] = "CreateAccessListEntry" =>
          \A n \in 1..Len(AccessList[CurTx(i)]) :
             n < k[i] => Settled(i, AleDoc(CurTx(i), AccessList[CurTx(i)][n]))
    /\ pc[i] = "CreateLog" =>
          /\ AccessListSettled(i, CurTx(i))
          /\ \A n \in 1..LogCount[CurTx(i)] :
                n < k[i] => Settled(i, LogDoc(blk[i], CurTx(i), rcpt[i], n))
    /\ pc[i] = "Sleep" => txi[i] > Len(TxsOf[blk[i]])

\* Inductive only with StoreInv, which says that the transaction in hand and
\* its block are in the store.
LossInv == StoreInv /\ \A i \in Indexers : Passed(i)

-----------------------------------------------------------------------------
(* What is settled stays settled while the block is in hand.               *)

KeepsBlock(i) == blk'[i] = blk[i] /\ errs[i] \subseteq errs'[i]

LEMMA SettledStays ==
    ASSUME StoreInv, [Next]_vars, NEW i \in Indexers, KeepsBlock(i)
    PROVE  /\ \A d : Settled(i, d) => Settled(i, d)'
           /\ \A t : AccessListSettled(i, t) => AccessListSettled(i, t)'
           /\ \A t : TransactionSettled(i, t) => TransactionSettled(i, t)'
<1>1. /\ docs \subseteq docs' /\ errs[i] \subseteq errs'[i]
      /\ blk'[i] = blk[i]
  BY StoreGrows DEF KeepsBlock
<1>2. \A d : Settled(i, d) => Settled(i, d)'
  BY <1>1 DEF Settled
<1>3. \A t : AccessListSettled(i, t) => AccessListSettled(i, t)'
  BY <1>2 DEF AccessListSettled
<1>4. \A t : LogsSettled(i, t) => LogsSettled(i, t)'
  BY <1>1, <1>2 DEF LogsSettled
<1> QED
  BY <1>1, <1>2, <1>3, <1>4 DEF TransactionSettled

\* The variables Passed speaks of, for one process.
Rests(i) == /\ pc'[i] = pc[i] /\ blk'[i] = blk[i] /\ txi'[i] = txi[i]
            /\ rcpt'[i] = rcpt[i] /\ k'[i] = k[i] /\ errs'[i] = errs[i]

LEMMA RestsPassed ==
    ASSUME StoreInv, [Next]_vars, NEW i \in Indexers, Passed(i), Rests(i)
    PROVE  Passed(i)'
<1>1. KeepsBlock(i) /\ CurTx(i)' = CurTx(i)
  BY DEF Rests, KeepsBlock, CurTx
<1> QED
  BY <1>1, SettledStays DEF Passed, Rests

\* A step of one process leaves the others' variables alone.
LEMMA OthersRest ==
    ASSUME TypeInv, NEW i \in Indexers, Step(i) \/ Crash(i),
           NEW j \in Indexers \ {i}
    PROVE  Rests(j)
<1>0. TypeOK
  BY DEF TypeInv
<1>1. CASE \/ FetchHeader(i) \/ FetchHeaderFails(i) \/ FetchBlock(i)
           \/ FetchBlockUnsupported(i) \/ FetchBlockFails(i)
  BY <1>0, <1>1
     DEF FetchHeader, FetchHeaderFails, FetchBlock, FetchBlockUnsupported,
         FetchBlockFails, Poll, Leave, Rests, TypeOK
<1>2. CASE \/ BlockStored(i) \/ BlockRetried(i) \/ BlockSkipped(i)
           \/ Backoff(i)
  BY <1>0, <1>2
     DEF BlockStored, BlockRetried, BlockSkipped, Backoff, Poll, Leave, Rests,
         TypeOK
<1>3. CASE TransactionStored(i) \/ TransactionFails(i) \/ TransactionsDone(i)
  BY <1>0, <1>3
     DEF TransactionStored, TransactionFails, TransactionsDone,
         NextTransaction, Rests, TypeOK
<1>4. CASE ReceiptFetched(i) \/ ReceiptFails(i)
  BY <1>0, <1>4
     DEF ReceiptFetched, ReceiptFails, NextTransaction, Rests, TypeOK
<1>5. CASE \/ AccessListEntryStored(i) \/ AccessListEntryFails(i)
           \/ AccessListDone(i)
  BY <1>0, <1>5
     DEF AccessListEntryStored, AccessListEntryFails, AccessListDone, Rests,
         TypeOK
<1>6. CASE LogStored(i) \/ LogFails(i) \/ LogsDone(i)
  BY <1>0, <1>6
     DEF LogStored, LogFails, LogsDone, NextTransaction, Rests, TypeOK
<1>7. CASE Wake(i) \/ Restart(i) \/ Crash(i)
  BY <1>0, <1>7 DEF Wake, Restart, Crash, Poll, Leave, Rests, TypeOK
<1> QED
  BY <1>1, <1>2, <1>3, <1>4, <1>5, <1>6, <1>7 DEF Step

-----------------------------------------------------------------------------
(* The steps of the process itself.                                        *)

\* Going on to the next transaction, with the current one settled.
LEMMA NextTransactionPassed ==
    ASSUME StoreInv, [Next]_vars, NEW i \in Indexers, Passed(i),
           pc[i] \in OnTransaction \cup {"CreateTransaction"},
           NextTransaction(i), KeepsBlock(i),
           NEW t, t = CurTx(i), TransactionSettled(i, t)'
    PROVE  Passed(i)'
<1>1. /\ pc'[i] = "CreateTransaction" /\ txi'[i] = txi[i] + 1
      /\ txi[i] \in Nat /\ blk'[i] = blk[i]
  BY DEF NextTransaction, KeepsBlock, StoreInv, TypeInv, TypeOK
<1>2. ASSUME NEW n \in 1..Len(TxsOf[blk[i]]), n < txi[i] + 1
      PROVE  TransactionSettled(i, TxsOf[blk[i]][n])'
  <2>1. CASE n = txi[i]
    BY <1>1, <2>1 DEF CurTx
  <2>2. CASE n < txi[i]
    <3>1. TransactionSettled(i, TxsOf[blk[i]][n])
      BY <2>2 DEF Passed, AfterBlock
    <3> QED
      BY <1>1, <3>1, SettledStays
  <2> QED
    BY <1>1, <1>2, <2>1, <2>2
<1> QED
  BY <1>1, <1>2 DEF Passed

\* The document a process posts is settled afterwards, stored or logged.
LEMMA StepSettles ==
    ASSUME TypeInv, NEW i \in Indexers, NEW d,
           \/ Stored(d) /\ errs' = errs
           \/ errs' = [errs EXCEPT ![i] = errs[i] \cup {d}]
    PROVE  Settled(i, d)'
BY DEF Stored, Settled, TypeInv, TypeOK

\* Each step of a process keeps what its loops have passed settled.
LEMMA StepPassed ==
    ASSUME LossInv, [Next]_vars, NEW i \in Indexers, Step(i) \/ Crash(i)
    PROVE  Passed(i)'
<1>0. /\ StoreInv /\ TypeInv /\ TypeOK /\ Passed(i) /\ Holds(i) /\ Shape(i)
  BY DEF LossInv, StoreInv, TypeInv
<1>1. CASE pc'[i] \notin AfterBlock
  BY <1>1 DEF Passed, AfterBlock, OnTransaction
<1>2. CASE \/ FetchHeader(i) \/ FetchHeaderFails(i) \/ FetchBlock(i)
           \/ FetchBlockUnsupported(i) \/ FetchBlockFails(i)
           \/ BlockRetried(i) \/ BlockSkipped(i) \/ Backoff(i)
           \/ Wake(i) \/ Restart(i) \/ Crash(i)
  <2>1. pc'[i] \in {"BlockByNumber", "GetLatestBlock", "CreateBlock",
                    "Backoff", "Down"}
    BY <1>0, <1>2
       DEF FetchHeader, FetchHeaderFails, FetchBlock, FetchBlockUnsupported,
           FetchBlockFails, BlockRetried, BlockSkipped, Backoff, Wake,
           Restart, Crash, Poll, Leave, TypeOK
  <2> QED
    BY <1>1, <2>1 DEF AfterBlock, OnTransaction
<1>3. CASE BlockStored(i)
  <2>1. pc'[i] = "CreateTransaction" /\ txi'[i] = 1
    BY <1>0, <1>3 DEF BlockStored, TypeOK
  <2> QED
    BY <2>1 DEF Passed
<1>4. CASE TransactionStored(i)
  <2>1. /\ pc[i] = "CreateTransaction" /\ pc'[i] = "GetTransactionReceipt"
        /\ KeepsBlock(i) /\ txi'[i] = txi[i] /\ blk'[i] = blk[i]
    BY <1>0, <1>4 DEF TransactionStored, KeepsBlock, TypeOK
  <2> QED
    BY <1>0, <2>1, SettledStays DEF Passed, AfterBlock
<1>5. CASE TransactionFails(i)
  <2>1. PICK t \in Txs : t = CurTx(i)
    BY <1>0, <1>5, CurTxIsTx DEF TransactionFails
  <2>2. /\ pc[i] = "CreateTransaction" /\ NextTransaction(i) /\ KeepsBlock(i)
        /\ blk' = blk /\ TxDoc(blk[i], t) \in errs'[i]
    BY <1>0, <1>5, <2>1
       DEF TransactionFails, KeepsBlock, TypeOK, TxDocAt
  <2>3. TransactionSettled(i, t)'
    BY <2>2 DEF TransactionSettled
  <2> QED
    BY <1>0, <2>1, <2>2, <2>3, NextTransactionPassed
<1>6. CASE TransactionsDone(i)
  <2>1. /\ pc[i] = "CreateTransaction" /\ pc'[i] = "Sleep"
        /\ KeepsBlock(i) /\ txi'[i] = txi[i] /\ blk'[i] = blk[i]
        /\ txi[i] > Len(TxsOf[blk[i]])
    BY <1>0, <1>6, Contents
       DEF TransactionsDone, MoreTransactions, KeepsBlock, TypeOK, Shape,
           HasBlock, Labels, Posting
  <2> QED
    BY <1>0, <2>1, SettledStays DEF Passed, AfterBlock
<1>7. CASE ReceiptFetched(i)
  <2>1. /\ pc[i] = "GetTransactionReceipt"
        /\ pc'[i] = "CreateAccessListEntry" /\ k'[i] = 1
        /\ KeepsBlock(i) /\ txi'[i] = txi[i] /\ blk'[i] = blk[i]
    BY <1>0, <1>7 DEF ReceiptFetched, KeepsBlock, TypeOK
  <2>2. pc[i] \in AfterBlock
    BY <2>1 DEF AfterBlock, OnTransaction
  <2> QED
    BY <1>0, <2>1, <2>2, SettledStays DEF Passed
<1>8. CASE ReceiptFails(i)
  <2>1. PICK t \in Txs : t = CurTx(i)
    BY <1>0, <1>8, CurTxIsTx DEF ReceiptFails, OnTransaction
  <2>2. /\ pc[i] = "GetTransactionReceipt" /\ NextTransaction(i)
        /\ KeepsBlock(i) /\ blk' = blk /\ docs' = docs
        /\ ReceiptOf(t) \in errs'[i]
    BY <1>0, <1>8, <2>1 DEF ReceiptFails, KeepsBlock, TypeOK
  <2>3. TxDoc(blk[i], t) \in docs
    BY <1>0, <2>1, <2>2 DEF Holds, OnTransaction, TxDocAt
  <2>4. TransactionSettled(i, t)'
    BY <2>2, <2>3 DEF TransactionSettled
  <2> QED
    BY <1>0, <2>1, <2>2, <2>4, NextTransactionPassed DEF OnTransaction
<1>9. CASE AccessListEntryStored(i) \/ AccessListEntryFails(i)
  <2>1. PICK t \in Txs : t = CurTx(i)
    BY <1>0, <1>9, CurTxIsTx
       DEF AccessListEntryStored, AccessListEntryFails, OnTransaction
  <2>2. /\ pc[i] = "CreateAccessListEntry" /\ pc' = pc
        /\ blk' = blk /\ txi' = txi /\ k'[i] = k[i] + 1 /\ k[i] \in Nat
        /\ KeepsBlock(i)
        /\ CurTx(i)' = t
    BY <1>0, <1>9, <2>1
       DEF AccessListEntryStored, AccessListEntryFails, KeepsBlock, TypeOK,
           CurTx
  <2>3. PICK d : d = AleDoc(t, AccessList[t][k[i]])
    OBVIOUS
  <2>4. Settled(i, d)'
    BY <1>0, <1>9, <2>1, <2>3, StepSettles
       DEF AccessListEntryStored, AccessListEntryFails, AleDocAt
  <2>5. ASSUME NEW n \in 1..Len(AccessList[t]), n < k[i] + 1
        PROVE  Settled(i, AleDoc(t, AccessList[t][n]))'
    <3>1. CASE n = k[i]
      BY <2>3, <2>4, <3>1
    <3>2. CASE n < k[i]
      BY <1>0, <2>1, <2>2, <3>2, SettledStays DEF Passed
    <3> QED
      BY <2>2, <2>5, <3>1, <3>2
  <2>6. pc[i] \in AfterBlock
    BY <2>2 DEF AfterBlock, OnTransaction
  <2> QED
    BY <1>0, <2>2, <2>5, <2>6, SettledStays DEF Passed
<1>10. CASE AccessListDone(i)
  <2>1. PICK t \in Txs : t = CurTx(i)
    BY <1>0, <1>10, CurTxIsTx DEF AccessListDone, OnTransaction
  <2>2. /\ pc[i] = "CreateAccessListEntry" /\ pc'[i] = "CreateLog"
        /\ blk' = blk /\ txi' = txi /\ k'[i] = 1 /\ KeepsBlock(i)
        /\ CurTx(i)' = t /\ k[i] \in Nat /\ k[i] > Len(AccessList[t])
    BY <1>0, <1>10, <2>1, Contents
       DEF AccessListDone, MoreEntries, KeepsBlock, TypeOK, CurTx
  <2>3. AccessListSettled(i, t)
    BY <1>0, <2>1, <2>2, Contents DEF Passed, AccessListSettled
  <2>4. AccessListSettled(i, t)'
    BY <1>0, <2>2, <2>3, SettledStays
  <2>5. pc[i] \in AfterBlock
    BY <2>2 DEF AfterBlock, OnTransaction
  <2> QED
    BY <1>0, <2>2, <2>4, <2>5, SettledStays DEF Passed
<1>11. CASE LogStored(i) \/ LogFails(i)
  <2>1. PICK t \in Txs : t = CurTx(i)
    BY <1>0, <1>11, CurTxIsTx DEF LogStored, LogFails, OnTransaction
  <2>2. /\ pc[i] = "CreateLog" /\ pc' = pc
        /\ blk' = blk /\ txi' = txi /\ rcpt' = rcpt
        /\ k'[i] = k[i] + 1 /\ k[i] \in Nat
        /\ KeepsBlock(i)
        /\ CurTx(i)' = t
    BY <1>0, <1>11, <2>1 DEF LogStored, LogFails, KeepsBlock, TypeOK, CurTx
  <2>3. PICK d : d = LogDoc(blk[i], t, rcpt[i], k[i])
    OBVIOUS
  <2>4. Settled(i, d)'
    BY <1>0, <1>11, <2>1, <2>3, StepSettles DEF LogStored, LogFails, LogDocAt
  <2>5. ASSUME NEW n \in 1..LogCount[t], n < k[i] + 1
        PROVE  Settled(i, LogDoc(blk[i], t, rcpt[i], n))'
    <3>1. CASE n = k[i]
      BY <2>2, <2>3, <2>4, <3>1
    <3>2. CASE n < k[i]
      <4>1. PICK e : e = LogDoc(blk[i], t, rcpt[i], n)
        OBVIOUS
      <4>2. Settled(i, e)
        BY <1>0, <2>1, <2>2, <3>2, <4>1 DEF Passed
      <4> QED
        BY <1>0, <2>2, <4>1, <4>2, SettledStays
    <3> QED
      BY <1>0, <2>2, <2>5, <3>1, <3>2, Contents
  <2>6. pc[i] \in AfterBlock /\ AccessListSettled(i, t)'
    BY <1>0, <2>1, <2>2, SettledStays DEF Passed, AfterBlock, OnTransaction
  <2> QED
    BY <1>0, <2>2, <2>5, <2>6, SettledStays DEF Passed
<1>12. CASE LogsDone(i)
  <2>1. PICK t \in Txs : t = CurTx(i)
    BY <1>0, <1>12, CurTxIsTx DEF LogsDone, OnTransaction
  <2>2. /\ pc[i] = "CreateLog" /\ NextTransaction(i) /\ KeepsBlock(i)
        /\ k[i] > LogCount[t] /\ rcpt[i] \in Blocks
    BY <1>0, <1>12, <2>1, Contents
       DEF LogsDone, MoreLogs, KeepsBlock, TypeOK, Shape, OnReceipt
  <2>3. TxDoc(blk[i], t) \in docs
    BY <1>0, <2>1, <2>2 DEF Holds, OnTransaction, TxDocAt
  <2>4. AccessListSettled(i, t) /\ LogsSettled(i, t)
    <3>1. \A n \in 1..LogCount[t] :
             Settled(i, LogDoc(blk[i], t, rcpt[i], n))
      <4>1. LogCount[t] \in Nat /\ k[i] \in Nat
        BY <1>0, Contents DEF TypeOK
      <4>2. \A n \in 1..LogCount[t] : n < k[i]
        BY <2>2, <4>1
      <4> QED
        BY <1>0, <2>1, <2>2, <4>2 DEF Passed
    <3>2. AccessListSettled(i, t)
      BY <1>0, <2>1, <2>2 DEF Passed
    <3> QED
      BY <2>2, <3>1, <3>2 DEF LogsSettled
  <2>5. TransactionSettled(i, t)
    BY <2>3, <2>4 DEF TransactionSettled
  <2>6. TransactionSettled(i, t)'
    BY <1>0, <2>2, <2>5, SettledStays
  <2> QED
    BY <1>0, <2>1, <2>2, <2>6, NextTransactionPassed DEF OnTransaction
<1> QED
  BY <1>2, <1>3, <1>4, <1>5, <1>6, <1>7, <1>8, <1>9, <1>10, <1>11, <1>12
     DEF Step

-----------------------------------------------------------------------------
LEMMA LossInvInit == Init => LossInv
BY StoreInvInit DEF Init, LossInv, Passed, AfterBlock, OnTransaction

LEMMA LossInvInductive == LossInv /\ [Next]_vars => LossInv'
<1> SUFFICES ASSUME LossInv, [Next]_vars PROVE LossInv'
  OBVIOUS
<1>1. StoreInv /\ TypeInv /\ StoreInv'
  BY StoreInvInductive DEF LossInv, StoreInv
<1>2. ASSUME NEW i \in Indexers, Step(i) \/ Crash(i)
      PROVE  \A j \in Indexers : Passed(j)'
  <2>1. ASSUME NEW j \in Indexers \ {i} PROVE Passed(j)'
    BY <1>1, <1>2, OthersRest, RestsPassed DEF LossInv
  <2>2. Passed(i)'
    BY <1>2, StepPassed
  <2> QED
    BY <2>1, <2>2
<1>3. ASSUME UNCHANGED poster
      PROVE  \A j \in Indexers : Passed(j)'
  <2>1. \A j \in Indexers : Rests(j)
    BY <1>3 DEF poster, Rests
  <2> QED
    BY <1>1, <2>1, RestsPassed DEF LossInv
<1> QED
  BY <1>1, <1>2, <1>3 DEF LossInv, Next, GethStep, DefraStep, vars

\* When a block is reported processed, every part of it is in the store or
\* named by a logged failure, for blocks of any size.
THEOREM NothingEverLostSilently == Spec => []NothingLostSilently
<1>1. LossInv => NothingLostSilently
  <2> SUFFICES ASSUME LossInv, NEW i \in Indexers, pc[i] = "Sleep"
               PROVE  /\ BlockDoc(blk[i]) \in docs
                      /\ \A n \in 1..Len(TxsOf[blk[i]]) :
                            TransactionSettled(i, TxsOf[blk[i]][n])
    BY DEF NothingLostSilently
  <2>1. BlockDoc(blk[i]) \in docs
    BY DEF LossInv, StoreInv, Holds, AfterBlock
  <2>2. Len(TxsOf[blk[i]]) \in Nat /\ txi[i] \in Nat
    BY Contents
       DEF LossInv, StoreInv, TypeInv, TypeOK, Shape, HasBlock, Labels, Posting
  <2>3. ASSUME NEW n \in 1..Len(TxsOf[blk[i]])
        PROVE  TransactionSettled(i, TxsOf[blk[i]][n])
    BY <2>2, <2>3 DEF LossInv, Passed, AfterBlock
  <2> QED
    BY <2>1, <2>3
<1> QED
  BY <1>1, LossInvInit, LossInvInductive, PTL DEF Spec
=============================================================================
