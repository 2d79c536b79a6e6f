--------------------------- MODULE IndexerProofs ---------------------------
(***************************************************************************)
(* Proofs about BlockPoster for every block tree, every set of             *)
(* transactions and every number of indexers.                              *)
(***************************************************************************)
EXTENDS IndexerProperties, TLAPS

\* Which local variables are meaningful at which call.
Shape(i) ==
    /\ pc[i] \in HasBlock => blk[i] \in Blocks
    /\ pc[i] = "Backoff" => attempts[i] < TotalRetryAttempts
    /\ pc[i] \in OnTransaction \cup {"CreateTransaction", "Sleep"} =>
          txi[i] >= 1
    /\ pc[i] \in OnTransaction => txi[i] <= Len(TxsOf[blk[i]])
    /\ pc[i] \in OnReceipt =>
          rcpt[i] \in Blocks /\ InBlock(CurTx(i), rcpt[i]) /\ k[i] >= 1

\* TypeOK is inductive only together with Shape.
TypeInv == TypeOK /\ \A i \in Indexers : Shape(i)

-----------------------------------------------------------------------------
(* Lemmas on the operators.                                                *)

\* A failed post is retried only while attempts are left.
LEMMA RetryLeavesAttempts ==
    \A n \in Nat : RetryDecision(CreateBlockFailed, n) = "retry"
                      => n < TotalRetryAttempts
BY DEF RetryDecision

\* Each constructor builds a document of its collection.
LEMMA DocumentTypes ==
    /\ \A b \in Blocks : BlockDoc(b) \in Documents
    /\ \A b \in Blocks, t \in Txs : TxDoc(b, t) \in Documents
    /\ \A t \in Txs, e \in Entries : AleDoc(t, e) \in Documents
    /\ \A b \in Blocks, t \in Txs, c \in Blocks, n \in Nat :
          LogDoc(b, t, c, n) \in Documents
BY DEF Documents, BlockDocs, TxDocs, AleDocs, LogDocs, BlockDoc, TxDoc,
       AleDoc, LogDoc

\* The transaction at a position of a block is one, and so for entries.
LEMMA Contents ==
    /\ \A b \in Blocks : \A n \in 1..Len(TxsOf[b]) : TxsOf[b][n] \in Txs
    /\ \A t \in Txs : \A n \in 1..Len(AccessList[t]) :
          AccessList[t][n] \in Entries
    /\ \A b \in Blocks : Len(TxsOf[b]) \in Nat
    /\ \A t \in Txs : Len(AccessList[t]) \in Nat /\ LogCount[t] \in Nat
BY ContentAssumption

\* A process past create_Transaction holds a transaction of its block.
LEMMA CurTxIsTx ==
    ASSUME TypeInv, NEW i \in Indexers,
           \/ pc[i] \in OnTransaction
           \/ pc[i] = "CreateTransaction" /\ MoreTransactions(i)
    PROVE  /\ blk[i] \in Blocks
           /\ txi[i] \in 1..Len(TxsOf[blk[i]])
           /\ CurTx(i) \in Txs
           /\ InBlock(CurTx(i), blk[i])
<1>1. blk[i] \in Blocks
  BY DEF TypeInv, TypeOK, Shape, HasBlock, OnTransaction, Labels, Posting
<1>2. txi[i] \in 1..Len(TxsOf[blk[i]])
  BY <1>1, Contents DEF TypeInv, TypeOK, Shape, OnTransaction,
                        MoreTransactions
<1> QED
  BY <1>1, <1>2, Contents DEF CurTx, InBlock

\* What a process at a posting label sends is a document.
LEMMA SentIsDocument ==
    ASSUME TypeInv, NEW i \in Indexers
    PROVE  /\ pc[i] = "CreateBlock" => BlockDoc(blk[i]) \in Documents
           /\ pc[i] = "CreateTransaction" /\ MoreTransactions(i)
                 => TxDocAt(i) \in Documents
           /\ pc[i] = "CreateAccessListEntry" /\ MoreEntries(i)
                 => AleDocAt(i) \in Documents
           /\ pc[i] = "CreateLog" => LogDocAt(i) \in Documents
<1>1. pc[i] = "CreateBlock" => BlockDoc(blk[i]) \in Documents
  BY DocumentTypes DEF TypeInv, Shape, HasBlock, Labels, Posting
<1>2. pc[i] = "CreateTransaction" /\ MoreTransactions(i)
         => TxDocAt(i) \in Documents
  BY CurTxIsTx, DocumentTypes DEF TxDocAt
<1>3. ASSUME pc[i] = "CreateAccessListEntry", MoreEntries(i)
      PROVE  AleDocAt(i) \in Documents
  <2>1. CurTx(i) \in Txs /\ k[i] \in 1..Len(AccessList[CurTx(i)])
    BY <1>3, CurTxIsTx, Contents
       DEF MoreEntries, TypeInv, TypeOK, Shape, OnReceipt, OnTransaction
  <2> QED
    BY <2>1, Contents, DocumentTypes DEF AleDocAt
<1>4. ASSUME pc[i] = "CreateLog"
      PROVE  LogDocAt(i) \in Documents
  <2>1. /\ blk[i] \in Blocks /\ CurTx(i) \in Txs
        /\ rcpt[i] \in Blocks /\ k[i] \in Nat
    BY <1>4, CurTxIsTx DEF TypeInv, TypeOK, Shape, OnReceipt, OnTransaction
  <2> QED
    BY <2>1, DocumentTypes DEF LogDocAt
<1> QED
  BY <1>1, <1>2, <1>3, <1>4

\* Every step keeps the types and the shape.
LEMMA TypeInvInductive == TypeInv /\ [Next]_vars => TypeInv'
<1> SUFFICES ASSUME TypeInv, [Next]_vars PROVE TypeInv'
  OBVIOUS
<1>0. TypeOK /\ \A j \in Indexers : Shape(j)
  BY DEF TypeInv
<1>1. ASSUME NEW i \in Indexers, Step(i)
      PROVE  TypeInv'
  <2>1. CASE FetchHeader(i)
    <3>1. \A h \in canon : Number[h] \in Nat
      BY <1>0, <2>1, TreeAssumption DEF TypeOK, GethTypeOK
    <3>2. TypeOK'
      BY <1>0, <2>1, <3>1
         DEF FetchHeader, TypeOK, GethTypeOK, DefraTypeOK, Labels, Posting,
             FetchRetries, TotalRetryAttempts, Reports
    <3>3. Shape(i)'
      BY <1>0, <2>1, <3>1
         DEF FetchHeader, TypeOK, Shape, Labels, Posting, HasBlock,
             OnTransaction, OnReceipt, CurTx
    <3>4. ASSUME NEW j \in Indexers \ {i} PROVE Shape(j)'
      BY <1>0, <2>1
         DEF FetchHeader, TypeOK, Shape, Labels, Posting, HasBlock,
             OnTransaction, OnReceipt, CurTx
    <3> QED
      BY <3>2, <3>3, <3>4 DEF TypeInv
  <2>2. CASE FetchHeaderFails(i)
    <3>1. TypeOK'
      BY <1>0, <2>2
         DEF FetchHeaderFails, Poll, Leave, TypeOK, GethTypeOK, DefraTypeOK,
             Labels, Posting, FetchRetries, TotalRetryAttempts, Reports
    <3>2. Shape(i)'
      BY <1>0, <2>2
         DEF FetchHeaderFails, Poll, Leave, TypeOK, Shape, Labels, Posting,
             HasBlock, OnTransaction, OnReceipt, CurTx
    <3>3. ASSUME NEW j \in Indexers \ {i} PROVE Shape(j)'
      BY <1>0, <2>2
         DEF FetchHeaderFails, Poll, Leave, TypeOK, Shape, Labels, Posting,
             HasBlock, OnTransaction, OnReceipt, CurTx
    <3> QED
      BY <3>1, <3>2, <3>3 DEF TypeInv
  <2>3. CASE FetchBlock(i)
    <3>1. CanonicalAt(hdr[i]) \subseteq Blocks
      BY <1>0, <2>3 DEF CanonicalAt, TypeOK, GethTypeOK
    <3>2. TypeOK'
      BY <1>0, <2>3, <3>1
         DEF FetchBlock, TypeOK, GethTypeOK, DefraTypeOK, Labels, Posting,
             FetchRetries, TotalRetryAttempts, Reports
    <3>3. Shape(i)'
      BY <1>0, <2>3, <3>1
         DEF FetchBlock, TypeOK, Shape, Labels, Posting, HasBlock,
             OnTransaction, OnReceipt, CurTx
    <3>4. ASSUME NEW j \in Indexers \ {i} PROVE Shape(j)'
      BY <1>0, <2>3
         DEF FetchBlock, TypeOK, Shape, Labels, Posting, HasBlock,
             OnTransaction, OnReceipt, CurTx
    <3> QED
      BY <3>2, <3>3, <3>4 DEF TypeInv
  <2>4. CASE FetchBlockUnsupported(i)
    <3>1. PICK b \in canon : Number[b] = hdr[i] /\ b \in Unsupported
      BY <2>4 DEF FetchBlockUnsupported, CanonicalAt
    <3>2. Parent[b] \in Blocks /\ Number[b] = Number[Parent[b]] + 1
      BY <3>1, TreeAssumption
    <3>3. Number[Parent[b]] \in Nat
      BY <3>2, TreeAssumption
    <3>4. hdr[i] - 1 \in Nat /\ retries[i] + 1 \in 0..FetchRetries - 1
      BY <1>0, <2>4, <3>1, <3>2, <3>3
         DEF FetchBlockUnsupported, StepsBack, TypeOK, FetchRetries
    <3>5. TypeOK'
      BY <1>0, <2>4, <3>4
         DEF FetchBlockUnsupported, TypeOK, GethTypeOK, DefraTypeOK, Labels,
             Posting, FetchRetries, TotalRetryAttempts, Reports
    <3>6. Shape(i)'
      BY <1>0, <2>4, <3>4
         DEF FetchBlockUnsupported, TypeOK, Shape, Labels, Posting, HasBlock,
             OnTransaction, OnReceipt, CurTx, FetchRetries
    <3>7. ASSUME NEW j \in Indexers \ {i} PROVE Shape(j)'
      BY <1>0, <2>4
         DEF FetchBlockUnsupported, TypeOK, Shape, Labels, Posting, HasBlock,
             OnTransaction, OnReceipt, CurTx
    <3> QED
      BY <3>5, <3>6, <3>7 DEF TypeInv
  <2>5. CASE FetchBlockFails(i)
    <3>1. TypeOK'
      BY <1>0, <2>5
         DEF FetchBlockFails, Poll, Leave, TypeOK, GethTypeOK, DefraTypeOK,
             Labels, Posting, FetchRetries, TotalRetryAttempts, Reports
    <3>2. Shape(i)'
      BY <1>0, <2>5
         DEF FetchBlockFails, Poll, Leave, TypeOK, Shape, Labels, Posting,
             HasBlock, OnTransaction, OnReceipt, CurTx
    <3>3. ASSUME NEW j \in Indexers \ {i} PROVE Shape(j)'
      BY <1>0, <2>5
         DEF FetchBlockFails, Poll, Leave, TypeOK, Shape, Labels, Posting,
             HasBlock, OnTransaction, OnReceipt, CurTx
    <3> QED
      BY <3>1, <3>2, <3>3 DEF TypeInv
  <2>6. CASE BlockStored(i)
    <3>1. BlockDoc(blk[i]) \in Documents
      BY <1>0, <2>6, SentIsDocument DEF BlockStored
    <3>2. TypeOK'
      BY <1>0, <2>6, <3>1
         DEF BlockStored, Stored, TypeOK, GethTypeOK, DefraTypeOK, Labels,
             Posting, FetchRetries, TotalRetryAttempts, Reports
    <3>3. /\ pc[i] = "CreateBlock"
          /\ pc'[i] = "CreateTransaction" /\ blk'[i] = blk[i]
          /\ txi'[i] = 1
      BY <1>0, <2>6, <3>1
         DEF BlockStored, Stored, TypeOK, Shape, OnTransaction, OnReceipt
    <3>4. Shape(i)'
      BY <1>0, <3>3
         DEF Shape, Labels, Posting, HasBlock, OnTransaction, OnReceipt, CurTx
    <3>5. ASSUME NEW j \in Indexers \ {i} PROVE Shape(j)'
      BY <1>0, <2>6
         DEF BlockStored, Stored, TypeOK, Shape, Labels, Posting, HasBlock,
             OnTransaction, OnReceipt, CurTx
    <3> QED
      BY <3>2, <3>4, <3>5 DEF TypeInv
  <2>7. CASE BlockRetried(i)
    <3>1. BlockDoc(blk[i]) \in Documents /\ attempts[i] < TotalRetryAttempts
      BY <1>0, <2>7, SentIsDocument, RetryLeavesAttempts
         DEF BlockRetried, TypeOK, TotalRetryAttempts
    <3>2. TypeOK'
      BY <1>0, <2>7, <3>1
         DEF BlockRetried, PostFails, Abandoned, TypeOK, GethTypeOK,
             DefraTypeOK, Labels, Posting, FetchRetries, TotalRetryAttempts,
             Reports
    <3>3. Shape(i)'
      BY <1>0, <2>7, <3>1
         DEF BlockRetried, PostFails, Abandoned, TypeOK, Shape, Labels,
             Posting, HasBlock, OnTransaction, OnReceipt, CurTx
    <3>4. ASSUME NEW j \in Indexers \ {i} PROVE Shape(j)'
      BY <1>0, <2>7
         DEF BlockRetried, PostFails, Abandoned, TypeOK, Shape, Labels,
             Posting, HasBlock, OnTransaction, OnReceipt, CurTx
    <3> QED
      BY <3>2, <3>3, <3>4 DEF TypeInv
  <2>8. CASE BlockSkipped(i)
    <3>1. BlockDoc(blk[i]) \in Documents
      BY <1>0, <2>8, SentIsDocument DEF BlockSkipped
    <3>2. TypeOK'
      BY <1>0, <2>8, <3>1
         DEF BlockSkipped, PostFails, Abandoned, Poll, Leave, TypeOK,
             GethTypeOK, DefraTypeOK, Labels, Posting, FetchRetries,
             TotalRetryAttempts, Reports
    <3>3. Shape(i)'
      BY <1>0, <2>8, <3>1
         DEF BlockSkipped, PostFails, Abandoned, Poll, Leave, TypeOK, Shape,
             Labels, Posting, HasBlock, OnTransaction, OnReceipt, CurTx
    <3>4. ASSUME NEW j \in Indexers \ {i} PROVE Shape(j)'
      BY <1>0, <2>8
         DEF BlockSkipped, PostFails, Abandoned, Poll, Leave, TypeOK, Shape,
             Labels, Posting, HasBlock, OnTransaction, OnReceipt, CurTx
    <3> QED
      BY <3>2, <3>3, <3>4 DEF TypeInv
  <2>9. CASE Backoff(i)
    <3>1. attempts[i] < TotalRetryAttempts
      BY <1>0, <2>9 DEF Backoff, Shape
    <3>2. attempts[i] + 1 \in 0..TotalRetryAttempts
      BY <1>0, <2>9, <3>1 DEF Backoff, TypeOK, TotalRetryAttempts
    <3>3. TypeOK'
      BY <1>0, <2>9, <3>2
         DEF Backoff, TypeOK, GethTypeOK, DefraTypeOK, Labels, Posting,
             FetchRetries, TotalRetryAttempts, Reports
    <3>4. Shape(i)'
      BY <1>0, <2>9, <3>2
         DEF Backoff, TypeOK, Shape, Labels, Posting, HasBlock, OnTransaction,
             OnReceipt, CurTx
    <3>5. ASSUME NEW j \in Indexers \ {i} PROVE Shape(j)'
      BY <1>0, <2>9
         DEF Backoff, TypeOK, Shape, Labels, Posting, HasBlock, OnTransaction,
             OnReceipt, CurTx
    <3> QED
      BY <3>3, <3>4, <3>5 DEF TypeInv
  <2>10. CASE TransactionStored(i)
    <3>1. TxDocAt(i) \in Documents
      BY <1>0, <2>10, SentIsDocument DEF TransactionStored
    <3>2. TypeOK'
      BY <1>0, <2>10, <3>1
         DEF TransactionStored, Stored, MoreTransactions, TypeOK, GethTypeOK,
             DefraTypeOK, Labels, Posting, FetchRetries, TotalRetryAttempts,
             Reports
    <3>3. Shape(i)'
      BY <1>0, <2>10, <3>1
         DEF TransactionStored, Stored, MoreTransactions, TypeOK, Shape,
             Labels, Posting, HasBlock, OnTransaction, OnReceipt, CurTx
    <3>4. ASSUME NEW j \in Indexers \ {i} PROVE Shape(j)'
      BY <1>0, <2>10
         DEF TransactionStored, Stored, MoreTransactions, TypeOK, Shape,
             Labels, Posting, HasBlock, OnTransaction, OnReceipt, CurTx
    <3> QED
      BY <3>2, <3>3, <3>4 DEF TypeInv
  <2>11. CASE TransactionFails(i)
    <3>1. TxDocAt(i) \in Documents
      BY <1>0, <2>11, SentIsDocument DEF TransactionFails
    <3>2. TypeOK'
      BY <1>0, <2>11, <3>1
         DEF TransactionFails, PostFails, Abandoned, NextTransaction, TypeOK,
             GethTypeOK, DefraTypeOK, Labels, Posting, FetchRetries,
             TotalRetryAttempts, Reports
    <3>3. /\ txi[i] \in Nat /\ pc[i] = "CreateTransaction"
          /\ pc'[i] = "CreateTransaction" /\ blk'[i] = blk[i]
          /\ txi'[i] = txi[i] + 1 /\ txi[i] >= 1
      BY <1>0, <2>11, <3>1
         DEF TransactionFails, PostFails, Abandoned, NextTransaction, TypeOK,
             Shape, OnTransaction, OnReceipt
    <3>4. Shape(i)'
      BY <1>0, <3>3
         DEF Shape, Labels, Posting, HasBlock, OnTransaction, OnReceipt, CurTx
    <3>5. ASSUME NEW j \in Indexers \ {i} PROVE Shape(j)'
      BY <1>0, <2>11
         DEF TransactionFails, PostFails, Abandoned, NextTransaction, TypeOK,
             Shape, Labels, Posting, HasBlock, OnTransaction, OnReceipt, CurTx
    <3> QED
      BY <3>2, <3>4, <3>5 DEF TypeInv
  <2>12. CASE TransactionsDone(i)
    <3>1. TypeOK'
      BY <1>0, <2>12
         DEF TransactionsDone, TypeOK, GethTypeOK, DefraTypeOK, Labels,
             Posting, FetchRetries, TotalRetryAttempts, Reports
    <3>2. Shape(i)'
      BY <1>0, <2>12
         DEF TransactionsDone, TypeOK, Shape, Labels, Posting, HasBlock,
             OnTransaction, OnReceipt, CurTx
    <3>3. ASSUME NEW j \in Indexers \ {i} PROVE Shape(j)'
      BY <1>0, <2>12
         DEF TransactionsDone, TypeOK, Shape, Labels, Posting, HasBlock,
             OnTransaction, OnReceipt, CurTx
    <3> QED
      BY <3>1, <3>2, <3>3 DEF TypeInv
  <2>13. CASE ReceiptFetched(i)
    <3>1. \A c \in ReceiptBlocks(CurTx(i)) :
             c \in Blocks /\ InBlock(CurTx(i), c)
      BY <1>0, <2>13 DEF ReceiptBlocks, TypeOK, GethTypeOK
    <3>2. TypeOK'
      BY <1>0, <2>13, <3>1
         DEF ReceiptFetched, TypeOK, GethTypeOK, DefraTypeOK, Labels, Posting,
             FetchRetries, TotalRetryAttempts, Reports
    <3>3. /\ pc[i] = "GetTransactionReceipt"
          /\ pc'[i] = "CreateAccessListEntry" /\ k'[i] = 1
          /\ rcpt'[i] \in Blocks /\ InBlock(CurTx(i), rcpt'[i])
          /\ blk'[i] = blk[i] /\ txi'[i] = txi[i]
      BY <1>0, <2>13, <3>1
         DEF ReceiptFetched, TypeOK, Shape, OnTransaction, OnReceipt
    <3>4. Shape(i)'
      BY <1>0, <3>3
         DEF Shape, Labels, Posting, HasBlock, OnTransaction, OnReceipt, CurTx
    <3>5. ASSUME NEW j \in Indexers \ {i} PROVE Shape(j)'
      BY <1>0, <2>13
         DEF ReceiptFetched, TypeOK, Shape, Labels, Posting, HasBlock,
             OnTransaction, OnReceipt, CurTx
    <3> QED
      BY <3>2, <3>4, <3>5 DEF TypeInv
  <2>14. CASE ReceiptFails(i)
    <3>1. ReceiptOf(CurTx(i)) \in Reports
      BY <1>0, <2>14, CurTxIsTx
         DEF ReceiptFails, ReceiptOf, Reports, OnTransaction
    <3>2. TypeOK'
      BY <1>0, <2>14, <3>1
         DEF ReceiptFails, NextTransaction, TypeOK, GethTypeOK, DefraTypeOK,
             Labels, Posting, FetchRetries, TotalRetryAttempts, Reports
    <3>3. /\ txi[i] \in Nat /\ pc[i] = "GetTransactionReceipt"
          /\ pc'[i] = "CreateTransaction" /\ blk'[i] = blk[i]
          /\ txi'[i] = txi[i] + 1 /\ txi[i] >= 1
      BY <1>0, <2>14, <3>1
         DEF ReceiptFails, NextTransaction, TypeOK, Shape, OnTransaction,
             OnReceipt
    <3>4. Shape(i)'
      BY <1>0, <3>3
         DEF Shape, Labels, Posting, HasBlock, OnTransaction, OnReceipt, CurTx
    <3>5. ASSUME NEW j \in Indexers \ {i} PROVE Shape(j)'
      BY <1>0, <2>14
         DEF ReceiptFails, NextTransaction, TypeOK, Shape, Labels, Posting,
             HasBlock, OnTransaction, OnReceipt, CurTx
    <3> QED
      BY <3>2, <3>4, <3>5 DEF TypeInv
  <2>15. CASE AccessListEntryStored(i)
    <3>1. AleDocAt(i) \in Documents
      BY <1>0, <2>15, SentIsDocument DEF AccessListEntryStored
    <3>2. TypeOK'
      BY <1>0, <2>15, <3>1
         DEF AccessListEntryStored, Stored, TypeOK, GethTypeOK, DefraTypeOK,
             Labels, Posting, FetchRetries, TotalRetryAttempts, Reports
    <3>3. /\ k[i] \in Nat /\ pc[i] = "CreateAccessListEntry"
          /\ pc'[i] = pc[i] /\ k'[i] = k[i] + 1 /\ k[i] >= 1
          /\ blk'[i] = blk[i] /\ txi'[i] = txi[i] /\ rcpt'[i] = rcpt[i]
      BY <1>0, <2>15, <3>1
         DEF AccessListEntryStored, Stored, TypeOK, Shape, OnTransaction,
             OnReceipt
    <3>4. Shape(i)'
      BY <1>0, <3>3
         DEF Shape, Labels, Posting, HasBlock, OnTransaction, OnReceipt, CurTx
    <3>5. ASSUME NEW j \in Indexers \ {i} PROVE Shape(j)'
      BY <1>0, <2>15
         DEF AccessListEntryStored, Stored, TypeOK, Shape, Labels, Posting,
             HasBlock, OnTransaction, OnReceipt, CurTx
    <3> QED
      BY <3>2, <3>4, <3>5 DEF TypeInv
  <2>16. CASE AccessListEntryFails(i)
    <3>1. AleDocAt(i) \in Documents
      BY <1>0, <2>16, SentIsDocument DEF AccessListEntryFails
    <3>2. TypeOK'
      BY <1>0, <2>16, <3>1
         DEF AccessListEntryFails, PostFails, Abandoned, TypeOK, GethTypeOK,
             DefraTypeOK, Labels, Posting, FetchRetries, TotalRetryAttempts,
             Reports
    <3>3. /\ k[i] \in Nat /\ pc[i] = "CreateAccessListEntry"
          /\ pc'[i] = pc[i] /\ k'[i] = k[i] + 1 /\ k[i] >= 1
          /\ blk'[i] = blk[i] /\ txi'[i] = txi[i] /\ rcpt'[i] = rcpt[i]
      BY <1>0, <2>16, <3>1
         DEF AccessListEntryFails, PostFails, Abandoned, TypeOK, Shape,
             OnTransaction, OnReceipt
    <3>4. Shape(i)'
      BY <1>0, <3>3
         DEF Shape, Labels, Posting, HasBlock, OnTransaction, OnReceipt, CurTx
    <3>5. ASSUME NEW j \in Indexers \ {i} PROVE Shape(j)'
      BY <1>0, <2>16
         DEF AccessListEntryFails, PostFails, Abandoned, TypeOK, Shape, Labels,
             Posting, HasBlock, OnTransaction, OnReceipt, CurTx
    <3> QED
      BY <3>2, <3>4, <3>5 DEF TypeInv
  <2>17. CASE AccessListDone(i)
    <3>1. TypeOK'
      BY <1>0, <2>17
         DEF AccessListDone, TypeOK, GethTypeOK, DefraTypeOK, Labels, Posting,
             FetchRetries, TotalRetryAttempts, Reports
    <3>2. /\ pc[i] = "CreateAccessListEntry"
          /\ pc'[i] = "CreateLog" /\ k'[i] = 1 /\ rcpt'[i] = rcpt[i]
          /\ blk'[i] = blk[i] /\ txi'[i] = txi[i]
      BY <1>0, <2>17
         DEF AccessListDone, TypeOK, Shape, OnTransaction, OnReceipt
    <3>3. Shape(i)'
      BY <1>0, <3>2
         DEF Shape, Labels, Posting, HasBlock, OnTransaction, OnReceipt, CurTx
    <3>4. ASSUME NEW j \in Indexers \ {i} PROVE Shape(j)'
      BY <1>0, <2>17
         DEF AccessListDone, TypeOK, Shape, Labels, Posting, HasBlock,
             OnTransaction, OnReceipt, CurTx
    <3> QED
      BY <3>1, <3>3, <3>4 DEF TypeInv
  <2>18. CASE LogStored(i)
    <3>1. LogDocAt(i) \in Documents
      BY <1>0, <2>18, SentIsDocument DEF LogStored
    <3>2. TypeOK'
      BY <1>0, <2>18, <3>1
         DEF LogStored, Stored, TypeOK, GethTypeOK, DefraTypeOK, Labels,
             Posting, FetchRetries, TotalRetryAttempts, Reports
    <3>3. /\ k[i] \in Nat /\ pc[i] = "CreateLog"
          /\ pc'[i] = pc[i] /\ k'[i] = k[i] + 1 /\ k[i] >= 1
          /\ blk'[i] = blk[i] /\ txi'[i] = txi[i] /\ rcpt'[i] = rcpt[i]
      BY <1>0, <2>18, <3>1
         DEF LogStored, Stored, TypeOK, Shape, OnTransaction, OnReceipt
    <3>4. Shape(i)'
      BY <1>0, <3>3
         DEF Shape, Labels, Posting, HasBlock, OnTransaction, OnReceipt, CurTx
    <3>5. ASSUME NEW j \in Indexers \ {i} PROVE Shape(j)'
      BY <1>0, <2>18
         DEF LogStored, Stored, TypeOK, Shape, Labels, Posting, HasBlock,
             OnTransaction, OnReceipt, CurTx
    <3> QED
      BY <3>2, <3>4, <3>5 DEF TypeInv
  <2>19. CASE LogFails(i)
    <3>1. LogDocAt(i) \in Documents
      BY <1>0, <2>19, SentIsDocument DEF LogFails
    <3>2. TypeOK'
      BY <1>0, <2>19, <3>1
         DEF LogFails, PostFails, Abandoned, TypeOK, GethTypeOK, DefraTypeOK,
             Labels, Posting, FetchRetries, TotalRetryAttempts, Reports
    <3>3. /\ k[i] \in Nat /\ pc[i] = "CreateLog"
          /\ pc'[i] = pc[i] /\ k'[i] = k[i] + 1 /\ k[i] >= 1
          /\ blk'[i] = blk[i] /\ txi'[i] = txi[i] /\ rcpt'[i] = rcpt[i]
      BY <1>0, <2>19, <3>1
         DEF LogFails, PostFails, Abandoned, TypeOK, Shape, OnTransaction,
             OnReceipt
    <3>4. Shape(i)'
      BY <1>0, <3>3
         DEF Shape, Labels, Posting, HasBlock, OnTransaction, OnReceipt, CurTx
    <3>5. ASSUME NEW j \in Indexers \ {i} PROVE Shape(j)'
      BY <1>0, <2>19
         DEF LogFails, PostFails, Abandoned, TypeOK, Shape, Labels, Posting,
             HasBlock, OnTransaction, OnReceipt, CurTx
    <3> QED
      BY <3>2, <3>4, <3>5 DEF TypeInv
  <2>20. CASE LogsDone(i)
    <3>1. TypeOK'
      BY <1>0, <2>20
         DEF LogsDone, NextTransaction, TypeOK, GethTypeOK, DefraTypeOK,
             Labels, Posting, FetchRetries, TotalRetryAttempts, Reports
    <3>2. /\ txi[i] \in Nat /\ pc[i] = "CreateLog"
          /\ pc'[i] = "CreateTransaction" /\ blk'[i] = blk[i]
          /\ txi'[i] = txi[i] + 1 /\ txi[i] >= 1
      BY <1>0, <2>20
         DEF LogsDone, NextTransaction, TypeOK, Shape, OnTransaction, OnReceipt
    <3>3. Shape(i)'
      BY <1>0, <3>2
         DEF Shape, Labels, Posting, HasBlock, OnTransaction, OnReceipt, CurTx
    <3>4. ASSUME NEW j \in Indexers \ {i} PROVE Shape(j)'
      BY <1>0, <2>20
         DEF LogsDone, NextTransaction, TypeOK, Shape, Labels, Posting,
             HasBlock, OnTransaction, OnReceipt, CurTx
    <3> QED
      BY <3>1, <3>3, <3>4 DEF TypeInv
  <2>21. CASE Wake(i)
    <3>1. TypeOK'
      BY <1>0, <2>21
         DEF Wake, Poll, Leave, TypeOK, GethTypeOK, DefraTypeOK, Labels,
             Posting, FetchRetries, TotalRetryAttempts, Reports
    <3>2. Shape(i)'
      BY <1>0, <2>21
         DEF Wake, Poll, Leave, TypeOK, Shape, Labels, Posting, HasBlock,
             OnTransaction, OnReceipt, CurTx
    <3>3. ASSUME NEW j \in Indexers \ {i} PROVE Shape(j)'
      BY <1>0, <2>21
         DEF Wake, Poll, Leave, TypeOK, Shape, Labels, Posting, HasBlock,
             OnTransaction, OnReceipt, CurTx
    <3> QED
      BY <3>1, <3>2, <3>3 DEF TypeInv
  <2>22. CASE Restart(i)
    <3>1. TypeOK'
      BY <1>0, <2>22
         DEF Restart, Poll, Leave, TypeOK, GethTypeOK, DefraTypeOK, Labels,
             Posting, FetchRetries, TotalRetryAttempts, Reports
    <3>2. Shape(i)'
      BY <1>0, <2>22
         DEF Restart, Poll, Leave, TypeOK, Shape, Labels, Posting, HasBlock,
             OnTransaction, OnReceipt, CurTx
    <3>3. ASSUME NEW j \in Indexers \ {i} PROVE Shape(j)'
      BY <1>0, <2>22
         DEF Restart, Poll, Leave, TypeOK, Shape, Labels, Posting, HasBlock,
             OnTransaction, OnReceipt, CurTx
    <3> QED
      BY <3>1, <3>2, <3>3 DEF TypeInv
  <2> QED
    BY <1>1, <2>1, <2>2, <2>3, <2>4, <2>5, <2>6, <2>7, <2>8, <2>9, <2>10,
       <2>11, <2>12, <2>13, <2>14, <2>15, <2>16, <2>17, <2>18, <2>19, <2>20,
       <2>21, <2>22
       DEF Step
<1>2. ASSUME NEW i \in Indexers, Crash(i)
      PROVE  TypeInv'
  <2>1. inflight' \in SUBSET Documents
    BY <1>0, <1>2, SentIsDocument
       DEF Crash, LeavesRequest, Abandoned, TypeOK, DefraTypeOK
  <2>2. TypeOK'
    BY <1>0, <1>2, <2>1
       DEF Crash, Leave, TypeOK, GethTypeOK, DefraTypeOK, Labels, Posting,
           FetchRetries, TotalRetryAttempts, Reports
  <2>3. ASSUME NEW j \in Indexers PROVE Shape(j)'
    BY <1>0, <1>2
       DEF Crash, Leave, TypeOK, Shape, Labels, Posting, HasBlock,
           OnTransaction, OnReceipt, CurTx
  <2> QED
    BY <2>2, <2>3 DEF TypeInv
<1>3. CASE GethStep
  BY <1>0, <1>3
     DEF GethStep, NewHead, poster, TypeInv, TypeOK, GethTypeOK, DefraTypeOK,
         Shape, CurTx
<1>4. CASE DefraStep
  BY <1>0, <1>4
     DEF DefraStep, LateCommit, LateDrop, poster, TypeInv, TypeOK, GethTypeOK,
         DefraTypeOK, Shape, CurTx
<1>5. CASE UNCHANGED vars
  BY <1>0, <1>5
     DEF vars, poster, TypeInv, TypeOK, GethTypeOK, DefraTypeOK, Shape, CurTx
<1> QED
  BY <1>1, <1>2, <1>3, <1>4, <1>5 DEF Next

-----------------------------------------------------------------------------
LEMMA TypeInvInit == Init => TypeInv
BY TreeAssumption
   DEF Init, GethInit, DefraInit, TypeInv, TypeOK, GethTypeOK, DefraTypeOK,
       Shape, Labels, Posting, HasBlock, OnTransaction, OnReceipt,
       FetchRetries, TotalRetryAttempts

\* The strengthened type invariant of every behaviour.
THEOREM TypeInvariant == Spec => []TypeInv
BY TypeInvInit, TypeInvInductive, PTL DEF Spec

\* The variables keep their types whatever fails and however many indexers
\* run: the retry counter stays within TotalRetryAttempts, GetLatestBlock's
\* within its loop, and every document is one the schema describes.
THEOREM TypeCorrect == Spec => []TypeOK
<1>1. TypeInv => TypeOK
  BY DEF TypeInv
<1> QED
  BY <1>1, TypeInvariant, PTL

\* main never dereferences a nil block: GetLatestBlock either returns an
\* error or a block, however many blocks it could not decode.
THEOREM BlockAlwaysInHand == Spec => []BlockInHand
<1>1. TypeInv => BlockInHand
  BY DEF TypeInv, Shape, BlockInHand
<1> QED
  BY <1>1, TypeInvariant, PTL
=============================================================================
