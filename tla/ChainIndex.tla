----------------------------- MODULE ChainIndex -----------------------------
(***************************************************************************)
(* What DefraDB's collections promise a reader, whatever number of         *)
(* indexers write them and whatever fails on the way: a document appears   *)
(* once, after the document it refers to, and says what some block of the  *)
(* tree says.  Nothing is promised about how much of the chain is there.   *)
(***************************************************************************)
EXTENDS ChainData

VARIABLE index    \* the documents a query can see

\* The transactions with a document, and the same for a given block.
Indexed(t) == \E b \in Blocks : TxDoc(b, t) \in index
IndexedIn(b, t) == TxDoc(b, t) \in index

LogsOf(t) == {d \in index : d.type = "Log" /\ d.transaction_id = t}

Init == index = {}

AddBlock(b) ==
    /\ BlockDoc(b) \notin index
    /\ index' = index \cup {BlockDoc(b)}

\* A transaction is filed under one of the blocks that contain it, for good.
AddTransaction(b, t) ==
    /\ BlockDoc(b) \in index
    /\ InBlock(t, b)
    /\ ~ Indexed(t)
    /\ index' = index \cup {TxDoc(b, t)}

AddAccessListEntry(t, e) ==
    /\ Indexed(t)
    /\ \E n \in 1..Len(AccessList[t]) : AccessList[t][n] = e
    /\ AleDoc(t, e) \notin index
    /\ index' = index \cup {AleDoc(t, e)}

\* A log is filed under its transaction's block, once; all the logs of a
\* transaction come from one receipt, which block c may be another's.
AddLog(b, t, c, n) ==
    /\ IndexedIn(b, t)
    /\ InBlock(t, c)
    /\ n \in 1..LogCount[t]
    /\ \A d \in LogsOf(t) : d.logIndex # n /\ d.blockHash = c
    /\ index' = index \cup {LogDoc(b, t, c, n)}

Next ==
    \/ \E b \in Blocks : AddBlock(b)
    \/ \E b \in Blocks, t \in Txs : AddTransaction(b, t)
    \/ \E t \in Txs, e \in Entries : AddAccessListEntry(t, e)
    \/ \E b, c \in Blocks, t \in Txs : \E n \in 1..LogCount[t] :
          AddLog(b, t, c, n)

Spec == Init /\ [][Next]_index

-----------------------------------------------------------------------------
TypeOK == index \in SUBSET Documents

(* What a reader gets from the guards above.  It says something of the     *)
(* indexer only where BlockPoster is shown to implement this module:       *)
(* ReaderPromises in ImplementsProofs.                                     *)

\* No two Transaction documents share a hash, and no two Log documents of a
\* transaction share a position: schema.graphql's unique indexes give the
\* first, but nothing in the schema gives the second.
StoredOnce ==
    \A d, e \in index :
        /\ d.type = "Transaction" /\ e.type = "Transaction" /\ d.hash = e.hash
              => d = e
        /\ d.type = "Log" /\ e.type = "Log"
           /\ d.transaction_id = e.transaction_id /\ d.logIndex = e.logIndex
              => d = e

\* Every relation of schema.graphql resolves: the block of a transaction, the
\* transaction of an access-list entry, the transaction of a log; and a log's
\* block is its transaction's block.
LinksResolve ==
    \A d \in index :
        /\ d.type = "Transaction" => BlockDoc(d.block_id) \in index
        /\ d.type = "AccessListEntry" => Indexed(d.transaction_id)
        /\ d.type = "Log" => IndexedIn(d.block_id, d.transaction_id)

\* The logs of a transaction come from one receipt: none of them disagrees
\* with another about the block that emitted it.
OneReceipt ==
    \A d, e \in index :
        d.type = "Log" /\ e.type = "Log"
        /\ d.transaction_id = e.transaction_id => d.blockHash = e.blockHash
=============================================================================
