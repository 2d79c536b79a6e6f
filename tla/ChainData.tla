----------------------------- MODULE ChainData -----------------------------
(***************************************************************************)
(* The data the indexer copies from Geth into DefraDB, and the documents   *)
(* it makes of them.                                                       *)
(*                                                                         *)
(* A block, a transaction and an access-list entry are model values.  The  *)
(* block tree is fixed; which branch is canonical changes (see GethNode).  *)
(* DefraDB derives a document's _docID from its contents and both Block    *)
(* and Transaction carry a unique index on hash, so the hash stands for    *)
(* the document's identity and a block_id or transaction_id is a hash.     *)
(***************************************************************************)
EXTENDS Integers, Sequences, FiniteSets

CONSTANTS
    Blocks,       \* the blocks of the tree, canonical or not
    NoBlock,      \* the nil *types.Block
    Root,         \* the block every branch grows from
    Number,       \* the height of a block
    Parent,       \* the parent of a block other than Root
    Txs,          \* the transactions
    TxsOf,        \* the transactions of a block, in the block's order
    Entries,      \* access-list entries
    AccessList,   \* the access list of a transaction (EIP-2930)
    LogCount,     \* how many logs the execution of a transaction emits
    Unsupported   \* blocks with a transaction type the client cannot decode

ASSUME TreeAssumption ==
    /\ NoBlock \notin Blocks
    /\ Root \in Blocks
    /\ Number \in [Blocks -> Nat]
    /\ Parent \in [Blocks \ {Root} -> Blocks]
    /\ \A b \in Blocks \ {Root} : Number[b] = Number[Parent[b]] + 1
    /\ Unsupported \subseteq Blocks \ {Root}

ASSUME ContentAssumption ==
    /\ TxsOf \in [Blocks -> Seq(Txs)]
    /\ AccessList \in [Txs -> Seq(Entries)]
    /\ LogCount \in [Txs -> Nat]

InBlock(t, b) == \E n \in 1..Len(TxsOf[b]) : TxsOf[b][n] = t

-----------------------------------------------------------------------------
(* The documents, with the fields the relations and the indexes of         *)
(* schema.graphql are about.                                               *)

BlockDoc(b) == [type |-> "Block", hash |-> b]

TxDoc(b, t) == [type |-> "Transaction", hash |-> t, block_id |-> b]

AleDoc(t, e) ==
    [type |-> "AccessListEntry", address |-> e, transaction_id |-> t]

\* blockHash and logIndex are what the receipt says, block_id and
\* transaction_id what the indexer has in hand.
LogDoc(b, t, c, n) ==
    [type |-> "Log", block_id |-> b, transaction_id |-> t,
     blockHash |-> c, logIndex |-> n]

BlockDocs == [type : {"Block"}, hash : Blocks]
TxDocs    == [type : {"Transaction"}, hash : Txs, block_id : Blocks]
AleDocs   == [type : {"AccessListEntry"}, address : Entries,
              transaction_id : Txs]
LogDocs   == [type : {"Log"}, block_id : Blocks, transaction_id : Txs,
              blockHash : Blocks, logIndex : Nat]

Documents == BlockDocs \cup TxDocs \cup AleDocs \cup LogDocs
=============================================================================
