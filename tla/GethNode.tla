------------------------------ MODULE GethNode ------------------------------
(***************************************************************************)
(* The Geth node as the indexer sees it through ethclient: a canonical     *)
(* chain that grows and reorganises between any two calls.  External code, *)
(* modelled from what EthereumClient asks of it.                           *)
(***************************************************************************)
EXTENDS ChainData

VARIABLE canon    \* the blocks of the canonical chain

GethTypeOK == canon \in SUBSET Blocks

GethInit == canon = {Root}

\* HeaderByNumber(nil): the highest canonical block.
IsHead(h) == h \in canon /\ \A a \in canon : Number[a] <= Number[h]

\* BlockByNumber(n): the canonical block of that height, if there is one.
CanonicalAt(n) == {b \in canon : Number[b] = n}

\* TransactionReceipt(hash): looked up on the canonical chain of the moment.
ReceiptBlocks(t) == {c \in canon : InBlock(t, c)}

\* The node adopts b, whose parent is canonical: the chain grows when the
\* parent is the head, and otherwise drops the blocks from b's height up.
NewHead(b) ==
    /\ b \notin canon
    /\ b # Root
    /\ Parent[b] \in canon
    /\ canon' = {a \in canon : Number[a] < Number[b]} \cup {b}
=============================================================================
