--------------------------- MODULE MCBlockPoster ---------------------------
(***************************************************************************)
(* Small instances of BlockPoster.  A cfg picks the blocks, and the tree,  *)
(* contents and heights below are restricted to them.                      *)
(***************************************************************************)
EXTENDS IndexerProperties, TLC

CONSTANTS b0, b1, c1, b2, u1, u2, u3,   \* blocks
          t1, t2,                       \* transactions
          e1                            \* an access-list entry

\* b0 -- b1 -- b2, the fork c1, and a branch of undecodable blocks u1..u3.
MCNumber ==
    [b \in Blocks |-> IF b = b0 THEN 10
                      ELSE IF b \in {b1, c1, u1} THEN 11
                      ELSE IF b \in {b2, u2} THEN 12 ELSE 13]

MCParent ==
    [b \in Blocks \ {Root} |->
        IF b \in {b1, c1, u1} THEN b0
        ELSE IF b = b2 THEN b1 ELSE IF b = u2 THEN u1 ELSE u2]

\* t1 is included again by the other side of the fork.
ForkTxsOf ==
    [b \in Blocks |-> IF b = b1 THEN <<t1, t2>>
                      ELSE IF b = c1 THEN <<t1>> ELSE <<>>]

\* A list may name an entry twice (EIP-2930 charges for both).
ForkAccessList == [t \in Txs |-> IF t = t1 THEN <<e1, e1>> ELSE <<>>]

ForkLogCount == [t \in Txs |-> IF t = t1 THEN 2 ELSE 0]

RaceTxsOf == [b \in Blocks |-> IF b \in {b1, c1} THEN <<t1>> ELSE <<>>]
RaceAccessList == [t \in Txs |-> <<>>]
RaceLogCount == [t \in Txs |-> 1]

AllCollections == {"Block", "Transaction", "AccessListEntry", "Log"}
=============================================================================
