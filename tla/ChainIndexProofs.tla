-------------------------- MODULE ChainIndexProofs --------------------------
(***************************************************************************)
(* ChainIndex keeps its promises to a reader for every block tree and      *)
(* every content.                                                          *)
(***************************************************************************)
EXTENDS ChainIndex, TLAPS

\* What each kind of step adds, and what it knew of it.
AddsBlock(d) == \E b \in Blocks : d = BlockDoc(b)

AddsTransaction(d) ==
    \E b \in Blocks, t \in Txs :
        d = TxDoc(b, t) /\ BlockDoc(b) \in index /\ ~ Indexed(t)

AddsEntry(d) == \E t \in Txs, e \in Entries : d = AleDoc(t, e) /\ Indexed(t)

AddsLog(d) ==
    \E b, c \in Blocks, t \in Txs, n \in Nat :
        /\ d = LogDoc(b, t, c, n)
        /\ IndexedIn(b, t)
        /\ \A e \in LogsOf(t) : e.logIndex # n /\ e.blockHash = c

Adds(d) == AddsBlock(d) \/ AddsTransaction(d) \/ AddsEntry(d) \/ AddsLog(d)

Grows == \E d : Adds(d) /\ index' = index \cup {d}

\* Every step adds one document.
LEMMA NextGrows == Next => Grows
<1> SUFFICES ASSUME Next PROVE Grows
  OBVIOUS
<1>1. ASSUME NEW b \in Blocks, AddBlock(b) PROVE Grows
  BY <1>1 DEF AddBlock, AddsBlock, Grows, Adds
<1>2. ASSUME NEW b \in Blocks, NEW t \in Txs, AddTransaction(b, t)
      PROVE  Grows
  BY <1>2 DEF AddTransaction, AddsTransaction, Grows, Adds
<1>3. ASSUME NEW t \in Txs, NEW e \in Entries, AddAccessListEntry(t, e)
      PROVE  Grows
  BY <1>3 DEF AddAccessListEntry, AddsEntry, Grows, Adds
<1>4. ASSUME NEW b \in Blocks, NEW c \in Blocks, NEW t \in Txs,
             NEW n \in 1..LogCount[t], AddLog(b, t, c, n)
      PROVE  Grows
  <2>1. n \in Nat
    BY ContentAssumption
  <2>2. Adds(LogDoc(b, t, c, n))
    BY <1>4, <2>1 DEF AddLog, AddsLog, Adds
  <2> QED
    BY <1>4, <2>2 DEF AddLog, Grows
<1> QED
  BY <1>1, <1>2, <1>3, <1>4 DEF Next

\* Each holds from one step to the next with no more than TypeOK.
Promises == TypeOK /\ StoredOnce /\ LinksResolve /\ OneReceipt

\* A new document is well formed.
LEMMA AddsDocument ==
    ASSUME NEW d, Adds(d)
    PROVE  d \in Documents
<1>1. CASE AddsBlock(d)
  BY <1>1 DEF AddsBlock, BlockDoc, Documents, BlockDocs
<1>2. CASE AddsTransaction(d)
  BY <1>2 DEF AddsTransaction, TxDoc, Documents, TxDocs
<1>3. CASE AddsEntry(d)
  BY <1>3 DEF AddsEntry, AleDoc, Documents, AleDocs
<1>4. CASE AddsLog(d)
  BY <1>4 DEF AddsLog, LogDoc, Documents, LogDocs
<1> QED
  BY <1>1, <1>2, <1>3, <1>4 DEF Adds

\* Its type tells which step added it.
LEMMA AddsByType ==
    ASSUME NEW d, Adds(d)
    PROVE  /\ d.type = "Transaction" => AddsTransaction(d)
           /\ d.type = "AccessListEntry" => AddsEntry(d)
           /\ d.type = "Log" => AddsLog(d)
<1>1. AddsBlock(d) => d.type = "Block"
  BY DEF AddsBlock, BlockDoc
<1>2. AddsTransaction(d) => d.type = "Transaction"
  BY DEF AddsTransaction, TxDoc
<1>3. AddsEntry(d) => d.type = "AccessListEntry"
  BY DEF AddsEntry, AleDoc
<1>4. AddsLog(d) => d.type = "Log"
  BY DEF AddsLog, LogDoc
<1> QED
  BY <1>1, <1>2, <1>3, <1>4 DEF Adds

LEMMA StoredOnceStep ==
    ASSUME TypeOK, StoredOnce, NEW d, Adds(d), index' = index \cup {d}
    PROVE  StoredOnce'
<1>1. ASSUME NEW e \in index, d.type = "Transaction", e.type = "Transaction",
             d.hash = e.hash
      PROVE  FALSE
  <2>1. PICK b \in Blocks, t \in Txs : d = TxDoc(b, t) /\ ~ Indexed(t)
    BY <1>1, AddsByType DEF AddsTransaction
  <2>2. PICK c \in Blocks, u \in Txs : e = TxDoc(c, u)
    BY <1>1 DEF TypeOK, Documents, BlockDocs, TxDocs, AleDocs, LogDocs, TxDoc
  <2>3. t = u
    BY <1>1, <2>1, <2>2 DEF TxDoc
  <2> QED
    BY <2>1, <2>2, <2>3 DEF Indexed
<1>2. ASSUME NEW e \in index, d.type = "Log", e.type = "Log",
             d.transaction_id = e.transaction_id, d.logIndex = e.logIndex
      PROVE  FALSE
  <2>1. PICK b \in Blocks, c \in Blocks, t \in Txs, n \in Nat :
           d = LogDoc(b, t, c, n) /\ \A a \in LogsOf(t) : a.logIndex # n
    BY <1>2, AddsByType DEF AddsLog
  <2>2. d.transaction_id = t /\ d.logIndex = n
    BY <2>1 DEF LogDoc
  <2> QED
    BY <1>2, <2>1, <2>2 DEF LogsOf
<1> QED
  BY <1>1, <1>2 DEF StoredOnce

LEMMA LinksResolveStep ==
    ASSUME LinksResolve, NEW d, Adds(d), index' = index \cup {d}
    PROVE  LinksResolve'
<1>1. d.type = "Transaction" => BlockDoc(d.block_id) \in index
  BY AddsByType DEF AddsTransaction, TxDoc
<1>2. d.type = "AccessListEntry" => Indexed(d.transaction_id)
  BY AddsByType DEF AddsEntry, AleDoc
<1>3. d.type = "Log" => IndexedIn(d.block_id, d.transaction_id)
  BY AddsByType DEF AddsLog, LogDoc
<1>4. /\ \A t : Indexed(t) => Indexed(t)'
      /\ \A b, t : IndexedIn(b, t) => IndexedIn(b, t)'
  BY DEF Indexed, IndexedIn
<1> QED
  BY <1>1, <1>2, <1>3, <1>4 DEF LinksResolve

LEMMA OneReceiptStep ==
    ASSUME OneReceipt, NEW d, Adds(d), index' = index \cup {d}
    PROVE  OneReceipt'
<1>1. ASSUME NEW e \in index, d.type = "Log", e.type = "Log",
             d.transaction_id = e.transaction_id
      PROVE  d.blockHash = e.blockHash
  <2>1. PICK b \in Blocks, c \in Blocks, t \in Txs, n \in Nat :
           d = LogDoc(b, t, c, n) /\ \A a \in LogsOf(t) : a.blockHash = c
    BY <1>1, AddsByType DEF AddsLog
  <2>2. d.transaction_id = t /\ d.blockHash = c
    BY <2>1 DEF LogDoc
  <2> QED
    BY <1>1, <2>1, <2>2 DEF LogsOf
<1> QED
  BY <1>1 DEF OneReceipt

\* The collections hold well-formed documents, no transaction twice and no
\* log twice, no unresolved relation, no two receipts' logs mixed.
THEOREM PromisesKept == Spec => []Promises
<1>1. Init => Promises
  BY DEF Init, Promises, TypeOK, StoredOnce, LinksResolve, OneReceipt
<1>2. Promises /\ [Next]_index => Promises'
  <2> SUFFICES ASSUME Promises, [Next]_index PROVE Promises'
    OBVIOUS
  <2>1. CASE Next
    <3>1. PICK d : Adds(d) /\ index' = index \cup {d}
      BY <2>1, NextGrows DEF Grows
    <3> QED
      BY <3>1, AddsDocument, StoredOnceStep, LinksResolveStep,
         OneReceiptStep DEF Promises, TypeOK
  <2>2. CASE UNCHANGED index
    BY <2>2
       DEF Promises, TypeOK, StoredOnce, LinksResolve, OneReceipt, Indexed,
           IndexedIn
  <2> QED
    BY <2>1, <2>2
<1> QED
  BY <1>1, <1>2, PTL DEF Spec

\* The collections hold documents of the schema's four types only.
THEOREM TypeAlways == Spec => []TypeOK
<1>1. Promises => TypeOK
  BY DEF Promises
<1> QED
  BY <1>1, PromisesKept, PTL

\* No transaction and no log of a transaction is stored twice.
THEOREM StoredOnceAlways == Spec => []StoredOnce
<1>1. Promises => StoredOnce
  BY DEF Promises
<1> QED
  BY <1>1, PromisesKept, PTL

\* Every relation resolves, and a log's block is its transaction's.
THEOREM LinksAlwaysResolve == Spec => []LinksResolve
<1>1. Promises => LinksResolve
  BY DEF Promises
<1> QED
  BY <1>1, PromisesKept, PTL

\* All the stored logs of a transaction come from one receipt.
THEOREM OneReceiptAlways == Spec => []OneReceipt
<1>1. Promises => OneReceipt
  BY DEF Promises
<1> QED
  BY <1>1, PromisesKept, PTL
=============================================================================
