------------------------------ MODULE DefraDB ------------------------------
(***************************************************************************)
(* The DefraDB node behind SendToGraphql.  External code, modelled from    *)
(* schema.graphql (unique indexes) and from how PostToCollection uses it:  *)
(* a create mutation either answers with a _docID, or fails; a request the *)
(* client gave up on may still reach the store later.                      *)
(***************************************************************************)
EXTENDS ChainData

CONSTANTS
    MaxInFlight,   \* bound on abandoned requests (model checking only)
    Takes          \* collections whose input type takes the posted fields

ASSUME DefraAssumption ==
    /\ MaxInFlight \in Nat
    /\ Takes \subseteq {"Block", "Transaction", "AccessListEntry", "Log"}

VARIABLES
    docs,       \* the documents committed
    inflight    \* create requests whose client no longer waits for them

DefraTypeOK ==
    /\ docs \in SUBSET Documents
    /\ inflight \in SUBSET Documents

DefraInit == docs = {} /\ inflight = {}

\* Faulty variant: the index on Transaction.hash is forgotten.
UniqueBlockHash == {"Block"}

\* The types of schema.graphql with hash: String @index(unique: true).
UniqueHash == {"Block", "Transaction"}

Clashes(d, e) == /\ d.type \in UniqueHash
                 /\ e.type = d.type
                 /\ e.hash = d.hash

\* A second document with the same contents has the same _docID and is
\* refused; so is one that repeats a uniquely indexed hash.
Accepts(d) == /\ d.type \in Takes
              /\ d \notin docs
              /\ \A e \in docs : ~ Clashes(d, e)

\* The mutation commits and its answer reaches the client.
Stored(d) == Accepts(d) /\ docs' = docs \cup {d} /\ UNCHANGED inflight

\* The client stops waiting for a request the store may still perform.
Abandoned(d) == /\ Accepts(d)
                /\ d \notin inflight
                /\ Cardinality(inflight) < MaxInFlight
                /\ inflight' = inflight \cup {d}

\* The client gets an error: the mutation was refused or never arrived, or
\* the connection broke while it was under way.
PostFails(d) == /\ UNCHANGED docs
                /\ UNCHANGED inflight \/ Abandoned(d)

LateCommit(d) == /\ d \in inflight
                 /\ Accepts(d)
                 /\ docs' = docs \cup {d}
                 /\ inflight' = inflight \ {d}

LateDrop(d) == /\ d \in inflight
               /\ inflight' = inflight \ {d}
               /\ UNCHANGED docs
=============================================================================
