--------------------------- MODULE DocumentFields ---------------------------
(***************************************************************************)
(* What becomes of the fields of one transaction and of its block on their *)
(* way into the collections: the client's conversion, buildBlock, the      *)
(* create function's map, the literal PostToCollection makes of each       *)
(* field, and the input type the schema gives the collection.              *)
(***************************************************************************)
EXTENDS FieldConversions

VARIABLES
    strict,     \* DefraDB refuses input fields its type does not have
    gblock,     \* the block as go-ethereum decoded it
    gtx,        \* the transaction of the block that is followed
    greceipt,   \* its receipt
    at,         \* the call main makes next
    docs        \* what is stored, by collection

geth == <<strict, gblock, gtx, greceipt>>
vars == <<geth, at, docs>>

-----------------------------------------------------------------------------
(* schema.graphql; a relation is set through its _id field.                *)

Typed(ints, booleans, lists, strings) ==
    [f \in ints \cup booleans \cup lists \cup strings |->
        IF f \in ints THEN "Int"
        ELSE IF f \in booleans THEN "Boolean"
        ELSE IF f \in lists THEN "[String]" ELSE "String"]

Schema ==
    [Block |-> Typed({"number", "nonce"}, {}, {"uncles"},
        {"hash", "timestamp", "parentHash", "difficulty", "totalDifficulty",
         "gasUsed", "gasLimit", "baseFeePerGas", "miner", "size",
         "stateRoot", "sha3Uncles", "transactionsRoot", "receiptsRoot",
         "logsBloom", "extraData", "mixHash"}),
     Transaction |-> Typed({"blockNumber", "transactionIndex"}, {"status"}, {},
        {"hash", "blockHash", "from", "to", "value", "gas", "gasPrice",
         "maxFeePerGas", "maxPriorityFeePerGas", "input", "nonce", "type",
         "chainId", "v", "r", "s", "cumulativeGasUsed", "effectiveGasPrice",
         "block_id"}),
     AccessListEntry |-> Typed({}, {}, {"storageKeys"},
        {"address", "transaction_id"}),
     Log |-> Typed({"blockNumber", "transactionIndex", "logIndex"}, {},
        {"topics"},
        {"address", "data", "transactionHash", "blockHash", "removed",
         "block_id", "transaction_id"})]

-----------------------------------------------------------------------------
(* The create functions.                                                   *)

HexToInt(v) == Int(v[2])           \* of a decimal string
Sprint(v) == <<"text", v[2]>>      \* "%v" of an int or a bool
DocID(d) == <<"docID", d.hash[2]>>

\* Faulty variant: two roots are exchanged.
buildBlockRootsSwapped(b) ==
    [b EXCEPT !.transactionsRoot = b.receiptsRoot,
              !.receiptsRoot = b.transactionsRoot,
              !.baseFeePerGas = Empty, !.mixHash = Empty,
              !.uncles = List(Absent)]

\* Every field but three, which keep Go's zero value.
buildBlock(b) ==
    [b EXCEPT !.baseFeePerGas = Empty, !.mixHash = Empty,
              !.uncles = List(Absent)]

blockData(b) == [b EXCEPT !.number = HexToInt(b.number)]

\* Faulty variant: the nonce is posted as the int it is.
txDataIntNonce(t, blockDoc) ==
    Joined([t EXCEPT !.blockNumber = HexToInt(t.blockNumber)],
           [block_id |-> DocID(blockDoc)])

txData(t, blockDoc) ==
    Joined([t EXCEPT !.blockNumber = HexToInt(t.blockNumber),
                     !.nonce = Sprint(t.nonce)],
           [block_id |-> DocID(blockDoc)])

ALEData(e, txDoc) == Joined(e, [transaction_id |-> DocID(txDoc)])

logData(l, blockDoc, txDoc) ==
    Joined([l EXCEPT !.blockNumber = HexToInt(l.blockNumber),
                     !.removed = Sprint(l.removed)],
           [block_id |-> DocID(blockDoc), transaction_id |-> DocID(txDoc)])

\* PostToCollection's type switch; text, hashes and numbers in a string are
\* all quoted.
LiteralType(v) == CASE v[1] = "int" -> "Int"
                    [] v[1] = "bool" -> "Boolean"
                    [] v[1] = "list" -> "[String]"
                    [] OTHER -> "String"

Unknown(collection, data) == DOMAIN data \ DOMAIN Schema[collection]

Misfits(collection, data) ==
    {f \in DOMAIN data \cap DOMAIN Schema[collection] :
        LiteralType(data[f]) # Schema[collection][f]}

Accepts(collection, data) ==
    /\ Misfits(collection, data) = {}
    /\ strict => Unknown(collection, data) = {}

-----------------------------------------------------------------------------
(* One turn of the main loop, following one transaction.                   *)

Collection == [CreateBlock |-> "Block", CreateTransaction |-> "Transaction",
               CreateAccessListEntry |-> "AccessListEntry",
               CreateLog |-> "Log"]

\* What the create function at hand posts.
Data ==
    CASE at = "CreateBlock" ->
            blockData(buildBlock(convertGethBlock(gblock)))
      [] at = "CreateTransaction" ->
            txData(convertTransaction(gtx, gblock), docs["Block"])
      [] at = "CreateAccessListEntry" ->
            ALEData(convertAccessListEntry(GethEntry), docs["Transaction"])
      [] at = "CreateLog" ->
            logData(convertGethLog(GethLog), docs["Block"],
                    docs["Transaction"])

Init == /\ strict \in BOOLEAN
        /\ gblock \in GethBlocks
        /\ gtx \in GethTransactions
        /\ greceipt \in GethReceipts
        /\ at = "CreateBlock"
        /\ docs = [c \in {} |-> Absent]

\* A create function called from main: success leads to one call, failure,
\* which includes refusal by the schema, to another.
Post(next, otherwise) ==
    /\ \/ /\ Accepts(Collection[at], Data)
          /\ docs' = Joined(docs, [c \in {Collection[at]} |-> Data])
          /\ at' = next
       \/ UNCHANGED docs /\ at' = otherwise
    /\ UNCHANGED geth

CreateBlock == /\ at = "CreateBlock"
               /\ Post("CreateTransaction", "done")

CreateTransaction == /\ at = "CreateTransaction"
                     /\ Post("GetTransactionReceipt", "done")

\* Only the logs of the converted receipt are used.
GetTransactionReceipt == /\ at = "GetTransactionReceipt"
                         /\ at' \in {"CreateAccessListEntry", "done"}
                         /\ UNCHANGED <<geth, docs>>

CreateAccessListEntry == /\ at = "CreateAccessListEntry"
                         /\ Post("CreateLog", "CreateLog")

CreateLog == at = "CreateLog" /\ Post("done", "done")

Next == \/ CreateBlock \/ CreateTransaction \/ GetTransactionReceipt
        \/ CreateAccessListEntry \/ CreateLog

Spec == Init /\ [][Next]_vars

-----------------------------------------------------------------------------
(* Properties.                                                             *)

\* The quantities a field of a collection may hold.
Meant(c, f) ==
    IF f \in {"blockHash", "block_id"} THEN {<<"block", "hash">>}
    ELSE IF f = "blockNumber" THEN {<<"block", "number">>}
    ELSE IF f \in {"transactionHash", "transaction_id"} THEN {<<"tx", "hash">>}
    ELSE IF f = "gasPrice" THEN {<<"tx", f>>, <<"tx", "maxFeePerGas">>}
    ELSE IF c = "Block" THEN {<<"block", f>>}
    ELSE IF c = "AccessListEntry" THEN {<<"entry", f>>}
    ELSE IF c = "Log" /\ f # "transactionIndex" THEN {<<"log", f>>}
    ELSE {<<"tx", f>>}

\* The fields a document may have empty: those buildBlock forgets, those the
\* client never fills in, and those the object need not have.
Fillable(c) ==
    CASE c = "Block" ->
            {"totalDifficulty", "baseFeePerGas", "mixHash", "uncles"}
      [] c = "Transaction" ->
            {"gasUsed", "cumulativeGasUsed", "effectiveGasPrice"}
            \cup (IF gtx.To = Absent THEN {"to"} ELSE {})
            \cup (IF gtx.Type = DynamicFeeTxType THEN {}
                  ELSE {"maxFeePerGas", "maxPriorityFeePerGas"})
      [] OTHER -> {}

\* Three conversions, buildBlock and four maps copy some sixty fields by hand.
\* What a reader finds under a field's name is that quantity of that object,
\* and nothing is lost on the way but a known few; so where the receipt is of
\* the block being processed, the documents of the block, its transactions and
\* their logs agree on hashes, numbers and indices.  (A receipt of another
\* branch, after a reorganisation, is BlockPoster's: LogBelongsToItsBlock.)
\* The status, which is never taken from the receipt, is left out.
FieldsMeanWhatTheySay ==
    \A c \in DOMAIN docs : \A f \in DOMAIN docs[c] \ {"status"} :
        \/ docs[c][f][2] \in Meant(c, f)
        \/ docs[c][f][2] \in {Empty[2], Absent} /\ f \in Fillable(c)

\* A create function leaves out no field of its collection, its Go types give
\* each field a literal of the schema's type (a transaction's nonce is a
\* String where a block's is an Int; removed is a String), and the one field
\* it posts that the schema lacks is a transaction's gasUsed.
PostsFitTheSchema ==
    at \in DOMAIN Collection =>
        /\ DOMAIN Schema[Collection[at]] \subseteq DOMAIN Data
        /\ Misfits(Collection[at], Data) = {}
        /\ Unknown(Collection[at], Data)
             = IF at = "CreateTransaction" THEN {"gasUsed"} ELSE {}

\* The client writes a uint64 with "%d", pkg/types turns it into an int64
\* first; size, mixHash and a dozen more are filled in by one of them only.
\* Whichever of the two sets of conversions made a record, it differs from the
\* other's in exactly these fields: those one of them leaves empty, the
\* encoding of the extra data, a transaction's index, a receipt's recipient
\* and what the receipt does not have, and every field that went through an
\* int64 and holds a quantity of 2^63 or more.
ConversionsAgree ==
    /\ \A large \in SUBSET {"timestamp", "gasUsed", "gasLimit"} :
          DisagreeOn(convertGethBlock(gblock), ConvertBlock(gblock),
                     {<<"block", f>> : f \in large})
            = {"size", "extraData", "logsBloom", "mixHash"} \cup large
              \cup (IF gblock.BaseFee = Absent THEN {} ELSE {"baseFeePerGas"})
              \cup (IF gblock.Uncles = Absent THEN {} ELSE {"uncles"})
    /\ \A large \in SUBSET {"gas"} :
          DisagreeOn(convertTransaction(gtx, gblock),
                     ConvertTransaction(gtx, gtx.Sender, gblock, TRUE),
                     {<<"tx", f>> : f \in large})
            = {"transactionIndex", "type", "chainId", "v", "r", "s"}
              \cup large
              \cup (IF gtx.Type = DynamicFeeTxType
                    THEN {"maxFeePerGas", "maxPriorityFeePerGas"} ELSE {})
    /\ \A large \in SUBSET {"transactionIndex", "cumulativeGasUsed",
                            "gasUsed"} :
          DisagreeOn(convertGethReceipt(greceipt), ConvertReceipt(greceipt),
                     {<<"tx", f>> : f \in large})
            = {"to"} \cup large
              \cup (IF greceipt.ContractAddress = Absent
                    THEN {"contractAddress"} ELSE {})
              \cup (IF greceipt.BlockNumber = Absent
                    THEN {"blockNumber"} ELSE {})
    /\ \A large \in SUBSET {"number"} :
          DisagreeOn(convertGethLog(GethLog), ConvertLog(GethLog),
                     {<<"block", f>> : f \in large})
            = IF large = {} THEN {} ELSE {"blockNumber"}
=============================================================================
