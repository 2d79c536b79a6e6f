-------------------------- MODULE FieldConversions --------------------------
(***************************************************************************)
(* The fields of a block, a transaction, a receipt and a log: as           *)
(* go-ethereum's accessors give them, as the Ethereum client converts them *)
(* into the records of pkg/types, and as the second set of conversions in  *)
(* pkg/types does.                                                         *)
(*                                                                         *)
(* A value is a pair: how it is written down, and the quantity it stands   *)
(* for, <<object, name>>, named as in Ethereum's JSON-RPC and the schema.  *)
(* Geth's accessors have the capitalised names of go-ethereum.  The lists  *)
(* of transactions, logs and access list entries are not fields here: their *)
(* members are converted by operators of their own.                        *)
(***************************************************************************)
EXTENDS Naturals

\* Ways of writing a quantity down.
Hex0x(q) == <<"0x", q>>      \* Hex() of a hash or an address
Hex(q) == <<"hex", q>>       \* Bytes2Hex: no prefix
Dec(q) == <<"dec", q>>       \* "%d" and big.Int's String()
DecInt64(q) == <<"int64", q>>  \* big.NewInt(int64(q)).String() of a uint64
Raw(q) == <<"raw", q>>       \* string(bytes)
Int(q) == <<"int", q>>
Bool(q) == <<"bool", q>>
List(q) == <<"list", q>>
Empty == <<"", <<>>>>        \* Go's zero string
Absent == <<"absent", "">>   \* a nil pointer or an empty list in Geth's data
DecOrEmpty(q) == IF q = Absent THEN Empty ELSE Dec(q)
Hex0xOrEmpty(q) == IF q = Absent THEN Empty ELSE Hex0x(q)

-----------------------------------------------------------------------------
(* Geth's side.                                                            *)

\* f, and what g has besides.
Joined(f, g) == [a \in DOMAIN f \cup DOMAIN g |->
                   IF a \in DOMAIN f THEN f[a] ELSE g[a]]

Of(object, names) == [a \in DOMAIN names |-> <<object, names[a]>>]

\* The quantities behind the accessors.
BlockNames ==
    [Hash |-> "hash", Number |-> "number", NumberU64 |-> "number",
     Time |-> "timestamp", ParentHash |-> "parentHash",
     Difficulty |-> "difficulty", GasUsed |-> "gasUsed",
     GasLimit |-> "gasLimit", Nonce |-> "nonce", Coinbase |-> "miner",
     Size |-> "size", Root |-> "stateRoot", UncleHash |-> "sha3Uncles",
     TxHash |-> "transactionsRoot", ReceiptHash |-> "receiptsRoot",
     Bloom |-> "logsBloom", Extra |-> "extraData", MixDigest |-> "mixHash",
     BaseFee |-> "baseFeePerGas", Uncles |-> "uncles"]

TxNames ==
    [Hash |-> "hash", Sender |-> "from", To |-> "to", Value |-> "value",
     Gas |-> "gas", GasPrice |-> "gasPrice", GasFeeCap |-> "maxFeePerGas",
     GasTipCap |-> "maxPriorityFeePerGas", Data |-> "input",
     Nonce |-> "nonce", Index |-> "transactionIndex", TypeByte |-> "type",
     ChainId |-> "chainId", V |-> "v", R |-> "r", S |-> "s"]

ReceiptNames ==
    [TxHash |-> "hash", TransactionIndex |-> "transactionIndex",
     CumulativeGasUsed |-> "cumulativeGasUsed", GasUsed |-> "gasUsed",
     ContractAddress |-> "contractAddress"]

LogNames ==
    [Address |-> "address", Topics |-> "topics", Data |-> "data",
     Index |-> "logIndex", Removed |-> "removed"]

\* Without base fee before London, without uncles after the merge.
GethBlock(fee, uncles) ==
    [Of("block", BlockNames) EXCEPT !.BaseFee = fee, !.Uncles = uncles]

GethBlocks == {GethBlock(fee, uncles) :
                  fee \in {<<"block", "baseFeePerGas">>, Absent},
                  uncles \in {<<"block", "uncles">>, Absent}}

LegacyTxType == 0
AccessListTxType == 1
DynamicFeeTxType == 2
BlobTxType == 3

\* GasPrice() of the types with a fee cap is the cap.
Price(type) == IF type < DynamicFeeTxType THEN <<"tx", "gasPrice">>
               ELSE <<"tx", "maxFeePerGas">>

GethTransaction(type, to) ==
    Joined([Of("tx", TxNames) EXCEPT !.To = to, !.GasPrice = Price(type)],
           [Type |-> type])

\* The types this go-ethereum decodes.
GethTransactions ==
    {GethTransaction(type, to) : type \in LegacyTxType..BlobTxType,
                                 to \in {<<"tx", "to">>, Absent}}

\* The statuses of a receipt, 0 and 1.
Failed == <<"constant", "0">>
Successful == <<"constant", "1">>

\* The receipt of the transaction, of the same block; a provider may leave
\* the block number out.
GethReceipt(contract, number, status) ==
    Joined([Of("tx", ReceiptNames) EXCEPT !.ContractAddress = contract],
           [BlockHash |-> <<"block", "hash">>, BlockNumber |-> number,
            Status |-> status])

GethReceipts ==
    {GethReceipt(contract, number, status) :
        contract \in {<<"tx", "contractAddress">>, Absent},
        number \in {<<"block", "number">>, Absent},
        status \in {Failed, Successful}}

GethLog ==
    Joined(Of("log", LogNames),
           [BlockHash |-> <<"block", "hash">>,
            BlockNumber |-> <<"block", "number">>,
            TxHash |-> <<"tx", "hash">>,
            TxIndex |-> <<"tx", "transactionIndex">>])

GethEntry == Of("entry", [Address |-> "address", StorageKeys |-> "storageKeys"])

-----------------------------------------------------------------------------
(* pkg/rpc/ethereum_client.go                                              *)

convertGethBlock(b) ==
    [hash |-> Hex0x(b.Hash), number |-> Dec(b.NumberU64),
     timestamp |-> Dec(b.Time), parentHash |-> Hex0x(b.ParentHash),
     difficulty |-> Dec(b.Difficulty), totalDifficulty |-> Empty,
     gasUsed |-> Dec(b.GasUsed), gasLimit |-> Dec(b.GasLimit),
     baseFeePerGas |-> DecOrEmpty(b.BaseFee), nonce |-> Int(b.Nonce),
     miner |-> Hex0x(b.Coinbase), size |-> Dec(b.Size),
     stateRoot |-> Hex0x(b.Root), sha3Uncles |-> Hex0x(b.UncleHash),
     transactionsRoot |-> Hex0x(b.TxHash),
     receiptsRoot |-> Hex0x(b.ReceiptHash), logsBloom |-> Hex(b.Bloom),
     extraData |-> Hex(b.Extra), mixHash |-> Hex0x(b.MixDigest),
     uncles |-> List(b.Uncles)]

\* The sender is recovered by the first of three signers, and for the types
\* go-ethereum decodes the first one always does.
convertTransaction(t, b) ==
    LET gasPrice == IF t.Type = DynamicFeeTxType
                    THEN t.GasFeeCap ELSE t.GasPrice
    IN  [hash |-> Hex0x(t.Hash), blockHash |-> Hex0x(b.Hash),
         blockNumber |-> Dec(b.Number), from |-> Hex0x(t.Sender),
         to |-> Hex0xOrEmpty(t.To), value |-> Dec(t.Value),
         gas |-> Dec(t.Gas), gasPrice |-> Dec(gasPrice),
         maxFeePerGas |-> IF t.Type = DynamicFeeTxType
                          THEN Dec(t.GasFeeCap) ELSE Empty,
         maxPriorityFeePerGas |-> IF t.Type = DynamicFeeTxType
                                  THEN Dec(t.GasTipCap) ELSE Empty,
         input |-> Hex(t.Data), nonce |-> Int(t.Nonce),
         transactionIndex |-> Int(t.Index), type |-> Dec(t.TypeByte),
         chainId |-> DecOrEmpty(t.ChainId),
         v |-> Dec(t.V), r |-> Dec(t.R), s |-> Dec(t.S),
         status |-> Bool(TRUE),
         \* Never assigned: Go's zero value.
         gasUsed |-> Empty, cumulativeGasUsed |-> Empty,
         effectiveGasPrice |-> Empty]

convertAccessListEntry(e) ==
    [address |-> Hex0x(e.Address), storageKeys |-> List(e.StorageKeys)]

\* Faulty variant: the two statuses are exchanged.
getReceiptStatusInverted(r) ==
    IF r.Status = Failed THEN Dec(Successful) ELSE Dec(Failed)

getReceiptStatus(r) ==
    IF r.Status = Successful THEN Dec(Successful) ELSE Dec(Failed)

\* String() of a nil block number is "<nil>".
convertGethReceipt(r) ==
    [transactionHash |-> Hex0x(r.TxHash),
     transactionIndex |-> Dec(r.TransactionIndex),
     blockHash |-> Hex0x(r.BlockHash), blockNumber |-> Dec(r.BlockNumber),
     cumulativeGasUsed |-> Dec(r.CumulativeGasUsed),
     gasUsed |-> Dec(r.GasUsed),
     contractAddress |-> Hex0xOrEmpty(r.ContractAddress),
     status |-> getReceiptStatus(r),
     \* Never assigned.
     from |-> Empty, to |-> Empty]

convertGethLog(l) ==
    [address |-> Hex0x(l.Address), topics |-> List(l.Topics),
     data |-> Hex(l.Data), blockNumber |-> Dec(l.BlockNumber),
     transactionHash |-> Hex0x(l.TxHash),
     transactionIndex |-> Int(l.TxIndex), blockHash |-> Hex0x(l.BlockHash),
     logIndex |-> Int(l.Index), removed |-> Bool(l.Removed)]

-----------------------------------------------------------------------------
(* pkg/types/conversion.go: the same conversions again, without a caller.  *)

ConvertBlock(b) ==
    [hash |-> Hex0x(b.Hash), number |-> Dec(b.Number),
     timestamp |-> DecInt64(b.Time), parentHash |-> Hex0x(b.ParentHash),
     difficulty |-> Dec(b.Difficulty), gasUsed |-> DecInt64(b.GasUsed),
     gasLimit |-> DecInt64(b.GasLimit), nonce |-> Int(b.Nonce),
     miner |-> Hex0x(b.Coinbase), size |-> Empty,
     stateRoot |-> Hex0x(b.Root), sha3Uncles |-> Hex0x(b.UncleHash),
     transactionsRoot |-> Hex0x(b.TxHash),
     receiptsRoot |-> Hex0x(b.ReceiptHash), extraData |-> Raw(b.Extra),
     \* Never assigned.
     totalDifficulty |-> Empty, baseFeePerGas |-> Empty,
     logsBloom |-> Empty, mixHash |-> Empty, uncles |-> List(Absent)]

\* The caller gives the sender and the status; the index is "not available
\* directly" and the nonce stands in for it.
ConvertTransaction(t, sender, b, status) ==
    [hash |-> Hex0x(t.Hash), blockHash |-> Hex0x(b.Hash),
     blockNumber |-> Dec(b.Number), from |-> Hex0x(sender),
     to |-> Hex0xOrEmpty(t.To), value |-> Dec(t.Value),
     gas |-> DecInt64(t.Gas), gasPrice |-> Dec(t.GasPrice),
     input |-> Hex(t.Data), nonce |-> Int(t.Nonce),
     transactionIndex |-> Int(t.Nonce), status |-> Bool(status),
     \* Never assigned.
     maxFeePerGas |-> Empty, maxPriorityFeePerGas |-> Empty,
     type |-> Empty, chainId |-> Empty, v |-> Empty, r |-> Empty,
     s |-> Empty, gasUsed |-> Empty, cumulativeGasUsed |-> Empty,
     effectiveGasPrice |-> Empty]

\* A zero contract address is written out, and stands for the recipient too.
ConvertReceipt(r) ==
    [transactionHash |-> Hex0x(r.TxHash),
     transactionIndex |-> DecInt64(r.TransactionIndex),
     blockHash |-> Hex0x(r.BlockHash),
     blockNumber |-> IF r.BlockNumber = Absent
                     THEN Dec(<<"constant", "0">>) ELSE Dec(r.BlockNumber),
     from |-> Empty, to |-> Hex0x(r.ContractAddress),
     cumulativeGasUsed |-> DecInt64(r.CumulativeGasUsed),
     gasUsed |-> DecInt64(r.GasUsed),
     contractAddress |-> Hex0x(r.ContractAddress),
     status |-> DecInt64(r.Status)]

ConvertLog(l) ==
    [address |-> Hex0x(l.Address), topics |-> List(l.Topics),
     data |-> Hex(l.Data), blockNumber |-> DecInt64(l.BlockNumber),
     transactionHash |-> Hex0x(l.TxHash),
     transactionIndex |-> Int(l.TxIndex), blockHash |-> Hex0x(l.BlockHash),
     logIndex |-> Int(l.Index), removed |-> Bool(l.Removed)]

\* What is written where the quantities in large are 2^63 and more: of the
\* others int64 keeps the value, and of those it makes a negative number.
Written(v, large) == IF v[1] = "int64" /\ v[2] \notin large
                     THEN Dec(v[2]) ELSE v

\* The fields two conversions of one object disagree on.
DisagreeOn(c, d, large) ==
    {f \in DOMAIN c : Written(c[f], large) # Written(d[f], large)}
=============================================================================
