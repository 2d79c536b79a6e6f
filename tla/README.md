# TLA+ models of the Shinzo block indexer

The program copies the newest block of an Ethereum (Geth) node, with its
transactions, access lists and logs, into the collections of a DefraDB node.
It is one sequential process that talks to two servers, may be killed at any
point, keeps nothing on disk, and may run beside other copies of itself. What
can go wrong lies between two of its calls: the chain reorganises, another
indexer writes, a request that was given up still commits. This directory models
that, checks it with TLC and proves the main results with TLAPS.

## 1. Inventory

| Component | Source | State it keeps | Operations |
|---|---|---|---|
| Main loop | `cmd/block_poster/main.go` | local variables of one turn | poll, `createBlockWithRetry`, `processTransactions`, `processSingleTransaction`, `processAccessListEntries`, `processTransactionLogs` |
| Ethereum client | `pkg/rpc/ethereum_client.go` | a connection | `GetLatestBlock`, `GetBlockByNumber` (uncalled), `GetNetworkID`, `GetTransactionReceipt`, conversions |
| Block handler | `pkg/defra/block_handler.go` | a URL, an `http.Client` | `CreateBlock`, `CreateTransaction`, `CreateAccessListEntry`, `CreateLog`, `Update...Relationships`, `PostToCollection`, `SendToGraphql`, `GetHighestBlockNumber` |
| Collections | `schema/schema.graphql` | documents, unique indexes, relations | create mutations, queries |
| Error package | `pkg/errors` | none | constructors, predicates, `GetRetryDelay` |
| Geth node (external) | through `ethclient` | the canonical chain | grows, reorganises |
| DefraDB node (external) | through GraphQL | the documents | create mutations |
| Number conversions | `pkg/utils/hex.go` | none | `HexToInt`, `NumberToHex`, `IntToString`, `StringToInt` |
| Generic retry helper | `pkg/utils/retry.go` | local variables of a call | `RequestResourceWithRetries` (uncalled) |
| Types and conversions | `pkg/types` | none | records, `ConvertBlock` and its like (uncalled) |
| Configuration | `config/config.go` | read once | `LoadConfig` with the environment's overrides |
| Logger | `pkg/logger/zap.go` | the global `Sugar`, nil until `Init` | `Init`, `LogError` |
| Scripts | `scripts/*.sh` | processes, the ready file, pid files | bootstrap, schema, teardown |
| Alchemy client, test utilities, integration tests | `pkg/rpc/alchemy.go`, `pkg/testutils`, `integration` | none | not part of the running program |

Interaction. The main loop calls the Ethereum client for the head, then for the
block; posts the block until DefraDB takes it or the retries are spent; then,
for each transaction in order, posts it, asks for its receipt, posts the access
list and the logs. Every call is synchronous and there are no goroutines, so
all concurrency is between the process and the servers, or between processes.

Hard behaviours, and what each component owes:

* *Main loop.* Calls fail one by one and most failures are logged and passed
  over. It owes: a log line for all that it drops, progress after any failure,
  and never a document whose relation does not resolve.
* *Ethereum client.* Header, block and receipt are three requests to a chain
  that moves in between; blocks with unknown transaction types are stepped
  over. It owes: a block or an error, never neither.
* *Block handler.* A failed answer does not mean a failed mutation. It owes: an
  error whose class tells the main loop what to do.
* *Collections.* Two `hash` fields are uniquely indexed and nothing else is. They
  owe: no transaction twice, and, with the main loop's order of calls, no log
  twice.
* *Error package.* It owes: bounded delays, a class per error that survives
  wrapping, and with `createBlockWithRetry` a bounded number of posts.
* *Field copies.* Sixty fields go through three conversions, `buildBlock` and
  four maps. They owe: under each name the quantity it names.
* *Answers.* DefraDB's status code is not read and there are two shapes of
  answer. The handler owes: no acknowledgement of what was not done.
* *Startup.* The logger does not exist before the configuration is read. It
  owes: a loop that knows its store, or an exit that says why.
* *Scripts.* Two of them signal each other while services come and go. They
  owe: no stale readiness, a teardown, an end.
* *Numbers.* Decimal and hexadecimal texts meet one parser. They owe: the number
  that was written, or an error.

The hazards, one by one and each at its line, are in `PROJECT.json`.

## 2. Modules

| Module | Models |
|---|---|
| `ChainData` | the block tree, its contents, the documents made of them |
| `GethNode` | the canonical chain; `NewHead` grows or reorganises it (external) |
| `DefraDB` | acceptance, commit, failure and late commit of a create mutation (external, with the schema's unique indexes) |
| `IndexerErrors` | the constructors' table, `errors.As` over Unwrap chains, the predicates, `GetRetryDelay` |
| `RetryPolicy` | the decision `createBlockWithRetry` takes on an error |
| `BlockPoster` | the indexer processes, composed with the two nodes |
| `ChainIndex` | abstract specification: what the collections promise a reader |
| `IndexerProperties` | the properties of `BlockPoster`, and `ChainIndex` instantiated on `docs` |
| `CreateBlockRetry` | `createBlockWithRetry` alone, for any set of errors, with the posts and the seconds slept |
| `FieldConversions` | the client's conversions and those of `pkg/types`, from go-ethereum's accessors to the records |
| `DocumentFields` | `buildBlock`, the maps of the create functions, `PostToCollection`'s literals and the schema's field types, along one turn |
| `HandlerAnswers` | one call of any function of the block handler: argument checks, the request, every kind of answer, its reading |
| `Startup` | `LoadConfig`, `logger.Init` and the two constructors, for every file, environment and log directory |
| `ErrorFlow` | an error wrapped on its way up, `WrapError` and its panic, `LogError` and the log calls of `main.go` |
| `Numbers` | writing and reading numbers with the integers' width |
| `Numerals` | a number's digits in a base, and the number a text of digits stands for (external, `fmt` and `strconv`) |
| `GenericRetry` | `RequestResourceWithRetries` |
| `Bootstrap` | `bootstrap.sh` and `test_integration.sh` with the services they start |
| `MCBlockPoster`, `MCCreateBlockRetry` | small instances |
| `MCParts` | the seven modules from `DocumentFields` to `Bootstrap` side by side |
| `IndexerProofs`, `ImplementsProofs` | theorems about `BlockPoster` |
| `ChainIndexProofs`, `CreateBlockRetryProofs`, `GenericRetryProofs`, `ErrorFlowProofs`, `NumeralsProofs` | theorems about the module each is named after |
| `PartsProofs` | theorems about the parts of `MCParts`, for every value of their constants |

`BlockPoster` composes `GethNode` and `DefraDB` and is the centre. The other
modules each take one of its abstractions apart: `DocumentFields` what a
document holds, `HandlerAnswers` what "the post fails" means (its property
`OneErrorStandsForAll` is what lets `BlockPoster` use a single error),
`CreateBlockRetry` and `ErrorFlow` how errors are classified, `Startup` and
`Bootstrap` what comes before the loop. Seven of them share no state, and none
calls another; `MCParts` checks them in one run, whose behaviours are each a
behaviour of one part. Their own `Spec` says what each is alone.

### State and actions of `BlockPoster`

`pc[i]` names the call process `i` is about to make; an action is one call with
one of its outcomes and everything the code does with that outcome up to the
next call. `hdr` and `retries` are the variables of `GetLatestBlock`, `blk` the
block in hand, `attempts` is `blockRetryAttempts`, `txi` and `k` are the
positions of the nested loops, `rcpt` the block the receipt in hand was taken
from. `errs` is a history variable: the failures logged since the block was
fetched. `canon`, `docs` and `inflight` belong to the two nodes.

| Action | Code |
|---|---|
| `FetchHeader`, `FetchHeaderFails` | `HeaderByNumber`, and `continue` in main |
| `FetchBlock`, `FetchBlockUnsupported`, `FetchBlockFails` | the loop of `GetLatestBlock` |
| `BlockStored`, `BlockRetried`, `BlockSkipped`, `Backoff` | `createBlockWithRetry` |
| `TransactionStored`, `TransactionFails`, `TransactionsDone` | `processTransactions`, `CreateTransaction` |
| `ReceiptFetched`, `ReceiptFails` | `GetTransactionReceipt` in `processSingleTransaction` |
| `AccessListEntryStored`, `...Fails`, `AccessListDone` | `processAccessListEntries` |
| `LogStored`, `LogFails`, `LogsDone` | `processTransactionLogs` |
| `Wake` | the end of `time.Sleep` in main |
| `Crash`, `Restart` | the process is killed (it handles no signal) and started again |
| `GethStep`, `DefraStep` | a new head; an abandoned request commits or is dropped |

A request whose client saw an error has one of three fates: it was refused or
never arrived, it is abandoned and commits later (`LateCommit`, possibly before
the client's next call), or it is abandoned and dropped.

### State and actions of the other modules

* `DocumentFields`. A value is a pair: the way it is written down and the
  quantity it stands for, such as `Dec(<<"block", "number">>)`. The actions are the
  five calls of a turn in order; `docs` collects what was stored. `gblock`,
  `gtx` and `greceipt` are fixed in `Init`: the four transaction types go-ethereum
  decodes, with and without recipient, base fee, uncles, contract. `strict` says
  whether DefraDB refuses input fields its type does not have; both are modelled.
* `HandlerAnswers`. `Reject`, `SendToGraphql`, `Serve`, `Read` are one call;
  `PerformLate` is the server performing a mutation whose answer was lost.
  `body` says what `json.Unmarshal` makes of the answer, and may be a cut or
  replaced one whatever was performed. The `Update...Relationships` functions
  leave the request's method empty, which `net/http` sends as GET; that DefraDB
  refuses it is one of the outcomes of `Serve`. Numbers above 2^53, which a JSON
  number of `GetHighestBlockNumber` would lose, are no block numbers.
* `Startup`. `at` is the next call of `main`; `Fatal` is `Sugar.Fatalf`, which
  panics while `Sugar` is nil. `LoadConfig`, `InitLogger`, `NewEthereumClient`
  and `NewBlockHandler` are the four calls.
  Of an acknowledgement that arrives whole, the create functions take either
  shape, the updates a list only; `WholeAnswerTaken` states both.
* `ErrorFlow`. `err` is the Unwrap chain; `Construct` and `Errorf` put something
  around it, except that `NewDocumentNotFound` takes no underlying error and
  starts a chain anew (`Causeless`). `Wrap` is `WrapError`: it returns the
  outermost IndexerError, and panics if there is none (`Panic`, after which
  nothing happens any more). `LogError` and `Report` write `line`: who reported
  last, and at which level. `MaxChain` bounds the chain.
* `Numbers`. `Write`, then perhaps `Pad`, then `Read`. `SignBit` is the weight of
  the highest bit of an int64, 2^63 in the program.
* `GenericRetry`. `Iterate` is the head of the loop, `Wake` the end of the sleep,
  `Succeeds` and `Fails` the operation, which may have its effect and fail.
  `outcomes`, `effects` and `sleeps` are history variables.
* `Bootstrap`. `boot` and `test` are the next commands of the two scripts; a
  pending signal (`term`) waits for the trap if there is one and ends the script
  if there is none (`DieUntrapped`). `resume` is where `test_integration.sh` goes
  on after its trap, which does not exit: at the command it was at, or, when
  Control-C has ended that as well and `set -e` takes this for a failure, at its
  end (`Exit`), where a `curl` that is refused leads too. Either service may end
  at any time.

### Abstractions

* A document's `_docID` stands for its hash. DefraDB derives it from the
  contents, and both types that are referred to are uniquely indexed by hash.
* `logIndex` is the position in the receipt. A reorganised transaction has, in
  the model, the same number of logs wherever it is included.
* The canonical chain answers for the height asked, so a block that was
  canonical when the header was read may be gone when it is fetched.
* `GetNetworkID` is called between block and post; its result is discarded and
  its failure handled by a default, so it is no step.
* In `BlockPoster` a document has its indexed and relational fields only, and
  whether a collection accepts the fields the code posts is the constant `Takes`;
  the proofs hold for every value of it, and the runs give it all four
  collections. `DocumentFields` has all the fields: a store that refuses unknown
  ones takes no transaction, and one that ignores them takes everything.
* `CreateBlock` can only fail in `PostToCollection` for the blocks the loop
  passes to it (the number is the decimal string of a header), so
  `BlockPoster` uses one error, `CreateBlockFailed`; all others are in
  `CreateBlockRetry`.
* Formatting of log lines is left out, and time is: `time.Sleep` is a step, its
  length matters only in `CreateBlockRetry`.

## 3. Runs

| Run | Instance | Shows |
|---|---|---|
| `fork` | 1 indexer; b0 and the fork b1, c1; t1 on both branches, t2; the same access-list entry twice; two logs; one abandoned request at a time | types, nothing dropped without a log line, late commits resolve, refinement of `ChainIndex` |
| `race` | 2 indexers; b0, b1, c1; t1 on both branches, one log; an abandoned request never arrives | one writer per transaction, refinement with two writers |
| `decode` | 1 indexer; b0-b1-b2 against a branch of three undecodable blocks over b0; no abandoned request | no nil block |
| `live` | 1 indexer; the fork and an undecodable branch; fair specification | returns to polling; a stable head is indexed; a calm run indexes everything in the blocks it stores |
| `retry` | every constructor: bare, wrapped in `QueryFailed`, wrapped in a standard error | posts, waits, ends, fatal |
| `success_not_complete` | violation | the success line for an incomplete block (`main.go:87`) |
| `log_of_other_block` | violation | a log filed under a block that did not emit it (`README.md:124`) |
| `retry_when_stored` | violation | a permanent refusal treated as temporary (`types.go:43`) |
| `transactions_lost` | violation, fair | a crash orphans a stored block for good (`main.go:84`) |
| `four_attempts` | violation | four posts where the test expects three (`error_logging_test.go:198`) |
| `wrap_error_panics` | violation | `WrapError` panics where it should wrap a standard error (`utils.go:86`) |
| `parts` | every go-ethereum block, transaction type and receipt of `FieldConversions` against a strict and a lenient store; every function of the handler with every argument and answer, block numbers 1 to 3 in the store; every file, environment and log directory of `Startup`, ports 9181 and 9999; Unwrap chains of up to three errors; all 8-bit numbers; the default and -2 to 2 retries with four classes of error; both scripts, and `bootstrap.sh` alone; fair | field by field what is stored; where the two sets of conversions differ; what an acknowledgement, an error and a highest number mean; the store the loop starts with and exits with a line; verdicts and classes kept by wrapping, with the exceptions; numbers read back or refused; the retry helper's error, effects and end; no stale readiness, teardown by signal, the tests end |

Bounds and why they are enough. `MaxInFlight` bounds the abandoned requests
waiting at a time; in `fork` and `live` one of them meets every later step of
its process. `race` has none, to stay small: there an abandoned request is lost,
and the second indexer is the late writer. The proofs hold for any number. The tree is finite and a block
once abandoned may become canonical again, so the number of reorganisations is
*not* bounded. Two branches are what a receipt and a block can differ by; three
undecodable blocks exceed the two steps back. Two indexers are what `OneWriter`
compares. A repeated entry and two logs are what the inner loops can lose or
refuse. Retries, polls and crashes are not bounded. Deadlock is checked in every
run of `BlockPoster`; `CreateBlockRetry` stops when the call returns, and the
parts of `parts` are calls and scripts that end, so their runs do not check it.

In `parts` the inputs are enumerated and each part is finite: most of it is
exhaustive, not bounded. What is bounded: chains of three hold a constructor over
a constructor over a library's error, and a library's wrapper between two
constructors, which are the cases `errors.As` tells apart (`ErrorFlowProofs` has
no bound). `ConversionsAgree` is asked for every set of fields that may hold 2^63 or
more, the width at which an int64 loses a uint64. Eight bits (`SignBit` is 128) have every sign, the least and the greatest number, the
overflow of the unsigned nonce, and numerals that fit in one base and not in
the other. Three block numbers are enough for an order to be wrong in the middle.
-2 and -1 retries are the two negative cases: one attempt count is wrong, one right
(`GenericRetryProofs` has no bound).

Fairness (`FairSpec`). Weak fairness of a process's own steps says that each
call returns, each sleep ends, and a process that was killed is started again.
The code does not enforce the first: `http.Client` has no timeout, so a server
that never answers stops the indexer, and this is listed as a hazard. Strong
fairness of `FetchHeader`, `FetchBlock`, `FetchBlockUnsupported` and
`BlockStored` says that a server asked again and again does not fail the same
call for ever; the loop of main asks for ever, which is what makes the condition
meaningful. `StableHeadIndexed` needs it and `AlwaysPollsAgain` needs the weak
part only. `transactions_lost` fails under this same fairness. In `parts`, weak
fairness of the retry helper says that its operation returns and its sleep ends;
weak fairness of `BootStep` and `TestStep` says that the scripts run, `WaitReady`
and `WaitSchema` being bounded by the scripts themselves. Nothing makes a user
interrupt a script or a service fail.

Each property of a passing run has a mutant: a faulty variant of a definition
(its comment says which bug it stands for) under which the run finds the property
violated.

## 4. Proofs

All theorems hold for every value of the constants that satisfies the
assumptions of the modules they are about: the tree is a tree with heights one apart
and its root can be decoded (`TreeAssumption`), blocks have finite sequences of
transactions, entries and logs (`ContentAssumption`), `MaxInFlight` is a natural
number and `Takes` names collections (`DefraAssumption`), the configured retries
are integers and nil is no failure (`GenericRetryAssumption`), block numbers are
positive and finitely many, ports and the sign bit are positive (`PartsAssumption`).
`CreateBlockRetry`, `ErrorFlow` and `Numerals` assume nothing.

* `IndexerProofs`. `TypeOK` is not inductive: that `attempts` stays within
  `TotalRetryAttempts` depends on `Backoff` being reached only with a retry
  left, and that positions index their sequences depends on the call the process
  is at. `TypeInv` adds this per process (`Shape`). `TypeCorrect` and
  `BlockAlwaysInHand` follow.
* `ImplementsProofs`. `StoreInv` speaks of the documents in the store *or on
  their way* (`Known`), since an abandoned request may commit at any time:
  each refers to stored documents and says what the tree says (`KnownFiled`); the
  transaction hash is unique (`TxOnce`); known logs of one transaction agree on
  the block they came from (`LogsAgree`); and each process relies on facts that
  fit the call it is at (`Holds`): its block is stored, its transaction is stored,
  no log of it is known before its receipt, and after it all known logs are its
  own. `OneWriter` is part of the invariant: the acceptance of a transaction
  excludes, through `KnownFiled`, that anything of it is known and, through
  `Holds`, that anyone else is working on it (`AcceptedTxIsNew`). The proof
  first reduces every step to "nothing is committed" or "one acceptable document
  is" (`StepEffect`) and to what it does to a process (`StepMoves`), so that the
  conjuncts are not proved once per action. The refinement (`Implements`) then
  shows that committing a filed document is a step of `ChainIndex`.
  For `NothingEverLostSilently`, `Passed` says that what the nested loops have left
  behind is settled; with `StoreInv` it is inductive, for blocks of any length.
  Last, the theorems of `ChainIndexProofs`, instantiated on `docs`, are carried
  over along the refinement: however many indexers write, whatever fails and
  whenever the chain reorganises, a reader of the collections has `StoredOnce`,
  `LinksResolve` and `OneReceipt` (`ReaderPromises`).
* `ChainIndexProofs`. The type invariant of `ChainIndex`, and as lemmas what its
  guards promise a reader. That alone says nothing of the code, so no run checks
  `ChainIndex` on its own and these are not listed as results: they are results
  once `ReaderPromises` has carried them over to `BlockPoster`.
* `CreateBlockRetryProofs`. The attempt counter lags the posts by one while the
  call sleeps; from this, how the call ends, for any set of errors. `Waits` adds
  what has been slept against the attempts counted. It needs the values of
  `GetRetryDelay`'s doubling function, which is defined by recursion: that a
  function solves its equation is shown by naming one that does (`DoubledDef`),
  and the values follow by unfolding it three times.
* `GenericRetryProofs`. `ErrorAccountsForAttempts` speaks of the end of the call
  only. `Loops` says, at each point of the loop, how the counter, the attempts,
  the effects and the sleeps stand to each other, and that every attempt so far
  failed; it is inductive for any bound, negative ones included.
* `ErrorFlowProofs`. `WrapError` keeps everything from the outermost IndexerError
  on, which exists because a nonempty set of positions has a least member
  (`LeastNatural`); what it drops decides nothing, and a constructor that takes
  an underlying error, or `fmt.Errorf`, moves the rest down by one (`Prefixed`).
  So where `WrapError` returns it keeps the verdict, every wrapping but
  `NewDocumentNotFound`'s keeps the class, and every error of the indexer's own
  reaches the error file, for chains of any length.
* `NumeralsProofs`. Digits and their reading are recursive functions, over whose
  arguments nothing can be concluded by unfolding. Each equation has a solution up
  to any bound (`LoopExists`, `TableExists`) and only one (`LoopUnique`,
  `TableUnique`), both by induction over a set of naturals (`SetInduction`); from
  the one solution follow what a digit more does to the number (`ValuedAppend`),
  that a zero in front does nothing (`ValuedZeroFirst`), and, by induction over
  the number, that reading undoes writing in base 10 and 16
  (`ReadingUndoesWriting`).
* `PartsProofs`. A behaviour of `PartsSpec` stays with one part and takes its steps
  (`PartSteps`), so each part has an invariant of its own:
  - `StartInv` says what the settings, the logger and the two constructors have
    become at each call of `main`, for any two ports.
  - `AnswersInv` relates what the store has performed to the answer on its way
    (`AnswerFits`) at each stage of a call. The properties then compare, function
    by function, what the handler reads out of an answer with that. `HighestOrError`
    holds of any finite set of block numbers: such a set has a greatest member
    (`GreatestOfFinite`), and the code takes the first of a descending list.
    `OneErrorStandsForAll` needs the Unwrap chains of every error member by
    member (`Prepended` and the lemmas after it).
  - `NumsInv` says of which number the text in hand was written and that what was
    read is a reader's result on it. `ReadsDecimal` and `ReadsHex` are about all
    readers at once, for every integer and any width.
  - `ScriptsInv` says which places in `test_integration.sh` exclude a stale ready
    file, and `NothingLeftBehind` is the safety part of `SignalTearsDown` and
    `TestsEnd`: a teardown that has ended is complete, and the tests do not end
    before it.
  - `FieldsInv` says that what is stored is, for each collection, the document the
    create function makes of what go-ethereum decoded, and what each call needs
    stored before it. The rest is about single documents: `BlockAccessors` and its like
    give the quantity behind each accessor, `ConvertedBlock` and
    `ConvertedTransaction` follow it into the client's records, and
    `BlockDocument`, `TransactionDocument`, `EntryDocument` and `LogDocument` into
    the maps that are posted, with the literal of each field and the schema's
    type for it. The two sets of conversions are compared over the fields
    of either, those left empty included (`BlocksAgree` and its like): for each
    field, whether both write it, in the same way, and through an int64
    (`WaysDiffer`). The module has no constants, so the run of it is exhaustive
    too; the proofs say field by field where a value comes from.
  - The theorems of `ErrorFlowProofs`, instantiated on the chain, are carried over to
    `PartsSpec`.

Only model-checked: the liveness properties (`AlwaysPollsAgain`,
`StableHeadIndexed`, `CalmRunIndexesAll`, `SignalTearsDown`, `TestsEnd`,
`CallEnds`), since fairness and `ENABLED` are outside what the prover handles,
and the violated statements.

## 5. Divergences met while modelling

Six are findings, each with a run that shows it. The others are visible in the
source without a run, and the models carry them as they are:

* *A failed turn does not wait.* The sleep is the last statement of the loop
  (`main.go:89`), so `continue` after a failed `GetLatestBlock` (`main.go:55`) or
  a block that was not created (`main.go:80`) polls again at once. An indexer
  whose Geth node is down asks as fast as it is refused, and one whose newest
  block is stored asks again after its retries. In `BlockPoster` these
  actions lead to `FetchHeader` and not to the sleep.
* *Fields lost in `buildBlock`* (`main.go:199`). `BaseFeePerGas`, `MixHash` and
  `Uncles`, which the client filled in, keep their zero values and are
  posted empty (`Fillable`).
* *The status is never the receipt's.* `convertTransaction` sets it to `true` with
  the comment "will be updated from receipt" (`ethereum_client.go:284`), and
  nothing updates it: a transaction that failed is stored as successful.
  `FieldsMeanWhatTheySay` leaves this field out. `gasUsed`,
  `cumulativeGasUsed` and `effectiveGasPrice` stay empty for the same reason.
* *`gasUsed` is not in the schema.* `CreateTransaction` posts it
  (`block_handler.go:114`) and `type Transaction` lacks it; a store that checks
  its input takes no transaction at all, against `README.md:25`.
* *`CreateLog` reads a nil log* (`block_handler.go:156`) before it checks for one
  (line 160), so the error meant for it is a panic. main never passes nil.
* *A configuration that cannot be loaded is reported through a nil logger*
  (`main.go:26`, before `logger.Init` in line 28): the process panics in
  `Fatalf` instead of saying why.
* *An empty `node_url` is no error* (`ethereum_client.go:29`): the loop starts
  without a connection and fails each turn.
* *The README's configuration does not start.* `README.md:85` to 92 gives a
  `node_url` without a scheme, which `Dial` refuses, and `defra.url`, which
  `LoadConfig` does not read, so that host and port stay empty.
* *Ready before it is known.* `bootstrap.sh:63` makes the ready file before it
  asks whether either process is alive, and before its trap is installed; a
  signal in between leaves both services running.
* *Services may outlive the tests* (`README.md:108` says they are torn down).
  The checks of `bootstrap.sh:80` to 86 exit without stopping the other service, and
  `test_integration.sh` then has nothing left to signal.
* *`HexToInt` takes base 0* (`hex.go:21`). Its comment (`hex.go:15`) says "with or
  without 0x prefix", but without the prefix a string is read as decimal, or as
  octal after a leading zero, or is refused.
* *`pkg/types` takes uint64 values through an int64* (`conversion.go:18` and its
  like): a gas limit, a time stamp or a block number of 2^63 or more becomes
  negative, where the client writes it as it is. `ConversionsAgree` names the
  fields, and those one of the two leaves empty. Nothing calls these conversions.
* *`NewDocumentNotFound` drops its cause* (`constructors.go:123`): it takes no
  underlying error, so what it is made of is not seen by `errors.As`. The code
  gives it none today; `ClassesStick` excepts it.
* *An update acknowledged with a single object is an error.* `parseGraphQLResponse`
  reads lists only (`block_handler.go:434`), where `PostToCollection` reads
  either shape.
* *`RequestResourceWithRetries` retries every error* (`retry.go:59`), also those
  `README.md:162` says should not be retried. Nothing calls it.
* *The context of an error is no field of its log line.* `Sugar.With(logCtx)` takes
  key-value pairs and gets one map (`main.go:148` and its like), which it
  reports as a dangling key; and no caller gives an error the block number or
  transaction hash `README.md:37` promises.

## 6. Not modelled, and what is left

Left out, with the reason:

* The Alchemy client and the test utilities: no code of the program calls them, and
  neither keeps state. The integration tests and queries read a running system.
* `Close`, deferred in a `main` that never returns; `GetBlockByNumber`, without
  a caller; `GetNetworkID`, whose result decides nothing; the structs of
  `pkg/types` and the settings of `config.yaml` no code reads.
* The length of the polling interval: `BlockPoster` has no clock.
* The text of messages and log lines, `LogContext`, encoders and time stamps.
* `make stop`, `purge_and_apply.sh`, `start_apply_schema.sh` and the inside of
  `apply_schema.sh`: single commands run by hand.
* A server that accepts a call and never answers: `http.Client` has no timeout
  (`block_handler.go:34`), and the liveness properties assume that calls return.

Every invariant a passing run checks is also a theorem. Left to do, with a prover
for fairness: the liveness properties of the list above.
