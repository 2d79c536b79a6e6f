------------------------------ MODULE MCParts ------------------------------
(***************************************************************************)
(* The small models side by side.  They share no state and none calls      *)
(* another: a behaviour is one of a single part, chosen at the start, while *)
(* the variables of the other parts stay at values none of their actions   *)
(* accepts.                                                                *)
(***************************************************************************)
EXTENDS GenericRetry, FiniteSets

CONSTANTS Heights,              \* of HandlerAnswers
          FilePort, EnvPort,    \* of Startup
          MaxChain,             \* of ErrorFlow
          SignBit               \* of Numbers

\* A block number is an int64: a store holds finitely many.
ASSUME PartsAssumption ==
    /\ Heights \subseteq Nat \ {0} /\ IsFiniteSet(Heights)
    /\ {FilePort, EnvPort} \subseteq Nat \ {0}
    /\ {MaxChain, SignBit} \subseteq Nat \ {0}

MCMaxRetries == {-2, -1, 0, 1, 2}
MCFailures ==
    {<<"RPCTimeout">>, <<"RateLimited">>, <<"InvalidHex">>, <<"standard">>}

VARIABLES
    part,
    strict, gblock, gtx, greceipt, call, docs,
    op, input, stored, stage, performed, body, id, result,
    file, env, disk, step, cfg, Sugar, httpClient, handler, reported,
    chain, line,
    num, by, text, got,
    boot, test, resume, trapped, term, defra, poster, schema, ready

Fields == INSTANCE DocumentFields WITH at <- call
Answers == INSTANCE HandlerAnswers WITH at <- stage, err <- result
Start == INSTANCE Startup WITH at <- step
Flow == INSTANCE ErrorFlow WITH err <- chain
Nums == INSTANCE Numbers
Scripts == INSTANCE Bootstrap

Parts == {"fields", "answers", "startup", "errors", "numbers", "retry",
          "scripts"}

fields == <<strict, gblock, gtx, greceipt, call, docs>>
answers == <<op, input, stored, stage, performed, body, id, result>>
startup == <<file, env, disk, step, cfg, Sugar, httpClient, handler, reported>>
errors == <<chain, line>>
numbers == <<num, by, text, got>>
scripts == <<boot, test, resume, trapped, term, defra, poster, schema, ready>>

allVars == <<part, vars, fields, answers, startup, errors, numbers, scripts>>

-----------------------------------------------------------------------------
Idle == "idle"

FieldsIdle == /\ strict = Idle /\ gblock = Idle /\ gtx = Idle
              /\ greceipt = Idle /\ call = Idle /\ docs = Idle

AnswersIdle == /\ op = Idle /\ input = Idle /\ stored = Idle /\ stage = Idle
               /\ performed = Idle /\ body = Idle /\ id = Idle /\ result = Idle

StartIdle == /\ file = Idle /\ env = Idle /\ disk = Idle /\ step = Idle
             /\ cfg = Idle /\ Sugar = Idle /\ httpClient = Idle
             /\ handler = Idle /\ reported = Idle

FlowIdle == chain = <<"standard">> /\ line = <<>>

NumsIdle == num = Idle /\ by = Idle /\ text = Idle /\ got = Idle

RetryIdle == /\ MaxRetries = 0 /\ Logger = Idle /\ at = "returned"
             /\ retries = 0 /\ lastErr = <<>> /\ outcomes = <<>>
             /\ effects = 0 /\ sleeps = 0 /\ err = NoError

ScriptsIdle == /\ boot = Idle /\ test = Idle /\ resume = Idle
               /\ trapped = FALSE /\ term = FALSE
               /\ defra = Idle /\ poster = Idle /\ schema = Idle
               /\ ready = Idle

PartsInit ==
    /\ part \in Parts
    /\ IF part = "fields" THEN Fields!Init ELSE FieldsIdle
    /\ IF part = "answers" THEN Answers!Init ELSE AnswersIdle
    /\ IF part = "startup" THEN Start!Init ELSE StartIdle
    /\ IF part = "errors" THEN Flow!Init ELSE FlowIdle
    /\ IF part = "numbers" THEN Nums!Init ELSE NumsIdle
    /\ IF part = "retry" THEN Init ELSE RetryIdle
    /\ IF part = "scripts" THEN Scripts!Init ELSE ScriptsIdle

FieldsNext ==
    /\ part = "fields" /\ Fields!Next
    /\ UNCHANGED <<part, vars, answers, startup, errors, numbers, scripts>>

AnswersNext ==
    /\ part = "answers" /\ Answers!Next
    /\ UNCHANGED <<part, vars, fields, startup, errors, numbers, scripts>>

StartNext ==
    /\ part = "startup" /\ Start!Next
    /\ UNCHANGED <<part, vars, fields, answers, errors, numbers, scripts>>

FlowNext ==
    /\ part = "errors" /\ Flow!Next
    /\ UNCHANGED <<part, vars, fields, answers, startup, numbers, scripts>>

NumsNext ==
    /\ part = "numbers" /\ Nums!Next
    /\ UNCHANGED <<part, vars, fields, answers, startup, errors, scripts>>

RetryNext ==
    /\ part = "retry" /\ Next
    /\ UNCHANGED <<part, fields, answers, startup, errors, numbers, scripts>>

ScriptsNext ==
    /\ part = "scripts" /\ Scripts!Next
    /\ UNCHANGED <<part, vars, fields, answers, startup, errors, numbers>>

PartsNext == \/ FieldsNext \/ AnswersNext \/ StartNext \/ FlowNext \/ NumsNext
             \/ RetryNext \/ ScriptsNext

\* The fairness of FairSpec in GenericRetry and of Spec in Bootstrap.
PartsSpec ==
    /\ PartsInit /\ [][PartsNext]_allVars
    /\ WF_vars(Next)
    /\ WF_scripts(Scripts!BootStep)
    /\ WF_scripts(Scripts!TestStep)

-----------------------------------------------------------------------------
(* The properties of the parts, each of the behaviours of its own part.    *)

\* Every field stored holds the quantity its name says, or is one of the few
\* known to stay empty.
FieldsMeanWhatTheySay == part = "fields" => Fields!FieldsMeanWhatTheySay

\* What the create functions post has the fields and literals of the schema,
\* and one field more.
PostsFitTheSchema == part = "fields" => Fields!PostsFitTheSchema

\* The client's conversions and those of pkg/types differ in exactly the
\* fields named, wherever an int64 loses a value too.
ConversionsAgree == part = "fields" => Fields!ConversionsAgree

\* The block handler acknowledges only what DefraDB has performed.
AckMeansDone == part = "answers" => Answers!AckMeansDone

\* The block handler takes a whole acknowledgement for one: a create's in either
\* shape, an update's as a list only.
WholeAnswerTaken == part = "answers" => Answers!WholeAnswerTaken

\* An error that forbids a retry says that nothing was sent.
HopelessMeansUnsent == part = "answers" => Answers!HopelessMeansUnsent

\* createBlockWithRetry decides alike on all errors of a well-formed block.
OneErrorStandsForAll == part = "answers" => Answers!OneErrorStandsForAll

\* GetHighestBlockNumber returns the highest number stored, or an error.
HighestOrError == part = "answers" => Answers!HighestOrError

\* The main loop starts with the store the file and the environment name.
LoopKnowsItsStore == part = "startup" => Start!LoopKnowsItsStore

\* A start that fails leaves a line on the console, once there is a logger.
ExitsSayWhy == part = "startup" => Start!ExitsSayWhy

\* What is an error reaches the error file, however it is wrapped.
ErrorsReachTheErrorFile == part = "errors" => Flow!ErrorsReachTheErrorFile

\* WrapError changes no decision a caller takes, where it returns.
WrapErrorKeepsVerdict == Flow!WrapErrorKeepsVerdict

\* WrapError wraps a standard error (pkg/errors/utils.go:86): it panics.
WrapErrorWraps == part = "errors" => Flow!WrapErrorWraps

\* Wrapping never hides the class of an error.
ClassesStick == Flow!ClassesStick

\* A block number is read as the number that was written, or refused.
DecimalsSurvive == part = "numbers" => Nums!DecimalsSurvive

\* So is a number written with a 0x.
HexSurvives == part = "numbers" => Nums!HexSurvives

\* Two nonces that differ are stored as different numbers.
NoncesStayApart == part = "numbers" => Nums!NoncesStayApart

\* The ready file the tests see is of this run of bootstrap.sh.
ReadyIsOfThisRun == part = "scripts" => Scripts!ReadyIsOfThisRun

\* A signal that meets the trap stops both services and removes the file.
SignalTearsDown == Scripts!SignalTearsDown

\* The tests end if their user stops interrupting them.
TestsEnd == Scripts!TestsEnd
=============================================================================
