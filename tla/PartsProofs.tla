----------------------------- MODULE PartsProofs -----------------------------
(***************************************************************************)
(* The invariants of the small models, for every value of their constants. *)
(* Each part is proved on its own: the steps of the others leave its       *)
(* variables alone.                                                        *)
(***************************************************************************)
EXTENDS MCParts, SequenceTheorems, FiniteSetTheorems, TLAPS

FlowProofs == INSTANCE ErrorFlowProofs WITH err <- chain
Numerals == INSTANCE NumeralsProofs

-----------------------------------------------------------------------------
(* Chains of known length.                                                  *)

\* Short chains are what their members are.
LEMMA ByMembers ==
    ASSUME NEW S, NEW w \in Seq(S)
    PROVE  /\ Len(w) = 2 => w = <<w[1], w[2]>>
           /\ Len(w) = 3 => w = <<w[1], w[2], w[3]>>
           /\ Len(w) = 4 => w = <<w[1], w[2], w[3], w[4]>>
<1>1. CASE Len(w) = 2
  BY <1>1
<1>2. CASE Len(w) = 3
  BY <1>2
<1>3. CASE Len(w) = 4
  BY <1>3
<1> QED
  BY <1>1, <1>2, <1>3

\* A chain with one more member in front.
LEMMA Prepended ==
    ASSUME NEW S, NEW a \in S, NEW e \in Seq(S), NEW w, w = <<a>> \o e
    PROVE  /\ w \in Seq(S)
           /\ Len(w) = Len(e) + 1
           /\ w[1] = a
           /\ \A n \in 1..Len(e) : w[n + 1] = e[n]
<1>1. <<a>> \in Seq(S) /\ Len(<<a>>) = 1 /\ <<a>>[1] = a
  OBVIOUS
<1>2. /\ <<a>> \o e \in Seq(S)
      /\ Len(<<a>> \o e) = Len(e) + 1
      /\ (<<a>> \o e)[1] = a
      /\ \A n \in 1..Len(e) : (<<a>> \o e)[n + 1] = e[n]
  BY <1>1, ConcatProperties
<1> QED
  BY <1>2

\* And so the chains the handler builds are these.
LEMMA PrependedToOne ==
    ASSUME NEW a, NEW b
    PROVE  <<a>> \o <<b>> = <<a, b>>
<1> DEFINE S == {a, b}
           e == <<b>>
           w == <<a>> \o e
<1>1. a \in S /\ e \in Seq(S)
  OBVIOUS
<1>2. Len(e) = 1 /\ e[1] = b
  OBVIOUS
<1> HIDE DEF e, S
<1>3. w = <<a>> \o e
  OBVIOUS
<1> HIDE DEF w
<1>4. /\ w \in Seq(S) /\ Len(w) = Len(e) + 1 /\ w[1] = a
      /\ \A n \in 1..Len(e) : w[n + 1] = e[n]
  BY <1>1, <1>3, Prepended
<1>5. \A n \in 1..Len(e), m \in Nat : m = n + 1 => w[m] = e[n]
  BY <1>4
<1>6. Len(w) = 2 /\ w[2] = b
  BY <1>2, <1>4, <1>5
<1>7. w = <<a, b>>
  BY <1>4, <1>6, ByMembers
<1> QED
  BY <1>3, <1>7 DEF e

LEMMA PrependedToTwo ==
    ASSUME NEW a, NEW b, NEW c
    PROVE  <<a>> \o <<b, c>> = <<a, b, c>>
<1> DEFINE S == {a, b, c}
           e == <<b, c>>
           w == <<a>> \o e
<1>1. a \in S /\ e \in Seq(S)
  OBVIOUS
<1>2. Len(e) = 2 /\ e[1] = b /\ e[2] = c
  OBVIOUS
<1> HIDE DEF e, S
<1>3. w = <<a>> \o e
  OBVIOUS
<1> HIDE DEF w
<1>4. /\ w \in Seq(S) /\ Len(w) = Len(e) + 1 /\ w[1] = a
      /\ \A n \in 1..Len(e) : w[n + 1] = e[n]
  BY <1>1, <1>3, Prepended
<1>5. \A n \in 1..Len(e), m \in Nat : m = n + 1 => w[m] = e[n]
  BY <1>4
<1>6. Len(w) = 3 /\ w[2] = b /\ w[3] = c
  BY <1>2, <1>4, <1>5
<1>7. w = <<a, b, c>>
  BY <1>4, <1>6, ByMembers
<1> QED
  BY <1>3, <1>7 DEF e

LEMMA PrependedToThree ==
    ASSUME NEW a, NEW b, NEW c, NEW d
    PROVE  <<a>> \o <<b, c, d>> = <<a, b, c, d>>
<1> DEFINE S == {a, b, c, d}
           e == <<b, c, d>>
           w == <<a>> \o e
<1>1. a \in S /\ e \in Seq(S)
  OBVIOUS
<1>2. Len(e) = 3 /\ e[1] = b /\ e[2] = c /\ e[3] = d
  OBVIOUS
<1> HIDE DEF e, S
<1>3. w = <<a>> \o e
  OBVIOUS
<1> HIDE DEF w
<1>4. /\ w \in Seq(S) /\ Len(w) = Len(e) + 1 /\ w[1] = a
      /\ \A n \in 1..Len(e) : w[n + 1] = e[n]
  BY <1>1, <1>3, Prepended
<1>5. \A n \in 1..Len(e), m \in Nat : m = n + 1 => w[m] = e[n]
  BY <1>4
<1>6. Len(w) = 4 /\ w[2] = b /\ w[3] = c /\ w[4] = d
  BY <1>2, <1>4, <1>5
<1>7. w = <<a, b, c, d>>
  BY <1>4, <1>6, ByMembers
<1> QED
  BY <1>3, <1>7 DEF e

\* None of them is nil.
LEMMA NotNil ==
    \A a, b, c, d : /\ <<a>> # <<>> /\ <<a, b>> # <<>>
                    /\ <<a, b, c>> # <<>> /\ <<a, b, c, d>> # <<>>
OBVIOUS

-----------------------------------------------------------------------------
\* A behaviour stays with the part it began with, and takes its steps.
LEMMA PartSteps ==
    ASSUME [PartsNext]_allVars
    PROVE  /\ part' = part
           /\ part = "fields" => Fields!Next \/ UNCHANGED fields
           /\ part = "answers" => Answers!Next \/ UNCHANGED answers
           /\ part = "startup" => Start!Next \/ UNCHANGED startup
           /\ part = "numbers" => Nums!Next \/ UNCHANGED numbers
           /\ part = "scripts" => Scripts!Next \/ UNCHANGED scripts
BY DEF PartsNext, FieldsNext, AnswersNext, StartNext, FlowNext, NumsNext,
       RetryNext, ScriptsNext, allVars

-----------------------------------------------------------------------------
(* Startup.                                                                *)

\* What a start knows at each of its calls: the configuration is the file's
\* with the environment's overrides once the file is read, the logger is there
\* from logger.Init on and has a console, each constructor has accepted what
\* it was given, and a start that ended badly had a reason to.
StartInv ==
    part = "startup" =>
        /\ file \in Start!Files
        /\ step \in {"LoadConfig", "logger.Init", "NewEthereumClient",
                     "NewBlockHandler", "loop", "exit", "panic"}
        /\ step \in {"LoadConfig", "logger.Init"} => Sugar = {}
        /\ step \in {"logger.Init", "NewEthereumClient", "NewBlockHandler",
                     "loop"} =>
              file.status = "parsed" /\ cfg = {Start!Overrides(file, env)}
        /\ step \in {"NewEthereumClient", "NewBlockHandler"} => Sugar # {}
        /\ step \in {"NewBlockHandler", "loop"} =>
              httpClient = "dialled" \/ file.nodeURL = ""
        /\ step = "loop" =>
              /\ Start!Overrides(file, env).host # ""
              /\ Start!Overrides(file, env).port # 0
              /\ handler = {[host |-> Start!Overrides(file, env).host,
                             port |-> Start!Overrides(file, env).port]}
        /\ \A cores \in Sugar : "console" \in cores
        /\ Start!ExitsSayWhy

LEMMA StartInvInit == PartsInit => StartInv
BY DEF PartsInit, StartInv, Start!Init, Start!None, Start!ExitsSayWhy

\* Whatever cannot be opened, the console core is left.
LEMMA ConsoleStays == \A d : "console" \in Start!Cores(d)
BY DEF Start!Cores

LEMMA StartInvInductive == StartInv /\ [PartsNext]_allVars => StartInv'
<1> SUFFICES ASSUME StartInv, [PartsNext]_allVars, part' = "startup"
             PROVE  StartInv'
  BY DEF StartInv
<1> USE DEF StartInv, Start!ExitsSayWhy
<1>1. part = "startup" /\ (Start!Next \/ UNCHANGED startup)
  BY PartSteps
<1>2. CASE Start!LoadConfig
  BY <1>1, <1>2 DEF Start!LoadConfig, Start!Fatal, Start!None, Start!Files
<1>3. CASE Start!InitLogger
  BY <1>1, <1>3, ConsoleStays DEF Start!InitLogger
<1>4. CASE Start!NewEthereumClient
  <2>1. Start!Overrides(file, env).nodeURL = file.nodeURL
    BY DEF Start!Overrides
  <2>2. /\ UNCHANGED <<file, env, disk, cfg, Sugar, handler>>
        /\ step = "NewEthereumClient"
        /\ IF file.nodeURL = "localhost"
           THEN Start!Fatal("geth") /\ UNCHANGED httpClient
           ELSE /\ step' = "NewBlockHandler"
                /\ httpClient' = IF file.nodeURL = "" THEN "nil" ELSE "dialled"
                /\ UNCHANGED reported
    BY <1>1, <1>4, <2>1 DEF Start!NewEthereumClient
  <2> QED
    BY <1>1, <2>2 DEF Start!Fatal, Start!None
<1>5. CASE Start!NewBlockHandler
  <2> DEFINE c == Start!Overrides(file, env)
  <2>1. /\ UNCHANGED <<file, env, disk, cfg, Sugar, httpClient>>
        /\ step = "NewBlockHandler"
        /\ IF c.host = "" \/ c.port = 0
           THEN Start!Fatal("defra") /\ UNCHANGED handler
           ELSE /\ step' = "loop"
                /\ handler' = {[host |-> c.host, port |-> c.port]}
                /\ UNCHANGED reported
    BY <1>1, <1>5 DEF Start!NewBlockHandler
  <2> QED
    BY <1>1, <2>1 DEF Start!Fatal, Start!None
<1>6. CASE UNCHANGED startup
  BY <1>1, <1>6 DEF startup
<1> QED
  BY <1>1, <1>2, <1>3, <1>4, <1>5, <1>6 DEF Start!Next

\* At every call of main the settings are what the file and the environment
\* made of them, and the logger is there from logger.Init on.
THEOREM StartInvariant == PartsSpec => []StartInv
BY StartInvInit, StartInvInductive, PTL DEF PartsSpec

\* The main loop runs with the store the file and the environment name,
\* whatever ports they hold.
THEOREM LoopAlwaysKnowsItsStore == PartsSpec => []LoopKnowsItsStore
<1>1. /\ env.port = "set" => Start!PortOf(file, env) = EnvPort
      /\ env.port \in {"", "text"} => Start!PortOf(file, env) = file.port
  BY Zenon DEF Start!PortOf
<1>2. StartInv => LoopKnowsItsStore
  <2> SUFFICES ASSUME StartInv, part = "startup", step = "loop",
                      NEW h \in handler
               PROVE  /\ httpClient = "dialled" \/ file.nodeURL = ""
                      /\ h.host # "" /\ h.port # 0
                      /\ env.host # "" => h.host = env.host
                      /\ env.port = "set" => h.port = EnvPort
                      /\ env.port \in {"", "text"} => h.port = file.port
    BY DEF LoopKnowsItsStore, Start!LoopKnowsItsStore
  <2> DEFINE c == Start!Overrides(file, env)
  <2>1. /\ c.host = IF env.host = "" THEN file.host ELSE env.host
        /\ c.port = Start!PortOf(file, env)
    BY DEF Start!Overrides
  <2> HIDE DEF c
  <2>2. h.host = c.host /\ h.port = c.port
    <3>1. handler = {[host |-> c.host, port |-> c.port]}
      BY DEF StartInv, c
    <3> QED
      BY <3>1
  <2>3. /\ c.host # "" /\ c.port # 0
        /\ httpClient = "dialled" \/ file.nodeURL = ""
    BY DEF StartInv, c
  <2> QED
    BY <1>1, <2>1, <2>2, <2>3
<1> QED
  BY <1>2, StartInvariant, PTL

\* A start that fails after logger.Init has a console line that says why.
THEOREM ExitsAlwaysSayWhy == PartsSpec => []ExitsSayWhy
<1>1. StartInv => ExitsSayWhy
  BY DEF StartInv, ExitsSayWhy
<1> QED
  BY <1>1, StartInvariant, PTL
-----------------------------------------------------------------------------
(* The errors on their way up: the theorems of ErrorFlowProofs.            *)

\* Two names for each definition, from two instances of ErrorFlow.
LEMMA SameConstructors ==
    /\ Flow!Constructors = FlowProofs!Constructors
    /\ Flow!IndexerErrorNames = FlowProofs!IndexerErrorNames
    /\ Flow!Panic = FlowProofs!Panic
    /\ \A e : Flow!Indexed(e) = FlowProofs!Indexed(e)
BY DEF Flow!Constructors, FlowProofs!Constructors, Flow!ErrorKind,
       FlowProofs!ErrorKind, Flow!IndexerErrorNames,
       FlowProofs!IndexerErrorNames, Flow!Panic, FlowProofs!Panic,
       Flow!Indexed, FlowProofs!Indexed

LEMMA SameErrors ==
    /\ \A e : Flow!IsIndexerError(e) <=> FlowProofs!IsIndexerError(e)
    /\ \A e : Flow!WrapError(e) = FlowProofs!WrapError(e)
    /\ \A e : Flow!Outermost(e) = FlowProofs!Outermost(e)
    /\ \A e, c : Flow!HasClass(e, c) <=> FlowProofs!HasClass(e, c)
    /\ \A e : Flow!LogErrorLevel(e) = FlowProofs!LogErrorLevel(e)
<1>1. \A e : Flow!IsIndexerError(e) <=> FlowProofs!IsIndexerError(e)
  BY SameConstructors DEF Flow!IsIndexerError, FlowProofs!IsIndexerError
<1>2. \A e : Flow!WrapError(e) = FlowProofs!WrapError(e)
  <2> TAKE e
  <2> DEFINE k == CHOOSE n \in Flow!Indexed(e) :
                      \A m \in Flow!Indexed(e) : n <= m
             l == CHOOSE n \in FlowProofs!Indexed(e) :
                      \A m \in FlowProofs!Indexed(e) : n <= m
  <2>1. k = l
    BY SameConstructors, Zenon
  <2>2. Flow!WrapError(e) = IF Flow!IsIndexerError(e)
                            THEN SubSeq(e, k, Len(e))
                            ELSE Flow!Panic
    BY Zenon DEF Flow!WrapError
  <2>3. FlowProofs!WrapError(e) = IF FlowProofs!IsIndexerError(e)
                                  THEN SubSeq(e, l, Len(e))
                                  ELSE FlowProofs!Panic
    BY Zenon DEF FlowProofs!WrapError
  <2> HIDE DEF k, l
  <2> QED
    BY <1>1, <2>1, <2>2, <2>3, SameConstructors
<1>3. \A e : Flow!Outermost(e) = FlowProofs!Outermost(e)
  BY SameConstructors DEF Flow!Outermost, FlowProofs!Outermost
<1>4. \A e, c : Flow!HasClass(e, c) <=> FlowProofs!HasClass(e, c)
  BY SameConstructors DEF Flow!HasClass, FlowProofs!HasClass
<1>5. \A e : Flow!LogErrorLevel(e) = FlowProofs!LogErrorLevel(e)
  BY SameConstructors
     DEF Flow!LogErrorLevel, FlowProofs!LogErrorLevel, Flow!LevelOf,
         FlowProofs!LevelOf
<1> QED
  BY <1>1, <1>2, <1>3, <1>4, <1>5

LEMMA SameSites ==
    /\ Flow!Sites = FlowProofs!Sites
    /\ \A site : Flow!SiteErrors(site) = FlowProofs!SiteErrors(site)
<1>1. Flow!CreateBlockErrors = FlowProofs!CreateBlockErrors
  BY DEF Flow!CreateBlockErrors, FlowProofs!CreateBlockErrors
<1>2. \A site : Flow!SiteErrors(site) = FlowProofs!SiteErrors(site)
  BY <1>1, Zenon DEF Flow!SiteErrors, FlowProofs!SiteErrors
<1> QED
  BY <1>2 DEF Flow!Sites, FlowProofs!Sites

LEMMA SameFlowNext == Flow!Next => FlowProofs!Next
<1>1. \A c : Flow!Construct(c) <=> FlowProofs!Construct(c)
  BY SameConstructors
     DEF Flow!Construct, FlowProofs!Construct, Flow!Constructed,
         FlowProofs!Constructed, Flow!Causeless, FlowProofs!Causeless
<1>2. Flow!Errorf <=> FlowProofs!Errorf
  BY SameConstructors DEF Flow!Errorf, FlowProofs!Errorf
<1>3. Flow!Wrap <=> FlowProofs!Wrap
  BY SameConstructors, SameErrors DEF Flow!Wrap, FlowProofs!Wrap
<1>4. Flow!LogError <=> FlowProofs!LogError
  BY SameConstructors, SameErrors DEF Flow!LogError, FlowProofs!LogError
<1>5. \A site : Flow!Report(site) <=> FlowProofs!Report(site)
  BY SameSites DEF Flow!Report, FlowProofs!Report
<1> QED
  BY <1>1, <1>2, <1>3, <1>4, <1>5, SameConstructors, SameSites
     DEF Flow!Next, FlowProofs!Next

\* A single error that nothing happens to is a behaviour of ErrorFlow too.
LEMMA FlowRuns == PartsSpec => FlowProofs!Spec
<1>1. PartsInit => FlowProofs!Init
  <2> SUFFICES ASSUME PartsInit PROVE FlowProofs!Init
    OBVIOUS
  <2>1. CASE part = "errors"
    BY <2>1, SameConstructors DEF PartsInit, Flow!Init, FlowProofs!Init
  <2>2. CASE part # "errors"
    BY <2>2 DEF PartsInit, FlowIdle, FlowProofs!Init
  <2> QED
    BY <2>1, <2>2
<1>2. [PartsNext]_allVars => [FlowProofs!Next]_(FlowProofs!vars)
  <2> SUFFICES ASSUME [PartsNext]_allVars
               PROVE  Flow!Next \/ UNCHANGED errors
    BY SameFlowNext DEF errors, FlowProofs!vars
  <2> QED
    BY DEF PartsNext, FieldsNext, AnswersNext, StartNext, FlowNext,
           NumsNext, RetryNext, ScriptsNext, allVars
<1> QED
  BY <1>1, <1>2, PTL DEF PartsSpec, FlowProofs!Spec

\* For chains of any length: WrapError changes nothing a caller decides by
\* where there is an IndexerError, and panics exactly where there is none.
THEOREM VerdictAlwaysKept == PartsSpec => WrapErrorKeepsVerdict
<1>1. \A e : Flow!Verdict(e) = FlowProofs!Verdict(e)
  <2> TAKE e
  <2>1. Flow!GetErrorCode(e) = FlowProofs!GetErrorCode(e)
    BY SameErrors DEF Flow!GetErrorCode, FlowProofs!GetErrorCode
  <2>2. /\ Flow!IsRetryable(e) = FlowProofs!IsRetryable(e)
        /\ Flow!IsRetryableWithBackoff(e)
             = FlowProofs!IsRetryableWithBackoff(e)
        /\ Flow!IsCritical(e) = FlowProofs!IsCritical(e)
    BY SameErrors
       DEF Flow!IsRetryable, FlowProofs!IsRetryable,
           Flow!IsRetryableWithBackoff, FlowProofs!IsRetryableWithBackoff,
           Flow!IsCritical, FlowProofs!IsCritical
  <2>3. /\ Flow!IsNetworkError(e) = FlowProofs!IsNetworkError(e)
        /\ Flow!IsDataError(e) = FlowProofs!IsDataError(e)
        /\ Flow!IsStorageError(e) = FlowProofs!IsStorageError(e)
    BY SameConstructors
       DEF Flow!IsNetworkError, FlowProofs!IsNetworkError,
           Flow!IsDataError, FlowProofs!IsDataError,
           Flow!IsStorageError, FlowProofs!IsStorageError,
           Flow!HasClass, FlowProofs!HasClass
  <2> QED
    BY <2>1, <2>2, <2>3 DEF Flow!Verdict, FlowProofs!Verdict
<1> DEFINE Kept == IF FlowProofs!IsIndexerError(chain)
                   THEN /\ chain' # FlowProofs!Panic
                        /\ chain'[1] \in FlowProofs!IndexerErrorNames
                        /\ FlowProofs!Verdict(chain')
                             = FlowProofs!Verdict(chain)
                   ELSE chain' = FlowProofs!Panic
<1>2. [FlowProofs!Wrap => Kept]_(FlowProofs!vars)
        => [Flow!Wrap => IF Flow!IsIndexerError(chain)
                         THEN /\ chain' # Flow!Panic
                              /\ chain'[1] \in Flow!IndexerErrorNames
                              /\ Flow!Verdict(chain') = Flow!Verdict(chain)
                         ELSE chain' = Flow!Panic]_(Flow!vars)
  BY <1>1, SameErrors, SameConstructors
     DEF Flow!vars, FlowProofs!vars, Flow!Wrap, FlowProofs!Wrap
<1>3. FlowProofs!Spec => [][FlowProofs!Wrap => Kept]_(FlowProofs!vars)
  BY FlowProofs!VerdictAlwaysKept DEF FlowProofs!WrapErrorKeepsVerdict
<1> QED
  BY <1>2, <1>3, FlowRuns, PTL
     DEF WrapErrorKeepsVerdict, Flow!WrapErrorKeepsVerdict

\* For chains of any length: no layer hides the class of what it wraps, but
\* for NewDocumentNotFound, which takes no error to wrap.
THEOREM ClassesAlwaysStick == PartsSpec => ClassesStick
<1>1. [chain' # <<"DocumentNotFound">> =>
         /\ FlowProofs!IsDataError(chain) => FlowProofs!IsDataError(chain')
         /\ FlowProofs!IsNetworkError(chain)
              => FlowProofs!IsNetworkError(chain')
         /\ FlowProofs!IsStorageError(chain)
              => FlowProofs!IsStorageError(chain')]_(FlowProofs!vars)
      => [chain' # <<"DocumentNotFound">> =>
            /\ Flow!IsDataError(chain) => Flow!IsDataError(chain')
            /\ Flow!IsNetworkError(chain) => Flow!IsNetworkError(chain')
            /\ Flow!IsStorageError(chain)
                 => Flow!IsStorageError(chain')]_(Flow!vars)
  BY SameErrors
     DEF Flow!vars, FlowProofs!vars,
         Flow!IsNetworkError, FlowProofs!IsNetworkError,
         Flow!IsDataError, FlowProofs!IsDataError,
         Flow!IsStorageError, FlowProofs!IsStorageError
<1>2. FlowProofs!Spec => FlowProofs!ClassesStick
  BY FlowProofs!ClassesAlwaysStick
<1> QED
  BY <1>1, <1>2, FlowRuns, PTL
     DEF ClassesStick, Flow!ClassesStick, FlowProofs!ClassesStick

\* For chains of any length: only warnings stay out of the error file.
THEOREM ErrorsAlwaysReachTheErrorFile == PartsSpec => []ErrorsReachTheErrorFile
<1>1. FlowProofs!ErrorsReachTheErrorFile => ErrorsReachTheErrorFile
  BY SameErrors, SameConstructors
     DEF ErrorsReachTheErrorFile, Flow!ErrorsReachTheErrorFile,
         FlowProofs!ErrorsReachTheErrorFile
<1>2. FlowProofs!Spec => []FlowProofs!ErrorsReachTheErrorFile
  BY FlowProofs!ErrorsAlwaysReachTheErrorFile
<1> QED
  BY <1>1, <1>2, FlowRuns, PTL
-----------------------------------------------------------------------------
(* The scripts.                                                            *)

\* The safety part of the teardown: bootstrap.sh that has ended of a signal
\* its trap took has left neither service and no file behind, and the tests
\* are not over before it has ended.
NothingLeftBehind ==
    part = "scripts" =>
        /\ trapped = TRUE /\ term = TRUE /\ boot = "exited" =>
              ~ Scripts!Running /\ ready = "none"
        /\ test = "done" => boot = "exited"

\* The stale file can only be there before test_integration.sh removes it,
\* and no trap takes the script back to before that.
ScriptsInv ==
    /\ part = "scripts" =>
          /\ test \notin {"absent", "rm"} => ready # "stale"
          /\ resume \in {"wait ready", "wait schema", "go test", "exit", "done"}
    /\ NothingLeftBehind

LEMMA ScriptsInvInit == PartsInit => ScriptsInv
<1> SUFFICES ASSUME PartsInit, part = "scripts" PROVE ScriptsInv
  BY DEF ScriptsInv, NothingLeftBehind
<1>1. Scripts!Init
  BY DEF PartsInit
<1> QED
  BY <1>1 DEF Scripts!Init, ScriptsInv, NothingLeftBehind

LEMMA ScriptsInvInductive == ScriptsInv /\ [PartsNext]_allVars => ScriptsInv'
<1> SUFFICES ASSUME ScriptsInv, [PartsNext]_allVars, part' = "scripts"
             PROVE  ScriptsInv'
  BY DEF ScriptsInv, NothingLeftBehind
<1> USE DEF ScriptsInv, NothingLeftBehind, Scripts!Running
<1>1. part = "scripts" /\ (Scripts!Next \/ UNCHANGED scripts)
  BY PartSteps
<1>2. CASE Scripts!BootStep
  <2>1. CASE \/ Scripts!Make \/ Scripts!StartDefra \/ Scripts!ApplySchema
             \/ Scripts!GoBuild \/ Scripts!StartPoster \/ Scripts!TouchReady
             \/ Scripts!Trap \/ Scripts!CheckDefra \/ Scripts!CheckPoster
    <3>1. /\ term # TRUE /\ term' = term
          /\ test' = test /\ resume' = resume
          /\ boot # "idle" /\ boot # "exited"
          /\ ready' = ready \/ ready' = "new"
      BY <2>1, Zenon DEF Scripts!Boot, Scripts!services, Scripts!Make,
             Scripts!StartDefra, Scripts!ApplySchema, Scripts!GoBuild,
             Scripts!StartPoster, Scripts!TouchReady, Scripts!Trap,
             Scripts!CheckDefra, Scripts!CheckPoster
    <3> QED
      BY <1>1, <3>1
  <2>2. CASE Scripts!Cleanup
    BY <1>1, <2>2 DEF Scripts!Cleanup, Scripts!Killed
  <2>3. CASE Scripts!DieUntrapped
    BY <1>1, <2>3 DEF Scripts!DieUntrapped, Scripts!services
  <2> QED
    BY <1>2, <2>1, <2>2, <2>3 DEF Scripts!BootStep
<1>3. CASE Scripts!TestStep
  <2>1. CASE Scripts!RemoveReady
    BY <1>1, <2>1 DEF Scripts!RemoveReady, Scripts!services
  <2>2. CASE Scripts!WaitReady \/ Scripts!WaitSchema
    BY <1>1, <2>2 DEF Scripts!WaitReady, Scripts!WaitSchema, Scripts!services
  <2>3. CASE Scripts!GoTest \/ Scripts!Exit
    BY <1>1, <2>3
       DEF Scripts!GoTest, Scripts!Exit, Scripts!CallCleanup, Scripts!services
  <2>4. CASE Scripts!CleanupReturns
    BY <1>1, <2>4 DEF Scripts!CleanupReturns, Scripts!services
  <2> QED
    BY <1>3, <2>1, <2>2, <2>3, <2>4 DEF Scripts!TestStep
<1>4. CASE Scripts!InterruptTest
  BY <1>1, <1>4
     DEF Scripts!InterruptTest, Scripts!CallCleanup, Scripts!services
<1>5. CASE Scripts!InterruptBoot
  BY <1>1, <1>5 DEF Scripts!InterruptBoot, Scripts!services
<1>6. CASE Scripts!DefraDies \/ Scripts!PosterDies
  BY <1>1, <1>6 DEF Scripts!DefraDies, Scripts!PosterDies
<1>7. CASE UNCHANGED scripts
  BY <1>1, <1>7 DEF scripts
<1> QED
  BY <1>1, <1>2, <1>3, <1>4, <1>5, <1>6, <1>7 DEF Scripts!Next

\* Where the two scripts stand, what they have started and what the ready
\* file says fit each other, whatever signals and failures come.
THEOREM ScriptsInvariant == PartsSpec => []ScriptsInv
BY ScriptsInvInit, ScriptsInvInductive, PTL DEF PartsSpec

\* However the scripts, their signals and the services interleave, the tests
\* never see the ready file of an earlier run.
THEOREM ReadyAlwaysOfThisRun == PartsSpec => []ReadyIsOfThisRun
<1>1. ScriptsInv => ReadyIsOfThisRun
  BY DEF ScriptsInv, ReadyIsOfThisRun, Scripts!ReadyIsOfThisRun
<1> QED
  BY <1>1, ScriptsInvariant, PTL

\* Nor does a signal that meets the trap leave anything behind.
THEOREM NothingEverLeftBehind == PartsSpec => []NothingLeftBehind
<1>1. ScriptsInv => NothingLeftBehind
  BY DEF ScriptsInv
<1> QED
  BY <1>1, ScriptsInvariant, PTL
-----------------------------------------------------------------------------
(* The answers of DefraDB.                                                 *)

\* What an answer tells of the call it answers: a mutation that is
\* acknowledged has been performed, and a number is a block's.
AnswerFits ==
    IF op \in Answers!Mutations
    THEN /\ body \in Answers!Done \cup Answers!Broken \cup Answers!Refused
         /\ body \in Answers!Done => performed = TRUE
    ELSE /\ body \in {"none", "garbage", "noData", "noField", "emptyList"}
                    \cup Answers!Numbers \cup Answers!NotNumbers
         /\ body \in Answers!Numbers => stored # {}

\* Nothing is sent for arguments that are rejected, and what is returned is
\* what the answer, or the rejection, makes of it.
AnswersInv ==
    part = "answers" =>
        /\ op \in Answers!Operations
        /\ input \in Answers!BadInputs[op] \cup {"ok"}
        /\ stored \in SUBSET Heights
        /\ stage \in {"check", "sent", "answered", "done"}
        /\ stage # "done" => result = <<>> /\ id = Answers!NoResult
        /\ stage \in {"check", "sent"} => performed # TRUE /\ body = "none"
        /\ input # "ok" => /\ stage \in {"check", "done"}
                           /\ performed # TRUE /\ body = "none"
        /\ stage \in {"answered", "done"} /\ input = "ok" => AnswerFits
        /\ stage = "done" =>
              IF input = "ok"
              THEN /\ result = Answers!ReadError(body)
                   /\ id = IF result = <<>> THEN Answers!Result
                           ELSE Answers!NoResult
              ELSE result \in Answers!Rejections /\ id = Answers!NoResult

LEMMA AnswersInvInit == PartsInit => AnswersInv
<1> SUFFICES ASSUME PartsInit, part = "answers" PROVE AnswersInv
  BY DEF AnswersInv
<1>1. Answers!Init
  BY DEF PartsInit
<1>2. performed # TRUE
  BY <1>1, Zenon DEF Answers!Init
<1> QED
  BY <1>1, <1>2 DEF Answers!Init, AnswersInv

LEMMA AnswersInvInductive == AnswersInv /\ [PartsNext]_allVars => AnswersInv'
<1> SUFFICES ASSUME AnswersInv, [PartsNext]_allVars, part' = "answers"
             PROVE  AnswersInv'
  BY DEF AnswersInv
<1>1. part = "answers" /\ (Answers!Next \/ UNCHANGED answers)
  BY PartSteps
<1>2. ASSUME op' = op, input' = input, stored' = stored
      PROVE  /\ Answers!NoResult' = Answers!NoResult
             /\ Answers!Result' = Answers!Result
             /\ Answers!Rejections' = Answers!Rejections
             /\ \A b : Answers!ReadError(b)' = Answers!ReadError(b)
  <2>1. Answers!NoResult' = Answers!NoResult
    BY <1>2, Zenon DEF Answers!NoResult
  <2>2. Answers!Result' = Answers!Result
    BY <1>2, Zenon DEF Answers!Result
  <2>3. Answers!Rejections' = Answers!Rejections
    BY <1>2, Zenon DEF Answers!Rejections
  <2>4. \A b : Answers!ReadError(b)' = Answers!ReadError(b)
    BY <1>2, Zenon DEF Answers!ReadError
  <2> QED
    BY <2>1, <2>2, <2>3, <2>4
<1>3. CASE Answers!Reject
  BY <1>1, <1>2, <1>3 DEF AnswersInv, Answers!Reject
<1>4. CASE Answers!SendToGraphql
  BY <1>1, <1>2, <1>4 DEF AnswersInv, Answers!SendToGraphql
<1>5. CASE Answers!Serve
  <2>1. CASE Answers!ServeMutation
    <3>1. /\ op \in Answers!Mutations
          /\ body' \in Answers!Done \cup Answers!Broken \cup Answers!Refused
          /\ body' \in Answers!Done => performed' = TRUE
      BY <2>1 DEF Answers!ServeMutation, Answers!Done, Answers!Broken,
                  Answers!Refused
    <3> QED
      BY <1>1, <1>2, <1>5, <3>1 DEF AnswersInv, AnswerFits, Answers!Serve
  <2>2. CASE Answers!ServeQuery
    <3>1. /\ op \notin Answers!Mutations
          /\ body' \in {"none", "garbage", "noData", "noField", "emptyList"}
                       \cup Answers!Numbers \cup Answers!NotNumbers
          /\ body' \in Answers!Numbers => stored # {}
          /\ performed' = performed
      BY <2>2 DEF Answers!ServeQuery, Answers!Mutations, Answers!Creates,
                  Answers!Updates, Answers!Numbers
    <3> QED
      BY <1>1, <1>2, <1>5, <3>1 DEF AnswersInv, AnswerFits, Answers!Serve
  <2> QED
    BY <1>5, <2>1, <2>2 DEF Answers!Serve
<1>6. CASE Answers!Read
  BY <1>1, <1>2, <1>6 DEF AnswersInv, AnswerFits, Answers!Read
<1>7. CASE Answers!PerformLate
  BY <1>1, <1>2, <1>7 DEF AnswersInv, AnswerFits, Answers!PerformLate
<1>8. CASE UNCHANGED answers
  BY <1>1, <1>2, <1>8 DEF AnswersInv, AnswerFits, answers
<1> QED
  BY <1>1, <1>3, <1>4, <1>5, <1>6, <1>7, <1>8 DEF Answers!Next

\* At every step of a call of the block handler, what the store has performed
\* and what the answer says fit each other.
THEOREM AnswersInvariant == PartsSpec => []AnswersInv
BY AnswersInvInit, AnswersInvInductive, PTL DEF PartsSpec

\* What the readers of an answer make of it.
LEMMA ReadCreate ==
    ASSUME NEW b, op \in Answers!Creates
    PROVE  Answers!ReadError(b) =
              IF b \in {"object", "list"} THEN <<>>
              ELSE IF b = "none"
              THEN <<"QueryFailed", "QueryFailed", "QueryFailed", "standard">>
              ELSE IF b = "garbage"
              THEN <<"QueryFailed", "QueryFailed", "standard">>
              ELSE <<"QueryFailed", "QueryFailed">>
<1>1. op \notin Answers!Updates
  BY DEF Answers!Creates, Answers!Updates
<1>2. Answers!ReadError(b) = Answers!CreateError(Answers!PostToCollection(b))
  BY <1>1, Zenon DEF Answers!ReadError
<1>3. /\ b \in {"object", "list"} => Answers!PostToCollection(b) = <<>>
      /\ b = "none" => Answers!PostToCollection(b)
                         = <<"QueryFailed">> \o Answers!TransportFailed
      /\ b = "garbage" =>
            Answers!PostToCollection(b) = <<"QueryFailed", "standard">>
      /\ b \notin {"object", "list", "none", "garbage"} =>
            Answers!PostToCollection(b) = <<"QueryFailed">>
  BY Zenon DEF Answers!PostToCollection
<1>4. <<"QueryFailed">> \o Answers!TransportFailed
        = <<"QueryFailed", "QueryFailed", "standard">>
  BY PrependedToTwo DEF Answers!TransportFailed
<1>5. Answers!CreateError(<<>>) = <<>>
  BY DEF Answers!CreateError
<1>6. Answers!CreateError(<<"QueryFailed">>) = <<"QueryFailed", "QueryFailed">>
  BY PrependedToOne DEF Answers!CreateError
<1>7. Answers!CreateError(<<"QueryFailed", "standard">>)
        = <<"QueryFailed", "QueryFailed", "standard">>
  BY PrependedToTwo DEF Answers!CreateError
<1>8. Answers!CreateError(<<"QueryFailed", "QueryFailed", "standard">>)
        = <<"QueryFailed", "QueryFailed", "QueryFailed", "standard">>
  BY PrependedToThree DEF Answers!CreateError
<1> QED
  BY <1>2, <1>3, <1>4, <1>5, <1>6, <1>7, <1>8

\* What an Update...Relationships function makes of each answer.
LEMMA ReadUpdate ==
    ASSUME NEW b, op \in Answers!Updates
    PROVE  Answers!ReadError(b) =
              IF b = "none" THEN <<"QueryFailed", "QueryFailed", "standard">>
              ELSE IF b = "list" THEN <<>> ELSE <<"QueryFailed">>
<1>1. op \notin Answers!Creates
  BY DEF Answers!Creates, Answers!Updates
<1>2. Answers!ReadError(b) = Answers!UpdateError(b)
  BY <1>1, Zenon DEF Answers!ReadError
<1> QED
  BY <1>2, PrependedToTwo
     DEF Answers!UpdateError, Answers!ParsedID, Answers!TransportFailed

\* The outermost member of a chain that begins with an IndexerError is its
\* first.
LEMMA FirstDecides ==
    ASSUME NEW c \in Answers!IndexerErrorNames, NEW e,
           DOMAIN e \in SUBSET (Nat \ {0}), 1 \in DOMAIN e, e[1] = c
    PROVE  /\ Answers!IsIndexerError(e)
           /\ Answers!Outermost(e) = Answers!Constructors[c]
<1>1. /\ 1 \in Answers!Indexed(e)
      /\ \A m \in Answers!Indexed(e) : m \in Nat /\ 1 <= m
  BY DEF Answers!Indexed
<1>2. (CHOOSE n \in Answers!Indexed(e) :
          \A m \in Answers!Indexed(e) : n <= m) = 1
  BY <1>1
<1> QED
  BY <1>1, <1>2 DEF Answers!IsIndexerError, Answers!Outermost

\* The classes of the errors the handler builds.
LEMMA KindsOfErrors ==
    /\ \A c \in {"QueryFailed", "InvalidHex", "InvalidBlockFormat",
                 "InvalidInputFormat", "ParsingFailed"} :
          /\ c \in Answers!IndexerErrorNames
          /\ Answers!Constructors[c].severity = "Error"
          /\ Answers!Constructors[c].class
               = IF c = "QueryFailed" THEN "Storage" ELSE "Data"
          /\ Answers!Constructors[c].retry
               = IF c = "QueryFailed" THEN "Retryable" ELSE "NonRetryable"
    /\ "standard" \notin Answers!IndexerErrorNames
BY DEF Answers!IndexerErrorNames, Answers!Constructors, Answers!ErrorKind

\* The errors of the argument checks, one by one.
LEMMA RejectionsKnown ==
    /\ Answers!Rejections \in
          SUBSET {<<"InvalidBlockFormat">>, Answers!Panic, <<"InvalidHex">>,
                  <<"InvalidHex", "standard">>, <<"InvalidInputFormat">>,
                  <<"ParsingFailed", "InvalidHex">>,
                  <<"ParsingFailed", "InvalidHex", "standard">>}
    /\ op = "CreateBlock" /\ input \in {"nil", "number"} =>
          Answers!Rejections \in
             SUBSET {<<"InvalidBlockFormat">>, <<"InvalidHex">>,
                     <<"InvalidHex", "standard">>}
<1> USE DEF Answers!HexErrors, Answers!Panic
<1>1. CASE op = "CreateBlock" /\ input = "nil"
  <2>1. Answers!Rejections = {<<"InvalidBlockFormat">>}
    BY <1>1, Zenon DEF Answers!Rejections
  <2> QED
    BY <2>1
<1>2. CASE op = "CreateLog" /\ input = "nil"
  <2>1. Answers!Rejections = {Answers!Panic}
    BY <1>2, Zenon DEF Answers!Rejections
  <2> QED
    BY <1>2, <2>1
<1>3. CASE op = "CreateBlock" /\ input = "number"
  <2>1. Answers!Rejections = Answers!HexErrors
    BY <1>3, Zenon DEF Answers!Rejections
  <2> QED
    BY <1>3, <2>1
<1>4. CASE op # "CreateBlock" /\ input = "number"
  <2>1. Answers!Rejections
          = {<<"ParsingFailed">> \o e : e \in Answers!HexErrors}
    BY <1>4, Zenon DEF Answers!Rejections
  <2> QED
    BY <1>4, <2>1
<1>5. CASE /\ input # "number"
           /\ ~ (op = "CreateBlock" /\ input = "nil")
           /\ ~ (op = "CreateLog" /\ input = "nil")
  <2>1. Answers!Rejections = {<<"InvalidInputFormat">>}
    BY <1>5, Zenon DEF Answers!Rejections
  <2> QED
    BY <1>5, <2>1
<1> QED
  BY <1>1, <1>2, <1>3, <1>4, <1>5

\* The handler acknowledges only what the store has performed, whatever became
\* of the answer on its way.
THEOREM AckAlwaysMeansDone == PartsSpec => []AckMeansDone
<1>1. ASSUME AnswersInv, part = "answers", Answers!Returned,
             op \in Answers!Mutations
      PROVE  (result = <<>> <=> id = "id") /\ (result = <<>> => performed = TRUE)
  <2>1. Answers!NoResult = "" /\ Answers!Result = "id"
    BY <1>1 DEF Answers!NoResult, Answers!Result
  <2>2. CASE input = "ok"
    <3>1. result = Answers!ReadError(body)
      BY <1>1, <2>2 DEF AnswersInv, Answers!Returned
    <3>2. result = <<>> => body \in Answers!Done
      BY <1>1, <3>1, ReadCreate, ReadUpdate, NotNil
         DEF Answers!Mutations, Answers!Done
    <3> QED
      BY <1>1, <2>1, <2>2, <3>2 DEF AnswersInv, AnswerFits, Answers!Returned
  <2>3. CASE input # "ok"
    <3>1. result \in Answers!Rejections /\ id = ""
      BY <1>1, <2>1, <2>3 DEF AnswersInv, Answers!Returned
    <3>2. result # <<>>
      BY <3>1, RejectionsKnown, NotNil DEF Answers!Panic
    <3> QED
      BY <3>1, <3>2
  <2> QED
    BY <2>2, <2>3
<1>2. AnswersInv => AckMeansDone
  BY <1>1, Zenon DEF AckMeansDone, Answers!AckMeansDone
<1> QED
  BY <1>2, AnswersInvariant, PTL

\* What was done and acknowledged is reported as a failure by no create function,
\* whatever the shape of the answer, and by an update function just when the
\* answer is a single object.
THEOREM WholeAnswerAlwaysTaken == PartsSpec => []WholeAnswerTaken
<1>1. ASSUME AnswersInv, part = "answers", Answers!Returned,
             performed = TRUE
      PROVE  body \in Answers!Done =>
                (result = <<>> <=> op \in Answers!Creates \/ body = "list")
  <2>1. input = "ok" /\ result = Answers!ReadError(body)
    BY <1>1 DEF AnswersInv, Answers!Returned
  <2>2. CASE op \in Answers!Creates
    BY <2>1, <2>2, ReadCreate DEF Answers!Done
  <2>3. CASE op \in Answers!Updates
    <3>1. op \notin Answers!Creates
      BY <2>3 DEF Answers!Creates, Answers!Updates
    <3> QED
      BY <2>1, <2>3, <3>1, ReadUpdate DEF Answers!Done
  <2>4. CASE op \notin Answers!Mutations
    BY <1>1, <2>1, <2>4
       DEF AnswersInv, AnswerFits, Answers!Returned, Answers!Numbers,
           Answers!NotNumbers, Answers!Done
  <2> QED
    BY <2>2, <2>3, <2>4 DEF Answers!Mutations
<1>2. AnswersInv => WholeAnswerTaken
  BY <1>1, Zenon DEF WholeAnswerTaken, Answers!WholeAnswerTaken
<1> QED
  BY <1>2, AnswersInvariant, PTL

\* How an error that begins with c is decided on.
LEMMA DecidedByFirst ==
    ASSUME NEW c \in {"QueryFailed", "InvalidHex", "InvalidBlockFormat",
                      "InvalidInputFormat", "ParsingFailed"},
           NEW e, DOMAIN e \in SUBSET (Nat \ {0}), 1 \in DOMAIN e, e[1] = c
    PROVE  /\ Answers!IsRetryable(e) <=> c = "QueryFailed"
           /\ Answers!IsCritical(e) = FALSE
<1>1. /\ Answers!IsIndexerError(e)
      /\ Answers!Outermost(e) = Answers!Constructors[c]
  BY KindsOfErrors, FirstDecides
<1>2. Answers!IsRetryable(e) <=> c = "QueryFailed"
  BY <1>1, KindsOfErrors DEF Answers!IsRetryable
<1>3. Answers!IsCritical(e) = FALSE
  BY <1>1, KindsOfErrors DEF Answers!IsCritical
<1> QED
  BY <1>2, <1>3

\* A mutation that left the process is never given up as hopeless, and the
\* errors that may not be retried come from the arguments alone.
THEOREM HopelessAlwaysMeansUnsent == PartsSpec => []HopelessMeansUnsent
<1>1. ASSUME AnswersInv, part = "answers", Answers!Returned,
             op \in Answers!Mutations, result # <<>>
      PROVE  Answers!IsRetryable(result) <=> input = "ok"
  <2>1. CASE input = "ok"
    <3>1. result = Answers!ReadError(body)
      BY <1>1, <2>1 DEF AnswersInv, Answers!Returned
    <3>2. /\ result[1] = "QueryFailed" /\ 1 \in DOMAIN result
          /\ DOMAIN result \in SUBSET (Nat \ {0})
      BY <1>1, <3>1, ReadCreate, ReadUpdate DEF Answers!Mutations
    <3> QED
      BY <2>1, <3>2, DecidedByFirst
  <2>2. CASE input # "ok"
    <3>1. result \in Answers!Rejections /\ result # Answers!Panic
      BY <1>1, <2>2 DEF AnswersInv, Answers!Returned
    <3>2. /\ result[1] \in {"InvalidHex", "InvalidBlockFormat",
                            "InvalidInputFormat", "ParsingFailed"}
          /\ 1 \in DOMAIN result /\ DOMAIN result \in SUBSET (Nat \ {0})
      BY <3>1, RejectionsKnown
    <3> QED
      BY <2>2, <3>2, DecidedByFirst
  <2> QED
    BY <2>1, <2>2
<1>2. AnswersInv => HopelessMeansUnsent
  BY <1>1 DEF HopelessMeansUnsent, Answers!HopelessMeansUnsent
<1> QED
  BY <1>2, AnswersInvariant, PTL

\* The errors of a well-formed block are decided on alike, at every attempt,
\* and none is outside what CreateBlockRetry is proved with.
THEOREM OneErrorAlwaysStandsForAll == PartsSpec => []OneErrorStandsForAll
<1>1. ASSUME AnswersInv, part = "answers", Answers!Returned,
             op = "CreateBlock", result # <<>>
      PROVE  result \in Answers!CreateBlockErrors
  <2>1. CASE input = "ok"
    <3>1. result = Answers!ReadError(body)
      BY <1>1, <2>1 DEF AnswersInv, Answers!Returned
    <3> QED
      BY <1>1, <3>1, ReadCreate
         DEF Answers!Creates, Answers!CreateBlockErrors
  <2>2. CASE input # "ok"
    <3>1. result \in Answers!Rejections /\ input \in {"nil", "number"}
      BY <1>1, <2>2 DEF AnswersInv, Answers!Returned, Answers!BadInputs
    <3> QED
      BY <1>1, <3>1, RejectionsKnown DEF Answers!CreateBlockErrors
  <2> QED
    BY <2>1, <2>2
<1>2. ASSUME NEW e \in {Answers!CreateBlockFailed,
                        <<"QueryFailed", "QueryFailed", "standard">>,
                        <<"QueryFailed", "QueryFailed", "QueryFailed",
                          "standard">>},
             NEW n
      PROVE  Answers!RetryDecision(e, n) =
                IF n < Answers!TotalRetryAttempts THEN "retry" ELSE "skip"
  <2>1. /\ e[1] = "QueryFailed" /\ 1 \in DOMAIN e
        /\ DOMAIN e \in SUBSET (Nat \ {0})
        /\ \A m \in DOMAIN e : e[m] \in {"QueryFailed", "standard"}
    BY DEF Answers!CreateBlockFailed
  <2>2. Answers!IsRetryable(e) /\ Answers!IsCritical(e) = FALSE
    BY <2>1, DecidedByFirst
  <2>3. Answers!IsDataError(e) = FALSE
    BY <2>1, KindsOfErrors
       DEF Answers!IsDataError, Answers!HasClass, Answers!Indexed
  <2> QED
    BY <2>2, <2>3 DEF Answers!RetryDecision
<1>3. ASSUME AnswersInv, part = "answers", Answers!Returned,
             op = "CreateBlock", result # <<>>, input = "ok",
             NEW n \in 0..Answers!TotalRetryAttempts
      PROVE  Answers!RetryDecision(result, n)
               = Answers!RetryDecision(Answers!CreateBlockFailed, n)
  <2>1. result = Answers!ReadError(body)
    BY <1>3 DEF AnswersInv, Answers!Returned
  <2>2. result \in {Answers!CreateBlockFailed,
                    <<"QueryFailed", "QueryFailed", "standard">>,
                    <<"QueryFailed", "QueryFailed", "QueryFailed", "standard">>}
    BY <1>3, <2>1, ReadCreate DEF Answers!Creates, Answers!CreateBlockFailed
  <2> QED
    BY <1>2, <2>2
<1>4. AnswersInv => OneErrorStandsForAll
  BY <1>1, <1>3 DEF OneErrorStandsForAll, Answers!OneErrorStandsForAll
<1> QED
  BY <1>4, AnswersInvariant, PTL

\* An answer without a number is an error.
LEMMA ErrorOfNoNumber ==
    ASSUME NEW b, b \notin Answers!Numbers
    PROVE  Answers!HighestError(b) # <<>>
<1>1. CASE b = "none"
  <2>1. Answers!HighestError(b) = <<"QueryFailed">> \o Answers!TransportFailed
    BY <1>1, Zenon DEF Answers!HighestError
  <2> QED
    BY <2>1, PrependedToTwo, NotNil DEF Answers!TransportFailed
<1>2. CASE b = "garbage"
  <2>1. Answers!HighestError(b) = <<"ParsingFailed", "standard">>
    BY <1>2, Zenon DEF Answers!HighestError
  <2> QED
    BY <2>1, NotNil
<1>3. CASE b = "0xbad"
  <2>1. Answers!HighestError(b) = <<"ParsingFailed", "InvalidHex", "standard">>
    BY <1>3, Zenon DEF Answers!HighestError
  <2> QED
    BY <2>1, NotNil
<1>4. CASE b \notin {"none", "garbage", "0xbad"}
  <2>1. Answers!HighestError(b) = <<"DocumentNotFound">>
    BY <1>4, Zenon DEF Answers!HighestError
  <2> QED
    BY <2>1, NotNil
<1> QED
  BY <1>1, <1>2, <1>3, <1>4

\* A finite set of numbers that is not empty has a greatest one: some number
\* bounds its first k members, for every k.
LEMMA GreatestOfFinite ==
    ASSUME NEW S \in SUBSET Nat, IsFiniteSet(S), S # {}
    PROVE  \E n \in S : \A m \in S : m <= n
<1>1. PICK size \in Nat : ExistsSurjection(1..size, S)
  BY FS_NatSurjection
<1>2. PICK f \in Surjection(1..size, S) : TRUE
  BY <1>1 DEF ExistsSurjection
<1>3. /\ \A k \in 1..size : f[k] \in S
      /\ \A m \in S : \E k \in 1..size : f[k] = m
  BY <1>2 DEF Surjection
<1>4. \A k \in 1..size : f[k] \in Nat
  BY <1>3
<1> DEFINE Bounds(k) == {b \in Nat : \A i \in 1..k : f[i] <= b}
           Unbounded == {k \in 0..size : Bounds(k) = {}}
<1>5. Bounds(0) # {}
  <2>1. 0 \in Bounds(0)
    OBVIOUS
  <2> QED
    BY <2>1
<1>6. ASSUME NEW k \in Nat, k + 1 \in 1..size, Bounds(k) # {}
      PROVE  Bounds(k + 1) # {}
  <2>1. PICK b \in Nat : \A i \in 1..k : f[i] <= b
    BY <1>6
  <2>2. PICK c \in Nat : b <= c /\ f[k + 1] <= c
    <3>1. f[k + 1] \in Nat
      BY <1>4, <1>6
    <3>2. CASE b <= f[k + 1]
      BY <3>1, <3>2
    <3>3. CASE f[k + 1] <= b
      BY <3>1, <3>3
    <3> QED
      BY <3>1, <3>2, <3>3
  <2>3. ASSUME NEW i \in 1..k + 1
        PROVE  f[i] <= c
    <3>1. CASE i = k + 1
      BY <2>2, <3>1
    <3>2. CASE i \in 1..k
      <4>1. f[i] \in Nat /\ f[i] <= b
        BY <1>4, <1>6, <2>1, <3>2
      <4> QED
        BY <2>2, <4>1
    <3> QED
      BY <3>1, <3>2
  <2>4. c \in Bounds(k + 1)
    BY <2>3
  <2> QED
    BY <2>4
<1>7. Bounds(size) # {}
  <2> SUFFICES ASSUME Bounds(size) = {} PROVE FALSE
    OBVIOUS
  <2> HIDE DEF Bounds
  <2>1. Unbounded \in SUBSET Nat /\ size \in Unbounded
    BY <1>1
  <2>2. PICK k \in Unbounded : \A m \in Unbounded : k <= m
    BY <2>1, FlowProofs!LeastNatural, Zenon
  <2>3. k \in 0..size /\ Bounds(k) = {}
    BY <2>2
  <2>4. k # 0
    BY <1>5, <2>3
  <2>5. /\ k - 1 \in Nat /\ k - 1 \in 0..size /\ ~ (k <= k - 1)
        /\ (k - 1) + 1 = k /\ k \in 1..size
    BY <1>1, <2>3, <2>4
  <2>6. Bounds(k - 1) # {}
    <3>1. k - 1 \notin Unbounded
      BY <2>2, <2>5
    <3> QED
      BY <2>5, <3>1
  <2>7. Bounds((k - 1) + 1) # {}
    BY <1>6, <2>5, <2>6
  <2> QED
    BY <2>3, <2>5, <2>7
<1>8. PICK b \in Nat : \A i \in 1..size : f[i] <= b
  BY <1>7
<1> DEFINE Above == {c \in Nat : \A m \in S : m <= c}
<1>9. b \in Above
  BY <1>3, <1>8
<1>10. PICK c \in Above : \A d \in Above : c <= d
  <2>1. Above \in SUBSET Nat /\ Above # {}
    BY <1>9
  <2> HIDE DEF Above
  <2> QED
    BY <2>1, FlowProofs!LeastNatural, Zenon
<1>11. c \in Nat /\ \A m \in S : m \in Nat /\ m <= c
  BY <1>10
<1>12. c \in S
  <2> SUFFICES ASSUME c \notin S PROVE FALSE
    OBVIOUS
  <2>1. \A m \in S : m <= c - 1
    BY <1>11
  <2>2. c - 1 \in Nat
    <3>1. PICK m \in S : TRUE
      OBVIOUS
    <3>2. m \in Nat /\ m <= c - 1
      BY <1>11, <2>1, <3>1
    <3> QED
      BY <1>11, <3>2
  <2>3. c - 1 \in Above
    BY <2>1, <2>2
  <2> QED
    BY <1>10, <1>11, <2>3
<1> QED
  BY <1>11, <1>12

\* GetHighestBlockNumber answers with the highest number stored, however many
\* there are and in whichever form the server writes it, or with an error.
THEOREM HighestAlwaysOrError == PartsSpec => []HighestOrError
<1>1. ASSUME AnswersInv, part = "answers", Answers!Returned,
             op = "GetHighestBlockNumber"
      PROVE  IF result = <<>> THEN id \in stored /\ \A n \in stored : n <= id
             ELSE id = 0
  <2>1. op \notin Answers!Mutations
    BY <1>1 DEF Answers!Mutations, Answers!Creates, Answers!Updates
  <2>2. input = "ok"
    BY <1>1 DEF AnswersInv, Answers!BadInputs
  <2>3. Answers!NoResult = 0 /\ Answers!Result = Answers!FirstOf(stored)
    BY <2>1 DEF Answers!NoResult, Answers!Result
  <2>4. result = Answers!HighestError(body)
    <3>1. Answers!ReadError(body) = Answers!HighestError(body)
      BY <2>1, Zenon DEF Answers!ReadError, Answers!Mutations
    <3> QED
      BY <1>1, <2>2, <3>1 DEF AnswersInv, Answers!Returned
  <2>5. CASE result # <<>>
    BY <1>1, <2>2, <2>3, <2>5 DEF AnswersInv, Answers!Returned
  <2>6. CASE result = <<>>
    <3>1. body \in Answers!Numbers
      BY <2>4, <2>6, ErrorOfNoNumber
    <3>2. stored # {} /\ stored \in SUBSET Heights
      BY <1>1, <2>1, <2>2, <3>1 DEF AnswersInv, AnswerFits, Answers!Returned
    <3>3. stored \in SUBSET Nat /\ IsFiniteSet(stored)
      BY <3>2, PartsAssumption, FS_Subset
    <3>4. \E n \in stored : \A m \in stored : m <= n
      BY <3>2, <3>3, GreatestOfFinite
    <3>5. Answers!FirstOf(stored)
            = CHOOSE n \in stored : \A m \in stored : m <= n
      BY DEF Answers!FirstOf, Answers!Order
    <3>6. id = Answers!FirstOf(stored)
      BY <1>1, <2>2, <2>3, <2>6 DEF AnswersInv, Answers!Returned
    <3> QED
      BY <2>6, <3>4, <3>5, <3>6
  <2> QED
    BY <2>5, <2>6
<1>2. AnswersInv => HighestOrError
  BY <1>1 DEF HighestOrError, Answers!HighestOrError
<1> QED
  BY <1>2, AnswersInvariant, PTL
-----------------------------------------------------------------------------
(* The numbers on their way.                                               *)

\* The digits of n in hexadecimal, as written and padded.
HexDigits(n) == {Nums!NumberToHex(n).digits,
                 <<0>> \o Nums!NumberToHex(n).digits}

\* What has been written, and what was read of it.
NumsInv ==
    part = "numbers" =>
        /\ num \in Nums!Ints \cup Nums!Uints
        /\ by \in {"none", "IntToString", "NumberToHex", "nonce", "nothing"}
        /\ by = "none" => got = Nums!Nothing
        /\ by = "IntToString" => text = Nums!IntToString(num)
        /\ by = "NumberToHex" =>
              /\ text.prefix = "0x" /\ text.sign = Nums!NumberToHex(num).sign
              /\ text.digits \in HexDigits(num)
        /\ by = "nonce" =>
              /\ num \in Nums!Uints
              /\ text = Nums!IntToString(Nums!ToInt(num))
        /\ got # Nums!Nothing =>
              \E reader \in Nums!Readers :
                 /\ got.num = Nums!Reading(reader, text).num
                 /\ got.err = Nums!Reading(reader, text).err

LEMMA NumsInvInit == PartsInit => NumsInv
BY DEF PartsInit, Nums!Init, NumsInv

\* Digits and Valued under their two names.
LEMMA SameNumerals ==
    /\ \A base, n : Nums!Digits(base, n) = Numerals!Digits(base, n)
    /\ \A base, s : Nums!Valued(base, s) = Numerals!Valued(base, s)
<1>1. \A base, n : Nums!Digits(base, n) = Numerals!Digits(base, n)
  BY Zenon DEF Nums!Digits, Numerals!Digits
<1>2. \A base, s : Nums!Valued(base, s) = Numerals!Valued(base, s)
  BY Zenon DEF Nums!Valued, Numerals!Valued
<1> QED
  BY <1>1, <1>2

\* ReadingUndoesWriting, for Numbers' two bases.
LEMMA DigitsOfNumber ==
    ASSUME NEW base \in {10, 16}, NEW n \in Nat
    PROVE  /\ Nums!Digits(base, n) \in Seq(0..base - 1)
           /\ Nums!Digits(base, n) # <<>>
           /\ Len(Nums!Digits(base, n)) > 1 => Nums!Digits(base, n)[1] # 0
           /\ Nums!Valued(base, Nums!Digits(base, n)) = n
BY SameNumerals, Numerals!ReadingUndoesWriting DEF Numerals!Bases

LEMMA NumsInvInductive == NumsInv /\ [PartsNext]_allVars => NumsInv'
<1> SUFFICES ASSUME NumsInv, [PartsNext]_allVars, part' = "numbers"
             PROVE  NumsInv'
  BY DEF NumsInv
<1>1. part = "numbers" /\ (Nums!Next \/ UNCHANGED numbers)
  BY PartSteps
<1>2. CASE Nums!Write
  <2>1. /\ num' = num /\ num \in Nums!Ints \cup Nums!Uints
        /\ got' = Nums!Nothing
    BY <1>1, <1>2 DEF NumsInv, Nums!Write
  <2>2. CASE by' = "IntToString" /\ text' = Nums!IntToString(num)
    BY <2>1, <2>2 DEF NumsInv
  <2>3. CASE by' = "NumberToHex" /\ text' = Nums!NumberToHex(num)
    <3>1. text'.prefix = "0x"
      BY <2>3 DEF Nums!NumberToHex, Nums!Text
    <3> QED
      BY <2>1, <2>3, <3>1 DEF NumsInv, HexDigits
  <2>4. CASE /\ num \in Nums!Uints /\ by' = "nonce"
             /\ text' = Nums!IntToString(Nums!ToInt(num))
    BY <2>1, <2>4 DEF NumsInv
  <2>5. CASE by' = "nothing"
    BY <2>1, <2>5 DEF NumsInv
  <2> QED
    BY <1>2, <2>2, <2>3, <2>4, <2>5 DEF Nums!Write
<1>3. CASE Nums!Pad
  <2> DEFINE s == Nums!NumberToHex(num).digits
  <2>1. (<<0>> \o s)[1] = 0
    <3>1. num \in Int /\ Nums!Abs(num) \in Nat
      BY <1>1, PartsAssumption
         DEF NumsInv, Nums!Ints, Nums!Uints, Nums!MinInt, Nums!MaxInt,
             Nums!Abs
    <3>2. s \in Seq(0..15)
      BY <3>1, DigitsOfNumber DEF Nums!NumberToHex, Nums!Text
    <3>3. <<0>> \in Seq(0..15) /\ Len(<<0>>) = 1 /\ <<0>>[1] = 0
      OBVIOUS
    <3> HIDE DEF s
    <3> QED
      BY <3>2, <3>3, ConcatProperties
  <2> HIDE DEF s
  <2>2. /\ text.prefix = "0x" /\ text.sign = Nums!NumberToHex(num).sign
        /\ text.digits = s
    BY <1>1, <1>3, <2>1 DEF NumsInv, HexDigits, Nums!Pad, s
  <2>3. /\ text'.prefix = text.prefix /\ text'.sign = text.sign
        /\ text'.digits = <<0>> \o s
    BY <1>3, <2>2 DEF Nums!Pad
  <2> QED
    BY <1>1, <1>3, <2>2, <2>3 DEF NumsInv, HexDigits, Nums!Pad, s
<1>4. CASE Nums!Read
  BY <1>1, <1>4 DEF NumsInv, Nums!Read
<1>5. CASE UNCHANGED numbers
  BY <1>1, <1>5 DEF NumsInv, numbers
<1> QED
  BY <1>1, <1>2, <1>3, <1>4, <1>5 DEF Nums!Next

\* The text is what the writing function made of the number, padded or not,
\* and what was read is what a reader makes of the text.
THEOREM NumsInvariant == PartsSpec => []NumsInv
BY NumsInvInit, NumsInvInductive, PTL DEF PartsSpec

\* A number in decimal is read as itself, or refused if it is no int64,
\* whichever function reads it.
LEMMA ReadsDecimal ==
    ASSUME NEW n \in Int, NEW reader \in Nums!Readers
    PROVE  IF n \in Nums!Ints
           THEN /\ Nums!Reading(reader, Nums!IntToString(n)).num = n
                /\ Nums!Reading(reader, Nums!IntToString(n)).err = <<>>
           ELSE Nums!Reading(reader, Nums!IntToString(n)).err # <<>>
<1> DEFINE t == Nums!IntToString(n)
           s == Nums!Digits(10, Nums!Abs(n))
<1>1. Nums!Abs(n) \in Nat /\ n = IF n < 0 THEN -Nums!Abs(n) ELSE Nums!Abs(n)
  BY DEF Nums!Abs
<1>2. /\ s \in Seq(0..9) /\ s # <<>>
      /\ Len(s) > 1 => s[1] # 0
      /\ Nums!Valued(10, s) = Nums!Abs(n)
  <2>1. /\ s \in Seq(0..10 - 1) /\ s # <<>>
        /\ Len(s) > 1 => s[1] # 0
        /\ Nums!Valued(10, s) = Nums!Abs(n)
    <3>1. 10 \in {10, 16}
      OBVIOUS
    <3> QED
      BY <1>1, <3>1, DigitsOfNumber, Zenon
  <2>2. 10 - 1 = 9
    OBVIOUS
  <2> QED
    BY <2>1, <2>2, Zenon
<1>3. /\ t.sign = IF n < 0 THEN "-" ELSE ""
      /\ t.prefix = "" /\ t.digits = s
      /\ Nums!EmptyText.digits = <<>>
  BY DEF Nums!IntToString, Nums!Text, Nums!EmptyText
<1> HIDE DEF t, s
<1>4. Nums!IsNumeral(10, t)
  <2>1. \A k \in 1..Len(s) : s[k] \in 0..9
    BY <1>2
  <2>2. \A k \in 1..Len(s) : s[k] < 10
    BY <2>1
  <2> QED
    BY <1>2, <1>3, <2>2 DEF Nums!IsNumeral
<1>5. Nums!Signed(10, t) = n
  BY <1>1, <1>2, <1>3 DEF Nums!Signed
<1>6. t # Nums!EmptyText
  BY <1>2, <1>3
<1>7. Nums!BaseOf(t) = 10
  <2>1. t.prefix # "0x" /\ ~ (Len(t.digits) > 1 /\ t.digits[1] = 0)
    BY <1>2, <1>3
  <2> QED
    BY <2>1, Zenon DEF Nums!BaseOf
<1>8. \A err1 : Nums!ParseInt(t, 10, err1)
                  = IF n \in Nums!Ints THEN Nums!Ok(n) ELSE Nums!Bad(err1)
  BY <1>4, <1>5 DEF Nums!ParseInt
<1>9. \E err1 \in {<<"InvalidHex", "standard">>,
                   <<"ParsingFailed", "standard">>, <<"DocumentNotFound">>} :
         Nums!Reading(reader, t) = Nums!ParseInt(t, 10, err1)
  <2>1. Nums!HexToInt(t) = Nums!ParseInt(t, 10, <<"InvalidHex", "standard">>)
    BY <1>6, <1>7 DEF Nums!HexToInt
  <2>2. Nums!StringToInt(t)
          = Nums!ParseInt(t, 10, <<"ParsingFailed", "standard">>)
    BY <1>3, <1>6 DEF Nums!StringToInt
  <2>3. Nums!HighestNumber(t) = Nums!ParseInt(t, 10, <<"DocumentNotFound">>)
    BY <1>3, Zenon DEF Nums!HighestNumber
  <2> QED
    BY <2>1, <2>2, <2>3 DEF Nums!Reading
<1>10. /\ Nums!Ok(n).num = n /\ Nums!Ok(n).err = <<>>
       /\ \A err1 : Nums!Bad(err1).err = err1
  BY DEF Nums!Ok, Nums!Bad
<1>11. IF n \in Nums!Ints
       THEN /\ Nums!Reading(reader, t).num = n
            /\ Nums!Reading(reader, t).err = <<>>
       ELSE Nums!Reading(reader, t).err # <<>>
  BY <1>8, <1>9, <1>10, NotNil
<1> QED
  BY <1>11 DEF t

\* What NumberToHex writes.
LEMMA WrittenInHex ==
    ASSUME NEW n \in Int
    PROVE  /\ Nums!Abs(n) \in Nat
           /\ n >= 0 => n = Nums!Abs(n) /\ Nums!NumberToHex(n).sign = ""
           /\ ~ (n >= 0) => Nums!NumberToHex(n).sign = "inner -"
           /\ Nums!NumberToHex(n).digits = Nums!Digits(16, Nums!Abs(n))
<1> DEFINE sign == IF n < 0 THEN "inner -" ELSE ""
           s == Nums!Digits(16, Nums!Abs(n))
<1>1. /\ Nums!Abs(n) \in Nat
      /\ n >= 0 => n = Nums!Abs(n) /\ sign = ""
      /\ ~ (n >= 0) => sign = "inner -"
  BY DEF Nums!Abs
<1>2. Nums!NumberToHex(n) = [sign |-> sign, prefix |-> "0x", digits |-> s]
  BY Zenon DEF Nums!NumberToHex, Nums!Text
<1> HIDE DEF s, sign
<1>3. Nums!NumberToHex(n).digits = s /\ Nums!NumberToHex(n).sign = sign
  BY <1>2
<1> QED
  BY <1>1, <1>3, Zenon DEF s

\* A number in hexadecimal, with a leading zero or without, is read as itself
\* or refused, whichever function reads it.
LEMMA ReadsHex ==
    ASSUME NEW n \in Int, NEW reader \in Nums!Readers, NEW t,
           t.prefix = "0x", t.sign = Nums!NumberToHex(n).sign,
           t.digits \in HexDigits(n),
           Nums!Reading(reader, t).err = <<>>
    PROVE  Nums!Reading(reader, t).num = n
<1> DEFINE s == Nums!Digits(16, Nums!Abs(n))
           standard == <<"InvalidHex", "standard">>
<1>1. /\ Nums!Abs(n) \in Nat
      /\ n >= 0 => n = Nums!Abs(n) /\ Nums!NumberToHex(n).sign = ""
      /\ ~ (n >= 0) => Nums!NumberToHex(n).sign = "inner -"
      /\ Nums!NumberToHex(n).digits = s
  BY WrittenInHex, Zenon
<1>2. s \in Seq(Nat) /\ Nums!Valued(16, s) = Nums!Abs(n)
  <2>1. s \in Seq(0..16 - 1) /\ Nums!Valued(16, s) = Nums!Abs(n)
    <3>1. 16 \in {10, 16}
      OBVIOUS
    <3> QED
      BY <1>1, <3>1, DigitsOfNumber, Zenon
  <2> HIDE DEF s
  <2> QED
    BY <2>1
<1> HIDE DEF s
<1>3. Nums!Valued(16, t.digits) = Nums!Abs(n)
  <2>1. 16 \in Nat /\ Numerals!Valued(16, s) = Nums!Abs(n)
    BY <1>2, SameNumerals
  <2>2. Numerals!Valued(16, <<0>> \o s) = Nums!Abs(n)
    BY <1>2, <2>1, Numerals!ValuedZeroFirst
  <2> QED
    BY <1>1, <1>2, <2>2, SameNumerals DEF HexDigits
<1>4. \A err1 : /\ Nums!ParseInt(t, 16, err1).err \in {<<>>, err1}
                /\ err1 # <<>> /\ Nums!ParseInt(t, 16, err1).err = <<>> =>
                      Nums!ParseInt(t, 16, err1).num = n
  <2> TAKE err1
  <2>1. Nums!IsNumeral(16, t) => n >= 0 /\ Nums!Signed(16, t) = n
    <3>1. ~ (n >= 0) => ~ Nums!IsNumeral(16, t)
      BY <1>1, Zenon DEF Nums!IsNumeral
    <3>2. n >= 0 => t.sign = ""
      BY <1>1, Zenon
    <3>3. n >= 0 => Nums!Signed(16, t) = n
      BY <1>1, <1>3, <3>2 DEF Nums!Signed
    <3> QED
      BY <3>1, <3>3, Zenon
  <2> QED
    BY <2>1 DEF Nums!ParseInt, Nums!Ok, Nums!Bad
<1>5. t # Nums!EmptyText
  <2>1. Nums!EmptyText.prefix = ""
    BY DEF Nums!EmptyText, Nums!Text
  <2> QED
    BY <2>1
<1>6. Nums!HexToInt(t) = Nums!ParseInt(t, 16, standard)
  <2>1. Nums!BaseOf(t) = 16
    BY Zenon DEF Nums!BaseOf
  <2> QED
    BY <1>5, <2>1 DEF Nums!HexToInt
<1>7. standard # <<>>
  BY NotNil, Zenon
<1> HIDE DEF standard
<1>8. Nums!StringToInt(t).err # <<>>
  BY <1>5, NotNil DEF Nums!StringToInt, Nums!Bad
<1>9. CASE reader = "HexToInt"
  <2>1. Nums!Reading(reader, t) = Nums!HexToInt(t)
    BY <1>9 DEF Nums!Reading
  <2> QED
    BY <1>4, <1>6, <1>7, <2>1
<1>10. CASE reader = "StringToInt"
  BY <1>8, <1>10 DEF Nums!Reading
<1>11. CASE reader = "GetHighestBlockNumber"
  <2>1. Nums!Reading(reader, t) = Nums!HighestNumber(t)
    BY <1>11 DEF Nums!Reading
  <2>2. CASE Nums!HexToInt(t).err = <<>>
    <3>1. Nums!HighestNumber(t) = Nums!HexToInt(t)
      BY <2>2 DEF Nums!HighestNumber
    <3> QED
      BY <1>4, <1>6, <1>7, <2>1, <2>2, <3>1
  <2>3. CASE Nums!HexToInt(t).err # <<>>
    <3>1. Nums!HexToInt(t).err = standard
      BY <1>4, <1>6, <2>3
    <3>2. Nums!HighestNumber(t).err = <<"ParsingFailed">> \o standard
      BY <2>3, <3>1 DEF Nums!HighestNumber, Nums!Bad
    <3>3. <<"ParsingFailed">> \o standard # <<>>
      BY PrependedToTwo, NotNil DEF standard
    <3> QED
      BY <2>1, <3>2, <3>3
  <2> QED
    BY <2>2, <2>3
<1> QED
  BY <1>9, <1>10, <1>11 DEF Nums!Readers

\* int and uint64 are the same 64 bits, so one is had back from the other.
LEMMA ToIntIsUndone ==
    ASSUME NEW u \in Nums!Uints
    PROVE  /\ Nums!ToInt(u) \in Nums!Ints
           /\ Nums!ToInt(u) % (2 * SignBit) = u
<1>1. SignBit \in Nat \ {0} /\ u \in 0..(2 * SignBit - 1)
  BY PartsAssumption DEF Nums!Uints
<1>2. Nums!ToInt(u) = IF u > SignBit - 1 THEN u - 2 * SignBit ELSE u
  BY DEF Nums!ToInt, Nums!MaxInt
<1>3. u % (2 * SignBit) = u /\ (u - 2 * SignBit) % (2 * SignBit) = u
  BY <1>1
<1>4. Nums!ToInt(u) \in -SignBit..(SignBit - 1)
  BY <1>1, <1>2
<1> QED
  BY <1>2, <1>3, <1>4 DEF Nums!Ints, Nums!MinInt, Nums!MaxInt

\* What is read comes from one of the readers.
LEMMA WhatIsRead ==
    ASSUME NumsInv, part = "numbers", got # Nums!Nothing
    PROVE  /\ num \in Int
           /\ \E reader \in Nums!Readers :
                 /\ got.num = Nums!Reading(reader, text).num
                 /\ got.err = Nums!Reading(reader, text).err
BY PartsAssumption
   DEF NumsInv, Nums!Ints, Nums!Uints, Nums!MinInt, Nums!MaxInt

\* A number written in decimal comes out as itself, or as an error where it
\* needs the 64th bit (IntToString, HexToInt, StringToInt and the string branch
\* of GetHighestBlockNumber), whatever the integers' width.
THEOREM DecimalsAlwaysSurvive == PartsSpec => []DecimalsSurvive
<1>1. NumsInv => DecimalsSurvive
  <2> SUFFICES ASSUME NumsInv, part = "numbers", got # Nums!Nothing,
                      by = "IntToString"
               PROVE  IF num \in Nums!Ints THEN got.num = num /\ got.err = <<>>
                      ELSE got.err # <<>>
    BY DEF DecimalsSurvive, Nums!DecimalsSurvive, Nums!Done
  <2>1. text = Nums!IntToString(num)
    BY DEF NumsInv
  <2> QED
    BY <2>1, WhatIsRead, ReadsDecimal
<1> QED
  BY <1>1, NumsInvariant, PTL

\* A number written with a 0x, padded or not, is read as itself or refused.
THEOREM HexAlwaysSurvives == PartsSpec => []HexSurvives
<1>1. NumsInv => HexSurvives
  <2> SUFFICES ASSUME NumsInv, part = "numbers", got # Nums!Nothing,
                      by = "NumberToHex", got.err = <<>>
               PROVE  got.num = num
    BY DEF HexSurvives, Nums!HexSurvives, Nums!Done
  <2>1. /\ text.prefix = "0x" /\ text.sign = Nums!NumberToHex(num).sign
        /\ text.digits \in HexDigits(num)
    BY DEF NumsInv
  <2> QED
    BY <2>1, WhatIsRead, ReadsHex
<1> QED
  BY <1>1, NumsInvariant, PTL

\* A nonce goes through int and a decimal text, is never refused, and can be
\* had back, so that two that differ are stored as different numbers.
THEOREM NoncesAlwaysStayApart == PartsSpec => []NoncesStayApart
<1>1. NumsInv => NoncesStayApart
  <2> SUFFICES ASSUME NumsInv, part = "numbers", got # Nums!Nothing,
                      by = "nonce"
               PROVE  got.err = <<>> /\ got.num % (2 * SignBit) = num
    BY DEF NoncesStayApart, Nums!NoncesStayApart, Nums!Done
  <2>1. num \in Nums!Uints /\ text = Nums!IntToString(Nums!ToInt(num))
    BY DEF NumsInv
  <2>2. /\ Nums!ToInt(num) \in Nums!Ints
        /\ Nums!ToInt(num) % (2 * SignBit) = num
    BY <2>1, ToIntIsUndone
  <2>3. Nums!ToInt(num) \in Int
    BY <2>2, PartsAssumption DEF Nums!Ints, Nums!MinInt, Nums!MaxInt
  <2> QED
    BY <2>1, <2>2, <2>3, WhatIsRead, ReadsDecimal
<1> QED
  BY <1>1, NumsInvariant, PTL

-----------------------------------------------------------------------------
(* The fields and their names.                                             *)

\* What Of gives an object, and what Joined makes of two.
LEMMA OfNames ==
    ASSUME NEW object, NEW names
    PROVE  /\ DOMAIN Fields!Of(object, names) = DOMAIN names
           /\ \A a \in DOMAIN names :
                 Fields!Of(object, names)[a] = <<object, names[a]>>
BY DEF Fields!Of

LEMMA JoinedLeft ==
    ASSUME NEW f, NEW g, NEW h, h = Fields!Joined(f, g), NEW a \in DOMAIN f
    PROVE  h[a] = f[a]
BY DEF Fields!Joined

LEMMA JoinedRight ==
    ASSUME NEW f, NEW g, NEW h, h = Fields!Joined(f, g),
           NEW a \in DOMAIN g, a \notin DOMAIN f
    PROVE  h[a] = g[a]
<1>1. a \in DOMAIN f \cup DOMAIN g
  OBVIOUS
<1> QED
  BY <1>1 DEF Fields!Joined

\* What go-ethereum's accessors give, but for those that may be nil.
LEMMA BlockAccessors ==
    ASSUME NEW b \in Fields!GethBlocks
    PROVE  /\ b["Hash"] = <<"block", "hash">>
           /\ b["Number"] = <<"block", "number">>
           /\ b["NumberU64"] = <<"block", "number">>
           /\ b["Time"] = <<"block", "timestamp">>
           /\ b["ParentHash"] = <<"block", "parentHash">>
           /\ b["Difficulty"] = <<"block", "difficulty">>
           /\ b["GasUsed"] = <<"block", "gasUsed">>
           /\ b["GasLimit"] = <<"block", "gasLimit">>
           /\ b["Nonce"] = <<"block", "nonce">>
           /\ b["Coinbase"] = <<"block", "miner">>
           /\ b["Size"] = <<"block", "size">>
           /\ b["Root"] = <<"block", "stateRoot">>
           /\ b["UncleHash"] = <<"block", "sha3Uncles">>
           /\ b["TxHash"] = <<"block", "transactionsRoot">>
           /\ b["ReceiptHash"] = <<"block", "receiptsRoot">>
           /\ b["Bloom"] = <<"block", "logsBloom">>
           /\ b["Extra"] = <<"block", "extraData">>
           /\ b["MixDigest"] = <<"block", "mixHash">>
<1> DEFINE w == Fields!Of("block", Fields!BlockNames)
<1>1. PICK fee, uncles : b = Fields!GethBlock(fee, uncles)
  BY DEF Fields!GethBlocks
<1>2. /\ DOMAIN w = DOMAIN Fields!BlockNames
      /\ \A a \in DOMAIN Fields!BlockNames :
            w[a] = <<"block", Fields!BlockNames[a]>>
  BY OfNames
<1>3. b = [w EXCEPT !.BaseFee = fee, !.Uncles = uncles]
  BY <1>1 DEF Fields!GethBlock
<1> HIDE DEF w
<1>4. \A a \in DOMAIN Fields!BlockNames \ {"BaseFee", "Uncles"} :
         b[a] = <<"block", Fields!BlockNames[a]>>
  BY <1>2, <1>3
<1> QED
  BY <1>4 DEF Fields!BlockNames

LEMMA TransactionAccessors ==
    ASSUME NEW t \in Fields!GethTransactions
    PROVE  /\ t["Hash"] = <<"tx", "hash">>
           /\ t["Sender"] = <<"tx", "from">>
           /\ t["Value"] = <<"tx", "value">>
           /\ t["Gas"] = <<"tx", "gas">>
           /\ t["GasFeeCap"] = <<"tx", "maxFeePerGas">>
           /\ t["GasTipCap"] = <<"tx", "maxPriorityFeePerGas">>
           /\ t["Data"] = <<"tx", "input">>
           /\ t["Nonce"] = <<"tx", "nonce">>
           /\ t["Index"] = <<"tx", "transactionIndex">>
           /\ t["TypeByte"] = <<"tx", "type">>
           /\ t["ChainId"] = <<"tx", "chainId">>
           /\ t["V"] = <<"tx", "v">>
           /\ t["R"] = <<"tx", "r">>
           /\ t["S"] = <<"tx", "s">>
           /\ t["To"] \in {<<"tx", "to">>, Fields!Absent}
           /\ t["Type"] \in 0..3
           /\ t["GasPrice"] = Fields!Price(t["Type"])
<1> DEFINE w == Fields!Of("tx", Fields!TxNames)
<1>1. PICK type \in 0..3, to \in {<<"tx", "to">>, Fields!Absent} :
         t = Fields!GethTransaction(type, to)
  BY DEF Fields!GethTransactions, Fields!LegacyTxType, Fields!BlobTxType
<1>2. /\ DOMAIN w = DOMAIN Fields!TxNames
      /\ \A a \in DOMAIN Fields!TxNames : w[a] = <<"tx", Fields!TxNames[a]>>
  BY OfNames
<1>3. /\ {"To", "GasPrice"} \subseteq DOMAIN Fields!TxNames
      /\ "Type" \notin DOMAIN Fields!TxNames
  BY DEF Fields!TxNames
<1> DEFINE u == [w EXCEPT !.To = to, !.GasPrice = Fields!Price(type)]
<1>4. t = Fields!Joined(u, [Type |-> type])
  BY <1>1 DEF Fields!GethTransaction
<1> HIDE DEF w
<1>5. /\ DOMAIN u = DOMAIN w
      /\ u["To"] = to /\ u["GasPrice"] = Fields!Price(type)
      /\ \A a \in DOMAIN w \ {"To", "GasPrice"} : u[a] = w[a]
  BY <1>2, <1>3
<1> HIDE DEF u
<1> DEFINE v == [Type |-> type]
<1>6. DOMAIN v = {"Type"} /\ v["Type"] = type
  OBVIOUS
<1> HIDE DEF v
<1>7. /\ \A a \in DOMAIN u : t[a] = u[a]
      /\ \A a \in DOMAIN v : a \notin DOMAIN u => t[a] = v[a]
  <2>1. t = Fields!Joined(u, v)
    BY <1>4 DEF v
  <2>2. ASSUME NEW a \in DOMAIN u PROVE t[a] = u[a]
    BY <2>1, JoinedLeft
  <2>3. ASSUME NEW a \in DOMAIN v, a \notin DOMAIN u PROVE t[a] = v[a]
    BY <2>1, <2>3, JoinedRight
  <2> QED
    BY <2>2, <2>3
<1>8. \A a \in DOMAIN Fields!TxNames \ {"To", "GasPrice"} :
         t[a] = <<"tx", Fields!TxNames[a]>>
  BY <1>2, <1>5, <1>7
<1>9. t["To"] = to /\ t["GasPrice"] = Fields!Price(type) /\ t["Type"] = type
  BY <1>2, <1>3, <1>5, <1>6, <1>7
<1> QED
  BY <1>1, <1>8, <1>9 DEF Fields!TxNames

LEMMA ReceiptAccessors ==
    ASSUME NEW r \in Fields!GethReceipts
    PROVE  /\ r["Status"] \in {Fields!Failed, Fields!Successful}
           /\ r["BlockNumber"] \in {<<"block", "number">>, Fields!Absent}
           /\ r["TransactionIndex"] = <<"tx", "transactionIndex">>
           /\ r["CumulativeGasUsed"] = <<"tx", "cumulativeGasUsed">>
           /\ r["GasUsed"] = <<"tx", "gasUsed">>
<1>1. PICK contract \in {<<"tx", "contractAddress">>, Fields!Absent},
           number \in {<<"block", "number">>, Fields!Absent},
           status \in {Fields!Failed, Fields!Successful} :
         r = Fields!GethReceipt(contract, number, status)
  BY DEF Fields!GethReceipts
<1> DEFINE u == Fields!Of("tx", Fields!ReceiptNames)
           w == [u EXCEPT !.ContractAddress = contract]
           v == [BlockHash |-> <<"block", "hash">>, BlockNumber |-> number,
                 Status |-> status]
<1>2. r = Fields!Joined(w, v)
  BY <1>1 DEF Fields!GethReceipt
<1>3. /\ DOMAIN u = DOMAIN Fields!ReceiptNames
      /\ \A a \in DOMAIN Fields!ReceiptNames :
            u[a] = <<"tx", Fields!ReceiptNames[a]>>
  BY OfNames
<1> HIDE DEF u
<1>4. /\ DOMAIN w = DOMAIN u
      /\ \A a \in DOMAIN u \ {"ContractAddress"} : w[a] = u[a]
  OBVIOUS
<1>5. /\ {"Status", "BlockNumber"} \subseteq DOMAIN v
      /\ v["Status"] = status /\ v["BlockNumber"] = number
  OBVIOUS
<1> HIDE DEF w, v
<1>6. "Status" \notin DOMAIN w /\ "BlockNumber" \notin DOMAIN w
  BY <1>3, <1>4 DEF Fields!ReceiptNames
<1>7. \A a \in DOMAIN v : a \notin DOMAIN w => r[a] = v[a]
  BY <1>2, JoinedRight
<1>8. \A a \in DOMAIN w : r[a] = w[a]
  BY <1>2, JoinedLeft
<1>9. \A a \in DOMAIN Fields!ReceiptNames \ {"ContractAddress"} :
         r[a] = <<"tx", Fields!ReceiptNames[a]>>
  BY <1>3, <1>4, <1>8
<1>10. /\ r["TransactionIndex"] = <<"tx", "transactionIndex">>
       /\ r["CumulativeGasUsed"] = <<"tx", "cumulativeGasUsed">>
       /\ r["GasUsed"] = <<"tx", "gasUsed">>
  BY <1>9 DEF Fields!ReceiptNames
<1> QED
  BY <1>1, <1>5, <1>6, <1>7, <1>10

LEMMA LogAccessors ==
    /\ \A a \in DOMAIN Fields!LogNames :
          Fields!GethLog[a] = <<"log", Fields!LogNames[a]>>
    /\ Fields!GethLog["BlockHash"] = <<"block", "hash">>
    /\ Fields!GethLog["BlockNumber"] = <<"block", "number">>
    /\ Fields!GethLog["TxHash"] = <<"tx", "hash">>
    /\ Fields!GethLog["TxIndex"] = <<"tx", "transactionIndex">>
<1> DEFINE w == Fields!Of("log", Fields!LogNames)
           v == [BlockHash |-> <<"block", "hash">>,
                 BlockNumber |-> <<"block", "number">>,
                 TxHash |-> <<"tx", "hash">>,
                 TxIndex |-> <<"tx", "transactionIndex">>]
<1>1. Fields!GethLog = Fields!Joined(w, v)
  BY DEF Fields!GethLog
<1>2. /\ DOMAIN w = DOMAIN Fields!LogNames
      /\ \A a \in DOMAIN Fields!LogNames : w[a] = <<"log", Fields!LogNames[a]>>
  BY OfNames
<1> HIDE DEF w
<1>3. /\ DOMAIN v = {"BlockHash", "BlockNumber", "TxHash", "TxIndex"}
      /\ v["BlockHash"] = <<"block", "hash">>
      /\ v["BlockNumber"] = <<"block", "number">>
      /\ v["TxHash"] = <<"tx", "hash">>
      /\ v["TxIndex"] = <<"tx", "transactionIndex">>
  OBVIOUS
<1> HIDE DEF v
<1>4. DOMAIN v \cap DOMAIN w = {}
  BY <1>2, <1>3 DEF Fields!LogNames
<1>5. /\ \A a \in DOMAIN w : Fields!GethLog[a] = w[a]
      /\ \A a \in DOMAIN v : a \notin DOMAIN w => Fields!GethLog[a] = v[a]
  BY <1>1, JoinedLeft, JoinedRight
<1> QED
  BY <1>2, <1>3, <1>4, <1>5

\* A quantity, written down as text.
TextOf(q) == {Fields!Hex0x(q), Fields!Hex(q), Fields!Dec(q)}

BlockFields == {"hash", "number", "timestamp", "parentHash", "difficulty",
                "totalDifficulty", "gasUsed", "gasLimit", "baseFeePerGas",
                "nonce", "miner", "size", "stateRoot", "sha3Uncles",
                "transactionsRoot", "receiptsRoot", "logsBloom", "extraData",
                "mixHash", "uncles"}

\* The fields buildBlock forgets.
Forgotten == {"baseFeePerGas", "mixHash", "uncles"}

\* A converted block has the quantities its fields are named for.
LEMMA ConvertedBlock ==
    ASSUME NEW b \in Fields!GethBlocks, NEW c, c = Fields!convertGethBlock(b)
    PROVE  /\ DOMAIN c = BlockFields
           /\ \A f \in BlockFields \ (Forgotten \cup {"nonce", "totalDifficulty"}) :
                 c[f] \in TextOf(<<"block", f>>)
           /\ c["nonce"] = Fields!Int(<<"block", "nonce">>)
           /\ c["totalDifficulty"] = Fields!Empty
<1>1. /\ DOMAIN c = BlockFields
      /\ c["nonce"] = Fields!Int(b["Nonce"])
      /\ c["totalDifficulty"] = Fields!Empty
  BY DEF Fields!convertGethBlock, BlockFields
<1>2. /\ c["hash"] = Fields!Hex0x(b["Hash"])
      /\ c["parentHash"] = Fields!Hex0x(b["ParentHash"])
      /\ c["miner"] = Fields!Hex0x(b["Coinbase"])
      /\ c["stateRoot"] = Fields!Hex0x(b["Root"])
      /\ c["sha3Uncles"] = Fields!Hex0x(b["UncleHash"])
      /\ c["transactionsRoot"] = Fields!Hex0x(b["TxHash"])
      /\ c["receiptsRoot"] = Fields!Hex0x(b["ReceiptHash"])
      /\ c["logsBloom"] = Fields!Hex(b["Bloom"])
      /\ c["extraData"] = Fields!Hex(b["Extra"])
  BY DEF Fields!convertGethBlock
<1>3. /\ c["number"] = Fields!Dec(b["NumberU64"])
      /\ c["timestamp"] = Fields!Dec(b["Time"])
      /\ c["difficulty"] = Fields!Dec(b["Difficulty"])
      /\ c["gasUsed"] = Fields!Dec(b["GasUsed"])
      /\ c["gasLimit"] = Fields!Dec(b["GasLimit"])
      /\ c["size"] = Fields!Dec(b["Size"])
  BY DEF Fields!convertGethBlock
<1>4. \A f \in {"hash", "parentHash", "miner", "stateRoot", "sha3Uncles",
               "transactionsRoot", "receiptsRoot"} :
         c[f] = Fields!Hex0x(<<"block", f>>)
  BY <1>2, BlockAccessors
<1>5. \A f \in {"number", "timestamp", "difficulty", "gasUsed", "gasLimit",
               "size"} : c[f] = Fields!Dec(<<"block", f>>)
  BY <1>3, BlockAccessors
<1>6. \A f \in {"logsBloom", "extraData"} : c[f] = Fields!Hex(<<"block", f>>)
  BY <1>2, BlockAccessors
<1> QED
  BY <1>1, <1>4, <1>5, <1>6, BlockAccessors
     DEF BlockFields, Forgotten, TextOf

\* A document has fields of the schema, with literals of their types, and
\* values that mean what the fields say.
LEMMA BlockDocument ==
    ASSUME NEW b \in Fields!GethBlocks, NEW d,
           d = Fields!blockData(Fields!buildBlock(Fields!convertGethBlock(b)))
    PROVE  /\ DOMAIN d = DOMAIN Fields!Schema["Block"]
           /\ \A f \in DOMAIN d :
                 Fields!LiteralType(d[f]) = Fields!Schema["Block"][f]
           /\ \A f \in DOMAIN d \ (Forgotten \cup {"totalDifficulty"}) :
                 d[f][2] = <<"block", f>>
           /\ \A f \in Forgotten \cup {"totalDifficulty"} :
                 d[f][2] \in {Fields!Empty[2], Fields!Absent}
<1> DEFINE c == Fields!convertGethBlock(b)
<1>1. /\ DOMAIN c = BlockFields
      /\ \A f \in BlockFields \ (Forgotten \cup {"nonce", "totalDifficulty"}) :
            c[f] \in TextOf(<<"block", f>>)
      /\ c["nonce"] = Fields!Int(<<"block", "nonce">>)
      /\ c["totalDifficulty"] = Fields!Empty
  BY ConvertedBlock
<1> HIDE DEF c
<1> DEFINE e == Fields!buildBlock(c)
<1>2. /\ DOMAIN e = BlockFields
      /\ e["baseFeePerGas"] = Fields!Empty
      /\ e["mixHash"] = Fields!Empty
      /\ e["uncles"] = Fields!List(Fields!Absent)
      /\ \A f \in BlockFields \ Forgotten : e[f] = c[f]
  BY <1>1 DEF Fields!buildBlock, BlockFields, Forgotten
<1>3. d = Fields!blockData(e)
  BY DEF c
<1> HIDE DEF e
<1>4. /\ DOMAIN d = BlockFields
      /\ d["number"] = Fields!HexToInt(e["number"])
      /\ \A f \in BlockFields \ {"number"} : d[f] = e[f]
  BY <1>2, <1>3 DEF Fields!blockData, BlockFields
<1>5. d["number"] = Fields!Int(<<"block", "number">>)
  BY <1>1, <1>2, <1>4 DEF Fields!HexToInt, TextOf, Fields!Hex0x, Fields!Hex,
     Fields!Dec, BlockFields, Forgotten
<1>6. /\ \A f \in BlockFields
               \ (Forgotten \cup {"number", "nonce", "totalDifficulty"}) :
            d[f] \in TextOf(<<"block", f>>)
      /\ d["nonce"] = Fields!Int(<<"block", "nonce">>)
      /\ d["uncles"] = Fields!List(Fields!Absent)
      /\ \A f \in {"baseFeePerGas", "mixHash", "totalDifficulty"} :
            d[f] = Fields!Empty
  BY <1>1, <1>2, <1>4 DEF BlockFields, Forgotten
<1>7. \A f \in BlockFields \ {"number", "nonce", "uncles"} :
         d[f][1] \in {"0x", "hex", "dec", ""}
  <2>1. \A q : \A v \in TextOf(q) : v[1] \in {"0x", "hex", "dec"}
    BY DEF TextOf, Fields!Hex0x, Fields!Hex, Fields!Dec
  <2>2. Fields!Empty[1] = ""
    BY DEF Fields!Empty
  <2> QED
    BY <1>6, <2>1, <2>2 DEF Forgotten
<1>8. /\ d["number"][1] = "int" /\ d["nonce"][1] = "int"
      /\ d["uncles"][1] = "list"
  BY <1>5, <1>6 DEF Fields!Int, Fields!List
<1>9. Fields!Schema["Block"] =
         [f \in BlockFields |-> IF f \in {"number", "nonce"} THEN "Int"
                                ELSE IF f = "uncles" THEN "[String]"
                                ELSE "String"]
  BY DEF Fields!Schema, Fields!Typed, BlockFields
<1>10. ASSUME NEW f \in BlockFields
       PROVE  Fields!LiteralType(d[f]) = Fields!Schema["Block"][f]
  BY <1>7, <1>8, <1>9 DEF Fields!LiteralType
<1>11. ASSUME NEW f \in BlockFields \ (Forgotten \cup {"totalDifficulty"})
       PROVE  d[f][2] = <<"block", f>>
  BY <1>5, <1>6 DEF TextOf, Fields!Hex0x, Fields!Hex, Fields!Dec, Fields!Int
<1>12. ASSUME NEW f \in Forgotten \cup {"totalDifficulty"}
       PROVE  d[f][2] \in {Fields!Empty[2], Fields!Absent}
  <2>1. Fields!List(Fields!Absent)[2] = Fields!Absent
    BY DEF Fields!List
  <2> QED
    BY <1>6, <2>1 DEF Forgotten
<1> QED
  BY <1>4, <1>9, <1>10, <1>11, <1>12

TxFields == {"hash", "blockHash", "blockNumber", "from", "to", "value", "gas",
             "gasPrice", "maxFeePerGas", "maxPriorityFeePerGas", "input",
             "nonce", "transactionIndex", "type", "chainId", "v", "r", "s",
             "status", "gasUsed", "cumulativeGasUsed", "effectiveGasPrice"}

\* The fields of a transaction no conversion assigns.
Unassigned == {"gasUsed", "cumulativeGasUsed", "effectiveGasPrice"}

\* The fields only some types of transactions have.
FeeFields == {"maxFeePerGas", "maxPriorityFeePerGas"}

\* So has a converted transaction, and its block's hash and number.
LEMMA ConvertedTransaction ==
    ASSUME NEW t \in Fields!GethTransactions, NEW b \in Fields!GethBlocks,
           NEW c, c = Fields!convertTransaction(t, b)
    PROVE  /\ DOMAIN c = TxFields
           /\ c["blockHash"] \in TextOf(<<"block", "hash">>)
           /\ c["blockNumber"] \in TextOf(<<"block", "number">>)
           /\ \A f \in {"hash", "from", "value", "gas", "input", "type",
                        "chainId", "v", "r", "s"} : c[f] \in TextOf(<<"tx", f>>)
           /\ c["gasPrice"] \in TextOf(<<"tx", "gasPrice">>)
                                \cup TextOf(<<"tx", "maxFeePerGas">>)
           /\ \A f \in {"nonce", "transactionIndex"} :
                 c[f] = Fields!Int(<<"tx", f>>)
           /\ c["status"] = Fields!Bool(TRUE)
           /\ \A f \in Unassigned : c[f] = Fields!Empty
           /\ \/ c["to"] \in TextOf(<<"tx", "to">>)
              \/ c["to"] = Fields!Empty /\ t["To"] = Fields!Absent
           /\ \A f \in FeeFields :
                 \/ c[f] \in TextOf(<<"tx", f>>)
                 \/ c[f] = Fields!Empty /\ t["Type"] # Fields!DynamicFeeTxType
<1>1. /\ DOMAIN c = TxFields
      /\ c["status"] = Fields!Bool(TRUE)
      /\ c["nonce"] = Fields!Int(t["Nonce"])
      /\ c["transactionIndex"] = Fields!Int(t["Index"])
      /\ c["gasUsed"] = Fields!Empty
      /\ c["cumulativeGasUsed"] = Fields!Empty
      /\ c["effectiveGasPrice"] = Fields!Empty
  BY DEF Fields!convertTransaction, TxFields
<1>2. /\ c["hash"] = Fields!Hex0x(t["Hash"])
      /\ c["blockHash"] = Fields!Hex0x(b["Hash"])
      /\ c["blockNumber"] = Fields!Dec(b["Number"])
      /\ c["from"] = Fields!Hex0x(t["Sender"])
      /\ c["value"] = Fields!Dec(t["Value"])
      /\ c["gas"] = Fields!Dec(t["Gas"])
      /\ c["input"] = Fields!Hex(t["Data"])
      /\ c["type"] = Fields!Dec(t["TypeByte"])
      /\ c["chainId"] = Fields!DecOrEmpty(t["ChainId"])
      /\ c["v"] = Fields!Dec(t["V"])
      /\ c["r"] = Fields!Dec(t["R"])
      /\ c["s"] = Fields!Dec(t["S"])
  BY DEF Fields!convertTransaction
<1>3. /\ c["to"] = Fields!Hex0xOrEmpty(t["To"])
      /\ c["gasPrice"] = Fields!Dec(IF t["Type"] = Fields!DynamicFeeTxType
                                    THEN t["GasFeeCap"] ELSE t["GasPrice"])
      /\ c["maxFeePerGas"] = IF t["Type"] = Fields!DynamicFeeTxType
                             THEN Fields!Dec(t["GasFeeCap"]) ELSE Fields!Empty
      /\ c["maxPriorityFeePerGas"]
           = IF t["Type"] = Fields!DynamicFeeTxType
             THEN Fields!Dec(t["GasTipCap"]) ELSE Fields!Empty
  BY DEF Fields!convertTransaction
<1>4. c["chainId"] = Fields!Dec(<<"tx", "chainId">>)
  <2>1. t["ChainId"] = <<"tx", "chainId">>
    BY TransactionAccessors
  <2>2. t["ChainId"][1] # Fields!Absent[1]
    BY <2>1 DEF Fields!Absent
  <2> QED
    BY <1>2, <2>1, <2>2 DEF Fields!DecOrEmpty
<1>5. \/ c["to"] \in TextOf(<<"tx", "to">>)
      \/ c["to"] = Fields!Empty /\ t["To"] = Fields!Absent
  BY <1>3, TransactionAccessors DEF Fields!Hex0xOrEmpty, TextOf
<1>6. c["gasPrice"] \in TextOf(<<"tx", "gasPrice">>)
                        \cup TextOf(<<"tx", "maxFeePerGas">>)
  <2>1. t["GasPrice"] \in {<<"tx", "gasPrice">>, <<"tx", "maxFeePerGas">>}
    BY TransactionAccessors DEF Fields!Price
  <2>2. t["GasFeeCap"] = <<"tx", "maxFeePerGas">>
    BY TransactionAccessors
  <2> QED
    BY <1>3, <2>1, <2>2 DEF TextOf
<1>7. ASSUME NEW f \in FeeFields
      PROVE  \/ c[f] \in TextOf(<<"tx", f>>)
             \/ c[f] = Fields!Empty /\ t["Type"] # Fields!DynamicFeeTxType
  BY <1>3, TransactionAccessors DEF FeeFields, TextOf
<1>8. /\ c["blockHash"] \in TextOf(<<"block", "hash">>)
      /\ c["blockNumber"] \in TextOf(<<"block", "number">>)
  BY <1>2, BlockAccessors DEF TextOf
<1>9. \A f \in {"hash", "from"} : c[f] = Fields!Hex0x(<<"tx", f>>)
  BY <1>2, TransactionAccessors
<1>10. \A f \in {"value", "gas", "type", "v", "r", "s"} :
          c[f] = Fields!Dec(<<"tx", f>>)
  BY <1>2, TransactionAccessors
<1>11. c["input"] = Fields!Hex(<<"tx", "input">>)
  BY <1>2, TransactionAccessors
<1>12. \A f \in {"hash", "from", "value", "gas", "input", "type", "chainId",
                "v", "r", "s"} : c[f] \in TextOf(<<"tx", f>>)
  BY <1>4, <1>9, <1>10, <1>11 DEF TextOf
<1>13. \A f \in {"nonce", "transactionIndex"} : c[f] = Fields!Int(<<"tx", f>>)
  BY <1>1, TransactionAccessors
<1>14. \A f \in Unassigned : c[f] = Fields!Empty
  BY <1>1 DEF Unassigned
<1> QED
  BY <1>1, <1>5, <1>6, <1>7, <1>8, <1>12, <1>13, <1>14

\* How each way of writing a quantity begins, and that it keeps the quantity.
LEMMA TextWritten ==
    ASSUME NEW q, NEW v \in TextOf(q)
    PROVE  v[1] \in {"0x", "hex", "dec"} /\ v[2] = q
BY DEF TextOf, Fields!Hex0x, Fields!Hex, Fields!Dec

LEMMA EmptyWritten == Fields!Empty[1] = ""
BY DEF Fields!Empty

LEMMA IntWritten ==
    ASSUME NEW q
    PROVE  Fields!Int(q)[1] = "int" /\ Fields!Int(q)[2] = q
BY DEF Fields!Int

LEMMA BoolWritten ==
    ASSUME NEW q
    PROVE  Fields!Bool(q)[1] = "bool"
BY DEF Fields!Bool

\* The create functions write some of them anew.
LEMMA Rewritten ==
    ASSUME NEW v
    PROVE  /\ Fields!HexToInt(v) = Fields!Int(v[2])
           /\ Fields!Sprint(v)[1] = "text" /\ Fields!Sprint(v)[2] = v[2]
BY DEF Fields!HexToInt, Fields!Sprint

\* A document stands for the object of its hash.
LEMMA Identified ==
    ASSUME NEW d
    PROVE  Fields!DocID(d)[1] = "docID" /\ Fields!DocID(d)[2] = d["hash"][2]
BY DEF Fields!DocID

\* What PostToCollection makes of each way of writing a value.
LEMMA Literals ==
    ASSUME NEW v
    PROVE  /\ v[1] = "int" => Fields!LiteralType(v) = "Int"
           /\ v[1] = "bool" => Fields!LiteralType(v) = "Boolean"
           /\ v[1] = "list" => Fields!LiteralType(v) = "[String]"
BY DEF Fields!LiteralType

\* A transaction as CreateTransaction posts it.
LEMMA TransactionDocument ==
    ASSUME gtx \in Fields!GethTransactions, NEW b \in Fields!GethBlocks,
           NEW blockDoc, blockDoc["hash"][2] = <<"block", "hash">>, NEW d,
           d = Fields!txData(Fields!convertTransaction(gtx, b), blockDoc)
    PROVE  /\ DOMAIN d = DOMAIN Fields!Schema["Transaction"] \cup {"gasUsed"}
           /\ "gasUsed" \notin DOMAIN Fields!Schema["Transaction"]
           /\ \A f \in DOMAIN Fields!Schema["Transaction"] :
                 Fields!LiteralType(d[f]) = Fields!Schema["Transaction"][f]
           /\ \A f \in DOMAIN d \ {"status"} :
                 \/ d[f][2] \in Fields!Meant("Transaction", f)
                 \/ /\ d[f][2] = Fields!Empty[2]
                    /\ f \in Fields!Fillable("Transaction")
<1> DEFINE c == Fields!convertTransaction(gtx, b)
<1>1. /\ DOMAIN c = TxFields
      /\ c["blockHash"] \in TextOf(<<"block", "hash">>)
      /\ c["blockNumber"] \in TextOf(<<"block", "number">>)
      /\ \A f \in {"hash", "from", "value", "gas", "input", "type",
                   "chainId", "v", "r", "s"} : c[f] \in TextOf(<<"tx", f>>)
      /\ c["gasPrice"] \in TextOf(<<"tx", "gasPrice">>)
                           \cup TextOf(<<"tx", "maxFeePerGas">>)
      /\ \A f \in {"nonce", "transactionIndex"} :
            c[f] = Fields!Int(<<"tx", f>>)
      /\ c["status"] = Fields!Bool(TRUE)
      /\ \A f \in Unassigned : c[f] = Fields!Empty
      /\ \/ c["to"] \in TextOf(<<"tx", "to">>)
         \/ c["to"] = Fields!Empty /\ gtx["To"] = Fields!Absent
      /\ \A f \in FeeFields :
            \/ c[f] \in TextOf(<<"tx", f>>)
            \/ c[f] = Fields!Empty /\ gtx["Type"] # Fields!DynamicFeeTxType
  BY ConvertedTransaction
<1> HIDE DEF c
<1> DEFINE e == [c EXCEPT !.blockNumber = Fields!HexToInt(c.blockNumber),
                          !.nonce = Fields!Sprint(c.nonce)]
<1>2. /\ DOMAIN e = TxFields
      /\ e["blockNumber"] = Fields!HexToInt(c["blockNumber"])
      /\ e["nonce"] = Fields!Sprint(c["nonce"])
      /\ \A f \in TxFields \ {"blockNumber", "nonce"} : e[f] = c[f]
  BY <1>1 DEF TxFields
<1> DEFINE ids == [block_id |-> Fields!DocID(blockDoc)]
<1>3. d = Fields!Joined(e, ids)
  BY DEF c, Fields!txData
<1>4. DOMAIN ids = {"block_id"} /\ ids["block_id"] = Fields!DocID(blockDoc)
  OBVIOUS
<1> HIDE DEF e, ids
<1>5. DOMAIN d = TxFields \cup {"block_id"}
  BY <1>2, <1>3, <1>4 DEF Fields!Joined
<1>6. d["block_id"] = Fields!DocID(blockDoc)
  BY <1>2, <1>3, <1>4, JoinedRight DEF TxFields
<1>7. \A f \in TxFields : d[f] = e[f]
  BY <1>2, <1>3, JoinedLeft
<1>8. /\ d["blockNumber"] = Fields!Int(<<"block", "number">>)
      /\ d["nonce"][1] = "text" /\ d["nonce"][2] = <<"tx", "nonce">>
      /\ d["block_id"][1] = "docID" /\ d["block_id"][2] = <<"block", "hash">>
  <2>1. d["blockNumber"] = Fields!Int(<<"block", "number">>)
    BY <1>1, <1>2, <1>7, TextWritten, Rewritten DEF TxFields
  <2>2. d["nonce"][1] = "text" /\ d["nonce"][2] = <<"tx", "nonce">>
    BY <1>1, <1>2, <1>7, IntWritten, Rewritten DEF TxFields
  <2>3. d["block_id"][1] = "docID" /\ d["block_id"][2] = <<"block", "hash">>
    BY <1>6, Identified
  <2> QED
    BY <2>1, <2>2, <2>3
<1>9. \A f \in TxFields \ {"blockNumber", "nonce"} : d[f] = c[f]
  BY <1>2, <1>7
<1>10. Fields!Schema["Transaction"] =
          [f \in (TxFields \ {"gasUsed"}) \cup {"block_id"} |->
              IF f \in {"blockNumber", "transactionIndex"} THEN "Int"
              ELSE IF f = "status" THEN "Boolean" ELSE "String"]
  BY DEF Fields!Schema, Fields!Typed, TxFields
<1>11. \A f \in (TxFields \cup {"block_id"})
                \ {"blockNumber", "transactionIndex", "status"} :
          d[f][1] \in {"0x", "hex", "dec", "", "text", "docID"}
  <2> SUFFICES ASSUME NEW f \in (TxFields \cup {"block_id"})
                         \ {"blockNumber", "transactionIndex", "status"}
               PROVE  d[f][1] \in {"0x", "hex", "dec", "", "text", "docID"}
    OBVIOUS
  <2>1. CASE f \in {"nonce", "block_id"}
    BY <1>8, <2>1
  <2>2. CASE f \notin {"nonce", "block_id"}
    <3>1. d[f] = c[f] /\ (d[f] = Fields!Empty \/ \E q : d[f] \in TextOf(q))
      BY <1>1, <1>9, <2>2 DEF TxFields, Unassigned, FeeFields
    <3> QED
      BY <3>1, TextWritten, EmptyWritten
  <2> QED
    BY <2>1, <2>2
<1>12. /\ d["blockNumber"][1] = "int" /\ d["transactionIndex"][1] = "int"
       /\ d["status"][1] = "bool"
  <2>1. d["transactionIndex"] = Fields!Int(<<"tx", "transactionIndex">>)
    BY <1>1, <1>9 DEF TxFields
  <2>2. d["status"] = Fields!Bool(TRUE)
    BY <1>1, <1>9 DEF TxFields
  <2>3. d["blockNumber"][1] = "int"
    BY <1>8, IntWritten, Zenon
  <2>4. d["transactionIndex"][1] = "int"
    BY <2>1, IntWritten, Zenon
  <2>5. d["status"][1] = "bool"
    BY <2>2, BoolWritten, Zenon
  <2> QED
    BY <2>3, <2>4, <2>5, Zenon
<1>13. ASSUME NEW f \in DOMAIN Fields!Schema["Transaction"]
       PROVE  Fields!LiteralType(d[f]) = Fields!Schema["Transaction"][f]
  <2>1. CASE f \in {"blockNumber", "transactionIndex"}
    <3>1. Fields!Schema["Transaction"][f] = "Int"
      BY <1>10, <2>1
    <3>2. d[f][1] = "int"
      BY <1>12, <2>1
    <3> QED
      BY <3>1, <3>2, Literals
  <2>2. CASE f = "status"
    <3>1. Fields!Schema["Transaction"][f] = "Boolean"
      BY <1>10, <2>2
    <3>2. d[f][1] = "bool"
      BY <1>12, <2>2
    <3> QED
      BY <3>1, <3>2, Literals
  <2>3. CASE f \notin {"blockNumber", "transactionIndex", "status"}
    <3>1. Fields!Schema["Transaction"][f] = "String"
      BY <1>10, <2>3
    <3>2. d[f][1] \in {"0x", "hex", "dec", "", "text", "docID"}
      BY <1>10, <1>11, <2>3
    <3>3. Fields!LiteralType(d[f]) = "String"
      BY <3>2 DEF Fields!LiteralType
    <3> QED
      BY <3>1, <3>3
  <2> QED
    BY <2>1, <2>2, <2>3
<1>14. ASSUME NEW f \in DOMAIN d \ {"status"}
       PROVE  \/ d[f][2] \in Fields!Meant("Transaction", f)
              \/ /\ d[f][2] = Fields!Empty[2]
                 /\ f \in Fields!Fillable("Transaction")
  <2>1. CASE f \in {"blockHash", "blockNumber", "block_id", "nonce"}
    BY <1>1, <1>8, <1>9, <2>1, TextWritten, IntWritten
       DEF TxFields, Fields!Meant
  <2>2. CASE f \in {"hash", "from", "value", "gas", "input", "type",
                    "chainId", "v", "r", "s", "transactionIndex"}
    <3>1. d[f][2] = <<"tx", f>>
      BY <1>1, <1>9, <2>2, TextWritten, IntWritten DEF TxFields
    <3> QED
      BY <2>2, <3>1 DEF Fields!Meant
  <2>3. CASE f = "gasPrice"
    BY <1>1, <1>9, <2>3, TextWritten DEF TxFields, Fields!Meant
  <2>4. CASE f \in Unassigned
    BY <1>1, <1>9, <2>4 DEF TxFields, Unassigned, Fields!Fillable
  <2>5. CASE f = "to"
    <3>1. \/ d[f][2] = <<"tx", f>>
          \/ d[f] = Fields!Empty /\ gtx["To"] = Fields!Absent
      <4>1. \/ d[f] \in TextOf(<<"tx", f>>)
            \/ d[f] = Fields!Empty /\ gtx["To"] = Fields!Absent
        BY <1>1, <1>9, <2>5 DEF TxFields
      <4> QED
        BY <4>1, TextWritten
    <3>2. d[f] = Fields!Empty /\ gtx["To"] = Fields!Absent =>
             f \in Fields!Fillable("Transaction")
      BY <2>5 DEF Fields!Fillable
    <3>3. Fields!Meant("Transaction", f) = {<<"tx", f>>}
      BY <2>5 DEF Fields!Meant
    <3> QED
      BY <3>1, <3>2, <3>3
  <2>6. CASE f \in FeeFields
    <3>1. \/ d[f][2] = <<"tx", f>>
          \/ d[f] = Fields!Empty /\ gtx["Type"] # Fields!DynamicFeeTxType
      <4>1. \/ d[f] \in TextOf(<<"tx", f>>)
            \/ d[f] = Fields!Empty /\ gtx["Type"] # Fields!DynamicFeeTxType
        BY <1>1, <1>9, <2>6 DEF TxFields, FeeFields
      <4> QED
        BY <4>1, TextWritten
    <3>2. gtx["Type"] # Fields!DynamicFeeTxType =>
             f \in Fields!Fillable("Transaction")
      BY <2>6 DEF Fields!Fillable, FeeFields
    <3>3. Fields!Meant("Transaction", f) = {<<"tx", f>>}
      BY <2>6 DEF Fields!Meant, FeeFields
    <3> QED
      BY <3>1, <3>2, <3>3
  <2> QED
    BY <1>5, <2>1, <2>2, <2>3, <2>4, <2>5, <2>6
       DEF TxFields, Unassigned, FeeFields
<1> QED
  BY <1>5, <1>10, <1>13, <1>14 DEF TxFields

\* An access list entry as CreateAccessListEntry posts it.
LEMMA EntryDocument ==
    ASSUME NEW txDoc, txDoc["hash"][2] = <<"tx", "hash">>, NEW d,
           d = Fields!ALEData(Fields!convertAccessListEntry(Fields!GethEntry),
                              txDoc)
    PROVE  /\ DOMAIN d = DOMAIN Fields!Schema["AccessListEntry"]
           /\ \A f \in DOMAIN d :
                 Fields!LiteralType(d[f]) = Fields!Schema["AccessListEntry"][f]
           /\ \A f \in DOMAIN d :
                 d[f][2] \in Fields!Meant("AccessListEntry", f)
<1> DEFINE g == Fields!GethEntry
           c == Fields!convertAccessListEntry(g)
           ids == [transaction_id |-> Fields!DocID(txDoc)]
           names == [Address |-> "address", StorageKeys |-> "storageKeys"]
<1>1. g["Address"] = <<"entry", "address">>
      /\ g["StorageKeys"] = <<"entry", "storageKeys">>
  <2>1. DOMAIN names = {"Address", "StorageKeys"}
        /\ names["Address"] = "address" /\ names["StorageKeys"] = "storageKeys"
    OBVIOUS
  <2>2. g = Fields!Of("entry", names)
    BY DEF Fields!GethEntry
  <2> HIDE DEF names, g
  <2> QED
    BY <2>1, <2>2, OfNames
<1> HIDE DEF g
<1>2. /\ DOMAIN c = {"address", "storageKeys"}
      /\ c["address"] = Fields!Hex0x(g["Address"])
      /\ c["storageKeys"] = Fields!List(g["StorageKeys"])
  BY DEF Fields!convertAccessListEntry
<1>3. DOMAIN ids = {"transaction_id"}
      /\ ids["transaction_id"] = Fields!DocID(txDoc)
  OBVIOUS
<1>4. d = Fields!Joined(c, ids)
  BY DEF Fields!ALEData, g
<1> HIDE DEF c, ids
<1>5. DOMAIN d = {"address", "storageKeys", "transaction_id"}
  BY <1>2, <1>3, <1>4 DEF Fields!Joined
<1>6. d["address"] = c["address"] /\ d["storageKeys"] = c["storageKeys"]
  BY <1>2, <1>4, JoinedLeft
<1>7. d["transaction_id"] = Fields!DocID(txDoc)
  BY <1>2, <1>3, <1>4, JoinedRight
<1>8. d["address"][1] = "0x" /\ d["address"][2] = <<"entry", "address">>
  BY <1>1, <1>2, <1>6 DEF Fields!Hex0x
<1>9. d["storageKeys"][1] = "list"
      /\ d["storageKeys"][2] = <<"entry", "storageKeys">>
  BY <1>1, <1>2, <1>6 DEF Fields!List
<1>10. d["transaction_id"][1] = "docID"
       /\ d["transaction_id"][2] = <<"tx", "hash">>
  BY <1>7, Identified
<1>11. Fields!Schema["AccessListEntry"] =
          [f \in {"address", "storageKeys", "transaction_id"} |->
              IF f = "storageKeys" THEN "[String]" ELSE "String"]
  BY DEF Fields!Schema, Fields!Typed
<1>12. /\ Fields!LiteralType(d["address"]) = "String"
       /\ Fields!LiteralType(d["storageKeys"]) = "[String]"
       /\ Fields!LiteralType(d["transaction_id"]) = "String"
  BY <1>8, <1>9, <1>10 DEF Fields!LiteralType
<1>13. /\ Fields!Meant("AccessListEntry", "address")
            = {<<"entry", "address">>}
       /\ Fields!Meant("AccessListEntry", "storageKeys")
            = {<<"entry", "storageKeys">>}
       /\ Fields!Meant("AccessListEntry", "transaction_id")
            = {<<"tx", "hash">>}
  BY DEF Fields!Meant
<1> QED
  BY <1>5, <1>8, <1>9, <1>10, <1>11, <1>12, <1>13

LogFields == {"address", "topics", "data", "blockNumber", "transactionHash",
              "transactionIndex", "blockHash", "logIndex", "removed"}

\* A log as CreateLog posts it.
LEMMA LogDocument ==
    ASSUME NEW blockDoc, blockDoc["hash"][2] = <<"block", "hash">>,
           NEW txDoc, txDoc["hash"][2] = <<"tx", "hash">>, NEW d,
           d = Fields!logData(Fields!convertGethLog(Fields!GethLog),
                              blockDoc, txDoc)
    PROVE  /\ DOMAIN d = DOMAIN Fields!Schema["Log"]
           /\ \A f \in DOMAIN d :
                 Fields!LiteralType(d[f]) = Fields!Schema["Log"][f]
           /\ \A f \in DOMAIN d : d[f][2] \in Fields!Meant("Log", f)
<1> DEFINE g == Fields!GethLog
           c == Fields!convertGethLog(g)
           e == [c EXCEPT !.blockNumber = Fields!HexToInt(c.blockNumber),
                          !.removed = Fields!Sprint(c.removed)]
           ids == [block_id |-> Fields!DocID(blockDoc),
                  transaction_id |-> Fields!DocID(txDoc)]
<1>1. /\ DOMAIN c = LogFields
      /\ c["address"] = Fields!Hex0x(g["Address"])
      /\ c["topics"] = Fields!List(g["Topics"])
      /\ c["data"] = Fields!Hex(g["Data"])
      /\ c["blockNumber"] = Fields!Dec(g["BlockNumber"])
      /\ c["transactionHash"] = Fields!Hex0x(g["TxHash"])
      /\ c["transactionIndex"] = Fields!Int(g["TxIndex"])
      /\ c["blockHash"] = Fields!Hex0x(g["BlockHash"])
      /\ c["logIndex"] = Fields!Int(g["Index"])
      /\ c["removed"] = Fields!Bool(g["Removed"])
  BY DEF Fields!convertGethLog, LogFields
<1>2. d = Fields!Joined(e, ids)
  BY DEF Fields!logData
<1>3. /\ DOMAIN ids = {"block_id", "transaction_id"}
      /\ ids["block_id"] = Fields!DocID(blockDoc)
      /\ ids["transaction_id"] = Fields!DocID(txDoc)
  OBVIOUS
<1> HIDE DEF c, ids
<1>4. /\ DOMAIN e = LogFields
      /\ e["blockNumber"] = Fields!HexToInt(c["blockNumber"])
      /\ e["removed"] = Fields!Sprint(c["removed"])
      /\ \A f \in LogFields \ {"blockNumber", "removed"} : e[f] = c[f]
  BY <1>1 DEF LogFields
<1> HIDE DEF e
<1>5. DOMAIN d = LogFields \cup {"block_id", "transaction_id"}
  BY <1>2, <1>3, <1>4 DEF Fields!Joined
<1>6. /\ d["block_id"] = Fields!DocID(blockDoc)
      /\ d["transaction_id"] = Fields!DocID(txDoc)
  BY <1>2, <1>3, <1>4, JoinedRight DEF LogFields
<1>7. \A f \in LogFields : d[f] = e[f]
  BY <1>2, <1>4, JoinedLeft
<1>8. /\ g["Address"] = <<"log", "address">>
      /\ g["Topics"] = <<"log", "topics">>
      /\ g["Data"] = <<"log", "data">>
      /\ g["Index"] = <<"log", "logIndex">>
      /\ g["Removed"] = <<"log", "removed">>
      /\ g["BlockHash"] = <<"block", "hash">>
      /\ g["BlockNumber"] = <<"block", "number">>
      /\ g["TxHash"] = <<"tx", "hash">>
      /\ g["TxIndex"] = <<"tx", "transactionIndex">>
  BY LogAccessors DEF Fields!LogNames
<1> HIDE DEF g
<1>9. /\ d["address"] = Fields!Hex0x(<<"log", "address">>)
      /\ d["topics"] = Fields!List(<<"log", "topics">>)
      /\ d["data"] = Fields!Hex(<<"log", "data">>)
      /\ d["transactionHash"] = Fields!Hex0x(<<"tx", "hash">>)
      /\ d["transactionIndex"] = Fields!Int(<<"tx", "transactionIndex">>)
      /\ d["blockHash"] = Fields!Hex0x(<<"block", "hash">>)
      /\ d["logIndex"] = Fields!Int(<<"log", "logIndex">>)
  BY <1>1, <1>4, <1>7, <1>8 DEF LogFields
<1>10. d["blockNumber"] = Fields!Int(<<"block", "number">>)
  <2>1. c["blockNumber"][2] = <<"block", "number">>
    BY <1>1, <1>8 DEF Fields!Dec
  <2> QED
    BY <1>4, <1>7, <2>1, Rewritten DEF LogFields
<1>11. d["removed"][1] = "text" /\ d["removed"][2] = <<"log", "removed">>
  <2>1. c["removed"][2] = <<"log", "removed">>
    BY <1>1, <1>8 DEF Fields!Bool
  <2> QED
    BY <1>4, <1>7, <2>1, Rewritten DEF LogFields
<1>12. /\ d["block_id"][1] = "docID" /\ d["block_id"][2] = <<"block", "hash">>
       /\ d["transaction_id"][1] = "docID"
       /\ d["transaction_id"][2] = <<"tx", "hash">>
  BY <1>6, Identified
<1>13. /\ \A f \in {"address", "data", "transactionHash", "blockHash",
                    "removed", "block_id", "transaction_id"} :
             d[f][1] \in {"0x", "hex", "text", "docID"}
       /\ \A f \in {"blockNumber", "transactionIndex", "logIndex"} :
             d[f][1] = "int"
       /\ d["topics"][1] = "list"
  BY <1>9, <1>10, <1>11, <1>12
     DEF Fields!Hex0x, Fields!Hex, Fields!Int, Fields!List
<1>14. /\ d["address"][2] = <<"log", "address">>
       /\ d["topics"][2] = <<"log", "topics">>
       /\ d["data"][2] = <<"log", "data">>
       /\ d["logIndex"][2] = <<"log", "logIndex">>
       /\ d["transactionHash"][2] = <<"tx", "hash">>
       /\ d["transactionIndex"][2] = <<"tx", "transactionIndex">>
       /\ d["blockHash"][2] = <<"block", "hash">>
       /\ d["blockNumber"][2] = <<"block", "number">>
  BY <1>9, <1>10 DEF Fields!Hex0x, Fields!Hex, Fields!Int, Fields!List
<1>15. Fields!Schema["Log"] =
          [f \in LogFields \cup {"block_id", "transaction_id"} |->
              IF f \in {"blockNumber", "transactionIndex", "logIndex"}
              THEN "Int" ELSE IF f = "topics" THEN "[String]" ELSE "String"]
  BY DEF Fields!Schema, Fields!Typed, LogFields
<1>16. ASSUME NEW f \in DOMAIN d
       PROVE  Fields!LiteralType(d[f]) = Fields!Schema["Log"][f]
  <2>1. CASE f \in {"blockNumber", "transactionIndex", "logIndex"}
    <3>1. Fields!Schema["Log"][f] = "Int"
      BY <1>5, <1>15, <2>1
    <3>2. d[f][1] = "int"
      BY <1>13, <2>1
    <3> QED
      BY <3>1, <3>2, Literals
  <2>2. CASE f = "topics"
    <3>1. Fields!Schema["Log"][f] = "[String]"
      BY <1>5, <1>15, <2>2
    <3> QED
      BY <1>13, <2>2, <3>1, Literals
  <2>3. CASE f \notin {"blockNumber", "transactionIndex", "logIndex", "topics"}
    <3>1. Fields!Schema["Log"][f] = "String"
      BY <1>5, <1>15, <2>3
    <3>2. d[f][1] \in {"0x", "hex", "text", "docID"}
      BY <1>5, <1>13, <2>3 DEF LogFields
    <3>3. Fields!LiteralType(d[f]) = "String"
      BY <3>2 DEF Fields!LiteralType
    <3> QED
      BY <3>1, <3>3
  <2> QED
    BY <2>1, <2>2, <2>3
<1>17. ASSUME NEW f \in DOMAIN d
       PROVE  d[f][2] \in Fields!Meant("Log", f)
  <2>1. CASE f \in {"address", "topics", "data", "logIndex", "removed"}
    <3>1. d[f][2] = <<"log", f>>
      BY <1>11, <1>14, <2>1
    <3>2. Fields!Meant("Log", f) = {<<"log", f>>}
      BY <2>1 DEF Fields!Meant
    <3> QED
      BY <3>1, <3>2
  <2>2. CASE f \in {"blockHash", "block_id"}
    <3>1. d[f][2] = <<"block", "hash">>
      BY <1>12, <1>14, <2>2
    <3> QED
      BY <2>2, <3>1 DEF Fields!Meant
  <2>3. CASE f \in {"transactionHash", "transaction_id"}
    <3>1. d[f][2] = <<"tx", "hash">>
      BY <1>12, <1>14, <2>3
    <3> QED
      BY <2>3, <3>1 DEF Fields!Meant
  <2>4. CASE f \in {"blockNumber", "transactionIndex"}
    BY <1>14, <2>4 DEF Fields!Meant
  <2> QED
    BY <1>5, <2>1, <2>2, <2>3, <2>4 DEF LogFields
<1> QED
  BY <1>5, <1>15, <1>16, <1>17

\* The documents, as the calls made so far have posted them.
BlockDoc ==
    Fields!blockData(Fields!buildBlock(Fields!convertGethBlock(gblock)))

TransactionDoc ==
    Fields!txData(Fields!convertTransaction(gtx, gblock), BlockDoc)

EntryDoc ==
    Fields!ALEData(Fields!convertAccessListEntry(Fields!GethEntry),
                   TransactionDoc)

LogDoc == Fields!logData(Fields!convertGethLog(Fields!GethLog), BlockDoc,
                         TransactionDoc)

Documents == [Block |-> BlockDoc, Transaction |-> TransactionDoc,
              AccessListEntry |-> EntryDoc, Log |-> LogDoc]

\* What the calls still to come rely on being stored.
Needed == [CreateBlock |-> {}, CreateTransaction |-> {"Block"},
           GetTransactionReceipt |-> {"Block", "Transaction"},
           CreateAccessListEntry |-> {"Block", "Transaction"},
           CreateLog |-> {"Block", "Transaction"}, done |-> {}]

FieldsInv ==
    part = "fields" =>
        /\ gblock \in Fields!GethBlocks
        /\ gtx \in Fields!GethTransactions
        /\ greceipt \in Fields!GethReceipts
        /\ call \in DOMAIN Needed
        /\ Needed[call] \subseteq DOMAIN docs
        /\ DOMAIN docs \subseteq DOMAIN Documents
        /\ \A c \in DOMAIN docs : docs[c] = Documents[c]

LEMMA FieldsInvInit == PartsInit => FieldsInv
BY DEF PartsInit, Fields!Init, FieldsInv, Needed

\* What is at hand is posted.
LEMMA PostedData ==
    ASSUME FieldsInv, part = "fields", call \in DOMAIN Fields!Collection
    PROVE  /\ Fields!Collection[call] \in DOMAIN Documents
           /\ Fields!Data = Documents[Fields!Collection[call]]
<1>1. CASE call = "CreateBlock"
  BY <1>1 DEF Fields!Data, BlockDoc, Documents, Fields!Collection
<1>2. CASE call = "CreateTransaction"
  BY <1>2 DEF Fields!Data, TransactionDoc, FieldsInv, Needed, Documents,
     Fields!Collection
<1>3. CASE call = "CreateAccessListEntry"
  BY <1>3 DEF Fields!Data, EntryDoc, FieldsInv, Needed, Documents,
     Fields!Collection
<1>4. CASE call = "CreateLog"
  BY <1>4 DEF Fields!Data, LogDoc, FieldsInv, Needed, Documents,
     Fields!Collection
<1> QED
  BY <1>1, <1>2, <1>3, <1>4 DEF Fields!Collection

\* A post adds its document to what is stored, or nothing.
LEMMA Posted ==
    ASSUME FieldsInv, part = "fields", call \in DOMAIN Fields!Collection,
           NEW next, NEW otherwise, Fields!Post(next, otherwise)
    PROVE  /\ DOMAIN docs' \subseteq DOMAIN Documents
           /\ \A c \in DOMAIN docs' : docs'[c] = Documents[c]
           /\ DOMAIN docs \subseteq DOMAIN docs'
           /\ \/ call' = otherwise
              \/ /\ call' = next
                 /\ Fields!Collection[call] \in DOMAIN docs'
<1> DEFINE new == Fields!Collection[call]
           more == [x \in {new} |-> Documents[new]]
<1>1. new \in DOMAIN Documents /\ Fields!Data = Documents[new]
  BY PostedData
<1>2. /\ DOMAIN docs \subseteq DOMAIN Documents
      /\ \A c \in DOMAIN docs : docs[c] = Documents[c]
  BY DEF FieldsInv
<1>3. CASE docs' = Fields!Joined(docs, more) /\ call' = next
  <2>1. DOMAIN more = {new} /\ more[new] = Documents[new]
    OBVIOUS
  <2> HIDE DEF new, more
  <2> QED
    BY <1>1, <1>2, <1>3, <2>1 DEF Fields!Joined, new
<1>4. CASE docs' = docs /\ call' = otherwise
  BY <1>2, <1>4
<1> QED
  BY <1>1, <1>3, <1>4 DEF Fields!Post

LEMMA FieldsInvInductive == FieldsInv /\ [PartsNext]_allVars => FieldsInv'
<1> SUFFICES ASSUME FieldsInv, [PartsNext]_allVars, part = "fields",
                    part' = "fields"
             PROVE  FieldsInv'
  BY PartSteps DEF FieldsInv
<1>1. CASE UNCHANGED fields
  BY <1>1 DEF fields, FieldsInv, Documents, BlockDoc, TransactionDoc, EntryDoc,
     LogDoc
<1>2. CASE Fields!Next
  <2>1. UNCHANGED <<gblock, gtx, greceipt>>
    BY <1>2 DEF Fields!Next, Fields!CreateBlock, Fields!CreateTransaction,
       Fields!GetTransactionReceipt, Fields!CreateAccessListEntry,
       Fields!CreateLog, Fields!Post, Fields!geth
  <2>2. Documents' = Documents
    BY <2>1 DEF Documents, BlockDoc, TransactionDoc, EntryDoc, LogDoc
  <2> SUFFICES /\ call' \in DOMAIN Needed
               /\ Needed[call'] \subseteq DOMAIN docs'
               /\ DOMAIN docs' \subseteq DOMAIN Documents
               /\ \A c \in DOMAIN docs' : docs'[c] = Documents[c]
    BY <2>1, <2>2 DEF FieldsInv
  <2>3. CASE Fields!CreateBlock
    BY <2>3, Posted
       DEF Fields!CreateBlock, Fields!Collection, FieldsInv, Needed
  <2>4. CASE Fields!CreateTransaction
    BY <2>4, Posted
       DEF Fields!CreateTransaction, Fields!Collection, FieldsInv, Needed
  <2>5. CASE Fields!GetTransactionReceipt
    BY <2>5 DEF Fields!GetTransactionReceipt, FieldsInv, Needed
  <2>6. CASE Fields!CreateAccessListEntry
    BY <2>6, Posted
       DEF Fields!CreateAccessListEntry, Fields!Collection, FieldsInv, Needed
  <2>7. CASE Fields!CreateLog
    BY <2>7, Posted DEF Fields!CreateLog, Fields!Collection, FieldsInv, Needed
  <2> QED
    BY <1>2, <2>3, <2>4, <2>5, <2>6, <2>7 DEF Fields!Next
<1> QED
  BY <1>1, <1>2, PartSteps

\* What a block's documents are: those of the calls made, of its quantities.
THEOREM FieldsInvariant == PartsSpec => []FieldsInv
BY FieldsInvInit, FieldsInvInductive, PTL DEF PartsSpec

\* The documents that need not be posted yet have their hashes already.
LEMMA Hashes ==
    ASSUME FieldsInv, part = "fields"
    PROVE  /\ BlockDoc["hash"][2] = <<"block", "hash">>
           /\ TransactionDoc["hash"][2] = <<"tx", "hash">>
<1>1. BlockDoc["hash"][2] = <<"block", "hash">>
  <2>1. \A f \in BlockFields \ (Forgotten \cup {"totalDifficulty"}) :
           BlockDoc[f][2] = <<"block", f>>
    <3>1. DOMAIN BlockDoc = BlockFields
      BY BlockDocument DEF FieldsInv, BlockDoc, Fields!Schema, Fields!Typed,
         BlockFields
    <3> QED
      BY <3>1, BlockDocument DEF FieldsInv, BlockDoc
  <2> QED
    BY <2>1 DEF BlockFields, Forgotten
<1>2. TransactionDoc["hash"][2] = <<"tx", "hash">>
  <2>1. "hash" \in DOMAIN TransactionDoc
    BY <1>1, TransactionDocument
       DEF FieldsInv, TransactionDoc, Fields!Schema, Fields!Typed
  <2>2. \/ TransactionDoc["hash"][2] \in Fields!Meant("Transaction", "hash")
        \/ "hash" \in Fields!Fillable("Transaction")
    BY <1>1, <2>1, TransactionDocument DEF FieldsInv, TransactionDoc
  <2>3. /\ Fields!Meant("Transaction", "hash") = {<<"tx", "hash">>}
        /\ "hash" \notin Fields!Fillable("Transaction")
    BY DEF Fields!Meant, Fields!Fillable
  <2> QED
    BY <2>2, <2>3
<1> QED
  BY <1>1, <1>2

\* Each document of a block is right.
LEMMA RightDocuments ==
    ASSUME FieldsInv, part = "fields", NEW c \in DOMAIN Documents
    PROVE  /\ DOMAIN Documents[c]
                = DOMAIN Fields!Schema[c]
                  \cup (IF c = "Transaction" THEN {"gasUsed"} ELSE {})
           /\ "gasUsed" \notin DOMAIN Fields!Schema["Transaction"]
           /\ \A f \in DOMAIN Fields!Schema[c] :
                 Fields!LiteralType(Documents[c][f]) = Fields!Schema[c][f]
           /\ \A f \in DOMAIN Documents[c] \ {"status"} :
                 \/ Documents[c][f][2] \in Fields!Meant(c, f)
                 \/ /\ Documents[c][f][2] \in {Fields!Empty[2], Fields!Absent}
                    /\ f \in Fields!Fillable(c)
<1>1. gblock \in Fields!GethBlocks /\ gtx \in Fields!GethTransactions
  BY DEF FieldsInv
<1>2. "gasUsed" \notin DOMAIN Fields!Schema["Transaction"]
  BY <1>1, Hashes, TransactionDocument
<1>3. CASE c = "Block"
  <2>1. Documents[c] = BlockDoc
    BY <1>3 DEF Documents
  <2>2. /\ DOMAIN BlockDoc = DOMAIN Fields!Schema["Block"]
        /\ \A f \in DOMAIN BlockDoc :
              Fields!LiteralType(BlockDoc[f]) = Fields!Schema["Block"][f]
        /\ \A f \in DOMAIN BlockDoc \ (Forgotten \cup {"totalDifficulty"}) :
              BlockDoc[f][2] = <<"block", f>>
        /\ \A f \in Forgotten \cup {"totalDifficulty"} :
              BlockDoc[f][2] \in {Fields!Empty[2], Fields!Absent}
    BY <1>1, BlockDocument DEF BlockDoc
  <2>3. Forgotten \cup {"totalDifficulty"} = Fields!Fillable("Block")
    BY DEF Forgotten, Fields!Fillable
  <2>4. \A f \in DOMAIN BlockDoc : Fields!Meant("Block", f) = {<<"block", f>>}
    BY <2>2 DEF Fields!Meant, Fields!Schema, Fields!Typed
  <2> QED
    BY <1>2, <1>3, <2>1, <2>2, <2>3, <2>4
<1>4. CASE c = "Transaction"
  <2>1. Documents[c] = TransactionDoc
    BY <1>4 DEF Documents
  <2>2. /\ DOMAIN TransactionDoc
             = DOMAIN Fields!Schema["Transaction"] \cup {"gasUsed"}
        /\ \A f \in DOMAIN Fields!Schema["Transaction"] :
              Fields!LiteralType(TransactionDoc[f])
                = Fields!Schema["Transaction"][f]
        /\ \A f \in DOMAIN TransactionDoc \ {"status"} :
              \/ TransactionDoc[f][2] \in Fields!Meant("Transaction", f)
              \/ /\ TransactionDoc[f][2] = Fields!Empty[2]
                 /\ f \in Fields!Fillable("Transaction")
    <3>1. /\ TransactionDoc
               = Fields!txData(Fields!convertTransaction(gtx, gblock), BlockDoc)
          /\ BlockDoc["hash"][2] = <<"block", "hash">>
      BY Hashes DEF TransactionDoc
    <3>2. DOMAIN TransactionDoc
            = DOMAIN Fields!Schema["Transaction"] \cup {"gasUsed"}
      BY <1>1, <3>1, TransactionDocument
    <3>3. \A f \in DOMAIN Fields!Schema["Transaction"] :
             Fields!LiteralType(TransactionDoc[f])
               = Fields!Schema["Transaction"][f]
      BY <1>1, <3>1, TransactionDocument
    <3>4. ASSUME NEW f \in DOMAIN TransactionDoc \ {"status"}
          PROVE  \/ TransactionDoc[f][2] \in Fields!Meant("Transaction", f)
                 \/ /\ TransactionDoc[f][2] = Fields!Empty[2]
                    /\ f \in Fields!Fillable("Transaction")
      BY <1>1, <3>1, TransactionDocument
    <3> QED
      BY <3>2, <3>3, <3>4
  <2> QED
    BY <1>2, <1>4, <2>1, <2>2
<1>5. CASE c = "AccessListEntry"
  <2>1. Documents[c] = EntryDoc
    BY <1>5 DEF Documents
  <2> QED
    BY <1>2, <1>5, <2>1, Hashes, EntryDocument DEF EntryDoc
<1>6. CASE c = "Log"
  <2>1. Documents[c] = LogDoc
    BY <1>6 DEF Documents
  <2> QED
    BY <1>2, <1>6, <2>1, Hashes, LogDocument DEF LogDoc
<1> QED
  BY <1>3, <1>4, <1>5, <1>6 DEF Documents

\* Whatever is stored of a block, a transaction, an entry or a log is the
\* quantity its field is named for, or one of the few known to stay empty.
THEOREM FieldsAlwaysMeanWhatTheySay == PartsSpec => []FieldsMeanWhatTheySay
<1>1. FieldsInv => FieldsMeanWhatTheySay
  BY RightDocuments
     DEF FieldsInv, FieldsMeanWhatTheySay, Fields!FieldsMeanWhatTheySay
<1> QED
  BY <1>1, FieldsInvariant, PTL

\* Every post has the fields and the literals of the schema, and but one
\* field more.
THEOREM PostsAlwaysFitTheSchema == PartsSpec => []PostsFitTheSchema
<1>1. FieldsInv => PostsFitTheSchema
  <2> SUFFICES ASSUME FieldsInv, part = "fields",
                      call \in DOMAIN Fields!Collection
               PROVE  Fields!PostsFitTheSchema
    BY DEF PostsFitTheSchema, Fields!PostsFitTheSchema
  <2> DEFINE c == Fields!Collection[call]
  <2>1. c \in DOMAIN Documents /\ Fields!Data = Documents[c]
    BY PostedData
  <2>2. (call = "CreateTransaction") = (c = "Transaction")
    BY DEF Fields!Collection
  <2> HIDE DEF c
  <2>3. /\ DOMAIN Documents[c]
             = DOMAIN Fields!Schema[c]
               \cup (IF c = "Transaction" THEN {"gasUsed"} ELSE {})
        /\ "gasUsed" \notin DOMAIN Fields!Schema["Transaction"]
        /\ \A f \in DOMAIN Fields!Schema[c] :
              Fields!LiteralType(Documents[c][f]) = Fields!Schema[c][f]
    BY <2>1, RightDocuments
  <2>4. DOMAIN Fields!Schema[c] \subseteq DOMAIN Fields!Data
    BY <2>1, <2>3
  <2>5. Fields!Misfits(c, Fields!Data) = {}
    BY <2>1, <2>3 DEF Fields!Misfits
  <2>6. Fields!Unknown(c, Fields!Data)
           = IF call = "CreateTransaction" THEN {"gasUsed"} ELSE {}
    BY <2>1, <2>2, <2>3 DEF Fields!Unknown
  <2> QED
    BY <2>4, <2>5, <2>6 DEF c, Fields!PostsFitTheSchema
<1> QED
  BY <1>1, FieldsInvariant, PTL

-----------------------------------------------------------------------------
(* Where the two sets of conversions differ.                               *)

\* Through an int64 a value changes where it is large, and only there.
LEMMA ThroughInt64 ==
    ASSUME NEW q, NEW L
    PROVE  Fields!Written(Fields!Dec(q), L)
             # Fields!Written(Fields!DecInt64(q), L) <=> q \in L
<1>1. Fields!Dec(q)[1] = "dec"
  BY DEF Fields!Dec
<1>2. /\ Fields!DecInt64(q)[1] = "int64" /\ Fields!DecInt64(q)[2] = q
  BY DEF Fields!DecInt64
<1>3. Fields!Written(Fields!Dec(q), L) = Fields!Dec(q)
  BY <1>1 DEF Fields!Written
<1>4. Fields!Written(Fields!DecInt64(q), L)
        = IF q \notin L THEN Fields!Dec(q) ELSE Fields!DecInt64(q)
  BY <1>2 DEF Fields!Written
<1> QED
  BY <1>1, <1>2, <1>3, <1>4

\* A field the same, a field through an int64, a field that never is.
LEMMA FieldTheSame ==
    ASSUME NEW c, NEW d, NEW L, NEW f, c[f] = d[f]
    PROVE  f \notin Fields!DisagreeOn(c, d, L)
BY DEF Fields!DisagreeOn

LEMMA FieldThroughInt64 ==
    ASSUME NEW c, NEW d, NEW L, NEW q, NEW f \in DOMAIN c,
           c[f] = Fields!Dec(q), d[f] = Fields!DecInt64(q)
    PROVE  f \in Fields!DisagreeOn(c, d, L) <=> q \in L
BY ThroughInt64 DEF Fields!DisagreeOn

\* None of the other ways of writing is an int64's.
Plain(v) == v[1] # "int64"

LEMMA FieldOfItsOwn ==
    ASSUME NEW c, NEW d, NEW L, NEW f \in DOMAIN c,
           Plain(c[f]), Plain(d[f]), c[f] # d[f]
    PROVE  f \in Fields!DisagreeOn(c, d, L)
<1>1. \A v : Plain(v) => Fields!Written(v, L) = v
  BY DEF Plain, Fields!Written
<1> QED
  BY <1>1 DEF Fields!DisagreeOn

LEMMA PlainWays ==
    /\ \A q : Plain(Fields!Hex0x(q)) /\ Plain(Fields!Hex(q))
    /\ \A q : Plain(Fields!Dec(q)) /\ Plain(Fields!Raw(q))
    /\ \A q : Plain(Fields!Int(q)) /\ Plain(Fields!List(q))
    /\ Plain(Fields!Empty)
BY DEF Plain, Fields!Hex0x, Fields!Hex, Fields!Dec, Fields!Raw, Fields!Int,
       Fields!List, Fields!Empty

\* Written in two ways, or of two quantities, two values differ.
LEMMA WaysDiffer ==
    /\ \A q : /\ Fields!Hex0x(q) # Fields!Empty
              /\ Fields!Hex(q) # Fields!Empty
              /\ Fields!Dec(q) # Fields!Empty
              /\ Fields!Hex(q) # Fields!Raw(q)
    /\ \A q, p : /\ Fields!Dec(q) = Fields!Dec(p) => q = p
                 /\ Fields!Int(q) = Fields!Int(p) => q = p
                 /\ Fields!List(q) = Fields!List(p) => q = p
<1>1. ASSUME NEW q
      PROVE  /\ Fields!Hex0x(q) # Fields!Empty
             /\ Fields!Hex(q) # Fields!Empty
             /\ Fields!Dec(q) # Fields!Empty
             /\ Fields!Hex(q) # Fields!Raw(q)
  BY DEF Fields!Hex0x, Fields!Hex, Fields!Dec, Fields!Raw, Fields!Empty
<1>2. ASSUME NEW q, NEW p
      PROVE  /\ Fields!Dec(q) = Fields!Dec(p) => q = p
             /\ Fields!Int(q) = Fields!Int(p) => q = p
             /\ Fields!List(q) = Fields!List(p) => q = p
  BY DEF Fields!Dec, Fields!Int, Fields!List
<1> QED
  BY <1>1, <1>2

LEMMA BlocksAgree ==
    ASSUME NEW b \in Fields!GethBlocks,
           NEW large \in SUBSET {"timestamp", "gasUsed", "gasLimit"}
    PROVE  Fields!DisagreeOn(Fields!convertGethBlock(b),
                             Fields!ConvertBlock(b),
                             {<<"block", f>> : f \in large})
             = {"size", "extraData", "logsBloom", "mixHash"} \cup large
               \cup (IF b["BaseFee"] = Fields!Absent
                     THEN {} ELSE {"baseFeePerGas"})
               \cup (IF b["Uncles"] = Fields!Absent THEN {} ELSE {"uncles"})
<1> DEFINE c == Fields!convertGethBlock(b)
           d == Fields!ConvertBlock(b)
           L == {<<"block", f>> : f \in large}
           D == Fields!DisagreeOn(c, d, L)
           same == {"hash", "number", "parentHash", "difficulty",
                    "totalDifficulty", "nonce", "miner", "stateRoot",
                    "sha3Uncles", "transactionsRoot", "receiptsRoot"}
<1>1. DOMAIN c = BlockFields /\ D \subseteq BlockFields
  BY DEF Fields!convertGethBlock, BlockFields, Fields!DisagreeOn
<1>2. \A f \in {"timestamp", "gasUsed", "gasLimit"} :
         <<"block", f>> \in L <=> f \in large
  OBVIOUS
<1>3. /\ c["hash"] = d["hash"]
      /\ c["parentHash"] = d["parentHash"]
      /\ c["difficulty"] = d["difficulty"]
      /\ c["totalDifficulty"] = d["totalDifficulty"]
      /\ c["nonce"] = d["nonce"]
      /\ c["miner"] = d["miner"] /\ c["stateRoot"] = d["stateRoot"]
      /\ c["sha3Uncles"] = d["sha3Uncles"]
      /\ c["transactionsRoot"] = d["transactionsRoot"]
      /\ c["receiptsRoot"] = d["receiptsRoot"]
  BY DEF Fields!convertGethBlock, Fields!ConvertBlock
<1>4. c["number"] = d["number"]
  <2>1. c["number"] = Fields!Dec(b["NumberU64"])
    BY DEF Fields!convertGethBlock
  <2>2. d["number"] = Fields!Dec(b["Number"])
    BY DEF Fields!ConvertBlock
  <2> QED
    BY <2>1, <2>2, BlockAccessors
<1>5. /\ c["timestamp"] = Fields!Dec(b["Time"])
      /\ d["timestamp"] = Fields!DecInt64(b["Time"])
      /\ c["gasUsed"] = Fields!Dec(b["GasUsed"])
      /\ d["gasUsed"] = Fields!DecInt64(b["GasUsed"])
      /\ c["gasLimit"] = Fields!Dec(b["GasLimit"])
      /\ d["gasLimit"] = Fields!DecInt64(b["GasLimit"])
  BY DEF Fields!convertGethBlock, Fields!ConvertBlock
<1>6. /\ c["size"] = Fields!Dec(b["Size"]) /\ d["size"] = Fields!Empty
      /\ c["extraData"] = Fields!Hex(b["Extra"])
      /\ d["extraData"] = Fields!Raw(b["Extra"])
      /\ c["logsBloom"] = Fields!Hex(b["Bloom"])
      /\ d["logsBloom"] = Fields!Empty
      /\ c["mixHash"] = Fields!Hex0x(b["MixDigest"])
      /\ d["mixHash"] = Fields!Empty
  BY DEF Fields!convertGethBlock, Fields!ConvertBlock
<1>7. /\ c["baseFeePerGas"] = Fields!DecOrEmpty(b["BaseFee"])
      /\ d["baseFeePerGas"] = Fields!Empty
      /\ c["uncles"] = Fields!List(b["Uncles"])
      /\ d["uncles"] = Fields!List(Fields!Absent)
  BY DEF Fields!convertGethBlock, Fields!ConvertBlock
<1> HIDE DEF c, d, L
<1>8. \A f \in same : f \notin D
  <2>1. \A f \in same : c[f] = d[f]
    BY <1>3, <1>4
  <2> QED
    BY <2>1, FieldTheSame
<1>9. \A f \in {"timestamp", "gasUsed", "gasLimit"} : f \in D <=> f \in large
  <2>1. {"timestamp", "gasUsed", "gasLimit"} \subseteq DOMAIN c
    BY <1>1 DEF BlockFields
  <2>2. "timestamp" \in D <=> b["Time"] \in L
    BY <1>5, <2>1, FieldThroughInt64
  <2>3. "gasUsed" \in D <=> b["GasUsed"] \in L
    BY <1>5, <2>1, FieldThroughInt64
  <2>4. "gasLimit" \in D <=> b["GasLimit"] \in L
    BY <1>5, <2>1, FieldThroughInt64
  <2>5. /\ b["Time"] = <<"block", "timestamp">>
        /\ b["GasUsed"] = <<"block", "gasUsed">>
        /\ b["GasLimit"] = <<"block", "gasLimit">>
    BY BlockAccessors
  <2> QED
    BY <1>2, <2>2, <2>3, <2>4, <2>5
<1>10. \A f \in {"size", "extraData", "logsBloom", "mixHash"} : f \in D
  <2> SUFFICES ASSUME NEW f \in {"size", "extraData", "logsBloom", "mixHash"}
               PROVE  /\ f \in DOMAIN c
                      /\ Plain(c[f]) /\ Plain(d[f])
                      /\ c[f] # d[f]
    BY FieldOfItsOwn
  <2>1. Plain(c[f]) /\ Plain(d[f])
    BY <1>6, PlainWays
  <2>2. c[f] # d[f]
    BY <1>6, WaysDiffer
  <2> QED
    BY <1>1, <2>1, <2>2 DEF BlockFields
<1>11. "baseFeePerGas" \in D <=> b["BaseFee"] # Fields!Absent
  <2>1. CASE b["BaseFee"] = Fields!Absent
    BY <1>7, <2>1, FieldTheSame DEF Fields!DecOrEmpty
  <2>2. CASE b["BaseFee"] # Fields!Absent
    <3>1. /\ Plain(c["baseFeePerGas"]) /\ Plain(d["baseFeePerGas"])
          /\ c["baseFeePerGas"] # d["baseFeePerGas"]
      BY <1>7, <2>2, PlainWays, WaysDiffer DEF Fields!DecOrEmpty
    <3>2. "baseFeePerGas" \in DOMAIN c
      BY <1>1 DEF BlockFields
    <3> QED
      BY <2>2, <3>1, <3>2, FieldOfItsOwn
  <2> QED
    BY <2>1, <2>2
<1>12. "uncles" \in D <=> b["Uncles"] # Fields!Absent
  <2>1. CASE b["Uncles"] = Fields!Absent
    BY <1>7, <2>1, FieldTheSame
  <2>2. CASE b["Uncles"] # Fields!Absent
    <3>1. /\ Plain(c["uncles"]) /\ Plain(d["uncles"])
          /\ c["uncles"] # d["uncles"]
      BY <1>7, <2>2, PlainWays, WaysDiffer
    <3>2. "uncles" \in DOMAIN c
      BY <1>1 DEF BlockFields
    <3> QED
      BY <2>2, <3>1, <3>2, FieldOfItsOwn
  <2> QED
    BY <2>1, <2>2
<1> DEFINE E == {"size", "extraData", "logsBloom", "mixHash"} \cup large
                \cup (IF b["BaseFee"] = Fields!Absent
                      THEN {} ELSE {"baseFeePerGas"})
                \cup (IF b["Uncles"] = Fields!Absent THEN {} ELSE {"uncles"})
<1> HIDE DEF D
<1>13. \A f \in BlockFields : f \in D <=> f \in E
  <2> SUFFICES ASSUME NEW f \in BlockFields PROVE f \in D <=> f \in E
    OBVIOUS
  <2>1. CASE f \in same
    BY <1>8, <2>1
  <2>2. CASE f \in {"timestamp", "gasUsed", "gasLimit"}
    BY <1>9, <2>2
  <2>3. CASE f \in {"size", "extraData", "logsBloom", "mixHash"}
    BY <1>10, <2>3
  <2>4. CASE f = "baseFeePerGas"
    BY <1>11, <2>4
  <2>5. CASE f = "uncles"
    BY <1>12, <2>5
  <2> QED
    BY <2>1, <2>2, <2>3, <2>4, <2>5 DEF BlockFields
<1>14. E \subseteq BlockFields
  BY DEF BlockFields
<1>15. D = E
  BY <1>1, <1>13, <1>14
<1> QED
  BY <1>15 DEF c, d, L, D, E

LEMMA TransactionsAgree ==
    ASSUME NEW t \in Fields!GethTransactions, NEW b,
           NEW large \in SUBSET {"gas"}
    PROVE  Fields!DisagreeOn(
               Fields!convertTransaction(t, b),
               Fields!ConvertTransaction(t, t["Sender"], b, TRUE),
               {<<"tx", f>> : f \in large})
             = {"transactionIndex", "type", "chainId", "v", "r", "s"}
               \cup large
               \cup (IF t["Type"] = Fields!DynamicFeeTxType
                     THEN {"maxFeePerGas", "maxPriorityFeePerGas"} ELSE {})
<1> DEFINE c == Fields!convertTransaction(t, b)
           d == Fields!ConvertTransaction(t, t["Sender"], b, TRUE)
           L == {<<"tx", f>> : f \in large}
           D == Fields!DisagreeOn(c, d, L)
           same == {"hash", "blockHash", "blockNumber", "from", "to", "value",
                    "gasPrice", "input", "nonce", "status", "gasUsed",
                    "cumulativeGasUsed", "effectiveGasPrice"}
           own == {"transactionIndex", "type", "chainId", "v", "r", "s"}
           fees == {"maxFeePerGas", "maxPriorityFeePerGas"}
<1>1. DOMAIN c = TxFields /\ D \subseteq TxFields
  BY DEF Fields!convertTransaction, TxFields, Fields!DisagreeOn
<1>2. <<"tx", "gas">> \in L <=> "gas" \in large
  OBVIOUS
<1>3. /\ c["hash"] = d["hash"] /\ c["blockHash"] = d["blockHash"]
      /\ c["blockNumber"] = d["blockNumber"] /\ c["from"] = d["from"]
      /\ c["to"] = d["to"] /\ c["value"] = d["value"]
      /\ c["input"] = d["input"] /\ c["nonce"] = d["nonce"]
      /\ c["status"] = d["status"] /\ c["gasUsed"] = d["gasUsed"]
      /\ c["cumulativeGasUsed"] = d["cumulativeGasUsed"]
      /\ c["effectiveGasPrice"] = d["effectiveGasPrice"]
  BY DEF Fields!convertTransaction, Fields!ConvertTransaction
<1>4. c["gasPrice"] = d["gasPrice"]
  <2>1. c["gasPrice"] = Fields!Dec(IF t["Type"] = Fields!DynamicFeeTxType
                                   THEN t["GasFeeCap"] ELSE t["GasPrice"])
    BY DEF Fields!convertTransaction
  <2>2. d["gasPrice"] = Fields!Dec(t["GasPrice"])
    BY DEF Fields!ConvertTransaction
  <2>3. t["Type"] = Fields!DynamicFeeTxType => t["GasPrice"] = t["GasFeeCap"]
    BY TransactionAccessors DEF Fields!Price, Fields!DynamicFeeTxType
  <2> QED
    BY <2>1, <2>2, <2>3
<1>5. /\ c["gas"] = Fields!Dec(t["Gas"])
      /\ d["gas"] = Fields!DecInt64(t["Gas"])
  BY DEF Fields!convertTransaction, Fields!ConvertTransaction
<1>6. /\ c["transactionIndex"] = Fields!Int(t["Index"])
      /\ d["transactionIndex"] = Fields!Int(t["Nonce"])
  BY DEF Fields!convertTransaction, Fields!ConvertTransaction
<1>7. /\ c["type"] = Fields!Dec(t["TypeByte"])
      /\ c["chainId"] = Fields!DecOrEmpty(t["ChainId"])
      /\ c["v"] = Fields!Dec(t["V"])
      /\ c["r"] = Fields!Dec(t["R"])
      /\ c["s"] = Fields!Dec(t["S"])
  BY DEF Fields!convertTransaction
<1>8. \A f \in fees \cup {"type", "chainId", "v", "r", "s"} :
         d[f] = Fields!Empty
  BY DEF Fields!ConvertTransaction
<1>9. IF t["Type"] = Fields!DynamicFeeTxType
      THEN /\ c["maxFeePerGas"] = Fields!Dec(t["GasFeeCap"])
           /\ c["maxPriorityFeePerGas"] = Fields!Dec(t["GasTipCap"])
      ELSE /\ c["maxFeePerGas"] = Fields!Empty
           /\ c["maxPriorityFeePerGas"] = Fields!Empty
  BY DEF Fields!convertTransaction
<1> HIDE DEF c, d, L
<1>10. \A f \in same : f \notin D
  <2>1. \A f \in same : c[f] = d[f]
    BY <1>3, <1>4
  <2> QED
    BY <2>1, FieldTheSame
<1>11. "gas" \in D <=> "gas" \in large
  <2>1. "gas" \in D <=> t["Gas"] \in L
    BY <1>1, <1>5, FieldThroughInt64 DEF TxFields
  <2>2. t["Gas"] = <<"tx", "gas">>
    BY TransactionAccessors
  <2> QED
    BY <1>2, <2>1, <2>2
<1>12. "transactionIndex" \in D
  <2>1. t["Index"] # t["Nonce"]
    BY TransactionAccessors
  <2>2. /\ Plain(c["transactionIndex"]) /\ Plain(d["transactionIndex"])
        /\ c["transactionIndex"] # d["transactionIndex"]
    BY <1>6, <2>1, PlainWays, WaysDiffer
  <2> QED
    BY <1>1, <2>2, FieldOfItsOwn DEF TxFields
<1>13. \A f \in {"type", "chainId", "v", "r", "s"} : f \in D
  <2>1. c["chainId"] = Fields!Dec(t["ChainId"])
    <3>1. t["ChainId"] = <<"tx", "chainId">>
      BY TransactionAccessors
    <3>2. <<"tx", "chainId">> # Fields!Absent
      BY DEF Fields!Absent
    <3> QED
      BY <1>7, <3>1, <3>2 DEF Fields!DecOrEmpty
  <2> SUFFICES ASSUME NEW f \in {"type", "chainId", "v", "r", "s"}
               PROVE  /\ f \in DOMAIN c
                      /\ Plain(c[f]) /\ Plain(d[f])
                      /\ c[f] # d[f]
    BY FieldOfItsOwn
  <2>2. d[f] = Fields!Empty
    BY <1>8
  <2>3. Plain(c[f]) /\ Plain(d[f])
    BY <1>7, <2>1, <2>2, PlainWays
  <2>4. c[f] # d[f]
    BY <1>7, <2>1, <2>2, WaysDiffer
  <2> QED
    BY <1>1, <2>3, <2>4 DEF TxFields
<1>14. \A f \in fees : f \in D <=> t["Type"] = Fields!DynamicFeeTxType
  <2> SUFFICES ASSUME NEW f \in fees
               PROVE  f \in D <=> t["Type"] = Fields!DynamicFeeTxType
    OBVIOUS
  <2>1. CASE t["Type"] = Fields!DynamicFeeTxType
    <3>1. d[f] = Fields!Empty /\ f \in DOMAIN c
      BY <1>1, <1>8 DEF TxFields
    <3>2. \E q : c[f] = Fields!Dec(q)
      BY <1>9, <2>1
    <3>3. Plain(c[f]) /\ Plain(d[f]) /\ c[f] # d[f]
      BY <3>1, <3>2, PlainWays, WaysDiffer
    <3> QED
      BY <2>1, <3>1, <3>3, FieldOfItsOwn
  <2>2. CASE t["Type"] # Fields!DynamicFeeTxType
    BY <1>8, <1>9, <2>2, FieldTheSame
  <2> QED
    BY <2>1, <2>2
<1> DEFINE E == own \cup large
                \cup (IF t["Type"] = Fields!DynamicFeeTxType
                      THEN fees ELSE {})
<1> HIDE DEF D
<1>15. \A f \in TxFields : f \in D <=> f \in E
  <2> SUFFICES ASSUME NEW f \in TxFields PROVE f \in D <=> f \in E
    OBVIOUS
  <2>1. CASE f \in same
    BY <1>10, <2>1
  <2>2. CASE f = "gas"
    BY <1>11, <2>2
  <2>3. CASE f \in own
    BY <1>12, <1>13, <2>3
  <2>4. CASE f \in fees
    BY <1>14, <2>4
  <2> QED
    BY <2>1, <2>2, <2>3, <2>4 DEF TxFields
<1>16. E \subseteq TxFields
  BY DEF TxFields
<1>17. D = E
  BY <1>1, <1>15, <1>16
<1> QED
  BY <1>17 DEF c, d, L, D, E

ReceiptFields == {"transactionHash", "transactionIndex", "blockHash",
                  "blockNumber", "from", "to", "cumulativeGasUsed", "gasUsed",
                  "contractAddress", "status"}

LEMMA ReceiptsAgree ==
    ASSUME NEW r \in Fields!GethReceipts,
           NEW large \in SUBSET {"transactionIndex", "cumulativeGasUsed",
                                 "gasUsed"}
    PROVE  Fields!DisagreeOn(Fields!convertGethReceipt(r),
                             Fields!ConvertReceipt(r),
                             {<<"tx", f>> : f \in large})
             = {"to"} \cup large
               \cup (IF r["ContractAddress"] = Fields!Absent
                     THEN {"contractAddress"} ELSE {})
               \cup (IF r["BlockNumber"] = Fields!Absent
                     THEN {"blockNumber"} ELSE {})
<1> DEFINE c == Fields!convertGethReceipt(r)
           d == Fields!ConvertReceipt(r)
           L == {<<"tx", f>> : f \in large}
           D == Fields!DisagreeOn(c, d, L)
           through == {"transactionIndex", "cumulativeGasUsed", "gasUsed"}
<1>1. DOMAIN c = ReceiptFields /\ D \subseteq ReceiptFields
  BY DEF Fields!convertGethReceipt, ReceiptFields, Fields!DisagreeOn
<1>2. /\ \A f \in through : <<"tx", f>> \in L <=> f \in large
      /\ Fields!Failed \notin L /\ Fields!Successful \notin L
  BY DEF Fields!Failed, Fields!Successful
<1>3. /\ c["transactionHash"] = d["transactionHash"]
      /\ c["blockHash"] = d["blockHash"]
      /\ c["from"] = d["from"]
  BY DEF Fields!convertGethReceipt, Fields!ConvertReceipt
<1>4. /\ c["transactionIndex"] = Fields!Dec(r["TransactionIndex"])
      /\ d["transactionIndex"] = Fields!DecInt64(r["TransactionIndex"])
      /\ c["cumulativeGasUsed"] = Fields!Dec(r["CumulativeGasUsed"])
      /\ d["cumulativeGasUsed"] = Fields!DecInt64(r["CumulativeGasUsed"])
      /\ c["gasUsed"] = Fields!Dec(r["GasUsed"])
      /\ d["gasUsed"] = Fields!DecInt64(r["GasUsed"])
  BY DEF Fields!convertGethReceipt, Fields!ConvertReceipt
<1>5. /\ c["status"] = Fields!Dec(r["Status"])
      /\ d["status"] = Fields!DecInt64(r["Status"])
  <2>1. c["status"] = Fields!getReceiptStatus(r)
    BY DEF Fields!convertGethReceipt
  <2>2. d["status"] = Fields!DecInt64(r["Status"])
    BY DEF Fields!ConvertReceipt
  <2> QED
    BY <2>1, <2>2, ReceiptAccessors
       DEF Fields!getReceiptStatus, Fields!Failed, Fields!Successful
<1>6. /\ c["to"] = Fields!Empty
      /\ d["to"] = Fields!Hex0x(r["ContractAddress"])
      /\ c["contractAddress"] = Fields!Hex0xOrEmpty(r["ContractAddress"])
      /\ d["contractAddress"] = Fields!Hex0x(r["ContractAddress"])
  BY DEF Fields!convertGethReceipt, Fields!ConvertReceipt
<1>7. /\ c["blockNumber"] = Fields!Dec(r["BlockNumber"])
      /\ d["blockNumber"] = IF r["BlockNumber"] = Fields!Absent
                            THEN Fields!Dec(<<"constant", "0">>)
                            ELSE Fields!Dec(r["BlockNumber"])
  BY DEF Fields!convertGethReceipt, Fields!ConvertReceipt
<1> HIDE DEF c, d, L
<1>8. \A f \in {"transactionHash", "blockHash", "from"} : f \notin D
  BY <1>3, FieldTheSame
<1>9. \A f \in through : f \in D <=> f \in large
  <2>1. through \subseteq DOMAIN c
    BY <1>1 DEF ReceiptFields
  <2>2. "transactionIndex" \in D <=> r["TransactionIndex"] \in L
    BY <1>4, <2>1, FieldThroughInt64
  <2>3. "cumulativeGasUsed" \in D <=> r["CumulativeGasUsed"] \in L
    BY <1>4, <2>1, FieldThroughInt64
  <2>4. "gasUsed" \in D <=> r["GasUsed"] \in L
    BY <1>4, <2>1, FieldThroughInt64
  <2>5. /\ r["TransactionIndex"] = <<"tx", "transactionIndex">>
        /\ r["CumulativeGasUsed"] = <<"tx", "cumulativeGasUsed">>
        /\ r["GasUsed"] = <<"tx", "gasUsed">>
    BY ReceiptAccessors
  <2> QED
    BY <1>2, <2>2, <2>3, <2>4, <2>5
<1>10. "status" \notin D
  <2>1. "status" \in D <=> r["Status"] \in L
    BY <1>1, <1>5, FieldThroughInt64 DEF ReceiptFields
  <2>2. r["Status"] \in {Fields!Failed, Fields!Successful}
    BY ReceiptAccessors
  <2> QED
    BY <1>2, <2>1, <2>2
<1>11. "to" \in D
  <2>1. Plain(c["to"]) /\ Plain(d["to"]) /\ c["to"] # d["to"]
    BY <1>6, PlainWays, WaysDiffer
  <2> QED
    BY <1>1, <2>1, FieldOfItsOwn DEF ReceiptFields
<1>12. "contractAddress" \in D <=> r["ContractAddress"] = Fields!Absent
  <2>1. CASE r["ContractAddress"] = Fields!Absent
    <3>1. /\ Plain(c["contractAddress"]) /\ Plain(d["contractAddress"])
          /\ c["contractAddress"] # d["contractAddress"]
      BY <1>6, <2>1, PlainWays, WaysDiffer DEF Fields!Hex0xOrEmpty
    <3> QED
      BY <1>1, <2>1, <3>1, FieldOfItsOwn DEF ReceiptFields
  <2>2. CASE r["ContractAddress"] # Fields!Absent
    BY <1>6, <2>2, FieldTheSame DEF Fields!Hex0xOrEmpty
  <2> QED
    BY <2>1, <2>2
<1>13. "blockNumber" \in D <=> r["BlockNumber"] = Fields!Absent
  <2>1. CASE r["BlockNumber"] = Fields!Absent
    <3>1. Fields!Absent # <<"constant", "0">>
      BY DEF Fields!Absent
    <3>2. /\ c["blockNumber"] = Fields!Dec(Fields!Absent)
          /\ d["blockNumber"] = Fields!Dec(<<"constant", "0">>)
      BY <1>7, <2>1
    <3>3. /\ Plain(c["blockNumber"]) /\ Plain(d["blockNumber"])
          /\ c["blockNumber"] # d["blockNumber"]
      BY <3>1, <3>2, PlainWays, WaysDiffer
    <3> QED
      BY <1>1, <2>1, <3>3, FieldOfItsOwn DEF ReceiptFields
  <2>2. CASE r["BlockNumber"] # Fields!Absent
    BY <1>7, <2>2, FieldTheSame
  <2> QED
    BY <2>1, <2>2
<1> DEFINE E == {"to"} \cup large
                \cup (IF r["ContractAddress"] = Fields!Absent
                      THEN {"contractAddress"} ELSE {})
                \cup (IF r["BlockNumber"] = Fields!Absent
                      THEN {"blockNumber"} ELSE {})
<1> HIDE DEF D
<1>14. \A f \in ReceiptFields : f \in D <=> f \in E
  <2> SUFFICES ASSUME NEW f \in ReceiptFields PROVE f \in D <=> f \in E
    OBVIOUS
  <2>1. CASE f \in {"transactionHash", "blockHash", "from", "status"}
    BY <1>8, <1>10, <2>1
  <2>2. CASE f \in through
    BY <1>9, <2>2
  <2>3. CASE f \in {"to", "contractAddress", "blockNumber"}
    BY <1>11, <1>12, <1>13, <2>3
  <2> QED
    BY <2>1, <2>2, <2>3 DEF ReceiptFields
<1>15. E \subseteq ReceiptFields
  BY DEF ReceiptFields
<1>16. D = E
  BY <1>1, <1>14, <1>15
<1> QED
  BY <1>16 DEF c, d, L, D, E

LEMMA LogsAgree ==
    ASSUME NEW large \in SUBSET {"number"}
    PROVE  Fields!DisagreeOn(Fields!convertGethLog(Fields!GethLog),
                             Fields!ConvertLog(Fields!GethLog),
                             {<<"block", f>> : f \in large})
             = IF large = {} THEN {} ELSE {"blockNumber"}
<1> DEFINE c == Fields!convertGethLog(Fields!GethLog)
           d == Fields!ConvertLog(Fields!GethLog)
           L == {<<"block", f>> : f \in large}
           D == Fields!DisagreeOn(c, d, L)
           same == {"address", "topics", "data", "transactionHash",
                    "transactionIndex", "blockHash", "logIndex", "removed"}
<1>1. DOMAIN c = same \cup {"blockNumber"}
  BY DEF Fields!convertGethLog
<1>2. /\ c["address"] = d["address"] /\ c["topics"] = d["topics"]
      /\ c["data"] = d["data"]
      /\ c["transactionHash"] = d["transactionHash"]
      /\ c["transactionIndex"] = d["transactionIndex"]
      /\ c["blockHash"] = d["blockHash"] /\ c["logIndex"] = d["logIndex"]
      /\ c["removed"] = d["removed"]
  BY DEF Fields!convertGethLog, Fields!ConvertLog
<1>3. /\ c["blockNumber"] = Fields!Dec(Fields!GethLog["BlockNumber"])
      /\ d["blockNumber"] = Fields!DecInt64(Fields!GethLog["BlockNumber"])
  BY DEF Fields!convertGethLog, Fields!ConvertLog
<1>4. <<"block", "number">> \in L <=> large # {}
  OBVIOUS
<1>5. D \subseteq DOMAIN c
  BY DEF Fields!DisagreeOn
<1> HIDE DEF c, d, L
<1>6. \A f \in same : f \notin D
  <2>1. \A f \in same : c[f] = d[f]
    BY <1>2
  <2> QED
    BY <2>1, FieldTheSame
<1>7. "blockNumber" \in D <=> large # {}
  <2>1. "blockNumber" \in D <=> Fields!GethLog["BlockNumber"] \in L
    BY <1>1, <1>3, FieldThroughInt64
  <2> QED
    BY <1>4, <2>1, LogAccessors
<1> HIDE DEF D
<1>8. D = IF large = {} THEN {} ELSE {"blockNumber"}
  BY <1>1, <1>5, <1>6, <1>7
<1> QED
  BY <1>8 DEF c, d, L, D

\* The two sets of conversions, written apart and one of them unused, differ in
\* exactly the fields named, whatever is absent and whatever is 2^63 or more.
THEOREM ConversionsAlwaysAgree == PartsSpec => []ConversionsAgree
<1>1. FieldsInv => ConversionsAgree
  <2> SUFFICES ASSUME FieldsInv, part = "fields"
               PROVE  Fields!ConversionsAgree
    BY DEF ConversionsAgree
  <2>1. /\ gblock \in Fields!GethBlocks /\ gtx \in Fields!GethTransactions
        /\ greceipt \in Fields!GethReceipts
    BY DEF FieldsInv
  <2> DEFINE B(l) == {<<"block", f>> : f \in l}
             T(l) == {<<"tx", f>> : f \in l}
  <2>2. \A l \in SUBSET {"timestamp", "gasUsed", "gasLimit"} :
           Fields!DisagreeOn(Fields!convertGethBlock(gblock),
                             Fields!ConvertBlock(gblock), B(l))
             = {"size", "extraData", "logsBloom", "mixHash"} \cup l
               \cup (IF gblock.BaseFee = Fields!Absent
                     THEN {} ELSE {"baseFeePerGas"})
               \cup (IF gblock.Uncles = Fields!Absent THEN {} ELSE {"uncles"})
    BY <2>1, BlocksAgree
  <2>3. \A l \in SUBSET {"gas"} :
           Fields!DisagreeOn(
               Fields!convertTransaction(gtx, gblock),
               Fields!ConvertTransaction(gtx, gtx.Sender, gblock, TRUE), T(l))
             = {"transactionIndex", "type", "chainId", "v", "r", "s"} \cup l
               \cup (IF gtx.Type = Fields!DynamicFeeTxType
                     THEN {"maxFeePerGas", "maxPriorityFeePerGas"} ELSE {})
    BY <2>1, TransactionsAgree
  <2>4. \A l \in SUBSET {"transactionIndex", "cumulativeGasUsed",
                         "gasUsed"} :
           Fields!DisagreeOn(Fields!convertGethReceipt(greceipt),
                             Fields!ConvertReceipt(greceipt), T(l))
             = {"to"} \cup l
               \cup (IF greceipt.ContractAddress = Fields!Absent
                     THEN {"contractAddress"} ELSE {})
               \cup (IF greceipt.BlockNumber = Fields!Absent
                     THEN {"blockNumber"} ELSE {})
    BY <2>1, ReceiptsAgree
  <2>5. \A l \in SUBSET {"number"} :
           Fields!DisagreeOn(Fields!convertGethLog(Fields!GethLog),
                             Fields!ConvertLog(Fields!GethLog), B(l))
             = IF l = {} THEN {} ELSE {"blockNumber"}
    BY LogsAgree
  <2> QED
    BY <2>2, <2>3, <2>4, <2>5, Zenon DEF Fields!ConversionsAgree
<1> QED
  BY <1>1, FieldsInvariant, PTL
=============================================================================
