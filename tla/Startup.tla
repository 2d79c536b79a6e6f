------------------------------ MODULE Startup ------------------------------
(***************************************************************************)
(* From the start of block_poster to its main loop: config.LoadConfig,     *)
(* logger.Init, NewEthereumClient and NewBlockHandler, for every file,     *)
(* environment and log directory they may find.                            *)
(*                                                                         *)
(* Only the settings that decide how the start ends are modelled.  The     *)
(* environment is the one after godotenv.Load has added .env to it.        *)
(***************************************************************************)
EXTENDS Naturals

CONSTANTS FilePort, EnvPort    \* a port in the file, and in the environment;
                               \* neither is 0

VARIABLES
    file,       \* config.yaml
    env,        \* DEFRA_HOST and DEFRA_PORT
    disk,       \* which of the log directory and its two files can be opened
    at,         \* the next call of main, "loop", "exit" or "panic"
    cfg,        \* the configuration in force, None before
    Sugar,      \* the cores of the global logger, None while it is nil
    httpClient, \* the Geth connection, nil or established
    handler,    \* the block handler's host and port
    reported    \* the failures logged

vars == <<file, env, disk, at, cfg, Sugar, httpClient, handler, reported>>

\* A nil pointer; anything else is a set of one.
None == {}

\* A node URL without a scheme is one Dial refuses.
NodeURLs == {"", "localhost", "http://localhost"}

Files == [status : {"missing", "malformed", "parsed"}, nodeURL : NodeURLs,
          host : {"", "file"}, port : {0, FilePort}]

Environments == [host : {"", "env"}, port : {"", "text", "0", "set"}]

Disks == [logs : BOOLEAN, logfile : BOOLEAN, errorfile : BOOLEAN]

-----------------------------------------------------------------------------
(* config.LoadConfig                                                       *)

\* strconv.Atoi of DEFRA_PORT; a text leaves the file's port.
PortOf(f, e) == CASE e.port = "set" -> EnvPort
                  [] e.port = "0" -> 0
                  [] OTHER -> f.port

\* Faulty variant: the environment fills gaps instead of overriding.
OverridesGaps(f, e) ==
    [nodeURL |-> f.nodeURL,
     host |-> IF f.host = "" THEN e.host ELSE f.host,
     port |-> IF f.port = 0 THEN PortOf(f, e) ELSE f.port]

Overrides(f, e) ==
    [nodeURL |-> f.nodeURL,
     host |-> IF e.host = "" THEN f.host ELSE e.host,
     port |-> PortOf(f, e)]

-----------------------------------------------------------------------------
(* logger.Init                                                             *)

\* Faulty variant: without its fallback when the log file cannot be opened.
CoresWithoutFallback(d) ==
    CASE d.logs /\ d.logfile -> {"console", "logfile"}
                                \cup (IF d.errorfile THEN {"errorfile"} ELSE {})
      [] d.logs /\ ~ d.logfile -> {}
      [] OTHER -> {"console"}

\* The error file is tried only once the log file is open.
Cores(d) ==
    IF d.logs /\ d.logfile
    THEN {"console", "logfile"} \cup (IF d.errorfile THEN {"errorfile"} ELSE {})
    ELSE {"console"}

-----------------------------------------------------------------------------
Init == /\ file \in Files
        /\ env \in Environments
        /\ disk \in Disks
        /\ at = "LoadConfig"
        /\ cfg = None
        /\ Sugar = None
        /\ httpClient = "nil"
        /\ handler = None
        /\ reported = {}

\* Sugar.Fatalf: through a nil logger it panics before it can log.
Fatal(what) ==
    /\ reported' = IF Sugar = None THEN reported ELSE reported \cup {what}
    /\ at' = IF Sugar = None THEN "panic" ELSE "exit"

LoadConfig ==
    /\ at = "LoadConfig"
    /\ IF file.status = "parsed"
       THEN /\ cfg' = {Overrides(file, env)}
            /\ at' = "logger.Init"
            /\ UNCHANGED reported
       ELSE Fatal("config") /\ UNCHANGED cfg
    /\ UNCHANGED <<file, env, disk, Sugar, httpClient, handler>>

InitLogger ==
    /\ at = "logger.Init"
    /\ Sugar' = {Cores(disk)}
    /\ at' = "NewEthereumClient"
    /\ UNCHANGED <<file, env, disk, cfg, httpClient, handler, reported>>

\* An empty URL is skipped without an error.
NewEthereumClient ==
    /\ at = "NewEthereumClient"
    /\ \A c \in cfg :
        IF c.nodeURL = "localhost"
        THEN Fatal("geth") /\ UNCHANGED httpClient
        ELSE /\ at' = "NewBlockHandler"
             /\ httpClient' = IF c.nodeURL = "" THEN "nil" ELSE "dialled"
             /\ UNCHANGED reported
    /\ UNCHANGED <<file, env, disk, cfg, Sugar, handler>>

NewBlockHandler ==
    /\ at = "NewBlockHandler"
    /\ \A c \in cfg :
        IF c.host = "" \/ c.port = 0
        THEN Fatal("defra") /\ UNCHANGED handler
        ELSE /\ at' = "loop"
             /\ handler' = {[host |-> c.host, port |-> c.port]}
             /\ UNCHANGED reported
    /\ UNCHANGED <<file, env, disk, cfg, Sugar, httpClient>>

Next == LoadConfig \/ InitLogger \/ NewEthereumClient \/ NewBlockHandler

Spec == Init /\ [][Next]_vars

-----------------------------------------------------------------------------
(* Properties.                                                             *)

\* The main loop runs only with a DefraDB address that names a host and a
\* port, and the environment's settings are in it wherever they can be read:
\* a DEFRA_PORT that is no number leaves the file's.  It runs without a Geth
\* connection only if the file names no node.
LoopKnowsItsStore ==
    at = "loop" => \A h \in handler :
        /\ httpClient = "dialled" \/ file.nodeURL = ""
        /\ h.host # "" /\ h.port # 0
        /\ env.host # "" => h.host = env.host
        /\ env.port = "set" => h.port = EnvPort
        /\ env.port \in {"", "text"} => h.port = file.port

\* Whichever log file cannot be opened, the logger still has the console, so
\* a failure after logger.Init ends the process with a line that says why; the
\* only start that ends without one is that of a process whose configuration
\* cannot be loaded.
ExitsSayWhy ==
    /\ at = "exit" => reported # {} /\ \A cores \in Sugar : "console" \in cores
    /\ at = "panic" => file.status # "parsed"
=============================================================================
