----------------------------- MODULE Bootstrap -----------------------------
(***************************************************************************)
(* scripts/bootstrap.sh starts DefraDB and block_poster, announces them    *)
(* with a file, and stops them when it is signalled;                       *)
(* scripts/test_integration.sh starts it, waits for the file, runs the     *)
(* tests and signals it.  The directory .defra is part of the repository.  *)
(*                                                                         *)
(* Both are bash with set -e: a command that fails ends the script; a      *)
(* signal without a trap ends it at once and leaves its children alone; a  *)
(* trap runs after the command under way, and then the script goes on.     *)
(***************************************************************************)

VARIABLES
    boot,       \* bootstrap.sh: its next command, or "exited"
    test,       \* test_integration.sh: its next command, "exit" once set -e
                \* ends it, "cleanup", "done"; "absent" when bootstrap.sh is
                \* run on its own
    resume,     \* where test_integration.sh goes on after its trap
    trapped,    \* bootstrap.sh has installed its trap
    term,       \* a signal to bootstrap.sh is pending
    defra,      \* the DefraDB process: "none", "up", "dead"
    poster,     \* the block_poster process
    schema,     \* the schema has been applied
    ready       \* .defra/ready: "none", "stale" of an earlier run, "new"

vars == <<boot, test, resume, trapped, term, defra, poster, schema, ready>>
services == <<defra, poster, schema>>

Init == /\ boot \in {"idle", "make"}
        /\ test = IF boot = "make" THEN "absent" ELSE "rm"
        /\ resume = "done"
        /\ trapped = FALSE /\ term = FALSE
        /\ defra = "none" /\ poster = "none"
        /\ schema \in BOOLEAN           \* kept in .defra between runs
        /\ ready \in {"none", "stale"}

-----------------------------------------------------------------------------
(* bootstrap.sh, while no signal has ended it.                             *)

Boot(command) == boot = command /\ ~ term

Make == /\ Boot("make")
        /\ boot' \in {"defradb start", "exited"}
        /\ UNCHANGED <<test, resume, trapped, term, services, ready>>

StartDefra == /\ Boot("defradb start")
              /\ defra' = "up"
              /\ boot' = "schema add"
              /\ UNCHANGED <<test, resume, trapped, term, poster, schema, ready>>

\* After three seconds; a failure is taken for "already applied".
ApplySchema == /\ Boot("schema add")
               /\ schema' \in {schema, schema \/ defra = "up"}
               /\ boot' = "go build"
               /\ UNCHANGED <<test, resume, trapped, term, defra, poster, ready>>

GoBuild == /\ Boot("go build")
           /\ boot' \in {"block_poster", "exited"}
           /\ UNCHANGED <<test, resume, trapped, term, services, ready>>

StartPoster == /\ Boot("block_poster")
               /\ poster' = "up"
               /\ boot' = "touch ready"
               /\ UNCHANGED <<test, resume, trapped, term, defra, schema, ready>>

TouchReady == /\ Boot("touch ready")
              /\ ready' = "new"
              /\ boot' = "trap"
              /\ UNCHANGED <<test, resume, trapped, term, services>>

Trap == /\ Boot("trap")
        /\ trapped' = TRUE
        /\ boot' = "kill -0 defradb"
        /\ UNCHANGED <<test, resume, term, services, ready>>

CheckDefra == /\ Boot("kill -0 defradb")
              /\ boot' = IF defra = "up" THEN "kill -0 block_poster" ELSE "exited"
              /\ UNCHANGED <<test, resume, trapped, term, services, ready>>

\* Then it sleeps for ever; neither process is looked at again.
CheckPoster == /\ Boot("kill -0 block_poster")
               /\ boot' = IF poster = "up" THEN "sleep" ELSE "exited"
               /\ UNCHANGED <<test, resume, trapped, term, services, ready>>

Killed(process) == IF process = "up" THEN "dead" ELSE process

\* Faulty variant: the poster is forgotten.
CleanupDefraOnly ==
    /\ term /\ trapped /\ boot # "exited"
    /\ defra' = Killed(defra)
    /\ ready' = "none"
    /\ boot' = "exited"
    /\ UNCHANGED <<test, resume, trapped, term, poster, schema>>

\* Faulty variant: the trap does not end the script.
CleanupGoesOn ==
    /\ term /\ trapped /\ boot # "exited"
    /\ defra' = Killed(defra)
    /\ poster' = Killed(poster)
    /\ ready' = "none"
    /\ term' = FALSE
    /\ UNCHANGED <<boot, test, resume, trapped, schema>>

\* The trap: kill -9 for both, the files removed, exit 0.
Cleanup ==
    /\ term /\ trapped /\ boot # "exited"
    /\ defra' = Killed(defra)
    /\ poster' = Killed(poster)
    /\ ready' = "none"
    /\ boot' = "exited"
    /\ UNCHANGED <<test, resume, trapped, term, schema>>

DieUntrapped ==
    /\ term /\ ~ trapped /\ boot # "exited"
    /\ boot' = "exited"
    /\ UNCHANGED <<test, resume, trapped, term, services, ready>>

BootStep == \/ Make \/ StartDefra \/ ApplySchema \/ GoBuild \/ StartPoster
            \/ TouchReady \/ Trap \/ CheckDefra \/ CheckPoster
            \/ Cleanup \/ DieUntrapped

-----------------------------------------------------------------------------
(* test_integration.sh                                                     *)

\* Faulty variant: the file of an earlier run is left in place.
RemoveNothing == /\ test = "rm"
                 /\ boot' = "make"
                 /\ test' = "wait ready"
                 /\ UNCHANGED <<resume, trapped, term, services, ready>>

\* rm -f .defra/ready, then bootstrap.sh in the background.
RemoveReady == /\ test = "rm"
               /\ ready' = "none"
               /\ boot' = "make"
               /\ test' = "wait ready"
               /\ UNCHANGED <<resume, trapped, term, services>>

\* The file is there, or thirty seconds are over.
WaitReady == /\ test = "wait ready"
             /\ test' = "wait schema"
             /\ UNCHANGED <<boot, resume, trapped, term, services, ready>>

\* DefraDB knows the type Block, or thirty more seconds are over; or a curl
\* fails, of a connection refused say, and set -e ends the script.
WaitSchema == /\ test = "wait schema"
              /\ test' \in {"go test", "exit"}
              /\ UNCHANGED <<boot, resume, trapped, term, services, ready>>

\* Runs cleanup: on EXIT, or for a signal at any time.
CallCleanup(next) == /\ test' = "cleanup"
                     /\ resume' = next
                     /\ term' = (boot # "exited" \/ term)
                     /\ UNCHANGED <<boot, trapped, services, ready>>

\* The tests, whatever they find: `|| true`.
GoTest == test = "go test" /\ CallCleanup("done")

\* Ended by set -e, perhaps after a cleanup that has been done already.
Exit == test = "exit" /\ CallCleanup("done")

\* After the trap the script goes on, unless Control-C has ended the sleep or the
\* curl under way as well: set -e takes that for a failure.
InterruptTest == /\ test \in {"wait ready", "wait schema", "go test"}
                 /\ \E next \in {test, "exit"} : CallCleanup(next)

\* wait $BOOTSTRAP_PID
CleanupReturns == /\ test = "cleanup"
                  /\ boot = "exited"
                  /\ test' = resume
                  /\ UNCHANGED <<boot, resume, trapped, term, services, ready>>

TestStep == \/ RemoveReady \/ WaitReady \/ WaitSchema \/ GoTest
            \/ Exit \/ CleanupReturns

-----------------------------------------------------------------------------
\* Control-C at a bootstrap.sh that was run on its own.
InterruptBoot == /\ test = "absent" /\ boot # "exited" /\ ~ term
                 /\ term' = TRUE
                 /\ UNCHANGED <<boot, test, resume, trapped, services, ready>>

\* A service ends by itself: a port in use, a bad configuration, a fatal error.
DefraDies == /\ defra = "up" /\ defra' = "dead"
             /\ UNCHANGED <<boot, test, resume, trapped, term, poster, schema,
                            ready>>

PosterDies == /\ poster = "up" /\ poster' = "dead"
              /\ UNCHANGED <<boot, test, resume, trapped, term, defra, schema,
                             ready>>

Next == \/ BootStep \/ TestStep \/ InterruptTest \/ InterruptBoot
        \/ DefraDies \/ PosterDies

\* The scripts run; nothing makes a user interrupt or a service fail.
Spec == Init /\ [][Next]_vars /\ WF_vars(BootStep) /\ WF_vars(TestStep)

-----------------------------------------------------------------------------
(* Properties.                                                             *)

Running == defra = "up" \/ poster = "up"

\* A script never believes the ready file of an earlier run: while the tests
\* wait or run, the file is there only if this bootstrap.sh has made it.
ReadyIsOfThisRun ==
    test \in {"wait ready", "wait schema", "go test"} => ready # "stale"

\* Once its trap is installed, a signal to bootstrap.sh stops both services and
\* takes the ready file away, whichever of its commands it finds it at.
SignalTearsDown ==
    (trapped /\ term /\ boot # "exited") ~> (~ Running /\ ready = "none")

\* Unless a user interrupts them again and again, the tests end: wait in the one
\* script and the trap in the other never hold each other up.
TestsEnd ==
    <>[][~ InterruptTest]_vars => ((test = "rm") ~> (test = "done"))
=============================================================================
