------------------------------- MODULE Lifespan -------------------------------
(***************************************************************************)
(* The life of the API process: main.py starts the manager, sweeps what    *)
(* earlier lives left in the download directory, serves, and closes the    *)
(* manager; or the process dies at any moment and is started again.  The   *)
(* job table, the supervision and the threads are memory and are lost with *)
(* the process; the directories and the worker processes, which run in     *)
(* sessions of their own, are not.                                         *)
(*                                                                         *)
(* It EXTENDS DownloadManager, whose actions are the steps of one life.    *)
(*                                                                         *)
(* A definition marked "Slip" is not part of the model: it is a plausible  *)
(* mistake in the definition after it, for mutation checks.                *)
(***************************************************************************)
EXTENDS DownloadManager

CONSTANTS
    MaxLives,      \* how many times the process is started (a bound)
    JobsPerLife    \* how many jobs one life takes on (a bound)

ASSUME LifespanAssumption == {MaxLives, JobsPerLife} \subseteq Nat

VARIABLES
    life,        \* the API process, see Lives
    lives,       \* the starts so far
    sweep,       \* how far sweep_orphans has come
    known,       \* sweep_orphans: the identifiers in the table
    toSweep,     \* sweep_orphans: the directories listed and not yet visited
    lost,        \* the jobs of earlier lives
    survivors    \* those whose worker still ran when the process started

sweepVars == <<sweep, known, toSweep>>
diskVars == <<lost, survivors>>
lifeVars == <<life, lives, sweepVars, diskVars>>
allVars == <<vars, lifeVars>>

(* It ended by itself, was killed, or is in between.                       *)
NotThere == {"stopped", "killed"}
Lives == NotThere \cup {"starting", "serving", "stopping"}

LifespanTypeOK ==
    /\ ManagerTypeOK
    /\ life \in Lives /\ lives \in 0..MaxLives
    /\ sweep \in {"none", "known", "listed"}
    /\ known \subseteq JobIds /\ toSweep \subseteq JobIds
    /\ lost \subseteq JobIds /\ survivors \subseteq lost

LifespanInit ==
    /\ Init
    /\ life = "stopped" /\ lives = 0
    /\ sweep = "none" /\ known = {} /\ toSweep = {}
    /\ lost = {} /\ survivors = {}

-----------------------------------------------------------------------------
(* Starting                                                                *)

Orphans == {j \in lost : Running(j)}

(* A new table and a new manager                                           *)
Startup ==
    /\ life \in NotThere /\ lives < MaxLives
    /\ life' = "starting" /\ lives' = lives + 1
    /\ survivors' = Orphans
    /\ UNCHANGED <<vars, sweepVars, lost>>

(* sweep_orphans: the table's identifiers are read first ...               *)
SweepReads ==
    /\ life = "starting" /\ sweep = "none"
    /\ sweep' = "known" /\ known' = Records
    /\ UNCHANGED <<vars, life, lives, toSweep, diskVars>>

Directories == {j \in JobIds : ws[j] # "none"}

(* Slip: what holds an output is taken for somebody's.                     *)
SweepListsPartial ==
    /\ sweep = "known"
    /\ sweep' = "listed" /\ toSweep' = {j \in Directories \ known : ws[j] = "partial"}
    /\ UNCHANGED <<vars, life, lives, known, diskVars>>

(* ... then the directory is listed ...                                    *)
SweepLists ==
    /\ sweep = "known"
    /\ sweep' = "listed" /\ toSweep' = Directories \ known
    /\ UNCHANGED <<vars, life, lives, known, diskVars>>

(* ... and each directory of no known job is removed.  A copy of cookies   *)
(* left by an inspection has no job's name and is passed over.             *)
Sweep(j) ==
    /\ sweep = "listed" /\ j \in toSweep
    /\ toSweep' = toSweep \ {j}
    /\ RemoveWorkspace(j)
    /\ UNCHANGED <<storeVars, pc, locals, poolVars, processes, clientVars, processVars,
                   chan, life, lives, sweep, known, diskVars>>

(* Slip: the sweep is left to run beside the requests.                     *)
ServeAtOnce ==
    /\ life = "starting"
    /\ life' = "serving"
    /\ UNCHANGED <<vars, lives, sweepVars, diskVars>>

(* The sweep is awaited; then the cleanup task starts and requests come in. *)
Serve ==
    /\ life = "starting" /\ sweep = "listed" /\ toSweep = {}
    /\ life' = "serving"
    /\ UNCHANGED <<vars, lives, sweepVars, diskVars>>

-----------------------------------------------------------------------------
(* Serving and stopping: the steps of the manager                          *)

Admitted == {j \in JobIds : ~At(j, "unborn")}

Requested ==
    \/ \E j \in JobIds :
          \/ Cardinality(Admitted \ lost) < JobsPerLife /\ Admit(j)
          \/ Cancel(j) \/ Delete(j)

(* What threads carry on with when no new request is let in.  The cleanup  *)
(* task is cancelled before close(), the thread it has handed a purge to   *)
(* is not.                                                                 *)
Underway ==
    \/ \E j \in JobIds \ lost :
          \/ Submission(j) \/ Start(j) \/ Supervision(j) \/ WorkerStep(j)
          \/ SignalCancelled(j) \/ RemoveFiles(j) \/ AgeFinished(j) \/ CloseCancels(j)
    \/ CleanupExpired \/ Shutdown

ManagerSteps ==
    /\ \/ life = "serving" /\ Requested
       \/ life \in {"serving", "stopping"} /\ Underway
    /\ UNCHANGED lifeVars

(* The server stops: the cleanup task is cancelled, its thread is not, and *)
(* manager.close() is called.                                              *)
Stop ==
    /\ life = "serving"
    /\ life' = "stopping"
    /\ Close
    /\ UNCHANGED <<lives, sweepVars, diskVars>>

-----------------------------------------------------------------------------
(* The process ends.                                                       *)

(* Memory is gone; directories, and processes with the signals sent to     *)
(* them, remain.  How far a transfer has come makes no difference any      *)
(* more, as nobody reads what it reports.                                  *)
Dies(how) ==
    /\ life' = how
    /\ lost' = Admitted
    /\ sweep' = "none" /\ known' = {} /\ toSweep' = {}
    /\ status' = [j \in JobIds |-> NoJob] /\ cancelEvents' = {} /\ stale' = {}
    /\ pc' = [j \in JobIds |-> IF j \in Admitted THEN "done" ELSE "unborn"]
    /\ seen' = [j \in JobIds |-> NoJob]
    /\ timedOut' = {} /\ signalled' = [j \in JobIds |-> "no"]
    /\ waiting' = <<>> /\ futures' = {} /\ processes' = {}
    /\ chan' = [j \in JobIds |-> <<>>]
    /\ toSignal' = {} /\ toRemove' = {} /\ closer' = "open" /\ toCancel' = {}
    /\ proc' = [j \in JobIds |-> IF Running(j) THEN proc[j] ELSE "none"]
    /\ sig' = [j \in JobIds |-> IF Running(j) THEN sig[j] ELSE "none"]
    /\ step' = [j \in JobIds |-> CASE ~Running(j) -> "boot"
                                    [] Running(j) /\ step[j] \in Transferring -> "working"
                                    [] OTHER -> step[j]]
    /\ attempts' = [j \in JobIds |-> IF Running(j) THEN attempts[j] ELSE 1]
    /\ UNCHANGED <<ws, lives, survivors>>

(* Slip: nobody waits for close().                                         *)
ExitAtOnce == life = "stopping" /\ Dies("stopped")

(* close() has returned.                                                   *)
Exit == life = "stopping" /\ closer = "closed" /\ Dies("stopped")

Crash == life \notin NotThere /\ Dies("killed")

(* A worker that outlived the API.  It reads an end of file instead of a   *)
(* task, or works on until it writes an event: the pipe is broken.  Its    *)
(* workspace is made, and made again, as files are written.                *)
OrphanOpens(j) ==
    /\ j \in Orphans /\ step[j] = "tasked"
    /\ Step(j, "working")
    /\ ws' = [ws EXCEPT ![j] = "partial"]
    /\ UNCHANGED <<supervision, chan, lifeVars>>

OrphanWrites(j) ==
    /\ j \in Orphans /\ step[j] \in Transferring
    /\ ws[j] = "none"
    /\ ws' = [ws EXCEPT ![j] = "partial"]
    /\ UNCHANGED <<supervision, processVars, chan, lifeVars>>

OrphanEnds(j) ==
    /\ j \in Orphans
    /\ DropProcess(j)
    /\ UNCHANGED <<supervision, chan, ws, lifeVars>>

OrphanStep(j) == OrphanOpens(j) \/ OrphanWrites(j) \/ OrphanEnds(j)

(* The bound is reached.                                                   *)
Gone == life \in NotThere /\ lives = MaxLives /\ UNCHANGED allVars

LifespanNext ==
    \/ Startup \/ SweepReads \/ SweepLists \/ (\E j \in JobIds : Sweep(j)) \/ Serve
    \/ ManagerSteps
    \/ Stop \/ Exit \/ Crash
    \/ \E j \in JobIds : OrphanStep(j)
    \/ Gone

LifespanSpec == LifespanInit /\ [][LifespanNext]_allVars

-----------------------------------------------------------------------------
(* Properties.                                                             *)

(* The directory of a job whose supervisor gave its worker up alive, with  *)
(* SIGKILL on its way, and which that worker wrote again after the         *)
(* clean-up, also when the worker is dead by now.  Whoever takes the job's *)
(* record, by a DELETE or when it has expired, removes the directory once  *)
(* more; once the record is gone, nobody does until the next start.        *)
GivenUp(j) == At(j, "abandoned") /\ (Running(j) => sig[j] = "kill")

(* Every directory on the disk of a service that takes requests has        *)
(* somebody to answer for it: its supervisor, a completed record, or       *)
(* whoever took the record and has the files still to remove.  Everything  *)
(* of an earlier life was reclaimed before the first request.  There are   *)
(* two exceptions and no third: what GivenUp names, although failure is to *)
(* remove partial data (docs/architecture.md:103), and what a worker that  *)
(* outlived the API process, and ran when this life began, writes after    *)
(* the sweep, although docs/architecture.md:104 promises periodic sweeps. *)
DiskIsAccountedFor ==
    life \in {"serving", "stopping"} =>
        \A j \in JobIds : ws[j] # "none" =>
            \/ j \in survivors
            \/ /\ j \notin lost
               /\ \/ pc[j] \in Supervising
                  \/ status[j] = "completed"
                  \/ j \in toRemove
                  \/ GivenUp(j)

(* A service that ended by itself leaves no worker behind: what still runs *)
(* of its jobs has been sent SIGKILL.  (docs/testing.md:76, "a graceful    *)
(* stop leaves no child FFmpeg/yt-dlp processes")                          *)
StopLeavesNoWorker ==
    life = "stopped" => \A j \in JobIds \ survivors : Running(j) => sig[j] = "kill"

(* What a client sees through crashes, restarts and shutdowns: in each     *)
(* life the job contract, and between two the loss of every job at once.   *)
(* No job comes back, none of an earlier life keeps a slot of the table,   *)
(* and no sweep takes a file that a client may still fetch.                *)
LifespanImplementsContract == Contract!RestartSpec

=============================================================================
