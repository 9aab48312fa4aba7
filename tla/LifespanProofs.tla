----------------------------- MODULE LifespanProofs -----------------------------
(***************************************************************************)
(* The safety of crash, restart and shutdown, for any number of jobs and   *)
(* lives.  What ManagerInvariants says of a job holds of the jobs of the   *)
(* present life; the lemmas of DownloadManagerProofs, which speak of one   *)
(* job at a time, carry over to them.                                      *)
(***************************************************************************)
EXTENDS Lifespan, ManagerRefinement

(* A job of an earlier life: nothing of it is in memory.                   *)
Forgotten(j) ==
    /\ pc[j] = "done" /\ status[j] = NoJob /\ chan[j] = <<>>
    /\ j \notin futures \cup processes \cup toCancel \cup toRemove

(* Before a life takes requests its tables are as new.                     *)
Untouched ==
    /\ \A j \in JobIds \ lost : pc[j] = "unborn"
    /\ waiting = <<>> /\ closer = "open"

MemoryInv ==
    /\ StoreInv /\ ManagerTypeOK /\ QueueInv /\ Drained
    /\ \A j \in JobIds \ lost : JobInv(j) /\ OwnerInv(j)
    /\ \A j \in lost : Forgotten(j)
    /\ life \in NotThere \cup {"starting"} => Untouched

(* A worker of an earlier life runs only if it ran when this life began.   *)
OrphansKnown == life \notin NotThere => \A j \in lost \ survivors : ~Running(j)

(* What the sweep has still to do                                          *)
Unclaimed == {j \in lost \ survivors : ws[j] # "none"}

SweepInv ==
    /\ life \in NotThere => sweep = "none"
    /\ life = "starting" /\ sweep = "known" => known = {}
    /\ life = "starting" /\ sweep = "listed" => Unclaimed \subseteq toSweep
    /\ life \in {"serving", "stopping"} =>
           sweep = "listed" /\ toSweep = {} /\ Unclaimed = {}

LifeTypeOK ==
    /\ life \in Lives /\ lives \in 0..MaxLives
    /\ sweep \in {"none", "known", "listed"}
    /\ known \subseteq JobIds /\ toSweep \subseteq JobIds
    /\ lost \subseteq JobIds /\ survivors \subseteq lost

LifespanInv ==
    /\ LifeTypeOK
    /\ MemoryInv
    /\ OrphansKnown
    /\ SweepInv
    /\ StopLeavesNoWorker

-----------------------------------------------------------------------------
(* The steps of the manager are steps of jobs of this life.                *)

LifeStep ==
    \/ \E j \in JobIds \ lost : OwnStep(j)
    \/ CleanupExpired \/ Close \/ Shutdown

LEMMA ManagerStepsAreOfThisLife ==
    ASSUME MemoryInv, ManagerSteps \/ Stop
    PROVE  LifeStep
<1>1. ASSUME NEW j \in JobIds, Admit(j) \/ Cancel(j) \/ Delete(j)
      PROVE  j \notin lost
  BY <1>1, NoJobAssumption
  DEF MemoryInv, Forgotten, Admit, At, Cancel, CancelCall, RequestCancel,
      Delete, DeleteTerminal, Active, Terminal, JobStatus
<1>2. CASE ManagerSteps /\ Requested
  BY <1>1, <1>2 DEF Requested, LifeStep, OwnStep, Requests
<1>3. CASE ManagerSteps /\ Underway
  BY <1>3 DEF Underway, LifeStep, OwnStep, Requests
<1>4. CASE Stop
  BY <1>4 DEF Stop, LifeStep
<1>. QED  BY <1>2, <1>3, <1>4 DEF ManagerSteps

LEMMA LifeStepIsNext ==
    ASSUME LifeStep
    PROVE  Next
BY DEF LifeStep, OwnStep, Next

(* What is left of an earlier life is no business of the manager's.        *)
LEMMA LifeStepForgets ==
    ASSUME MemoryInv, LifeStep, NEW k \in lost, k \in JobIds
    PROVE  Forgotten(k)' /\ UNCHANGED <<ws[k], proc[k]>>
<1>. USE DEF MemoryInv, Forgotten
<1>1. ASSUME NEW j \in JobIds \ lost, OwnStep(j)
      PROVE  Forgotten(k)' /\ UNCHANGED <<ws[k], proc[k]>>
  BY <1>1, OtherJob, TablesStep DEF SameJob, StoreInv
<1>2. CASE CleanupExpired
  <2>1. k \notin Expired
    BY NoJobAssumption DEF Expired, TerminalJobs, Terminal, JobStatus
  <2>. QED
    BY <1>2, <2>1
    DEF CleanupExpired, PurgeExpired, RemoveRecords, jobVars, poolVars,
        workerVars, processVars
<1>3. CASE Close \/ Shutdown
  BY <1>3 DEF Close, Shutdown, storeVars, jobVars, poolVars, workerVars,
     processVars
<1>. QED  BY <1>1, <1>2, <1>3 DEF LifeStep

LEMMA LifeStepMemory ==
    ASSUME lost \subseteq JobIds, MemoryInv, LifeStep, UNCHANGED lost,
           life' \notin NotThere \cup {"starting"}
    PROVE  MemoryInv'
<1>. USE DEF MemoryInv
<1>1. StoreInv' /\ StoreTypeOK
  BY LifeStepIsNext, StepIsStoreStep, NextStoreInv DEF StoreInv
<1>2. ManagerTypeOK'
  <2>1. \A j \in JobIds : EventInHand(j)
    BY DEF JobInv, EventInHand, Forgotten
  <2>. QED  BY <1>1, <2>1, LifeStepIsNext, NextType
<1>3. QueueInv'
  BY <1>1, LifeStepIsNext, QueueStep
<1>4. Drained'
  <2>1. CASE CleanupExpired \/ Close \/ Shutdown
    BY <2>1 DEF CleanupExpired, Close, Shutdown, jobVars, poolVars, Drained
  <2>. QED  BY <2>1, OwnStepDrained DEF LifeStep
<1>5. ASSUME NEW k \in JobIds \ lost PROVE JobInv(k)' /\ OwnerInv(k)'
  <2>1. ASSUME NEW j \in JobIds \ lost, OwnStep(j)
        PROVE  JobInv(k)' /\ OwnerInv(k)'
    <3>1. CASE k # j
      BY <1>1, <2>1, <3>1, OtherJob, SameJobInv, OtherJobOwner
    <3>2. CASE k = j
      BY <1>1, <2>1, <3>2, PoolJobInv, SupervisionJobInv, WorkerJobInv,
         RequestJobInv, OwnStepOwner
      DEF OwnStep
    <3>. QED  BY <3>1, <3>2
  <2>2. CASE CleanupExpired \/ Close \/ Shutdown
    <3>1. JobInv(k)'
      BY <1>1, <2>2, GlobalJobInv
    <3>2. UNCHANGED <<pc, futures, processes>>
      BY <2>2 DEF CleanupExpired, Close, Shutdown, jobVars, poolVars
    <3>. QED  BY <3>1, <3>2 DEF OwnerInv
  <2>. QED  BY <2>1, <2>2 DEF LifeStep
<1>6. ASSUME NEW k \in lost PROVE Forgotten(k)'
  BY <1>6, LifeStepForgets
<1>. QED  BY <1>1, <1>2, <1>3, <1>4, <1>5, <1>6

-----------------------------------------------------------------------------
(* Steps that touch one job's process or directory                         *)

(* What is left as it was by the start and the sweep.                      *)
MemorySame ==
    /\ UNCHANGED <<storeVars, pc, locals, poolVars, processes, clientVars, lost>>
    /\ UNCHANGED <<proc, sig, step, attempts, chan>>

LEMMA SameMemoryInv ==
    ASSUME lost \subseteq JobIds, MemoryInv, MemorySame,
           ws' \in [JobIds -> {"none", "partial", "output"}],
           \A k \in JobIds \ lost : status[k] = "completed" => ws'[k] = ws[k],
           life' \in NotThere \cup {"starting"} => Untouched
    PROVE  MemoryInv'
<1>. USE DEF MemoryInv, MemorySame, storeVars, locals, poolVars, clientVars
<1>1. StoreInv'
  BY NextStoreInv DEF storeVars
<1>2. ManagerTypeOK' /\ QueueInv' /\ Drained'
  BY DEF ManagerTypeOK, QueueInv, Drained, At
<1>3. ASSUME NEW k \in JobIds \ lost PROVE JobInv(k)' /\ OwnerInv(k)'
  <2>1. CompletedInv(k)'
    BY DEF JobInv, FileInv, CompletedInv, Running
  <2>2. EventInHand(k)' /\ KnownInv(k)' /\ ThreadInv(k)' /\ ProcessInv(k)'
    BY DEF JobInv, EventInHand, KnownInv, Known, ThreadInv, ProcessInv, At,
           Running
  <2>3. FinalIsLast(k)' /\ SilentBeforeTask(k)' /\ OwnerInv(k)'
    BY DEF JobInv, FileInv, FinalIsLast, SilentBeforeTask, OwnerInv
  <2>. QED  BY <2>1, <2>2, <2>3 DEF JobInv, FileInv
<1>4. ASSUME NEW k \in lost PROVE Forgotten(k)'
  BY DEF Forgotten
<1>5. life' \in NotThere \cup {"starting"} => Untouched'
  BY DEF Untouched, At
<1>. QED  BY <1>1, <1>2, <1>3, <1>4, <1>5

(* A worker that outlived its life touches nothing of the present one.     *)
LEMMA OrphanMemory ==
    ASSUME lost \subseteq JobIds, MemoryInv, NEW j \in JobIds, OrphanStep(j)
    PROVE  /\ MemoryInv'
           /\ j \in lost /\ Running(j)
           /\ \A k \in JobIds \ {j} : SameJob(k)
           /\ (proc'[j] = proc[j] /\ sig'[j] = sig[j]) \/ proc'[j] = "none"
           /\ UNCHANGED lifeVars
<1>. USE DEF MemoryInv
<1>1. /\ UNCHANGED <<supervision, chan, lifeVars>>
      /\ j \in lost /\ Running(j)
  BY DEF OrphanStep, OrphanOpens, OrphanWrites, OrphanEnds, Orphans
<1>2. \A k \in JobIds \ {j} : SameJob(k)
  BY <1>1 DEF supervision, storeVars, poolVars, clientVars, SameJob, OrphanStep,
     OrphanOpens, OrphanWrites, OrphanEnds, Step, DropProcess, processVars,
     ManagerTypeOK
<1>3. (proc'[j] = proc[j] /\ sig'[j] = sig[j]) \/ proc'[j] = "none"
  BY DEF OrphanStep, OrphanOpens, OrphanWrites, OrphanEnds, Step, DropProcess,
     processVars, ManagerTypeOK
<1>4. StoreInv'
  BY <1>1, NextStoreInv DEF supervision
<1>5. ManagerTypeOK'
  <2>. USE DEF ManagerTypeOK, Step, Steps, processVars
  <2>1. ws' \in [JobIds -> {"none", "partial", "output"}]
    BY DEF OrphanStep, OrphanOpens, OrphanWrites, OrphanEnds
  <2>2. /\ proc' \in [JobIds -> {"none", "running", "exited"}]
        /\ sig' \in [JobIds -> {"none", "term", "kill"}]
        /\ step' \in [JobIds -> Steps]
        /\ attempts' \in [JobIds -> 1..MaxAttempts]
    <3>1. CASE OrphanOpens(j) \/ OrphanWrites(j)
      BY <3>1 DEF OrphanOpens, OrphanWrites
    <3>2. CASE OrphanEnds(j)
      <4>1. 1 \in 1..MaxAttempts
        BY MaxAttemptsAssumption
      <4>. QED  BY <3>2, <4>1 DEF OrphanEnds, DropProcess
    <3>. QED  BY <3>1, <3>2 DEF OrphanStep
  <2>. QED  BY <1>1, <2>1, <2>2 DEF supervision, locals, poolVars, clientVars
<1>6. QueueInv' /\ Drained'
  BY <1>1 DEF supervision, poolVars, clientVars, QueueInv, Drained, At
<1>7. ASSUME NEW k \in JobIds \ lost PROVE JobInv(k)' /\ OwnerInv(k)'
  <2>1. JobInv(k)'
    BY <1>1, <1>2, SameJobInv
  <2>2. OwnerInv(k)'
    BY <1>1 DEF supervision, poolVars, OwnerInv
  <2>. QED  BY <2>1, <2>2
<1>8. \A k \in lost : Forgotten(k)'
  BY <1>1 DEF supervision, storeVars, poolVars, clientVars, Forgotten
<1>9. life' \in NotThere \cup {"starting"} => Untouched'
  BY <1>1 DEF supervision, poolVars, clientVars, lifeVars, diskVars, Untouched
<1>. QED  BY <1>1, <1>2, <1>3, <1>4, <1>5, <1>6, <1>7, <1>8, <1>9
          DEF lifeVars, diskVars

-----------------------------------------------------------------------------
(* The end of a life                                                       *)

LEMMA DiesMemory ==
    ASSUME lost \subseteq JobIds, MemoryInv, NEW how \in NotThere, Dies(how)
    PROVE  MemoryInv' /\ lost \subseteq lost' /\ lost' \subseteq JobIds
<1>. USE DEF MemoryInv, Dies
<1>1. StoreInv'
  <2>1. StoreTypeOK' /\ CancelWins'
    BY DEF StoreTypeOK, CancelWins
  <2>2. ActiveJobs' \subseteq ActiveJobs
    BY NoJobAssumption DEF ActiveJobs, Active
  <2>. QED  BY <2>1, <2>2, FewerActive DEF StoreInv
<1>2. ManagerTypeOK'
  BY MaxAttemptsAssumption DEF ManagerTypeOK, Places, Over, Steps, Transferring
<1>3. QueueInv' /\ Drained'
  BY DEF QueueInv, Drained
<1>4. lost \subseteq Admitted
  BY DEF Forgotten, Admitted, At
<1>5. ASSUME NEW k \in JobIds \ lost' PROVE JobInv(k)' /\ OwnerInv(k)'
  <2>1. pc[k] = "unborn" /\ k \notin lost
    BY <1>4, <1>5 DEF Admitted, At
  <2>2. ~Running(k)
    BY <2>1 DEF JobInv, ProcessInv, BeforeSpawn, Running
  <2>3. /\ pc'[k] = "unborn" /\ status'[k] = NoJob /\ chan'[k] = <<>>
        /\ proc'[k] = "none" /\ step'[k] = "boot"
        /\ k \notin futures' \cup toCancel' \cup toRemove' \cup processes'
    BY <1>5, <2>2
  <2>. QED
    BY <2>3, NoJobAssumption
    DEF JobInv, FileInv, EventInHand, KnownInv, ThreadInv, ProcessInv,
        FinalIsLast, SilentBeforeTask, CompletedInv, OwnerInv, PastLoop, Over,
        Supervising, At, Running, JobStatus
<1>6. ASSUME NEW k \in lost' PROVE Forgotten(k)'
  BY <1>6 DEF Forgotten, Admitted
<1>7. Untouched'
  BY DEF Untouched
<1>. QED  BY <1>1, <1>2, <1>3, <1>4, <1>5, <1>6, <1>7 DEF Admitted

(* What runs when close() has returned was sent SIGKILL.                   *)
LEMMA ExitLeavesNoWorker ==
    ASSUME LifespanInv, Exit
    PROVE  \A j \in JobIds \ survivors : Running(j) => sig[j] = "kill"
<1>. USE DEF LifespanInv, MemoryInv
<1>1. ASSUME NEW j \in lost \ survivors PROVE ~Running(j)
  BY DEF OrphansKnown, Exit, NotThere
<1>2. ASSUME NEW j \in JobIds \ lost, Running(j) PROVE sig[j] = "kill"
  <2>1. futures = {}
    BY DEF Exit, Drained
  <2>2. pc[j] \in Over \cup {"unborn", "submitting"}
    BY <2>1 DEF OwnerInv, ManagerTypeOK, Places
  <2>. QED  BY <1>2, <2>2 DEF JobInv, ProcessInv, BeforeSpawn, PastLoop, Running
<1>. QED  BY <1>1, <1>2

-----------------------------------------------------------------------------
(* Each kind of step keeps the invariant.                                  *)

(* From the start of a life to its first request                           *)
LEMMA StartStep ==
    ASSUME LifespanInv,
           Startup \/ SweepReads \/ SweepLists \/ (\E j \in JobIds : Sweep(j)) \/ Serve
    PROVE  LifespanInv'
<1>. USE DEF LifespanInv, sweepVars, diskVars
<1>1. /\ UNCHANGED <<storeVars, pc, locals, poolVars, processes, clientVars>>
      /\ UNCHANGED <<proc, sig, step, attempts, chan, lost>>
      /\ life' # "stopped"
  BY DEF Startup, SweepReads, SweepLists, Sweep, Serve, vars, workerVars,
     processVars, SweepInv, NotThere, LifeTypeOK, Lives
<1>2. life \in NotThere \cup {"starting"}
  BY DEF Startup, SweepReads, SweepLists, Sweep, Serve, SweepInv, LifeTypeOK,
     Lives
<1>3. LifeTypeOK'
  BY <1>1, LifespanAssumption
  DEF Startup, SweepReads, SweepLists, Sweep, Serve, LifeTypeOK, Lives, NotThere,
      Records, Directories, Orphans
<1>4. \A j \in JobIds : status[j] = NoJob
  BY <1>2, NoJobAssumption
  DEF MemoryInv, Untouched, Forgotten, JobInv, ThreadInv, At
<1>5. MemoryInv'
  <2>1. ws' \in [JobIds -> {"none", "partial", "output"}]
    BY DEF MemoryInv, ManagerTypeOK, Startup, SweepReads, SweepLists, Sweep,
       Serve, RemoveWorkspace, vars, workerVars
  <2>. QED
    BY <1>1, <1>2, <1>4, <2>1, NoJobAssumption, SameMemoryInv
    DEF MemorySame, MemoryInv, LifeTypeOK, JobStatus
<1>6. OrphansKnown'
  <2>1. CASE Startup
    BY <2>1 DEF Startup, OrphansKnown, Orphans, LifeTypeOK, Running, vars,
       workerVars, processVars
  <2>2. CASE ~Startup
    BY <1>1, <2>2
    DEF SweepReads, SweepLists, Sweep, Serve, OrphansKnown, Running, SweepInv,
        LifeTypeOK, Lives, NotThere
  <2>. QED  BY <2>1, <2>2
<1>7. SweepInv'
  <2>. USE DEF SweepInv, LifeTypeOK, Lives, NotThere
  <2>1. CASE Startup
    BY <2>1 DEF Startup
  <2>2. CASE SweepReads
    BY <1>4, <2>2 DEF SweepReads, Records
  <2>3. CASE SweepLists
    BY <2>3 DEF SweepLists, Directories, Unclaimed, vars, workerVars
  <2>4. ASSUME NEW j \in JobIds, Sweep(j) PROVE SweepInv'
    <3>1. Unclaimed' \subseteq Unclaimed \ {j}
      BY <2>4
      DEF Sweep, RemoveWorkspace, Unclaimed, MemoryInv, ManagerTypeOK
    <3>. QED  BY <2>4, <3>1 DEF Sweep
  <2>5. CASE Serve
    BY <2>5 DEF Serve, Unclaimed, vars, workerVars
  <2>. QED  BY <2>1, <2>2, <2>3, <2>4, <2>5
<1>8. StopLeavesNoWorker'
  BY <1>1 DEF StopLeavesNoWorker
<1>. QED  BY <1>3, <1>5, <1>6, <1>7, <1>8

LEMMA ServiceStep ==
    ASSUME LifespanInv, ManagerSteps \/ Stop
    PROVE  LifespanInv'
<1>. USE DEF LifespanInv
<1>1. LifeStep
  BY ManagerStepsAreOfThisLife
<1>2. /\ life \in {"serving", "stopping"} /\ life' \in {"serving", "stopping"}
      /\ UNCHANGED <<lives, sweepVars, diskVars>>
  BY DEF ManagerSteps, Stop, lifeVars
<1>3. UNCHANGED <<lives, sweep, known, toSweep, lost, survivors>>
  BY <1>2 DEF sweepVars, diskVars
<1>4. LifeTypeOK'
  BY <1>2, <1>3 DEF LifeTypeOK, Lives
<1>5. MemoryInv'
  BY <1>1, <1>2, <1>3, LifeStepMemory DEF LifeTypeOK, NotThere
<1>6. \A k \in lost : UNCHANGED <<ws[k], proc[k]>>
  BY <1>1, LifeStepForgets DEF LifeTypeOK
<1>7. OrphansKnown' /\ SweepInv' /\ StopLeavesNoWorker'
  BY <1>2, <1>3, <1>6
  DEF OrphansKnown, SweepInv, Unclaimed, StopLeavesNoWorker, Running, NotThere,
      LifeTypeOK
<1>. QED  BY <1>4, <1>5, <1>7

LEMMA EndStep ==
    ASSUME LifespanInv, Exit \/ Crash
    PROVE  LifespanInv'
<1>. USE DEF LifespanInv
<1>1. PICK how \in NotThere : Dies(how)
  BY DEF Exit, Crash, NotThere
<1>2. MemoryInv' /\ lost \subseteq lost' /\ lost' \subseteq JobIds
  BY <1>1, DiesMemory DEF LifeTypeOK
<1>4. LifeTypeOK'
  BY <1>1, <1>2 DEF Dies, LifeTypeOK, Lives
<1>5. OrphansKnown' /\ SweepInv'
  BY <1>1 DEF Dies, OrphansKnown, SweepInv, NotThere
<1>6. StopLeavesNoWorker'
  <2>1. CASE Exit
    <3>1. \A j \in JobIds \ survivors : Running(j) => sig[j] = "kill"
      BY <2>1, ExitLeavesNoWorker
    <3>2. ASSUME NEW j \in JobIds \ survivors', Running(j)'
          PROVE  sig'[j] = "kill"
      BY <1>1, <3>1, <3>2 DEF Dies, Running
    <3>. QED  BY <3>2 DEF StopLeavesNoWorker
  <2>2. CASE Crash
    BY <2>2 DEF Crash, Dies, StopLeavesNoWorker
  <2>. QED  BY <2>1, <2>2
<1>. QED  BY <1>2, <1>4, <1>5, <1>6

LEMMA OrphanLifespan ==
    ASSUME LifespanInv, NEW j \in JobIds, OrphanStep(j)
    PROVE  LifespanInv'
<1>. USE DEF LifespanInv
<1>1. /\ MemoryInv'
      /\ j \in lost /\ Running(j)
      /\ \A k \in JobIds \ {j} : SameJob(k)
      /\ (proc'[j] = proc[j] /\ sig'[j] = sig[j]) \/ proc'[j] = "none"
      /\ UNCHANGED lifeVars
  BY OrphanMemory DEF LifeTypeOK
<1>2. UNCHANGED <<life, lives, sweep, known, toSweep, lost, survivors>>
  BY <1>1 DEF lifeVars, sweepVars, diskVars
<1>3. LifeTypeOK'
  BY <1>2 DEF LifeTypeOK
<1>4. OrphansKnown'
  BY <1>1, <1>2 DEF OrphansKnown, SameJob, Running, LifeTypeOK
<1>5. SweepInv'
  <2>1. CASE life \in NotThere
    BY <1>2, <2>1 DEF SweepInv, NotThere
  <2>2. CASE life \notin NotThere
    <3>1. j \in survivors
      BY <1>1, <2>2 DEF OrphansKnown
    <3>2. Unclaimed' = Unclaimed
      BY <1>1, <1>2, <3>1 DEF Unclaimed, SameJob, LifeTypeOK
    <3>. QED  BY <1>2, <3>2 DEF SweepInv
  <2>. QED  BY <2>1, <2>2
<1>6. StopLeavesNoWorker'
  BY <1>1, <1>2 DEF StopLeavesNoWorker, SameJob, Running
<1>. QED  BY <1>1, <1>3, <1>4, <1>5, <1>6

LEMMA IdleLifespan ==
    ASSUME LifespanInv, UNCHANGED allVars
    PROVE  LifespanInv'
<1>. USE DEF LifespanInv
<1>1. UNCHANGED <<vars, life, lives, sweep, known, toSweep, lost, survivors>>
  BY DEF allVars, lifeVars, sweepVars, diskVars
<1>2. MemoryInv'
  BY <1>1, SameMemoryInv
  DEF vars, workerVars, processVars, MemorySame, MemoryInv, ManagerTypeOK,
      LifeTypeOK
<1>3. OrphansKnown' /\ SweepInv' /\ StopLeavesNoWorker'
  BY <1>1
  DEF vars, workerVars, processVars, OrphansKnown, SweepInv, Unclaimed,
      StopLeavesNoWorker, Running
<1>. QED  BY <1>1, <1>2, <1>3 DEF LifeTypeOK

LEMMA InitLifespanInv == LifespanInit => LifespanInv
<1>. SUFFICES ASSUME LifespanInit PROVE LifespanInv
  OBVIOUS
<1>1. IndInv /\ pc = [j \in JobIds |-> "unborn"] /\ waiting = <<>>
      /\ closer = "open" /\ futures = {} /\ processes = {}
      /\ proc = [j \in JobIds |-> "none"]
  BY InitIndInv DEF LifespanInit, Init
<1>2. MemoryInv
  BY <1>1 DEF IndInv, ManagerInv, LifespanInit, MemoryInv, Drained, OwnerInv,
     Supervising, Untouched
<1>3. LifeTypeOK
  BY LifespanAssumption DEF LifespanInit, LifeTypeOK, Lives, NotThere
<1>4. OrphansKnown /\ SweepInv /\ StopLeavesNoWorker
  BY <1>1 DEF LifespanInit, OrphansKnown, SweepInv, StopLeavesNoWorker, NotThere,
     Running
<1>. QED  BY <1>2, <1>3, <1>4 DEF LifespanInv

LEMMA NextLifespanInv == LifespanInv /\ [LifespanNext]_allVars => LifespanInv'
BY StartStep, ServiceStep, EndStep, OrphanLifespan, IdleLifespan
DEF LifespanNext, Gone

(* Seen from the table, a service that was started again is one that never *)
(* had its earlier jobs: what was proved of the table holds in every life. *)
LEMMA LifespanTable == LifespanInv => TableInv
<1>. SUFFICES ASSUME LifespanInv PROVE TableInv
  OBVIOUS
<1>. USE DEF LifespanInv, MemoryInv
<1>1. ASSUME NEW j \in JobIds \ lost PROVE RecordInv(j)
  BY DEF JobInv, RecordInv
<1>2. ASSUME NEW j \in JobIds, j \in lost PROVE RecordInv(j)
  <2>1. Forgotten(j)
    BY <1>2
  <2>2. EventInHand(j) /\ KnownInv(j) /\ ThreadInv(j)
    BY <2>1, NoJobAssumption
    DEF Forgotten, EventInHand, KnownInv, ThreadInv, At, Active, JobStatus
  <2>3. FileInv(j)
    BY <2>1, NoJobAssumption
    DEF Forgotten, FileInv, FinalIsLast, SilentBeforeTask, CompletedInv,
        BeforeSpawn, JobStatus
  <2>. QED  BY <2>2, <2>3 DEF RecordInv
<1>. QED  BY <1>1, <1>2 DEF TableInv

LEMMA LifespanTableNext == (LifespanInv => TableInv)'
BY LifespanTable, PTL

(* The inductive invariant holds over any number of lives: nothing of an   *)
(* earlier life is in the memory of main.py's present one, and what        *)
(* ManagerInvariants says holds of each job of the present life.           *)
THEOREM LifespanInductive == LifespanSpec => []LifespanInv
BY InitLifespanInv, NextLifespanInv, PTL DEF LifespanSpec

(* Type correctness.                                                       *)
THEOREM LifespanTypeCorrect == LifespanSpec => []LifespanTypeOK
<1>1. LifespanInv => LifespanTypeOK
  BY DEF LifespanInv, LifeTypeOK, MemoryInv, LifespanTypeOK
<1>. QED  BY <1>1, LifespanInductive, PTL

(* sweep_orphans takes no directory of a job of the present life: as long  *)
(* as a record says completed its file is there, also after restarts.      *)
THEOREM LifespanKeepsFiles == LifespanSpec => []CompletedHasFile
<1>1. LifespanInv => CompletedHasFile
  BY LifespanTable, TableKeepsFiles
<1>. QED  BY <1>1, LifespanInductive, PTL

(* No life of the service, whatever became of the ones before it, lets a   *)
(* supervisor of manager.py return and leave a record only it could move.  *)
THEOREM LifespanSupervises == LifespanSpec => []ActiveIsSupervised
<1>1. LifespanInv => ActiveIsSupervised
  BY LifespanTable, TableSupervises
<1>. QED  BY <1>1, LifespanInductive, PTL

(* Jobs of earlier lives take no place in the executor's queue, nor in the *)
(* count that bounds it.                                                   *)
THEOREM LifespanBacklog == LifespanSpec => []BacklogBounded
<1>1. LifespanInv => BacklogBounded
  BY LifespanTable, TableBacklog
<1>. QED  BY <1>1, LifespanInductive, PTL

(* In every life, when close() has returned nothing runs and nothing waits *)
(* in the manager that main.py is about to drop.                           *)
THEOREM LifespanClosesQuietly == LifespanSpec => []ClosedIsQuiet
<1>1. ASSUME LifespanInv PROVE ClosedIsQuiet
  <2>1. ASSUME NEW j \in JobIds PROVE OwnerInv(j)
    BY <1>1 DEF LifespanInv, MemoryInv, Forgotten, OwnerInv, Supervising
  <2>2. QuietInv
    BY <1>1, <2>1 DEF LifespanInv, MemoryInv, QuietInv
  <2>. QED  BY <1>1, <2>2, LifespanTable, DrainedIsQuiet DEF ClosedIsQuiet
<1>. QED  BY <1>1, LifespanInductive, PTL

(* A slot of the table held when the process died is free in the next      *)
(* life, and none is ever given out twice; nor does a cancellation of an   *)
(* earlier life, or one a restart overtook, touch a record of this one.    *)
THEOREM LifespanRespectsCapacity == LifespanSpec => [](CapacityRespected /\ CancelWins)
<1>1. LifespanInv => CapacityRespected /\ CancelWins
  BY DEF LifespanInv, MemoryInv, StoreInv
<1>. QED  BY <1>1, LifespanInductive, PTL

(* An API process that ended after manager.close() leaves no worker of its *)
(* own behind that was not sent SIGKILL.                                   *)
THEOREM LifespanStopsWorkers == LifespanSpec => []StopLeavesNoWorker
<1>1. LifespanInv => StopLeavesNoWorker
  BY DEF LifespanInv
<1>. QED  BY <1>1, LifespanInductive, PTL

-----------------------------------------------------------------------------
(* The disk.  What WorkspaceInv says of the directory of a job of this     *)
(* life, and what was reclaimed of the earlier ones.                       *)
DiskInv == \A k \in JobIds \ lost : WorkspaceInv(k)

LEMMA ReclaimedWorkspace ==
    ASSUME NEW k \in JobIds, WorkspaceInv(k), ws'[k] \in {"none", ws[k]},
           UNCHANGED <<status[k], pc[k], chan[k], proc[k], step[k], toRemove>>
    PROVE  WorkspaceInv(k)'
BY DEF WorkspaceInv, Claimed, Silent, At, Running, Event

LEMMA LifeStepDisk ==
    ASSUME LifespanInv, LifeStep, NEW k \in JobIds \ lost, WorkspaceInv(k)
    PROVE  WorkspaceInv(k)'
<1>. USE DEF LifespanInv, MemoryInv, StoreInv
<1>1. ASSUME NEW j \in JobIds, OwnStep(j)
      PROVE  WorkspaceInv(k)'
  BY <1>1, OtherJobWorkspace, SupervisionWorkspace, WorkerWorkspace,
     RequestWorkspace, PoolWorkspace
  DEF OwnStep
<1>2. CASE CleanupExpired \/ Close \/ Shutdown
  BY <1>2, GlobalWorkspace
<1>. QED  BY <1>1, <1>2 DEF LifeStep

LEMMA NextDiskInv ==
    ASSUME LifespanInv, DiskInv, [LifespanNext]_allVars
    PROVE  DiskInv'
<1>. USE DEF LifespanInv, DiskInv
<1>1. CASE ManagerSteps \/ Stop
  <2>1. LifeStep
    BY <1>1, ManagerStepsAreOfThisLife
  <2>2. UNCHANGED lost
    BY <1>1 DEF ManagerSteps, Stop, lifeVars, diskVars
  <2>. QED  BY <2>1, <2>2, LifeStepDisk
<1>2. ASSUME NEW j \in JobIds, Sweep(j)
      PROVE  DiskInv'
  <2>1. /\ UNCHANGED <<status, pc, chan, proc, step, toRemove, lost>>
        /\ \A k \in JobIds : ws'[k] \in {"none", ws[k]}
    BY <1>2
    DEF Sweep, RemoveWorkspace, storeVars, clientVars, processVars, diskVars,
        MemoryInv, ManagerTypeOK
  <2>. QED  BY <2>1, ReclaimedWorkspace
<1>3. ASSUME NEW j \in JobIds, OrphanStep(j)
      PROVE  DiskInv'
  <2>1. j \in lost /\ UNCHANGED lost /\ UNCHANGED toRemove
    BY <1>3, OrphanMemory
    DEF LifeTypeOK, lifeVars, diskVars, OrphanStep, OrphanOpens, OrphanWrites,
        OrphanEnds, supervision, clientVars
  <2>2. \A k \in JobIds \ lost : SameJob(k)
    BY <1>3, <2>1, OrphanMemory DEF LifeTypeOK
  <2>. QED  BY <2>1, <2>2, ReclaimedWorkspace DEF SameJob
<1>4. ASSUME NEW how \in NotThere, Dies(how)
      PROVE  DiskInv'
  <2>1. ASSUME NEW k \in JobIds \ lost' PROVE WorkspaceInv(k)'
    <3>1. pc[k] = "unborn" /\ k \notin lost
      BY <1>4, <2>1 DEF Dies, Admitted, At, MemoryInv, Forgotten
    <3>2. ws[k] = "none" /\ ~Running(k)
      BY <3>1 DEF WorkspaceInv, MemoryInv, JobInv, ProcessInv, BeforeSpawn,
                  Running
    <3>3. /\ pc'[k] = "unborn" /\ status'[k] = NoJob /\ chan'[k] = <<>>
          /\ ws'[k] = "none" /\ step'[k] = "boot"
      BY <1>4, <2>1, <3>2 DEF Dies
    <3>. QED
      BY <3>3 DEF WorkspaceInv, BeforeSpawn, Undecided, At
  <2>. QED  BY <2>1
<1>5. CASE \/ UNCHANGED vars /\ UNCHANGED lost
  <2>1. UNCHANGED <<status, pc, chan, proc, step, toRemove, ws, lost>>
    BY <1>5 DEF vars, storeVars, clientVars, workerVars, processVars
  <2>. QED  BY <2>1, ReclaimedWorkspace
<1>7. ASSUME Startup \/ SweepReads \/ SweepLists \/ Serve
      PROVE  UNCHANGED vars /\ UNCHANGED lost
  BY <1>7 DEF Startup, SweepReads, SweepLists, Serve, diskVars
<1>8. UNCHANGED allVars => UNCHANGED vars /\ UNCHANGED lost
  BY DEF allVars, lifeVars, diskVars
<1>9. Exit \/ Crash => \E how \in NotThere : Dies(how)
  BY DEF Exit, Crash, NotThere
<1>. QED
  BY <1>1, <1>2, <1>3, <1>4, <1>5, <1>7, <1>8, <1>9
  DEF LifespanNext, Gone

(* Crashes, restarts and shutdowns included, every directory on the disk   *)
(* of a service that takes requests has somebody to answer for it: its     *)
(* supervisor, its completed record, who took the record, or a worker that *)
(* outlived an earlier life - all but those of GivenUp, of whose jobs      *)
(* manager.py:224 killed the worker without waiting for it.                *)
THEOREM LifespanAccountsForDisk == LifespanSpec => []DiskIsAccountedFor
<1>1. LifespanInit => DiskInv
  BY NoJobAssumption
  DEF LifespanInit, Init, StoreInit, DiskInv, WorkspaceInv, BeforeSpawn,
      Undecided, At
<1>2. ASSUME LifespanInv, DiskInv PROVE DiskIsAccountedFor
  <2>. SUFFICES ASSUME life \in {"serving", "stopping"}, NEW j \in JobIds,
                       ws[j] # "none", j \notin survivors
                PROVE  /\ j \notin lost
                       /\ \/ pc[j] \in Supervising
                          \/ status[j] = "completed"
                          \/ j \in toRemove
                          \/ GivenUp(j)
    BY DEF DiskIsAccountedFor
  <2>1. j \notin lost
    BY <1>2 DEF LifespanInv, SweepInv, Unclaimed
  <2>2. WorkspaceInv(j) /\ ManagerTypeOK
    BY <1>2, <2>1 DEF DiskInv, LifespanInv, MemoryInv
  <2>3. pc[j] \notin {"unborn", "submitting", "waiting", "refused"}
    BY <2>2 DEF WorkspaceInv, BeforeSpawn
  <2>4. At(j, "abandoned") => GivenUp(j)
    BY <1>2, <2>1
    DEF GivenUp, LifespanInv, MemoryInv, JobInv, ProcessInv, PastLoop, Over, At,
        Running
  <2>. QED
    BY <2>1, <2>2, <2>3, <2>4
    DEF WorkspaceInv, Claimed, At, ManagerTypeOK, Places, Over
<1>3. LifespanInv /\ DiskInv /\ [LifespanNext]_allVars => DiskInv'
  BY NextDiskInv
<1>. QED  BY <1>1, <1>2, <1>3, LifespanInductive, PTL DEF LifespanSpec

-----------------------------------------------------------------------------
(* The workers of one life.                                                *)

(* While main.py's service is there, the workers that run, other than the  *)
(* ones a crash of an earlier life left and those already sent SIGKILL,    *)
(* are no more than max_concurrent_jobs.                                   *)
OwnWorkersBounded ==
    life \notin NotThere =>
        Cardinality({j \in JobIds \ survivors : Running(j) /\ sig[j] # "kill"})
            <= MaxConcurrent

LEMMA NextPool ==
    ASSUME LifespanInv, PoolInv, [LifespanNext]_allVars
    PROVE  PoolInv'
<1>1. CASE ManagerSteps \/ Stop
  <2>1. LifeStep
    BY <1>1, ManagerStepsAreOfThisLife DEF LifespanInv
  <2>2. ASSUME NEW j \in JobIds, OwnStep(j) PROVE PoolInv'
    BY <2>2, OwnStepPool DEF LifespanInv, MemoryInv, StoreInv
  <2>3. CASE CleanupExpired \/ Close \/ Shutdown
    <3>1. Busy' = Busy
      BY <2>3 DEF CleanupExpired, Close, Shutdown, jobVars, Busy
    <3>. QED  BY <3>1, FewerBusy
  <2>. QED  BY <2>1, <2>2, <2>3 DEF LifeStep
<1>2. CASE Exit \/ Crash
  <2>1. Busy' = {}
    BY <1>2 DEF Exit, Crash, Dies, Busy, Supervising
  <2>. QED  BY <2>1, FewerBusy
<1>3. ASSUME \/ Startup \/ SweepReads \/ SweepLists \/ Serve
             \/ \E j \in JobIds : Sweep(j) \/ OrphanStep(j)
             \/ UNCHANGED allVars
      PROVE  UNCHANGED pc
  BY <1>3
  DEF Startup, SweepReads, SweepLists, Serve, Sweep, OrphanStep, OrphanOpens,
      OrphanWrites, OrphanEnds, supervision, allVars, vars
<1>4. UNCHANGED pc => PoolInv'
  BY FewerBusy DEF Busy
<1>. QED
  BY <1>1, <1>2, <1>3, <1>4 DEF LifespanNext, Gone

(* However many lives there were, no more workers of main.py's present one *)
(* run together than it was configured for, those already killed aside.    *)
THEOREM LifespanBoundsWorkers == LifespanSpec => []OwnWorkersBounded
<1>1. LifespanInit => PoolInv
  BY InitPool DEF LifespanInit
<1>2. ASSUME LifespanInv, PoolInv PROVE OwnWorkersBounded
  <2>1. SUFFICES ASSUME life \notin NotThere,
                        NEW j \in JobIds \ survivors, Running(j), sig[j] # "kill"
                 PROVE  pc[j] \in Supervising
    BY <1>2, WorkersHaveThreads DEF OwnWorkersBounded
  <2>2. JobInv(j) /\ ManagerTypeOK
    BY <1>2, <2>1 DEF LifespanInv, MemoryInv, OrphansKnown
  <2>. QED
    BY <2>1, <2>2
    DEF ManagerTypeOK, JobInv, ProcessInv, BeforeSpawn, PastLoop, Places,
        Supervising, Over, Running
<1>3. LifespanInv /\ PoolInv /\ [LifespanNext]_allVars => PoolInv'
  BY NextPool
<1>. QED  BY <1>1, <1>2, <1>3, LifespanInductive, PTL DEF LifespanSpec

-----------------------------------------------------------------------------
(* The refinement of the job contract of a service that is restarted.      *)

(* What touches no record and moves no thread shows a client nothing.      *)
LEMMA UnseenByClients ==
    ASSUME LifespanInv, LifespanInv', UNCHANGED <<status, pc>>
    PROVE  UNCHANGED contractVars
<1>1. Deliverable' = Deliverable
  BY LifespanTable, LifespanTableNext, DeliverableIsCompleted, DeliverableNext
  DEF Completed
<1>2. phases' = phases
  BY PhaseKept DEF phases, At
<1>. QED  BY <1>1, <1>2 DEF contractVars

(* The end of a life loses every job, and its file, at once.               *)
LEMMA DiesLoses ==
    ASSUME LifespanInv, LifespanInv', NEW how \in NotThere, Dies(how)
    PROVE  Contract!Lose
<1>1. TableInv /\ TableInv'
  BY LifespanTable, LifespanTableNext
<1>2. Deliverable' = {}
  BY <1>1, DeliverableNext, NoJobAssumption DEF Completed, Dies, JobStatus
<1>3. ASSUME NEW k \in JobIds
      PROVE  Phase(k)' = IF Phase(k) = "unknown" THEN "unknown" ELSE "forgotten"
  <2>1. Phase(k) = "unknown" <=> At(k, "unborn")
    BY <1>1, PhaseByStatus, NoJobAssumption
    DEF PhaseOfStatus, TableInv, StoreInv, StoreTypeOK, Active, Terminal, JobStatus
  <2>2. status'[k] = NoJob /\ (At(k, "unborn")' <=> At(k, "unborn"))
    BY DEF Dies, Admitted, At
  <2>. QED  BY <2>1, <2>2 DEF Phase
<1>. QED  BY <1>2, <1>3 DEF Contract!Lose, phases

LEMMA LifespanStepImplements ==
    ASSUME LifespanInv, LifespanInv', [LifespanNext]_allVars
    PROVE  [Contract!Next \/ Contract!Lose]_contractVars
<1>1. CASE ManagerSteps \/ Stop
  <2>1. Next
    BY <1>1, ManagerStepsAreOfThisLife, LifeStepIsNext DEF LifespanInv
  <2>. QED  BY <2>1, StepImplements, LifespanTable, LifespanTableNext
<1>2. CASE Exit \/ Crash
  BY <1>2, DiesLoses DEF Exit, Crash, NotThere
<1>3. ASSUME \/ Startup \/ SweepReads \/ SweepLists \/ Serve
             \/ \E j \in JobIds : Sweep(j) \/ OrphanStep(j)
             \/ UNCHANGED allVars
      PROVE  UNCHANGED <<status, pc>>
  BY <1>3
  DEF Startup, SweepReads, SweepLists, Serve, Sweep, OrphanStep, OrphanOpens,
      OrphanWrites, OrphanEnds, supervision, allVars, vars, storeVars
<1>. QED
  BY <1>1, <1>2, <1>3, UnseenByClients DEF LifespanNext, Gone

(* Through crashes, restarts and shutdowns in any order a client of        *)
(* main.py's service sees in each life the job contract, and between two   *)
(* the loss of every job at once, but nothing else.                        *)
THEOREM LifespanHonoursContract == LifespanSpec => LifespanImplementsContract
<1>1. LifespanInit => Contract!Init
  BY NoJobAssumption
  DEF LifespanInit, Init, StoreInit, Contract!Init, Phase, Deliverable, At,
      JobStatus
<1>2. LifespanInv /\ LifespanInv' /\ [LifespanNext]_allVars
         => [Contract!Next \/ Contract!Lose]_<<[j \in JobIds |-> Phase(j)], Deliverable>>
  BY LifespanStepImplements DEF contractVars, phases
<1>. QED
  BY <1>1, <1>2, LifespanInductive, PTL
  DEF LifespanSpec, LifespanImplementsContract, Contract!RestartSpec

=============================================================================
