------------------------ MODULE DownloadManagerProofs ------------------------
(***************************************************************************)
(* Theorems about the download manager, for every set of job identifiers,  *)
(* every capacity, every pool size and every number of attempts: type      *)
(* correctness, the inductive invariant ManagerInv, and the safety         *)
(* properties that follow from it.                                         *)
(***************************************************************************)
EXTENDS ManagerInvariants, JobStoreProofs, SequenceTheorems

-----------------------------------------------------------------------------
(* The manager uses the job table only through its methods.                *)

(* An edge that patch takes ends in a status.                              *)
LEMMA PatchIsStoreStep ==
    ASSUME StoreInv, NEW j \in JobIds, NEW next, Patch(j, next)
    PROVE  StoreNext
<1>1. next \in JobStatus
  BY TransitionFacts DEF Patch, StoreInv, StoreTypeOK
<1>. QED  BY <1>1 DEF StoreNext

LEMMA PatchReturnsIsStoreStep ==
    ASSUME StoreInv, NEW j \in JobIds, NEW expected, NEW next,
           PatchReturns(j, expected, next)
    PROVE  [StoreNext]_storeVars
BY PatchIsStoreStep DEF PatchReturns

LEMMA SupervisionIsStoreStep ==
    ASSUME StoreInv, NEW j \in JobIds, Supervision(j)
    PROVE  [StoreNext]_storeVars
<1>1. CASE Begin(j) \/ Spawn(j) \/ SpawnFails(j) \/ Register(j) \/ Feed(j)
           \/ FeedFails(j) \/ IgnoreEvent(j) \/ TakeProgress(j) \/ TakeFinal(j)
           \/ EventCleanup(j) \/ Reap(j) \/ Except(j) \/ Cleanup(j) \/ Leave(j)
           \/ WatchDeadline(j) \/ WatchCancelled(j) \/ WatchGrace(j)
           \/ WatchQuiet(j)
  BY <1>1 DEF Begin, Spawn, SpawnFails, Register, Feed, FeedFails, IgnoreEvent,
              TakeProgress, TakeFinal, EventCleanup, Reap, Except, Cleanup,
              Leave, Return, WatchDeadline, WatchCancelled, WatchGrace,
              WatchQuiet, Watched
<1>2. CASE Inspect(j)
  BY <1>2, PatchReturnsIsStoreStep DEF Inspect
<1>3. CASE LaunchFailed(j)
  BY <1>3, PatchReturnsIsStoreStep DEF LaunchFailed
<1>4. CASE PatchProgress(j)
  BY <1>4, PatchReturnsIsStoreStep DEF PatchProgress, EventRaises
<1>5. CASE PatchComplete(j)
  BY <1>5, PatchReturnsIsStoreStep DEF PatchComplete, EventRaises
<1>6. CASE PatchEnded(j)
  BY <1>6, PatchReturnsIsStoreStep DEF PatchEnded, EventRaises
<1>7. CASE RejectTimeout(j) \/ FailStopped(j)
  BY <1>7, PatchReturnsIsStoreStep DEF RejectTimeout, FailStopped, Settle
<1>8. CASE FinishCancel(j)
  BY <1>8, PatchIsStoreStep DEF FinishCancel
<1>9. CASE ExceptFail(j)
  BY <1>9, PatchReturnsIsStoreStep DEF ExceptFail
<1>. QED  BY <1>1, <1>2, <1>3, <1>4, <1>5, <1>6, <1>7, <1>8, <1>9
          DEF Supervision

LEMMA WorkerIsStoreStep ==
    ASSUME NEW j \in JobIds, WorkerStep(j)
    PROVE  UNCHANGED storeVars
BY DEF WorkerStep, WorkerOpens, WorkerReports, WorkerRetries, WorkerCompletes,
       WorkerGivesUp, WorkerExits, supervision

LEMMA RequestIsStoreStep ==
    ASSUME NEW j \in JobIds, Requests(j)
    PROVE  [StoreNext]_storeVars
<1>1. CASE Cancel(j)
  BY <1>1 DEF Cancel, CancelCall, StoreNext
<1>2. CASE Delete(j)
  BY <1>2 DEF Delete, StoreNext
<1>3. CASE AgeFinished(j)
  BY <1>3 DEF AgeFinished, StoreNext
<1>4. CASE CloseCancels(j)
  BY <1>4 DEF CloseCancels, CancelCall, StoreNext
<1>5. CASE SignalCancelled(j) \/ RemoveFiles(j)
  BY <1>5 DEF SignalCancelled, RemoveFiles
<1>. QED  BY <1>1, <1>2, <1>3, <1>4, <1>5 DEF Requests

LEMMA StepIsStoreStep ==
    StoreInv /\ [Next]_vars => [StoreNext]_storeVars
<1>. SUFFICES ASSUME StoreInv, [Next]_vars PROVE [StoreNext]_storeVars
  OBVIOUS
<1>1. ASSUME NEW j \in JobIds, Admit(j) PROVE [StoreNext]_storeVars
  BY <1>1 DEF Admit, StoreNext
<1>2. ASSUME NEW j \in JobIds, Submission(j) PROVE [StoreNext]_storeVars
  BY <1>2, PatchIsStoreStep DEF Submission, Enqueue, RefuseClosed
<1>3. ASSUME NEW j \in JobIds, Start(j) PROVE [StoreNext]_storeVars
  BY <1>3 DEF Start
<1>4. CASE CleanupExpired
  BY <1>4 DEF CleanupExpired, StoreNext
<1>5. CASE Close \/ Shutdown \/ Stopped \/ UNCHANGED vars
  BY <1>5 DEF Close, Shutdown, Stopped, vars
<1>. QED
  BY <1>1, <1>2, <1>3, <1>4, <1>5, SupervisionIsStoreStep, WorkerIsStoreStep,
     RequestIsStoreStep
  DEF Next

(* Pool, supervisors, clients, cleanup and shutdown together are one more  *)
(* caller of the job table: what JobStoreProofs establishes holds of it.   *)
THEOREM ManagerUsesStore == Spec => StoreSpec
<1>1. Init => StoreInit
  BY DEF Init
<1>2. StoreInv /\ [Next]_vars => StoreInv'
  BY StepIsStoreStep, NextStoreInv
<1>3. Spec => []StoreInv
  BY <1>1, <1>2, InitStoreInv, PTL DEF Spec
<1>. QED  BY <1>1, <1>3, StepIsStoreStep, PTL DEF Spec, StoreSpec

(* In the running service no late worker event, timeout or shutdown moves  *)
(* a cancelled job anywhere but to cancelled, and admission respects the   *)
(* capacity.                                                               *)
THEOREM ManagerStoreInv == Spec => [](CapacityRespected /\ CancelWins)
<1>1. StoreInv => CapacityRespected /\ CancelWins
  BY DEF StoreInv
<1>. QED  BY <1>1, ManagerUsesStore, StoreInvariant, PTL

-----------------------------------------------------------------------------
(* Types.                                                                  *)

LEMMA InitType == Init => ManagerTypeOK
BY MaxAttemptsAssumption
DEF Init, ManagerTypeOK, Places, Steps

LEMMA ChanTyped ==
    ASSUME ManagerTypeOK, NEW j \in JobIds, chan[j] # <<>>
    PROVE  /\ Event(j) \in Events
           /\ Tail(chan[j]) \in Seq(Events)
<1>1. chan[j] \in Seq(Events)
  BY DEF ManagerTypeOK
<1>. QED  BY <1>1, HeadTailProperties DEF Event

LEMMA PlacesFacts ==
    /\ Supervising \subseteq Places /\ Over \subseteq Places
    /\ {"unborn", "submitting", "waiting"} \subseteq Places
    /\ Supervising =
          {"begin", "inspect", "spawn", "register", "feed", "launchFailed",
           "loop", "patchProgress", "patchFinal", "eventCleanup", "watch",
           "rejectTimeout", "failStopped", "except", "exceptFail",
           "finishCancel", "cleanup", "leave"}
BY DEF Places, Supervising

LEMMA SignalType ==
    ASSUME ManagerTypeOK, NEW j \in JobIds, Signal(j) \/ Kill(j)
    PROVE  sig' \in [JobIds -> {"none", "term", "kill"}]
<1>1. CASE Signal(j)
  BY <1>1 DEF Signal, ManagerTypeOK
<1>2. CASE Kill(j)
  BY <1>2 DEF Kill, ManagerTypeOK
<1>. QED  BY <1>1, <1>2

LEMMA ReturnType ==
    ASSUME ManagerTypeOK, NEW j \in JobIds, Return(j),
           ws' \in [JobIds -> {"none", "partial", "output"}]
    PROVE  ManagerTypeOK'
<1>. USE DEF ManagerTypeOK, Return, clientVars
<1>1. /\ timedOut' \subseteq JobIds
      /\ futures' \subseteq JobIds
      /\ processes' \subseteq JobIds
      /\ UNCHANGED <<seen, waiting, toSignal, toRemove, closer, toCancel>>
  OBVIOUS
<1>2. /\ signalled' \in [JobIds -> {"no", "sent", "killed"}]
      /\ chan' \in [JobIds -> Seq(Events)]
  <2>1. <<>> \in Seq(Events)
    OBVIOUS
  <2>. QED  BY <2>1
<1>3. pc' \in [JobIds -> Places]
  BY DEF Places, Over
<1>4. /\ proc' \in [JobIds -> {"none", "running", "exited"}]
      /\ sig' \in [JobIds -> {"none", "term", "kill"}]
      /\ step' \in [JobIds -> Steps]
      /\ attempts' \in [JobIds -> 1..MaxAttempts]
  <2>1. CASE UNCHANGED processVars
    BY <2>1 DEF processVars
  <2>2. CASE DropProcess(j)
    <3>1. 1 \in 1..MaxAttempts /\ "boot" \in Steps
      BY MaxAttemptsAssumption DEF Steps
    <3>. QED  BY <2>2, <3>1 DEF DropProcess
  <2>. QED  BY <2>1, <2>2
<1>. QED  BY <1>1, <1>2, <1>3, <1>4

LEMMA SupervisionType ==
    ASSUME StoreTypeOK, ManagerTypeOK, NEW j \in JobIds, EventInHand(j),
           Supervision(j)
    PROVE  ManagerTypeOK'
<1>. USE PlacesFacts DEF ManagerTypeOK, locals, poolVars, clientVars,
                         processVars, workerVars, Goto, At
<1>1. CASE Begin(j) \/ Inspect(j)
  BY <1>1 DEF Begin, Inspect
<1>2. CASE Spawn(j) \/ SpawnFails(j) \/ Register(j)
  BY <1>2 DEF Spawn, SpawnFails, Register
<1>3. CASE Feed(j)
  BY <1>3 DEF Feed, Step, Steps
<1>4. CASE FeedFails(j)
  BY <1>4 DEF FeedFails, Kill
<1>5. CASE LaunchFailed(j)
  <2>1. ws' \in [JobIds -> {"none", "partial", "output"}]
    BY <1>5 DEF LaunchFailed, RemoveWorkspace
  <2>. QED  BY <1>5, <2>1 DEF LaunchFailed
<1>6. CASE IgnoreEvent(j)
  BY <1>6, ChanTyped DEF IgnoreEvent, Consume
<1>7. CASE TakeProgress(j) \/ TakeFinal(j)
  BY <1>7 DEF TakeProgress, TakeFinal, StoreTypeOK
<1>8. CASE PatchProgress(j) \/ PatchComplete(j) \/ PatchEnded(j)
  <2>1. CASE EventRaises(j)
    BY <2>1 DEF EventRaises, Handled
  <2>2. CASE Consume(j) /\ chan[j] # <<>>
             /\ (Handled(j, "watch") \/ Handled(j, "eventCleanup"))
    BY <2>2, ChanTyped DEF Consume, Handled
  <2>3. chan[j] # <<>>
    BY <1>8 DEF EventInHand, PatchProgress, PatchComplete, PatchEnded
  <2>. QED
    BY <1>8, <2>1, <2>2, <2>3 DEF PatchProgress, PatchComplete, PatchEnded
<1>9. CASE EventCleanup(j)
  BY <1>9 DEF EventCleanup, RemoveWorkspace
<1>10. CASE WatchDeadline(j) \/ WatchCancelled(j) \/ WatchGrace(j) \/ WatchQuiet(j)
  <2>. USE DEF Watched
  <2>1. CASE WatchDeadline(j)
    <3>1. sig' \in [JobIds -> {"none", "term", "kill"}]
      BY <2>1, SignalType DEF WatchDeadline
    <3>. QED  BY <2>1, <3>1 DEF WatchDeadline, Mark, Signal
  <2>2. CASE WatchCancelled(j)
    <3>1. sig' \in [JobIds -> {"none", "term", "kill"}]
      BY <2>2, SignalType DEF WatchCancelled
    <3>. QED  BY <2>2, <3>1 DEF WatchCancelled, Mark, Signal
  <2>3. CASE WatchGrace(j)
    <3>1. sig' \in [JobIds -> {"none", "term", "kill"}]
      BY <2>3, SignalType DEF WatchGrace
    <3>. QED  BY <2>3, <3>1 DEF WatchGrace, Mark, Kill
  <2>4. CASE WatchQuiet(j)
    BY <2>4 DEF WatchQuiet
  <2>. QED  BY <1>10, <2>1, <2>2, <2>3, <2>4
<1>11. CASE Reap(j) \/ RejectTimeout(j) \/ FailStopped(j) \/ FinishCancel(j)
  BY <1>11 DEF Reap, RejectTimeout, FailStopped, Settle, FinishCancel
<1>12. CASE Except(j) \/ ExceptFail(j)
  BY <1>12 DEF Except, ExceptFail, Kill
<1>13. CASE Cleanup(j) \/ Leave(j)
  <2>1. ws' \in [JobIds -> {"none", "partial", "output"}]
    BY <1>13 DEF Cleanup, Leave, RemoveWorkspace
  <2>. QED  BY <1>13, <2>1, ReturnType DEF Cleanup, Leave
<1>. QED  BY <1>1, <1>2, <1>3, <1>4, <1>5, <1>6, <1>7, <1>8, <1>9, <1>10, <1>11,
             <1>12, <1>13
          DEF Supervision

LEMMA WorkerType ==
    ASSUME ManagerTypeOK, NEW j \in JobIds, WorkerStep(j)
    PROVE  ManagerTypeOK'
<1>. USE DEF ManagerTypeOK, supervision, locals, poolVars, clientVars
<1>1. ASSUME NEW e \in Events PROVE Append(chan[j], e) \in Seq(Events)
  BY AppendProperties
<1>2. CASE WorkerOpens(j)
  BY <1>2 DEF WorkerOpens, Step, Steps
<1>3. CASE \E e \in {"downloading", "processing"} : WorkerReports(j, e)
  <2>1. PICK e \in {"downloading", "processing"} : WorkerReports(j, e)
    BY <1>3
  <2>2. chan' \in [JobIds -> Seq(Events)]
    BY <1>1, <2>1 DEF WorkerReports, Emit, Events
  <2>. QED  BY <2>1, <2>2 DEF WorkerReports, Step, Steps
<1>4. CASE WorkerRetries(j)
  BY <1>4, MaxAttemptsAssumption DEF WorkerRetries, Steps
<1>5. CASE WorkerCompletes(j)
  <2>1. chan' \in [JobIds -> Seq(Events)]
    BY <1>1, <1>5 DEF WorkerCompletes, Emit, Events, FinalEvents
  <2>. QED  BY <1>5, <2>1 DEF WorkerCompletes, Step, Steps
<1>6. CASE \E e \in {"rejected", "failed"} : WorkerGivesUp(j, e)
  <2>1. PICK e \in {"rejected", "failed"} : WorkerGivesUp(j, e)
    BY <1>6
  <2>2. chan' \in [JobIds -> Seq(Events)]
    BY <1>1, <2>1 DEF WorkerGivesUp, Emit, Events, FinalEvents
  <2>. QED  BY <2>1, <2>2 DEF WorkerGivesUp, Step, Steps
<1>7. CASE WorkerExits(j)
  BY <1>7 DEF WorkerExits
<1>. QED  BY <1>2, <1>3, <1>4, <1>5, <1>6, <1>7 DEF WorkerStep

LEMMA RequestType ==
    ASSUME ManagerTypeOK, NEW j \in JobIds, Requests(j)
    PROVE  ManagerTypeOK'
<1>. USE DEF ManagerTypeOK, locals, poolVars, clientVars, processVars,
             workerVars, jobVars
<1>1. CASE Cancel(j) \/ CloseCancels(j)
  BY <1>1 DEF Cancel, CloseCancels, CancelCall
<1>2. CASE SignalCancelled(j)
  <2>1. sig' \in [JobIds -> {"none", "term", "kill"}]
    BY <1>2, SignalType DEF SignalCancelled
  <2>. QED  BY <1>2, <2>1 DEF SignalCancelled, Signal
<1>3. CASE Delete(j) \/ AgeFinished(j)
  BY <1>3 DEF Delete, AgeFinished
<1>4. CASE RemoveFiles(j)
  BY <1>4 DEF RemoveFiles, RemoveWorkspace
<1>. QED  BY <1>1, <1>2, <1>3, <1>4 DEF Requests

LEMMA PoolType ==
    ASSUME ManagerTypeOK, NEW j \in JobIds,
           Admit(j) \/ Submission(j) \/ Start(j)
    PROVE  ManagerTypeOK'
<1>. USE PlacesFacts DEF ManagerTypeOK, locals, poolVars, clientVars,
                         processVars, workerVars, Goto
<1>1. CASE Admit(j)
  BY <1>1 DEF Admit
<1>2. CASE Enqueue(j)
  <2>1. waiting' \in Seq(JobIds)
    BY <1>2, AppendProperties DEF Enqueue
  <2>. QED  BY <1>2, <2>1 DEF Enqueue
<1>3. CASE RefuseClosed(j)
  BY <1>3 DEF RefuseClosed, Over
<1>4. CASE Start(j)
  <2>1. waiting' \in Seq(JobIds)
    BY <1>4, HeadTailProperties DEF Start
  <2>. QED  BY <1>4, <2>1 DEF Start
<1>. QED  BY <1>1, <1>2, <1>3, <1>4 DEF Submission

LEMMA NextType ==
    ASSUME StoreTypeOK, ManagerTypeOK, \A j \in JobIds : EventInHand(j), Next
    PROVE  ManagerTypeOK'
<1>1. CASE CleanupExpired
  BY <1>1 DEF CleanupExpired, ManagerTypeOK, Expired, TerminalJobs, locals,
              poolVars, processVars, workerVars, jobVars
<1>2. CASE Close \/ Shutdown \/ Stopped
  BY <1>2 DEF Close, Shutdown, Stopped, ManagerTypeOK, locals, poolVars,
              clientVars, processVars, workerVars, jobVars, vars
<1>. QED  BY <1>1, <1>2, SupervisionType, WorkerType, RequestType, PoolType
          DEF Next

-----------------------------------------------------------------------------
(* ManagerInv is inductive.  A step of the system is a step of one job:    *)
(* the other jobs keep their state (OtherJob), so each part of JobInv is   *)
(* shown to be kept by the steps of its own job.                           *)

OwnStep(j) ==
    \/ Admit(j) \/ Submission(j) \/ Start(j)
    \/ Supervision(j) \/ WorkerStep(j) \/ Requests(j)

(* What JobInv(k) looks at is as before.                                   *)
SameJob(k) ==
    /\ pc'[k] = pc[k] /\ status'[k] = status[k]
    /\ proc'[k] = proc[k] /\ sig'[k] = sig[k] /\ step'[k] = step[k]
    /\ chan'[k] = chan[k] /\ ws'[k] = ws[k]
    /\ k \in futures' => k \in futures
    /\ k \in toCancel' => k \in toCancel
    /\ k \in toRemove' => k \in toRemove

LEMMA SameJobInv ==
    ASSUME NEW k \in JobIds, JobInv(k), SameJob(k)
    PROVE  JobInv(k)'
<1>. USE DEF JobInv, SameJob, At
<1>1. EventInHand(k)' /\ KnownInv(k)'
  BY DEF EventInHand, KnownInv, Known
<1>2. ThreadInv(k)' /\ ProcessInv(k)'
  BY DEF ThreadInv, ProcessInv, Running
<1>3. FinalIsLast(k)' /\ SilentBeforeTask(k)' /\ CompletedInv(k)'
  BY DEF FileInv, FinalIsLast, SilentBeforeTask, CompletedInv, Running
<1>. QED  BY <1>1, <1>2, <1>3 DEF FileInv

LEMMA OtherJob ==
    ASSUME StoreTypeOK, ManagerTypeOK, NEW j \in JobIds, NEW k \in JobIds,
           k # j, OwnStep(j)
    PROVE  SameJob(k)
<1>. USE DEF SameJob, StoreTypeOK, ManagerTypeOK, locals, poolVars, clientVars,
             processVars, workerVars, storeVars, Goto
<1>1. CASE Admit(j) \/ Submission(j) \/ Start(j)
  BY <1>1 DEF Admit, Submission, Start, Enqueue, RefuseClosed, TryCreate, Patch
<1>2. CASE Begin(j) \/ Inspect(j) \/ Spawn(j) \/ SpawnFails(j) \/ Register(j)
  BY <1>2 DEF Begin, Inspect, Spawn, SpawnFails, Register, PatchReturns, Patch
<1>3. CASE Feed(j) \/ FeedFails(j) \/ LaunchFailed(j)
  BY <1>3 DEF Feed, FeedFails, LaunchFailed, Step, Kill, PatchReturns, Patch,
              RemoveWorkspace
<1>4. CASE IgnoreEvent(j) \/ TakeProgress(j) \/ TakeFinal(j)
  BY <1>4 DEF IgnoreEvent, TakeProgress, TakeFinal, Consume
<1>5. CASE PatchProgress(j) \/ PatchComplete(j) \/ PatchEnded(j) \/ EventCleanup(j)
  BY <1>5 DEF PatchProgress, PatchComplete, PatchEnded, EventRaises, Handled,
              Consume, PatchReturns, Patch, EventCleanup, RemoveWorkspace
<1>6. CASE WatchDeadline(j) \/ WatchCancelled(j) \/ WatchGrace(j) \/ WatchQuiet(j)
  BY <1>6 DEF WatchDeadline, WatchCancelled, WatchGrace, WatchQuiet, Watched,
              Mark, Signal, Kill
<1>7. CASE Reap(j) \/ RejectTimeout(j) \/ FailStopped(j) \/ FinishCancel(j)
  BY <1>7 DEF Reap, RejectTimeout, FailStopped, Settle, FinishCancel,
              PatchReturns, Patch
<1>8. CASE Except(j) \/ ExceptFail(j)
  BY <1>8 DEF Except, ExceptFail, Kill, PatchReturns, Patch
<1>9. CASE Cleanup(j) \/ Leave(j)
  BY <1>9 DEF Cleanup, Leave, Return, DropProcess, RemoveWorkspace
<1>10. CASE WorkerStep(j)
  BY <1>10 DEF WorkerStep, WorkerOpens, WorkerReports, WorkerRetries,
               WorkerCompletes, WorkerGivesUp, WorkerExits, supervision, Step,
               Emit
<1>11. CASE Requests(j)
  BY <1>11 DEF Requests, Cancel, SignalCancelled, Delete, RemoveFiles,
               AgeFinished, CloseCancels, CancelCall, RequestCancel, Signal,
               DeleteTerminal, RemoveRecords, RemoveWorkspace, Age, jobVars
<1>. QED  BY <1>1, <1>2, <1>3, <1>4, <1>5, <1>6, <1>7, <1>8, <1>9, <1>10, <1>11
          DEF OwnStep, Supervision

-----------------------------------------------------------------------------
(* A supervisor's own steps.                                               *)

LEMMA SupervisionRecord ==
    ASSUME NEW j \in JobIds, Supervision(j)
    PROVE  UNCHANGED status \/ \E next : Patch(j, next)
<1>1. ASSUME NEW expected, NEW next, PatchReturns(j, expected, next)
      PROVE  UNCHANGED status \/ \E n : Patch(j, n)
  BY <1>1 DEF PatchReturns, storeVars
<1>2. CASE Inspect(j) \/ LaunchFailed(j)
  BY <1>1, <1>2 DEF Inspect, LaunchFailed, storeVars
<1>3. CASE PatchProgress(j) \/ PatchComplete(j) \/ PatchEnded(j)
  BY <1>1, <1>3
  DEF PatchProgress, PatchComplete, PatchEnded, EventRaises, storeVars
<1>4. CASE RejectTimeout(j) \/ FailStopped(j)
  BY <1>1, <1>4 DEF RejectTimeout, FailStopped, Settle, storeVars
<1>5. CASE FinishCancel(j) \/ ExceptFail(j)
  BY <1>1, <1>5 DEF FinishCancel, ExceptFail, storeVars
<1>6. CASE UNCHANGED storeVars
  BY <1>6 DEF storeVars
<1>. QED
  BY <1>2, <1>3, <1>4, <1>5, <1>6
  DEF Supervision, Begin, Spawn, SpawnFails, Register, Feed, FeedFails,
      IgnoreEvent, TakeProgress, TakeFinal, EventCleanup, WatchDeadline,
      WatchCancelled, WatchGrace, WatchQuiet, Watched, Reap, Except, Cleanup,
      Leave, Return

LEMMA SupervisionPlace ==
    ASSUME NEW j \in JobIds, Supervision(j)
    PROVE  pc[j] \in Supervising
BY DEF At, Supervising, Supervision, Begin, Inspect, Spawn, SpawnFails, Register,
   Feed, FeedFails, LaunchFailed, IgnoreEvent, TakeProgress, TakeFinal,
   PatchProgress, PatchComplete, PatchEnded, EventCleanup, WatchDeadline,
   WatchCancelled, WatchGrace, WatchQuiet, Watching, Reap, RejectTimeout,
   FailStopped, FinishCancel, Except, ExceptFail, Cleanup, Leave

LEMMA SupervisionPlaceAfter ==
    ASSUME ManagerTypeOK, NEW j \in JobIds, Supervision(j)
    PROVE  /\ pc'[j] \in Supervising \cup {"done", "abandoned"}
           /\ futures' \subseteq futures
           /\ UNCHANGED <<toCancel, toRemove>>
BY DEF ManagerTypeOK, clientVars, poolVars, Goto, At, Supervising, Supervision,
   Begin, Inspect, Spawn, SpawnFails, Register, Feed, FeedFails, LaunchFailed,
   IgnoreEvent, TakeProgress, TakeFinal, PatchProgress, PatchComplete,
   PatchEnded, EventRaises, Handled, EventCleanup, WatchDeadline,
   WatchCancelled, WatchGrace, WatchQuiet, Watched, Reap, RejectTimeout,
   FailStopped, Settle, FinishCancel, Except, ExceptFail, Cleanup, Leave, Return

(* A supervisor keeps its identifier known, gives back no future but its   *)
(* own, and never revives a record that is gone.                           *)
LEMMA SupervisionKnown ==
    ASSUME StoreTypeOK, ManagerTypeOK, NEW j \in JobIds, KnownInv(j),
           Supervision(j)
    PROVE  KnownInv(j)'
<1>. USE DEF ManagerTypeOK, clientVars, poolVars, Goto, At
<1>1. /\ pc'[j] \in Supervising \cup {"done", "abandoned"}
      /\ futures' \subseteq futures
      /\ UNCHANGED <<toCancel, toRemove>>
  BY SupervisionPlaceAfter
<1>2. pc[j] \in Supervising
  BY SupervisionPlace
<1>3. status[j] = NoJob => status'[j] = NoJob
  <2>1. ASSUME NEW next, Patch(j, next) PROVE status[j] # NoJob
    BY <2>1 DEF Patch
  <2>2. UNCHANGED status \/ \E next : Patch(j, next)
    BY SupervisionRecord
  <2>. QED  BY <2>1, <2>2
<1>. QED  BY <1>1, <1>2, <1>3 DEF KnownInv, Known, Supervising

(* A supervisor can fail any active job but a cancelling one, and a patch  *)
(* to failed or rejected that returns leaves the job finished.             *)
LEMMA FailingAllowed ==
    ASSUME StoreTypeOK, NEW j \in JobIds, PatchRaises(j, Active, "failed")
    PROVE  status[j] = "cancelling"
BY DEF PatchRaises, PatchIgnored, Transitions, Ended, Active, Terminal,
       JobStatus, StoreTypeOK

LEMMA FailedIsFinished ==
    ASSUME StoreTypeOK, NEW j \in JobIds, NEW next \in {"failed", "rejected"},
           PatchReturns(j, Active, next)
    PROVE  status'[j] \notin Active
BY DEF PatchReturns, PatchIgnored, Patch, storeVars, Active, Terminal,
       StoreTypeOK

LEMMA SupervisionThread ==
    ASSUME StoreInv, ManagerTypeOK, NEW j \in JobIds, JobInv(j), Supervision(j)
    PROVE  ThreadInv(j)'
<1>. USE DEF StoreInv, StoreTypeOK, ManagerTypeOK, JobInv, ThreadInv, At, Goto,
             Live, Active, Terminal, JobStatus, Over
<1>1. CASE Begin(j)
  BY <1>1, NoJobAssumption DEF Begin, storeVars, CancelWins, CancelRequested
<1>2. CASE Inspect(j)
  BY <1>2 DEF Inspect, PatchReturns, PatchIgnored, Patch, storeVars
<1>3. CASE Spawn(j) \/ SpawnFails(j) \/ Register(j) \/ Feed(j) \/ FeedFails(j)
  BY <1>3 DEF Spawn, SpawnFails, Register, Feed, FeedFails, storeVars
<1>4. CASE LaunchFailed(j)
  <2>1. pc'[j] = "leave" /\ status'[j] \notin Active \ {"cancelling"}
    BY <1>4, FailingAllowed, FailedIsFinished DEF LaunchFailed, storeVars
  <2>. QED  BY <2>1
<1>5. CASE IgnoreEvent(j) \/ TakeProgress(j) \/ TakeFinal(j) \/ EventCleanup(j)
  BY <1>5 DEF IgnoreEvent, TakeProgress, TakeFinal, EventCleanup, storeVars
<1>6. CASE PatchProgress(j) \/ PatchComplete(j) \/ PatchEnded(j)
  <2>1. pc'[j] \in {"watch", "eventCleanup", "except"}
    BY <1>6
    DEF PatchProgress, PatchComplete, PatchEnded, EventRaises, Handled
  <2>. QED  BY <2>1
<1>7. CASE WatchDeadline(j) \/ WatchCancelled(j) \/ WatchGrace(j) \/ WatchQuiet(j)
  BY <1>7 DEF WatchDeadline, WatchCancelled, WatchGrace, WatchQuiet, Watched,
              storeVars
<1>8. CASE Reap(j)
  BY <1>8, NoJobAssumption DEF Reap, storeVars, CancelWins, CancelRequested
<1>9. CASE RejectTimeout(j) \/ FailStopped(j)
  <2>1. \/ pc'[j] = "except"
        \/ pc'[j] = "cleanup" /\ status'[j] \notin Active
    BY <1>9, FailedIsFinished DEF RejectTimeout, FailStopped, Settle
  <2>. QED  BY <2>1
<1>10. CASE FinishCancel(j)
  BY <1>10 DEF FinishCancel, Patch, storeVars
<1>11. CASE Except(j)
  BY <1>11 DEF Except, storeVars, CancelWins, CancelRequested
<1>12. CASE ExceptFail(j)
  <2>1. pc'[j] = "cleanup" /\ status'[j] \notin Active \ {"cancelling"}
    BY <1>12, FailingAllowed, FailedIsFinished DEF ExceptFail, storeVars
  <2>. QED  BY <2>1
<1>13. CASE Cleanup(j) \/ Leave(j)
  BY <1>13 DEF Cleanup, Leave, Return, storeVars
<1>. QED  BY <1>1, <1>2, <1>3, <1>4, <1>5, <1>6, <1>7, <1>8, <1>9, <1>10, <1>11,
             <1>12, <1>13
          DEF Supervision

LEMMA SupervisionProcess ==
    ASSUME ManagerTypeOK, NEW j \in JobIds, JobInv(j), Supervision(j)
    PROVE  ProcessInv(j)'
<1>. USE DEF ManagerTypeOK, JobInv, ProcessInv, BeforeSpawn, PastLoop, Over,
             Running, At, Goto, processVars, workerVars
<1>1. CASE Begin(j) \/ Inspect(j) \/ Spawn(j) \/ SpawnFails(j) \/ Register(j)
  BY <1>1 DEF Begin, Inspect, Spawn, SpawnFails, Register
<1>2. CASE Feed(j) \/ FeedFails(j) \/ LaunchFailed(j)
  BY <1>2 DEF Feed, FeedFails, LaunchFailed, Kill, Step
<1>3. CASE IgnoreEvent(j) \/ TakeProgress(j) \/ TakeFinal(j) \/ EventCleanup(j)
  BY <1>3 DEF IgnoreEvent, TakeProgress, TakeFinal, EventCleanup
<1>4. CASE PatchProgress(j) \/ PatchComplete(j) \/ PatchEnded(j)
  BY <1>4 DEF PatchProgress, PatchComplete, PatchEnded, EventRaises, Handled
<1>5. CASE WatchDeadline(j) \/ WatchCancelled(j) \/ WatchGrace(j) \/ WatchQuiet(j)
  BY <1>5 DEF WatchDeadline, WatchCancelled, WatchGrace, WatchQuiet, Watched
<1>6. CASE Reap(j) \/ RejectTimeout(j) \/ FailStopped(j) \/ FinishCancel(j)
  BY <1>6 DEF Reap, RejectTimeout, FailStopped, Settle, FinishCancel
<1>7. CASE Except(j) \/ ExceptFail(j)
  BY <1>7 DEF Except, ExceptFail, Kill
<1>8. CASE Cleanup(j) \/ Leave(j)
  BY <1>8 DEF Cleanup, Leave, Return, DropProcess
<1>. QED  BY <1>1, <1>2, <1>3, <1>4, <1>5, <1>6, <1>7, <1>8 DEF Supervision

LEMMA SupervisionEvent ==
    ASSUME ManagerTypeOK, NEW j \in JobIds, Supervision(j)
    PROVE  EventInHand(j)'
<1>. USE DEF ManagerTypeOK, EventInHand, Goto
<1>1. CASE TakeProgress(j) \/ TakeFinal(j)
  BY <1>1 DEF TakeProgress, TakeFinal, workerVars
<1>2. pc'[j] \notin {"patchProgress", "patchFinal"} \/ TakeProgress(j) \/ TakeFinal(j)
  BY DEF Supervision, Begin, Inspect, Spawn, SpawnFails, Register,
     Feed, FeedFails, LaunchFailed, IgnoreEvent,
     PatchProgress, PatchComplete, PatchEnded, EventRaises, Handled,
     EventCleanup, WatchDeadline, WatchCancelled, WatchGrace, WatchQuiet,
     Watched, Reap, RejectTimeout, FailStopped, Settle, FinishCancel, Except,
     ExceptFail, Cleanup, Leave, Return
<1>. QED  BY <1>1, <1>2

(* Taking a message off leaves a final event last, if it was not that one; *)
(* if it was, nothing is left.                                             *)
LEMMA ConsumeKeepsFinalLast ==
    ASSUME ManagerTypeOK, NEW j \in JobIds, FinalIsLast(j), chan[j] # <<>>,
           Consume(j), step'[j] = step[j]
    PROVE  /\ FinalIsLast(j)'
           /\ Event(j) \in FinalEvents => chan'[j] = <<>> /\ step[j] = "finished"
<1>1. /\ chan[j] \in Seq(Events)
      /\ chan'[j] = Tail(chan[j])
      /\ Event(j) = chan[j][1]
  BY DEF ManagerTypeOK, Consume, Event
<1>2. /\ Len(chan[j]) \in Nat \ {0}
      /\ Len(chan'[j]) = Len(chan[j]) - 1
      /\ \A i \in 1..Len(chan'[j]) : chan'[j][i] = chan[j][i + 1]
  BY <1>1, HeadTailProperties, EmptySeq
<1>3. FinalIsLast(j)'
  <2>1. ASSUME NEW i \in 1..Len(chan'[j]), chan'[j][i] \in FinalEvents
        PROVE  i = Len(chan'[j]) /\ step'[j] = "finished"
    <3>1. i + 1 \in 1..Len(chan[j]) /\ chan[j][i + 1] \in FinalEvents
      BY <1>2, <2>1
    <3>2. i + 1 = Len(chan[j]) /\ step[j] = "finished"
      BY <3>1 DEF FinalIsLast
    <3>. QED  BY <1>2, <2>1, <3>2
  <2>. QED  BY <2>1 DEF FinalIsLast, FinalEvents
<1>4. Event(j) \in FinalEvents => Len(chan[j]) = 1 /\ step[j] = "finished"
  <2>1. 1 \in 1..Len(chan[j])
    BY <1>2
  <2>. QED  BY <1>1, <2>1 DEF FinalIsLast
<1>5. Tail(chan[j]) \in Seq(Events)
  BY <1>1, HeadTailProperties
<1>6. Len(chan[j]) = 1 => chan'[j] = <<>>
  <2>1. chan'[j] \in Seq(Events) /\ Len(chan'[j]) = Len(chan[j]) - 1
    BY <1>1, <1>2, <1>5
  <2>. QED  BY <2>1, EmptySeq
<1>. QED  BY <1>3, <1>4, <1>6

LEMMA SupervisionFinal ==
    ASSUME ManagerTypeOK, NEW j \in JobIds, JobInv(j), Supervision(j)
    PROVE  FinalIsLast(j)' /\ SilentBeforeTask(j)'
<1>. USE DEF ManagerTypeOK, JobInv, FileInv, At, Goto, processVars, workerVars
<1>1. CASE Consume(j) /\ UNCHANGED step /\ chan[j] # <<>>
             /\ pc'[j] \in {"watch", "eventCleanup"}
  BY <1>1, ConsumeKeepsFinalLast DEF SilentBeforeTask, BeforeSpawn
<1>2. CASE IgnoreEvent(j)
  BY <1>1, <1>2 DEF IgnoreEvent
<1>3. CASE PatchProgress(j) \/ PatchComplete(j) \/ PatchEnded(j)
  <2>1. CASE EventRaises(j)
    BY <2>1
    DEF EventRaises, Handled, FinalIsLast, SilentBeforeTask, BeforeSpawn
  <2>2. CASE Consume(j) /\ (Handled(j, "watch") \/ Handled(j, "eventCleanup"))
    <3>1. chan[j] # <<>>
      BY <1>3 DEF EventInHand, PatchProgress, PatchComplete, PatchEnded
    <3>. QED  BY <1>1, <2>2, <3>1 DEF Handled
  <2>. QED  BY <1>3, <2>1, <2>2 DEF PatchProgress, PatchComplete, PatchEnded
<1>4. CASE Feed(j)
  <2>1. chan'[j] = <<>> /\ pc'[j] = "loop"
    BY <1>4 DEF Feed, SilentBeforeTask
  <2>. QED  BY <2>1 DEF FinalIsLast, SilentBeforeTask, BeforeSpawn
<1>5. CASE Cleanup(j) \/ Leave(j)
  <2>1. chan'[j] = <<>> /\ pc'[j] \in {"done", "abandoned"}
    BY <1>5 DEF Cleanup, Leave, Return
  <2>. QED  BY <2>1 DEF FinalIsLast, SilentBeforeTask, BeforeSpawn
<1>6. CASE UNCHANGED <<step, chan>> /\
           (\/ pc'[j] \notin BeforeSpawn \cup {"register", "feed"}
            \/ pc[j] \in {"begin", "inspect", "spawn", "register"})
  BY <1>6 DEF FinalIsLast, SilentBeforeTask, BeforeSpawn
<1>7. CASE Begin(j) \/ Inspect(j) \/ Spawn(j) \/ SpawnFails(j) \/ Register(j)
  BY <1>6, <1>7 DEF Begin, Inspect, Spawn, SpawnFails, Register
<1>8. CASE FeedFails(j) \/ LaunchFailed(j) \/ TakeProgress(j) \/ TakeFinal(j)
           \/ EventCleanup(j) \/ Except(j) \/ ExceptFail(j)
  BY <1>6, <1>8 DEF FeedFails, LaunchFailed, TakeProgress, TakeFinal,
         EventCleanup, Except, ExceptFail, Kill, BeforeSpawn
<1>9. CASE WatchDeadline(j) \/ WatchCancelled(j) \/ WatchGrace(j) \/ WatchQuiet(j)
  BY <1>6, <1>9 DEF WatchDeadline, WatchCancelled, WatchGrace, WatchQuiet,
         Watched, Signal, Kill, BeforeSpawn
<1>10. CASE Reap(j) \/ RejectTimeout(j) \/ FailStopped(j) \/ FinishCancel(j)
  BY <1>6, <1>10 DEF Reap, RejectTimeout, FailStopped, Settle, FinishCancel,
         BeforeSpawn
<1>. QED  BY <1>2, <1>3, <1>4, <1>5, <1>7, <1>8, <1>9, <1>10 DEF Supervision

(* A patch to anything but completed does not complete the record.         *)
LEMMA PatchSetsStatus ==
    ASSUME StoreTypeOK, NEW j \in JobIds, NEW expected, NEW next,
           PatchReturns(j, expected, next)
    PROVE  status'[j] = status[j] \/ status'[j] = next
BY DEF PatchReturns, Patch, StoreTypeOK, storeVars

LEMMA SupervisionCompleted ==
    ASSUME StoreInv, ManagerTypeOK, NEW j \in JobIds, JobInv(j), Supervision(j)
    PROVE  CompletedInv(j)'
<1>. USE DEF StoreInv, StoreTypeOK, ManagerTypeOK, JobInv, FileInv,
             CompletedInv, At, Goto, Running, processVars, workerVars
<1>1. ASSUME status'[j] = status[j], status[j] # "completed"
      PROVE  CompletedInv(j)'
  BY <1>1
<1>2. CASE PatchComplete(j)
  <2>1. CASE EventRaises(j)
    BY <1>2, <2>1 DEF PatchComplete, EventRaises, Handled, storeVars
  <2>2. CASE ~EventRaises(j)
    <3>1. /\ chan[j] # <<>> /\ Consume(j) /\ Event(j) = "complete"
          /\ ws[j] = "output"
          /\ UNCHANGED <<ws, proc, step>> /\ pc'[j] = "watch"
      BY <1>2, <2>2 DEF PatchComplete, EventInHand, Handled
    <3>2. chan'[j] = <<>> /\ step[j] = "finished"
      BY <3>1, ConsumeKeepsFinalLast DEF FinalEvents
    <3>. QED  BY <3>1, <3>2
  <2>. QED  BY <2>1, <2>2
<1>3. CASE Inspect(j) \/ LaunchFailed(j) \/ PatchProgress(j) \/ PatchEnded(j)
           \/ RejectTimeout(j) \/ FailStopped(j) \/ FinishCancel(j)
           \/ ExceptFail(j)
  <2>1. status[j] # "completed"
    BY <1>3 DEF Inspect, LaunchFailed, PatchProgress, PatchEnded,
           RejectTimeout, FailStopped, FinishCancel, ExceptFail
  <2>2. pc[j] \in {"patchProgress", "patchFinal"} => Event(j) # "completed"
    BY ChanTyped DEF EventInHand, Events, FinalEvents
  <2>3. status'[j] # "completed"
    <3>1. CASE Inspect(j) \/ LaunchFailed(j) \/ ExceptFail(j)
      BY <2>1, <3>1, PatchSetsStatus
      DEF Inspect, LaunchFailed, ExceptFail, storeVars
    <3>2. CASE PatchProgress(j) \/ PatchEnded(j)
      BY <2>1, <2>2, <3>2, PatchSetsStatus
      DEF PatchProgress, PatchEnded, EventRaises, storeVars
    <3>3. CASE RejectTimeout(j) \/ FailStopped(j)
      BY <2>1, <3>3, PatchSetsStatus
      DEF RejectTimeout, FailStopped, Settle, storeVars
    <3>4. CASE FinishCancel(j)
      BY <2>1, <3>4 DEF FinishCancel, Patch, storeVars
    <3>. QED  BY <1>3, <3>1, <3>2, <3>3, <3>4
  <2>. QED  BY <2>3
<1>4. CASE Begin(j) \/ Spawn(j) \/ SpawnFails(j) \/ Register(j) \/ Feed(j)
           \/ FeedFails(j) \/ IgnoreEvent(j) \/ TakeProgress(j) \/ TakeFinal(j)
           \/ EventCleanup(j) \/ Except(j) \/ Cleanup(j)
  <2>1. status[j] # "completed"
    BY <1>4 DEF Begin, Spawn, SpawnFails, Register, Feed, FeedFails,
           IgnoreEvent, TakeProgress, TakeFinal, EventCleanup, Except, Cleanup
  <2>2. UNCHANGED status
    BY <1>4 DEF Begin, Spawn, SpawnFails, Register, Feed, FeedFails,
           IgnoreEvent, TakeProgress, TakeFinal, EventCleanup, Except, Cleanup,
           Return, storeVars
  <2>. QED  BY <1>1, <2>1, <2>2
<1>5. CASE WatchDeadline(j) \/ WatchCancelled(j) \/ WatchGrace(j) \/ WatchQuiet(j)
  BY <1>5 DEF WatchDeadline, WatchCancelled, WatchGrace, WatchQuiet,
         Watched, Signal, Kill, storeVars
<1>6. CASE Reap(j)
  BY <1>6, NoJobAssumption
  DEF Reap, CancelWins, CancelRequested, Terminal, JobStatus, storeVars
<1>7. CASE Leave(j)
  BY <1>7 DEF Leave, Return, DropProcess, storeVars
<1>. QED  BY <1>2, <1>3, <1>4, <1>5, <1>6, <1>7 DEF Supervision

LEMMA SupervisionJobInv ==
    ASSUME StoreInv, ManagerTypeOK, NEW j \in JobIds, JobInv(j), Supervision(j)
    PROVE  JobInv(j)'
BY SupervisionEvent, SupervisionKnown, SupervisionThread, SupervisionProcess,
   SupervisionFinal, SupervisionCompleted
DEF JobInv, FileInv, StoreInv

-----------------------------------------------------------------------------
(* The worker's steps.                                                     *)

(* What every step of the worker leaves alone or can only extend.          *)
WorkerFrame(j) ==
    /\ supervision' = supervision
    /\ sig'[j] = sig[j]
    /\ Running(j)
    /\ \/ proc'[j] = "exited" /\ UNCHANGED <<step, chan, ws>>
       \/ /\ proc'[j] = "running"
          /\ step[j] \notin {"boot", "finished"}
          /\ \/ chan'[j] = chan[j] /\ step'[j] # "finished"
             \/ \E e \in Events :
                   /\ chan'[j] = Append(chan[j], e)
                   /\ e \in FinalEvents => step'[j] = "finished"

LEMMA WorkerStepFrame ==
    ASSUME ManagerTypeOK, NEW j \in JobIds, WorkerStep(j)
    PROVE  WorkerFrame(j)
<1>. USE DEF ManagerTypeOK, WorkerFrame, Running, Step, Emit, Transferring
<1>1. CASE WorkerOpens(j) \/ WorkerRetries(j)
  BY <1>1 DEF WorkerOpens, WorkerRetries
<1>2. CASE \E e \in {"downloading", "processing"} : WorkerReports(j, e)
  BY <1>2 DEF WorkerReports, Events, FinalEvents
<1>3. CASE WorkerCompletes(j) \/ \E e \in {"rejected", "failed"} : WorkerGivesUp(j, e)
  BY <1>3 DEF WorkerCompletes, WorkerGivesUp, Events, FinalEvents
<1>4. CASE WorkerExits(j)
  BY <1>4 DEF WorkerExits
<1>. QED  BY <1>1, <1>2, <1>3, <1>4 DEF WorkerStep

LEMMA WorkerJobInv ==
    ASSUME ManagerTypeOK, NEW j \in JobIds, JobInv(j), WorkerStep(j)
    PROVE  JobInv(j)'
<1>1. WorkerFrame(j)
  BY WorkerStepFrame
<1>2. CASE proc'[j] = "exited" /\ UNCHANGED <<step, chan, ws>>
  BY <1>1, <1>2
  DEF WorkerFrame, supervision, storeVars, poolVars, clientVars, JobInv,
      EventInHand, KnownInv, Known, ThreadInv, ProcessInv, FileInv, FinalIsLast,
      SilentBeforeTask, CompletedInv, Running, At
<1>3. CASE /\ proc'[j] = "running" /\ step[j] \notin {"boot", "finished"}
  <2>1. \A i \in 1..Len(chan[j]) : chan[j][i] \notin FinalEvents
    BY <1>3 DEF JobInv, FileInv, FinalIsLast
  <2>2. FinalIsLast(j)' /\ (chan[j] # <<>> => chan'[j] # <<>>)
    <3>1. CASE chan'[j] = chan[j]
      BY <2>1, <3>1 DEF FinalIsLast, FinalEvents
    <3>2. ASSUME NEW e \in Events, chan'[j] = Append(chan[j], e),
                 e \in FinalEvents => step'[j] = "finished"
          PROVE  FinalIsLast(j)' /\ chan'[j] # <<>>
      <4>1. chan[j] \in Seq(Events)
        BY DEF ManagerTypeOK
      <4>2. /\ Len(chan'[j]) = Len(chan[j]) + 1
            /\ \A i \in 1..Len(chan[j]) : chan'[j][i] = chan[j][i]
            /\ chan'[j][Len(chan[j]) + 1] = e
            /\ Len(chan[j]) \in Nat
            /\ chan'[j] # <<>>
        BY <3>2, <4>1, AppendProperties, LenProperties, EmptySeq
      <4>3. ASSUME NEW i \in 1..Len(chan'[j]), chan'[j][i] \in FinalEvents
            PROVE  i = Len(chan'[j]) /\ step'[j] = "finished"
        <5>1. i = Len(chan[j]) + 1 \/ i \in 1..Len(chan[j])
          BY <4>2
        <5>. QED  BY <2>1, <3>2, <4>2, <4>3, <5>1
      <4>. QED  BY <4>2, <4>3 DEF FinalIsLast, FinalEvents
    <3>. QED  BY <1>1, <1>3, <3>1, <3>2 DEF WorkerFrame
  <2>3. EventInHand(j)' /\ KnownInv(j)' /\ ThreadInv(j)'
    BY <1>1, <2>2
    DEF WorkerFrame, supervision, storeVars, poolVars, clientVars, JobInv,
        EventInHand, KnownInv, Known, ThreadInv, At
  <2>4. ProcessInv(j)' /\ SilentBeforeTask(j)' /\ CompletedInv(j)'
    BY <1>1, <1>3
    DEF WorkerFrame, supervision, storeVars, JobInv, ProcessInv, FileInv,
        SilentBeforeTask, CompletedInv, Running
  <2>. QED  BY <2>2, <2>3, <2>4 DEF JobInv, FileInv
<1>. QED  BY <1>1, <1>2, <1>3 DEF WorkerFrame

-----------------------------------------------------------------------------
(* Clients, cleanup and close().                                           *)

LEMMA RequestJobInv ==
    ASSUME StoreTypeOK, ManagerTypeOK, NEW j \in JobIds, JobInv(j), Requests(j)
    PROVE  JobInv(j)'
<1>. USE DEF StoreTypeOK, ManagerTypeOK, JobInv, FileInv, KnownInv, Known, At,
             Running, locals, poolVars, processVars, workerVars, jobVars
<1>1. ASSUME RequestCancel(j), Known(j), UNCHANGED <<futures, toRemove, jobVars>>,
             j \in toCancel' => j \in toCancel
      PROVE  JobInv(j)'
  <2>1. status[j] \in Active /\ status'[j] = "cancelling"
    BY <1>1 DEF RequestCancel
  <2>. QED
    BY <1>1, <2>1, NoJobAssumption
    DEF EventInHand, ThreadInv, ProcessInv, FinalIsLast, SilentBeforeTask,
        CompletedInv, Active, Terminal, JobStatus, Live
<1>2. CASE Cancel(j)
  BY <1>1, <1>2 DEF Cancel, CancelCall
<1>3. CASE CloseCancels(j)
  <2>1. CASE RequestCancel(j)
    BY <1>1, <1>3, <2>1 DEF CloseCancels
  <2>2. CASE UNCHANGED storeVars
    BY <1>3, <2>2, SameJobInv DEF CloseCancels, SameJob, storeVars
  <2>. QED  BY <1>3, <2>1, <2>2 DEF CloseCancels, CancelCall
<1>4. CASE SignalCancelled(j)
  <2>1. sig[j] = "kill" => sig'[j] = "kill"
    BY <1>4 DEF SignalCancelled, Signal
  <2>2. UNCHANGED <<status, pc, futures, toRemove, toCancel, proc, step, chan, ws>>
    BY <1>4 DEF SignalCancelled, Signal, storeVars
  <2>. QED
    BY <2>1, <2>2
    DEF EventInHand, ThreadInv, ProcessInv, FinalIsLast, SilentBeforeTask,
        CompletedInv
<1>5. CASE Delete(j)
  <2>1. /\ status[j] \in Terminal /\ status'[j] = NoJob
        /\ UNCHANGED <<pc, futures, toCancel, proc, sig, step, chan, ws>>
    BY <1>5 DEF Delete, DeleteTerminal, RemoveRecords
  <2>. QED
    BY <1>5, <2>1, NoJobAssumption
    DEF Delete, EventInHand, ThreadInv, ProcessInv, FinalIsLast,
        SilentBeforeTask, CompletedInv, Active, Terminal, JobStatus, Live
<1>6. CASE RemoveFiles(j)
  <2>1. /\ status[j] = NoJob /\ j \notin toRemove'
        /\ UNCHANGED <<status, pc, futures, toCancel, proc, sig, step, chan>>
    BY <1>6 DEF RemoveFiles, storeVars
  <2>. QED
    BY <2>1, NoJobAssumption
    DEF EventInHand, ThreadInv, ProcessInv, FinalIsLast, SilentBeforeTask,
        CompletedInv, JobStatus
<1>7. CASE AgeFinished(j)
  BY <1>7, SameJobInv DEF AgeFinished, Age, SameJob, clientVars
<1>. QED  BY <1>2, <1>3, <1>4, <1>5, <1>6, <1>7 DEF Requests

-----------------------------------------------------------------------------
(* Submission and the pool.                                                *)

LEMMA HeadIsWaiting ==
    ASSUME ManagerTypeOK, QueueInv, NEW j \in JobIds, Start(j)
    PROVE  At(j, "waiting")
<1>1. waiting \in Seq(JobIds) /\ waiting # <<>> /\ j = waiting[1]
  BY DEF Start, ManagerTypeOK
<1>2. 1 \in 1..Len(waiting)
  BY <1>1, EmptySeq
<1>. QED  BY <1>1, <1>2 DEF QueueInv

LEMMA PoolJobInv ==
    ASSUME StoreTypeOK, ManagerTypeOK, QueueInv, NEW j \in JobIds, JobInv(j),
           Admit(j) \/ Submission(j) \/ Start(j)
    PROVE  JobInv(j)'
<1>. USE DEF StoreTypeOK, ManagerTypeOK, JobInv, FileInv, EventInHand, KnownInv,
             Known, ThreadInv, ProcessInv, FinalIsLast, SilentBeforeTask,
             CompletedInv, BeforeSpawn, PastLoop, Over, At, Running, Goto,
             clientVars, poolVars, processVars, workerVars
<1>1. CASE Admit(j)
  BY <1>1, NoJobAssumption DEF Admit, TryCreate, JobStatus, Active, Terminal
<1>2. CASE Enqueue(j)
  BY <1>2 DEF Enqueue, storeVars
<1>3. CASE RefuseClosed(j)
  BY <1>3, NoJobAssumption DEF RefuseClosed, Patch, JobStatus, Active, Terminal
<1>4. CASE Start(j)
  BY <1>4, HeadIsWaiting DEF Start, storeVars
<1>. QED  BY <1>1, <1>2, <1>3, <1>4 DEF Submission

-----------------------------------------------------------------------------
(* Steps of every job at once.                                             *)

LEMMA GlobalJobInv ==
    ASSUME StoreTypeOK, ManagerTypeOK, NEW k \in JobIds, JobInv(k),
           CleanupExpired \/ Close \/ Shutdown \/ Stopped \/ UNCHANGED vars
    PROVE  JobInv(k)'
<1>. USE DEF StoreTypeOK, ManagerTypeOK, locals, poolVars, clientVars,
             processVars, workerVars, jobVars
<1>1. CASE CleanupExpired
  <2>1. CASE k \in Expired
    <3>1. /\ status[k] \in Terminal /\ status'[k] = NoJob
          /\ UNCHANGED <<pc, futures, toCancel, proc, sig, step, chan, ws>>
      BY <1>1, <2>1
      DEF CleanupExpired, PurgeExpired, RemoveRecords, Expired, TerminalJobs
    <3>. QED
      BY <1>1, <2>1, <3>1, NoJobAssumption
      DEF CleanupExpired, JobInv, FileInv, EventInHand, KnownInv, Known,
          ThreadInv, ProcessInv, FinalIsLast, SilentBeforeTask, CompletedInv,
          Active, Terminal, JobStatus, Live, At, Running
  <2>2. CASE k \notin Expired
    BY <1>1, <2>2, SameJobInv
    DEF CleanupExpired, PurgeExpired, RemoveRecords, SameJob
  <2>. QED  BY <2>1, <2>2
<1>2. CASE Close
  <2>1. k \in toCancel' => Known(k)'
    BY <1>2 DEF Close, JobInv, KnownInv, Known, At
  <2>2. UNCHANGED <<pc, status, futures, toRemove, proc, sig, step, chan, ws>>
    BY <1>2 DEF Close, storeVars
  <2>. QED
    BY <2>1, <2>2
    DEF JobInv, FileInv, EventInHand, KnownInv, Known, ThreadInv, ProcessInv,
        FinalIsLast, SilentBeforeTask, CompletedInv, At, Running
<1>3. CASE Shutdown \/ Stopped \/ UNCHANGED vars
  BY <1>3, SameJobInv DEF Shutdown, Stopped, vars, storeVars, SameJob
<1>. QED  BY <1>1, <1>2, <1>3

-----------------------------------------------------------------------------
(* The work queue.                                                         *)

LEMMA QueueStep ==
    ASSUME StoreTypeOK, ManagerTypeOK, QueueInv, [Next]_vars
    PROVE  QueueInv'
<1>. DEFINE n == Len(waiting)
<1>1. /\ waiting \in Seq(JobIds)
      /\ n \in Nat
      /\ \A i \in 1..n : waiting[i] \in JobIds
  BY ElementOfSeq, LenProperties DEF ManagerTypeOK
<1>2. ASSUME UNCHANGED waiting,
             \A k \in JobIds : At(k, "waiting") => At(k, "waiting")'
      PROVE  QueueInv'
  BY <1>1, <1>2 DEF QueueInv
<1>3. ASSUME NEW j \in JobIds, Start(j)
      PROVE  QueueInv'
  <2>1. /\ waiting # <<>> /\ waiting' = Tail(waiting)
        /\ j = waiting[1]
        /\ n \in Nat \ {0}
        /\ Len(waiting') = n - 1
        /\ \A i \in 1..Len(waiting') : waiting'[i] = waiting[i + 1]
    BY <1>1, <1>3, HeadTailProperties, EmptySeq DEF Start
  <2>2. ASSUME NEW i \in 1..Len(waiting') PROVE pc'[waiting'[i]] = "waiting"
    <3>1. i + 1 \in 1..n /\ 1 \in 1..n /\ i + 1 # 1
      BY <1>1, <2>1
    <3>2. waiting[i + 1] # j /\ At(waiting[i + 1], "waiting")
      BY <2>1, <3>1 DEF QueueInv
    <3>. QED
      BY <1>1, <1>3, <2>1, <3>1, <3>2 DEF Start, Goto, At, ManagerTypeOK
  <2>3. ASSUME NEW i \in 1..Len(waiting'), NEW k \in 1..Len(waiting'),
               waiting'[i] = waiting'[k]
        PROVE  i = k
    <3>1. i + 1 \in 1..n /\ k + 1 \in 1..n
      BY <1>1, <2>1
    <3>2. i + 1 = k + 1
      BY <2>1, <2>3, <3>1 DEF QueueInv
    <3>. QED  BY <2>1, <3>2
  <2>. QED  BY <2>2, <2>3 DEF QueueInv, At
<1>4. ASSUME NEW j \in JobIds, Enqueue(j)
      PROVE  QueueInv'
  <2>1. /\ waiting' = Append(waiting, j)
        /\ At(j, "submitting") /\ At(j, "waiting")'
        /\ \A k \in JobIds : At(k, "waiting") => At(k, "waiting")'
    BY <1>4 DEF Enqueue, Goto, At, ManagerTypeOK
  <2>2. /\ Len(waiting') = n + 1
        /\ \A i \in 1..n : waiting'[i] = waiting[i]
        /\ waiting'[n + 1] = j
    BY <1>1, <2>1, AppendProperties
  <2>3. \A i \in 1..n : waiting[i] # j
    BY <2>1 DEF QueueInv, At
  <2>4. \A i \in 1..(n + 1) : i = n + 1 \/ i \in 1..n
    BY <1>1
  <2>5. \A i \in 1..n : pc'[waiting[i]] = "waiting"
    BY <1>1, <2>1 DEF QueueInv, At
  <2>6. \A i, k \in 1..n : waiting[i] = waiting[k] => i = k
    BY DEF QueueInv
  <2>7. \A i \in 1..Len(waiting') : pc'[waiting'[i]] = "waiting"
    BY <2>1, <2>2, <2>4, <2>5 DEF At
  <2>8. \A i, k \in 1..Len(waiting') : waiting'[i] = waiting'[k] => i = k
    BY <2>2, <2>3, <2>4, <2>6
  <2>. QED  BY <2>7, <2>8 DEF QueueInv, At
<1>5. ASSUME NEW j \in JobIds, Supervision(j)
      PROVE  QueueInv'
  <2>1. UNCHANGED waiting
    BY <1>5 DEF poolVars, Supervision, Begin, Inspect, Spawn, SpawnFails,
       Register, Feed, FeedFails, LaunchFailed, IgnoreEvent, TakeProgress,
       TakeFinal, PatchProgress, PatchComplete, PatchEnded, EventRaises,
       Handled, EventCleanup, WatchDeadline, WatchCancelled, WatchGrace,
       WatchQuiet, Watched, Reap, RejectTimeout, FailStopped, Settle,
       FinishCancel, Except, ExceptFail, Cleanup, Leave, Return
  <2>2. pc[j] \in Supervising
    BY <1>5, SupervisionPlace
  <2>3. \A k \in JobIds : At(k, "waiting") => At(k, "waiting")'
    BY <1>5, <2>2, OtherJob DEF OwnStep, SameJob, At, Supervising
  <2>. QED  BY <1>2, <2>1, <2>3
<1>6. ASSUME NEW j \in JobIds, Admit(j) \/ RefuseClosed(j) \/ WorkerStep(j)
                                \/ Requests(j)
      PROVE  QueueInv'
  <2>1. UNCHANGED waiting
    BY <1>6 DEF Admit, RefuseClosed, WorkerStep, WorkerOpens, WorkerReports,
       WorkerRetries, WorkerCompletes, WorkerGivesUp, WorkerExits, supervision,
       Requests, Cancel, SignalCancelled, Delete, RemoveFiles, AgeFinished,
       CloseCancels, jobVars, poolVars
  <2>2. \/ UNCHANGED pc
        \/ pc[j] \in {"unborn", "submitting"} /\ \E p : Goto(j, p)
    BY <1>6 DEF Admit, RefuseClosed, WorkerStep, WorkerOpens, WorkerReports,
       WorkerRetries, WorkerCompletes, WorkerGivesUp, WorkerExits, supervision,
       Requests, Cancel, SignalCancelled, Delete, RemoveFiles, AgeFinished,
       CloseCancels, jobVars, At
  <2>3. \A k \in JobIds : At(k, "waiting") => At(k, "waiting")'
    BY <2>2 DEF Goto, At, ManagerTypeOK
  <2>. QED  BY <1>2, <2>1, <2>3
<1>7. CASE CleanupExpired \/ Close \/ Shutdown \/ Stopped \/ UNCHANGED vars
  BY <1>2, <1>7 DEF CleanupExpired, Close, Shutdown, Stopped, vars, jobVars,
     poolVars, At
<1>. QED  BY <1>3, <1>4, <1>5, <1>6, <1>7 DEF Next, Submission

-----------------------------------------------------------------------------
(* The inductive invariant and what follows from it.                       *)

IndInv == StoreInv /\ ManagerTypeOK /\ ManagerInv

LEMMA InitIndInv == Init => IndInv
<1>. SUFFICES ASSUME Init PROVE IndInv
  OBVIOUS
<1>1. StoreInv /\ ManagerTypeOK
  BY InitStoreInv, InitType DEF Init
<1>2. QueueInv
  BY DEF Init, QueueInv
<1>3. ASSUME NEW j \in JobIds PROVE JobInv(j)
  BY NoJobAssumption
  DEF Init, StoreInit, JobInv, FileInv, EventInHand, KnownInv, ThreadInv,
      ProcessInv, FinalIsLast, SilentBeforeTask, CompletedInv, PastLoop, Over,
      At, Running, JobStatus
<1>. QED  BY <1>1, <1>2, <1>3 DEF IndInv, ManagerInv

LEMMA NextIndInv == IndInv /\ [Next]_vars => IndInv'
<1>. SUFFICES ASSUME IndInv, [Next]_vars PROVE IndInv'
  OBVIOUS
<1>. USE DEF IndInv, ManagerInv
<1>1. StoreInv' /\ StoreTypeOK
  BY StepIsStoreStep, NextStoreInv DEF StoreInv
<1>2. ManagerTypeOK'
  <2>1. CASE UNCHANGED vars
    BY <2>1 DEF vars, ManagerTypeOK, locals, poolVars, clientVars, processVars,
                workerVars
  <2>. QED  BY <1>1, <2>1, NextType DEF JobInv
<1>3. QueueInv'
  BY <1>1, QueueStep
<1>4. ASSUME NEW k \in JobIds PROVE JobInv(k)'
  <2>1. ASSUME NEW j \in JobIds, OwnStep(j) PROVE JobInv(k)'
    <3>1. CASE k # j
      BY <1>1, <2>1, <3>1, OtherJob, SameJobInv
    <3>2. CASE k = j
      BY <1>1, <2>1, <3>2, PoolJobInv, SupervisionJobInv, WorkerJobInv,
         RequestJobInv
      DEF OwnStep
    <3>. QED  BY <3>1, <3>2
  <2>2. CASE CleanupExpired \/ Close \/ Shutdown \/ Stopped \/ UNCHANGED vars
    BY <1>1, <2>2, GlobalJobInv
  <2>. QED  BY <2>1, <2>2 DEF Next, OwnStep
<1>. QED  BY <1>1, <1>2, <1>3, <1>4

(* What it says of the table and the supervisors alone, processes aside.   *)
(* Unlike IndInv it also holds of a service that was started again, whose  *)
(* earlier jobs may still have a worker.                                   *)
RecordInv(j) == EventInHand(j) /\ KnownInv(j) /\ ThreadInv(j) /\ FileInv(j)

TableInv ==
    /\ StoreInv /\ ManagerTypeOK /\ QueueInv
    /\ \A j \in JobIds : RecordInv(j)

LEMMA IndInvTable == IndInv => TableInv
BY DEF IndInv, ManagerInv, JobInv, RecordInv, TableInv

LEMMA IndInvTableNext == (IndInv => TableInv)'
BY IndInvTable, PTL

LEMMA TableSupervises == TableInv => ActiveIsSupervised
BY DEF TableInv, RecordInv, ThreadInv, ActiveIsSupervised, Unsupervised

LEMMA TableKeepsFiles == TableInv => CompletedHasFile
BY DEF TableInv, RecordInv, FileInv, CompletedInv, CompletedHasFile

LEMMA StraysAreKilled == IndInv => NoStrayWorker
BY DEF IndInv, ManagerInv, ManagerTypeOK, JobInv, ProcessInv, BeforeSpawn,
       PastLoop, Places, Supervising, Over, Running, NoStrayWorker

LEMMA TableBacklog ==
    ASSUME TableInv
    PROVE  BacklogBounded
<1>. USE DEF TableInv
<1>1. /\ waiting \in Seq(JobIds)
      /\ Len(waiting) \in Nat
      /\ \A i \in 1..Len(waiting) : waiting[i] \in JobIds
  BY ElementOfSeq, LenProperties DEF ManagerTypeOK
<1>2. \A i \in 1..Len(waiting) : status[waiting[i]] \in {"queued", "cancelling"}
  BY <1>1 DEF QueueInv, RecordInv, ThreadInv, At
<1>3. \A i \in 1..Len(waiting) : waiting[i] \in ActiveJobs
  BY <1>1, <1>2 DEF ActiveJobs, Active, Terminal, JobStatus
<1>. DEFINE place == [i \in 1..Len(waiting) |-> waiting[i]]
<1>4. place \in Injection(1..Len(waiting), ActiveJobs)
  BY <1>3 DEF QueueInv, Injection, IsInjective
<1>5. Cardinality(1..Len(waiting)) <= Cardinality(ActiveJobs)
  BY <1>4, FS_Injection DEF StoreInv, CapacityRespected
<1>6. Cardinality(1..Len(waiting)) = Len(waiting)
  <2>1. ASSUME NEW n \in Nat PROVE Cardinality(1..n) = n
    BY FS_Interval
  <2>. QED  BY <1>1, <2>1
<1>7. Cardinality(ActiveJobs) \in Nat /\ Cardinality(ActiveJobs) <= Capacity
  BY FS_CardinalityType DEF StoreInv, CapacityRespected
<1>. QED
  BY <1>1, <1>2, <1>5, <1>6, <1>7, CapacityAssumption DEF BacklogBounded

(* The inductive invariant holds of the running service: in every state,   *)
(* record, supervisor, process, messages and files of each job agree as    *)
(* ManagerInvariants says.                                                 *)
THEOREM ManagerInductive == Spec => []IndInv
BY InitIndInv, NextIndInv, PTL DEF Spec

(* What ties record, supervisor, process, messages and files of a job of   *)
(* manager.py together holds in every reachable state.                     *)
THEOREM ManagerInvariant == Spec => []ManagerInv
<1>1. IndInv => ManagerInv
  BY DEF IndInv
<1>. QED  BY <1>1, ManagerInductive, PTL

(* Type correctness.                                                       *)
THEOREM ManagerTypeCorrect == Spec => []ManagerTypeOK
<1>1. IndInv => ManagerTypeOK
  BY DEF IndInv
<1>. QED  BY <1>1, ManagerInductive, PTL

(* No supervisor of manager.py returns, by any of its branches, and leaves *)
(* its record in a state only a supervisor could move on.                  *)
THEOREM ManagerSupervises == Spec => []ActiveIsSupervised
<1>1. IndInv => ActiveIsSupervised
  BY IndInvTable, TableSupervises
<1>. QED  BY <1>1, ManagerInductive, PTL

(* While a record says completed, no late event, timeout, cancellation or  *)
(* cleanup of the job has taken its file away.                             *)
THEOREM ManagerKeepsFiles == Spec => []CompletedHasFile
<1>1. IndInv => CompletedHasFile
  BY IndInvTable, TableKeepsFiles
<1>. QED  BY <1>1, ManagerInductive, PTL

(* No branch of _supervise or _launch_worker lets a process outlive its    *)
(* supervisor without SIGKILL on its way.                                  *)
THEOREM ManagerStopsWorkers == Spec => []NoStrayWorker
BY StraysAreKilled, ManagerInductive, PTL

(* What waits in the executor's own, unbounded queue is bounded by the     *)
(* admission control of the job table.                                     *)
THEOREM ManagerBacklog == Spec => []BacklogBounded
<1>1. IndInv => BacklogBounded
  BY IndInvTable, TableBacklog
<1>. QED  BY <1>1, ManagerInductive, PTL

-----------------------------------------------------------------------------
(* The pool never runs more threads than it has, so the workers that may   *)
(* run together are bounded with them.                                     *)
PoolInv == IsFiniteSet(Busy) /\ Cardinality(Busy) <= MaxConcurrent

LEMMA FewerBusy ==
    ASSUME PoolInv, Busy' \subseteq Busy
    PROVE  PoolInv'
<1>1. IsFiniteSet(Busy') /\ Cardinality(Busy') <= Cardinality(Busy)
  BY FS_Subset DEF PoolInv
<1>2. /\ Cardinality(Busy) \in Nat /\ Cardinality(Busy') \in Nat
      /\ MaxConcurrent \in Nat
  BY <1>1, FS_CardinalityType, MaxConcurrentAssumption, CapacityAssumption
  DEF PoolInv
<1>. QED  BY <1>1, <1>2 DEF PoolInv

LEMMA OwnStepPool ==
    ASSUME StoreTypeOK, ManagerTypeOK, PoolInv, NEW j \in JobIds, OwnStep(j)
    PROVE  PoolInv'
<1>1. CASE Start(j)
  <2>1. Busy' = Busy \cup {j} /\ Cardinality(Busy) < MaxConcurrent
    BY <1>1 DEF Start, Goto, ManagerTypeOK, Busy, Supervising
  <2>2. CASE j \in Busy
    BY <2>1, <2>2, FewerBusy
  <2>3. CASE j \notin Busy
    <3>1. /\ IsFiniteSet(Busy')
          /\ Cardinality(Busy') = Cardinality(Busy) + 1
      BY <2>1, <2>3, FS_AddElement DEF PoolInv
    <3>2. Cardinality(Busy) \in Nat /\ MaxConcurrent \in Nat
      BY FS_CardinalityType, MaxConcurrentAssumption, CapacityAssumption
      DEF PoolInv
    <3>. QED  BY <2>1, <3>1, <3>2 DEF PoolInv
  <2>. QED  BY <2>2, <2>3
<1>2. CASE ~Start(j)
  <2>1. \A k \in JobIds \ {j} : pc'[k] = pc[k]
    BY OtherJob DEF SameJob
  <2>2. pc'[j] \in Supervising => pc[j] \in Supervising
    <3>1. CASE Supervision(j)
      BY <3>1, SupervisionPlace
    <3>2. CASE ~Supervision(j)
      BY <1>2, <3>2
      DEF OwnStep, Admit, Submission, Enqueue, RefuseClosed, Goto, ManagerTypeOK,
          Supervising, WorkerStep, WorkerOpens, WorkerReports, WorkerRetries,
          WorkerCompletes, WorkerGivesUp, WorkerExits, supervision, Requests,
          Cancel, SignalCancelled, Delete, RemoveFiles, AgeFinished,
          CloseCancels, jobVars
    <3>. QED  BY <3>1, <3>2
  <2>3. Busy' \subseteq Busy
    BY <2>1, <2>2 DEF Busy
  <2>. QED  BY <2>3, FewerBusy
<1>. QED  BY <1>1, <1>2

LEMMA InitPool == Init => PoolInv
<1>. SUFFICES ASSUME Init PROVE PoolInv
  OBVIOUS
<1>1. Busy = {}
  BY DEF Init, Busy, Supervising
<1>. QED
  BY <1>1, FS_EmptySet, MaxConcurrentAssumption, CapacityAssumption DEF PoolInv

(* A worker that is not being killed has its thread.                       *)
LEMMA WorkersHaveThreads ==
    ASSUME PoolInv, NEW S \in SUBSET JobIds,
           \A j \in S : Running(j) /\ sig[j] # "kill" => pc[j] \in Supervising
    PROVE  Cardinality({j \in S : Running(j) /\ sig[j] # "kill"}) <= MaxConcurrent
<1>. DEFINE W == {j \in S : Running(j) /\ sig[j] # "kill"}
<1>1. W \subseteq Busy
  BY DEF Busy
<1>2. IsFiniteSet(W) /\ Cardinality(W) <= Cardinality(Busy)
  BY <1>1, FS_Subset DEF PoolInv
<1>3. /\ Cardinality(W) \in Nat /\ Cardinality(Busy) \in Nat
      /\ MaxConcurrent \in Nat
  BY <1>2, FS_CardinalityType, MaxConcurrentAssumption, CapacityAssumption
  DEF PoolInv
<1>. QED  BY <1>2, <1>3 DEF PoolInv

LEMMA ThreadsBoundWorkers == PoolInv /\ NoStrayWorker => WorkersBounded
BY WorkersHaveThreads DEF NoStrayWorker, WorkersBounded

LEMMA NextPoolInv == IndInv /\ PoolInv /\ [Next]_vars => PoolInv'
<1>. SUFFICES ASSUME IndInv, PoolInv, [Next]_vars PROVE PoolInv'
  OBVIOUS
<1>1. ASSUME NEW j \in JobIds, OwnStep(j) PROVE PoolInv'
  BY <1>1, OwnStepPool DEF IndInv, StoreInv
<1>2. CASE CleanupExpired \/ Close \/ Shutdown \/ Stopped \/ UNCHANGED vars
  <2>1. Busy' = Busy
    BY <1>2 DEF CleanupExpired, Close, Shutdown, Stopped, vars, jobVars, Busy
  <2>. QED  BY <2>1, FewerBusy
<1>. QED  BY <1>1, <1>2 DEF Next, OwnStep

(* No branch of _supervise gives its thread back while its worker runs on  *)
(* unkilled: the workers that run together are bounded by the pool.        *)
THEOREM ManagerBoundsWorkers == Spec => []WorkersBounded
BY InitPool, NextPoolInv, ThreadsBoundWorkers, ManagerInductive,
   ManagerStopsWorkers, PTL DEF Spec

-----------------------------------------------------------------------------
(* The end of close().  Whoever is in the pool has a future, and only a    *)
(* supervisor has its process in the table; once shutdown() has returned   *)
(* there is no future, and none is made any more.                          *)
OwnerInv(j) ==
    /\ pc[j] \in Supervising \cup {"waiting"} => j \in futures
    /\ j \in processes => pc[j] \in Supervising

Drained == closer = "closed" => futures = {}

QuietInv == Drained /\ \A j \in JobIds : OwnerInv(j)

(* A step of one job enters or removes nobody else.                        *)
LEMMA TablesStep ==
    ASSUME NEW j \in JobIds, OwnStep(j)
    PROVE  /\ futures' \in {futures, futures \cup {j}, futures \ {j}}
           /\ processes' \in {processes, processes \cup {j}, processes \ {j}}
<1>1. CASE Admit(j) \/ Submission(j) \/ Start(j)
  BY <1>1 DEF Admit, Submission, Enqueue, RefuseClosed, Start, poolVars
<1>2. CASE Supervision(j)
  BY <1>2 DEF poolVars, Supervision, Begin, Inspect, Spawn, SpawnFails,
     Register, Feed, FeedFails, LaunchFailed, IgnoreEvent, TakeProgress,
     TakeFinal, PatchProgress, PatchComplete, PatchEnded, EventRaises,
     Handled, EventCleanup, WatchDeadline, WatchCancelled, WatchGrace,
     WatchQuiet, Watched, Reap, RejectTimeout, FailStopped, Settle,
     FinishCancel, Except, ExceptFail, Cleanup, Leave, Return
<1>3. CASE WorkerStep(j) \/ Requests(j)
  BY <1>3 DEF poolVars, WorkerStep, WorkerOpens, WorkerReports, WorkerRetries,
     WorkerCompletes, WorkerGivesUp, WorkerExits, supervision, Requests, Cancel,
     SignalCancelled, Delete, RemoveFiles, AgeFinished, CloseCancels, jobVars
<1>. QED  BY <1>1, <1>2, <1>3 DEF OwnStep

LEMMA SupervisionOwner ==
    ASSUME ManagerTypeOK, NEW j \in JobIds, OwnerInv(j), Supervision(j)
    PROVE  OwnerInv(j)'
<1>1. pc[j] \in Supervising /\ j \in futures
  BY SupervisionPlace DEF OwnerInv
<1>2. CASE Cleanup(j) \/ Leave(j)
  <2>1. j \notin processes' /\ pc'[j] \in {"done", "abandoned"}
    BY <1>2 DEF Cleanup, Leave, Return, ManagerTypeOK
  <2>. QED  BY <2>1 DEF OwnerInv, Supervising
<1>3. CASE ~(Cleanup(j) \/ Leave(j))
  <2>1. futures' = futures /\ pc'[j] \in Supervising
    BY <1>3 DEF ManagerTypeOK, poolVars, Goto, At, Supervising, Supervision,
       Begin, Inspect, Spawn, SpawnFails, Register, Feed, FeedFails,
       LaunchFailed, IgnoreEvent, TakeProgress, TakeFinal, PatchProgress,
       PatchComplete, PatchEnded, EventRaises, Handled, EventCleanup,
       WatchDeadline, WatchCancelled, WatchGrace, WatchQuiet, Watched, Reap,
       RejectTimeout, FailStopped, Settle, FinishCancel, Except, ExceptFail
  <2>. QED  BY <1>1, <2>1 DEF OwnerInv
<1>. QED  BY <1>2, <1>3

LEMMA OwnStepOwner ==
    ASSUME ManagerTypeOK, QueueInv, NEW j \in JobIds, OwnerInv(j), OwnStep(j)
    PROVE  OwnerInv(j)'
<1>. USE DEF ManagerTypeOK, OwnerInv, Supervising, At, Goto, poolVars
<1>1. CASE Admit(j)
  BY <1>1 DEF Admit
<1>2. CASE Submission(j)
  BY <1>2 DEF Submission, Enqueue, RefuseClosed
<1>3. CASE Start(j)
  BY <1>3, HeadIsWaiting DEF Start
<1>4. CASE WorkerStep(j) \/ Requests(j)
  <2>1. UNCHANGED <<pc, futures, processes>>
    BY <1>4 DEF WorkerStep, WorkerOpens, WorkerReports, WorkerRetries,
       WorkerCompletes, WorkerGivesUp, WorkerExits, supervision, Requests, Cancel,
       SignalCancelled, Delete, RemoveFiles, AgeFinished, CloseCancels, jobVars
  <2>. QED  BY <2>1
<1>. QED  BY <1>1, <1>2, <1>3, <1>4, SupervisionOwner DEF OwnStep

LEMMA OtherJobOwner ==
    ASSUME StoreTypeOK, ManagerTypeOK, NEW j \in JobIds, NEW k \in JobIds,
           k # j, OwnerInv(k), OwnStep(j)
    PROVE  OwnerInv(k)'
BY OtherJob, TablesStep DEF OwnerInv, SameJob

(* A future is made only while the manager is open, and shutdown() returns *)
(* when there is none left.                                                *)
LEMMA OwnStepDrained ==
    ASSUME NEW j \in JobIds, Drained, OwnStep(j)
    PROVE  Drained'
<1>1. closer' = closer
  BY DEF clientVars, jobVars, OwnStep, Admit, Submission, Enqueue,
     RefuseClosed, Start, Supervision, Begin, Inspect, Spawn, SpawnFails,
     Register, Feed, FeedFails, LaunchFailed, IgnoreEvent, TakeProgress,
     TakeFinal, PatchProgress, PatchComplete, PatchEnded, EventRaises,
     Handled, EventCleanup, WatchDeadline, WatchCancelled, WatchGrace,
     WatchQuiet, Watched, Reap, RejectTimeout, FailStopped, Settle,
     FinishCancel, Except, ExceptFail, Cleanup, Leave, Return, WorkerStep,
     WorkerOpens, WorkerReports, WorkerRetries, WorkerCompletes, WorkerGivesUp,
     WorkerExits, supervision, Requests, Cancel, SignalCancelled, Delete,
     RemoveFiles, AgeFinished, CloseCancels
<1>2. CASE Enqueue(j)
  BY <1>1, <1>2 DEF Enqueue, Drained
<1>3. CASE ~Enqueue(j)
  <2>1. futures' \in {futures, futures \ {j}}
    BY <1>3 DEF poolVars, jobVars, OwnStep, Admit, Submission, RefuseClosed,
       Start, Supervision, Begin, Inspect, Spawn, SpawnFails, Register, Feed,
       FeedFails, LaunchFailed, IgnoreEvent, TakeProgress, TakeFinal,
       PatchProgress, PatchComplete, PatchEnded, EventRaises, Handled,
       EventCleanup, WatchDeadline, WatchCancelled, WatchGrace, WatchQuiet,
       Watched, Reap, RejectTimeout, FailStopped, Settle, FinishCancel, Except,
       ExceptFail, Cleanup, Leave, Return, WorkerStep, WorkerOpens,
       WorkerReports, WorkerRetries, WorkerCompletes, WorkerGivesUp,
       WorkerExits, supervision, Requests, Cancel, SignalCancelled, Delete,
       RemoveFiles, AgeFinished, CloseCancels
  <2>. QED  BY <1>1, <2>1 DEF Drained
<1>. QED  BY <1>2, <1>3

LEMMA GlobalQuiet ==
    ASSUME QuietInv, CleanupExpired \/ Close \/ Shutdown \/ Stopped \/ UNCHANGED vars
    PROVE  QuietInv'
<1>1. UNCHANGED <<pc, futures, processes>>
  BY DEF CleanupExpired, Close, Shutdown, Stopped, vars, jobVars, poolVars
<1>2. closer' = "closed" => closer = "closed" \/ futures = {}
  BY DEF CleanupExpired, Close, Shutdown, Stopped, vars, clientVars
<1>. QED  BY <1>1, <1>2 DEF QuietInv, Drained, OwnerInv

LEMMA NextQuiet == IndInv /\ QuietInv /\ [Next]_vars => QuietInv'
<1>. SUFFICES ASSUME IndInv, QuietInv, [Next]_vars PROVE QuietInv'
  OBVIOUS
<1>. USE DEF IndInv, StoreInv, ManagerInv
<1>1. ASSUME NEW j \in JobIds, OwnStep(j)
      PROVE  QuietInv'
  BY <1>1, OwnStepDrained, OwnStepOwner, OtherJobOwner DEF QuietInv
<1>2. CASE CleanupExpired \/ Close \/ Shutdown \/ Stopped \/ UNCHANGED vars
  BY <1>2, GlobalQuiet
<1>. QED  BY <1>1, <1>2 DEF Next, OwnStep

LEMMA DrainedIsQuiet ==
    ASSUME TableInv, QuietInv, closer = "closed"
    PROVE  /\ Busy = {} /\ waiting = <<>> /\ processes = {}
           /\ \A j \in JobIds :
                 /\ pc[j] \in Over \cup {"unborn", "submitting"}
                 /\ At(j, "submitting") \/ status[j] \notin Active \ {"cancelling"}
<1>. USE DEF TableInv
<1>1. ASSUME NEW j \in JobIds
      PROVE  pc[j] \notin Supervising \cup {"waiting"} /\ j \notin processes
  BY <1>1 DEF QuietInv, Drained, OwnerInv
<1>2. processes = {} /\ Busy = {}
  BY <1>1 DEF ManagerTypeOK, Busy
<1>3. waiting = <<>>
  <2>1. ASSUME waiting # <<>> PROVE FALSE
    <3>1. 1 \in 1..Len(waiting) /\ waiting[1] \in JobIds
      BY <2>1, EmptySeq, LenProperties, ElementOfSeq DEF ManagerTypeOK
    <3>. QED  BY <1>1, <3>1 DEF QueueInv, At
  <2>. QED  BY <2>1
<1>4. ASSUME NEW j \in JobIds
      PROVE  pc[j] \in Over \cup {"unborn", "submitting"}
  BY <1>1 DEF ManagerTypeOK, Places
<1>5. ASSUME NEW j \in JobIds
      PROVE  At(j, "submitting") \/ status[j] \notin Active \ {"cancelling"}
  BY <1>4, NoJobAssumption DEF RecordInv, ThreadInv, At, Active, JobStatus
<1>. QED  BY <1>2, <1>3, <1>4, <1>5

(* After close() no supervisor runs or waits and no process is in the      *)
(* table, and only submissions that close() overtook, or the cancellation  *)
(* that got stuck, have an unfinished record.                              *)
THEOREM ManagerClosesQuietly == Spec => []ClosedIsQuiet
<1>1. Init => QuietInv
  BY DEF Init, QuietInv, Drained, OwnerInv, Supervising
<1>2. IndInv /\ QuietInv => ClosedIsQuiet
  BY IndInvTable, DrainedIsQuiet DEF ClosedIsQuiet
<1>. QED  BY <1>1, <1>2, NextQuiet, ManagerInductive, PTL DEF Spec

-----------------------------------------------------------------------------
(* Who answers for a workspace.  Where a job is over, its directory is      *)
(* gone, or goes with a completed record or with whoever took the record;  *)
(* and nobody writes there any more.                                       *)
Claimed(j) == ws[j] = "none" \/ status[j] = "completed" \/ j \in toRemove

Silent(j) == Running(j) => step[j] \in {"boot", "finished"}

(* What is handled at these places is about a job that is not over.        *)
Undecided ==
    {"spawn", "register", "feed", "patchProgress", "patchFinal", "except"}

WorkspaceInv(j) ==
    /\ pc[j] \in BeforeSpawn \cup {"register", "feed", "launchFailed"} =>
           step[j] = "boot" /\ ws[j] = "none"
    /\ pc[j] \in Undecided => status[j] \in Active
    /\ At(j, "patchProgress") => Event(j) \notin FinalEvents
    /\ At(j, "patchFinal") => Event(j) \in FinalEvents
    /\ At(j, "eventCleanup") \/ (pc[j] \in {"loop", "watch"} /\ status[j] \notin Active)
           => Silent(j) /\ chan[j] = <<>> /\ status[j] \notin Active
    /\ pc[j] \in {"loop", "watch"} /\ status[j] \notin Active => Claimed(j)
    /\ At(j, "leave") => Claimed(j) /\ Silent(j)
    /\ At(j, "done") => Claimed(j) /\ ~Running(j)

LEMMA SupervisionWorkspace ==
    ASSUME StoreInv, ManagerTypeOK, NEW j \in JobIds, JobInv(j), WorkspaceInv(j),
           Supervision(j)
    PROVE  WorkspaceInv(j)'
<1>. USE DEF StoreInv, StoreTypeOK, ManagerTypeOK, WorkspaceInv, BeforeSpawn,
             Undecided, Claimed, Silent, At, Goto, Running, clientVars,
             processVars, workerVars
<1>1. CASE Begin(j)
  BY <1>1 DEF Begin, JobInv, ProcessInv
<1>2. CASE Inspect(j)
  BY <1>2 DEF Inspect, Active, Terminal, JobStatus
<1>3. CASE Spawn(j) \/ SpawnFails(j) \/ Register(j)
  BY <1>3 DEF Spawn, SpawnFails, Register, storeVars
<1>4. CASE Feed(j) \/ FeedFails(j)
  BY <1>4 DEF Feed, FeedFails, Step, Kill, storeVars
<1>5. CASE LaunchFailed(j)
  <2>1. pc'[j] = "leave" /\ ws'[j] = "none" /\ step'[j] = "boot"
    BY <1>5 DEF LaunchFailed, RemoveWorkspace
  <2>. QED  BY <2>1
<1>6. CASE IgnoreEvent(j) \/ TakeProgress(j) \/ TakeFinal(j)
  BY <1>6 DEF IgnoreEvent, TakeProgress, TakeFinal, Event, storeVars
<1>7. CASE PatchProgress(j)
  <2>1. CASE EventRaises(j)
    BY <1>7, <2>1 DEF PatchProgress, EventRaises, Handled, storeVars
  <2>2. CASE ~EventRaises(j)
    <3>1. Event(j) \in Events \ FinalEvents
      BY <1>7, ChanTyped DEF PatchProgress, JobInv, EventInHand
    <3>2. status'[j] \in Active
      BY <1>7, <2>2, <3>1, PatchSetsStatus
      DEF PatchProgress, Events, FinalEvents, Active, Terminal, JobStatus
    <3>3. pc'[j] = "watch"
      BY <1>7, <2>2 DEF PatchProgress, Handled
    <3>. QED  BY <3>2, <3>3
  <2>. QED  BY <2>1, <2>2
<1>8. CASE PatchComplete(j) \/ PatchEnded(j)
  <2>1. CASE EventRaises(j)
    BY <1>8, <2>1 DEF PatchComplete, PatchEnded, EventRaises, Handled, storeVars
  <2>2. CASE ~EventRaises(j)
    <3>1. /\ status[j] \in Active /\ chan[j] # <<>> /\ Consume(j)
          /\ UNCHANGED <<ws, proc, step>>
      BY <1>8, <2>2
      DEF PatchComplete, PatchEnded, Handled, JobInv, EventInHand
    <3>2. Event(j) \in FinalEvents => chan'[j] = <<>> /\ step[j] = "finished"
      BY <3>1, ConsumeKeepsFinalLast DEF JobInv, FileInv
    <3>3. CASE PatchComplete(j)
      <4>1. pc'[j] = "watch" /\ status'[j] \in {status[j], "completed"}
        BY <2>2, <3>3, PatchSetsStatus DEF PatchComplete, Handled
      <4>. QED
        BY <3>1, <3>2, <3>3, <4>1
        DEF PatchComplete, FinalEvents, Active, Terminal
    <3>4. CASE PatchEnded(j)
      <4>1. Event(j) \in FinalEvents \ {"complete"}
        BY <3>4 DEF PatchEnded
      <4>2. pc'[j] = "eventCleanup" /\ status'[j] \notin Active
        BY <2>2, <3>4, <4>1, FailedIsFinished DEF PatchEnded, Handled, FinalEvents
      <4>. QED  BY <3>1, <3>2, <4>1, <4>2
    <3>. QED  BY <1>8, <3>3, <3>4
  <2>. QED  BY <2>1, <2>2
<1>9. CASE EventCleanup(j)
  BY <1>9 DEF EventCleanup, RemoveWorkspace, storeVars
<1>10. CASE WatchDeadline(j) \/ WatchCancelled(j) \/ WatchGrace(j) \/ WatchQuiet(j)
  <2>1. /\ UNCHANGED <<status, chan, ws, proc, step, toRemove>>
        /\ pc[j] \in {"loop", "watch"} /\ pc'[j] = "loop"
    BY <1>10 DEF WatchDeadline, WatchCancelled, WatchGrace, WatchQuiet, Watching,
       Watched, Signal, Kill, storeVars
  <2>. QED  BY <2>1
<1>11. CASE Reap(j)
  BY <1>11, NoJobAssumption DEF Reap, Active, Terminal, JobStatus, storeVars
<1>12. CASE RejectTimeout(j) \/ FailStopped(j)
  BY <1>12 DEF RejectTimeout, FailStopped, Settle, PatchRaises, PatchIgnored,
     storeVars
<1>13. CASE FinishCancel(j) \/ Except(j) \/ ExceptFail(j)
  BY <1>13 DEF FinishCancel, Except, ExceptFail
<1>14. CASE Cleanup(j) \/ Leave(j)
  BY <1>14 DEF Cleanup, Leave, Return, DropProcess, RemoveWorkspace, storeVars
<1>. QED  BY <1>1, <1>2, <1>3, <1>4, <1>5, <1>6, <1>7, <1>8, <1>9, <1>10, <1>11,
             <1>12, <1>13, <1>14
          DEF Supervision

LEMMA WorkerWorkspace ==
    ASSUME ManagerTypeOK, NEW j \in JobIds, JobInv(j), WorkspaceInv(j),
           WorkerStep(j)
    PROVE  WorkspaceInv(j)'
<1>. USE DEF WorkspaceInv, Claimed, Silent, At, Running
<1>1. WorkerFrame(j) /\ UNCHANGED <<status, pc, toRemove>>
  <2>1. WorkerFrame(j)
    BY WorkerStepFrame
  <2>. QED  BY <2>1 DEF WorkerFrame, supervision, storeVars, clientVars
<1>2. CASE proc'[j] = "exited" /\ UNCHANGED <<step, chan, ws>>
  BY <1>1, <1>2 DEF Event
<1>3. CASE step[j] \notin {"boot", "finished"}
  <2>1. pc[j] \notin BeforeSpawn \cup {"register", "feed", "launchFailed",
                                       "eventCleanup", "leave", "done"}
    BY <1>1, <1>3 DEF WorkerFrame
  <2>2. pc[j] \in {"loop", "watch"} => status[j] \in Active
    BY <1>1, <1>3 DEF WorkerFrame
  <2>3. pc[j] \in {"patchProgress", "patchFinal"} => Event(j)' = Event(j)
    <3>1. ASSUME NEW e \in Events, chan[j] # <<>>
          PROVE  Head(Append(chan[j], e)) = Head(chan[j])
      <4>1. chan[j] \in Seq(Events) /\ Len(chan[j]) \in Nat \ {0}
        BY <3>1, EmptySeq, LenProperties DEF ManagerTypeOK
      <4>2. Append(chan[j], e)[1] = chan[j][1]
        BY <4>1, AppendProperties
      <4>. QED  BY <4>1, <4>2
    <3>2. chan'[j] = chan[j] \/ \E e \in Events : chan'[j] = Append(chan[j], e)
      BY <1>1 DEF WorkerFrame
    <3>. QED  BY <3>1, <3>2 DEF JobInv, EventInHand, Event
  <2>. QED  BY <1>1, <2>1, <2>2, <2>3
<1>. QED  BY <1>1, <1>2, <1>3 DEF WorkerFrame

(* The record is taken and the files are left to whoever took it.          *)
LEMMA TakenWorkspace ==
    ASSUME NEW j \in JobIds, WorkspaceInv(j), status[j] \in Terminal,
           j \in toRemove', UNCHANGED <<pc[j], proc[j], step[j], chan[j], ws[j]>>,
           status'[j] = NoJob
    PROVE  WorkspaceInv(j)'
BY NoJobAssumption
DEF WorkspaceInv, Claimed, Silent, At, Running, Event, Undecided, Active, Terminal,
    JobStatus

LEMMA RequestWorkspace ==
    ASSUME StoreTypeOK, ManagerTypeOK, NEW j \in JobIds, WorkspaceInv(j),
           Requests(j)
    PROVE  WorkspaceInv(j)'
<1>. USE DEF StoreTypeOK, ManagerTypeOK, jobVars, workerVars, processVars
<1>1. CASE Delete(j)
  BY <1>1, TakenWorkspace DEF Delete, DeleteTerminal, RemoveRecords
<1>2. CASE ~Delete(j)
  <2>1. /\ UNCHANGED <<pc, proc, step, chan>>
        /\ \/ UNCHANGED <<status, ws, toRemove>>
           \/ status'[j] \in Active /\ status[j] \in Active
              /\ UNCHANGED <<ws, toRemove>>
           \/ ws'[j] = "none" /\ UNCHANGED status
    BY <1>2 DEF Requests, Cancel, CancelCall, RequestCancel, SignalCancelled,
       Signal, RemoveFiles, RemoveWorkspace, AgeFinished, Age, CloseCancels,
       clientVars, storeVars, Active, Terminal, JobStatus
  <2>. QED
    BY <2>1 DEF WorkspaceInv, Claimed, Silent, At, Running, Event, Active, Terminal
<1>. QED  BY <1>1, <1>2

LEMMA PoolWorkspace ==
    ASSUME ManagerTypeOK, QueueInv, NEW j \in JobIds, WorkspaceInv(j),
           Admit(j) \/ Submission(j) \/ Start(j)
    PROVE  WorkspaceInv(j)'
<1>1. pc[j] \in {"unborn", "submitting", "waiting"}
  BY HeadIsWaiting DEF Admit, Submission, Enqueue, RefuseClosed, At
<1>2. /\ pc'[j] \in {"submitting", "waiting", "refused", "begin"}
      /\ UNCHANGED workerVars
  BY DEF Admit, Submission, Enqueue, RefuseClosed, Start, Goto, ManagerTypeOK
<1>. QED
  BY <1>1, <1>2 DEF WorkspaceInv, workerVars, processVars, BeforeSpawn, Undecided, At

LEMMA ToRemoveStep ==
    ASSUME ManagerTypeOK, NEW j \in JobIds, OwnStep(j)
    PROVE  toRemove' \in {toRemove, toRemove \cup {j}, toRemove \ {j}}
<1>1. CASE Supervision(j)
  BY <1>1, SupervisionPlaceAfter
<1>2. CASE ~Supervision(j)
  BY <1>2 DEF clientVars, OwnStep, Admit, Submission, Enqueue, RefuseClosed,
     Start, WorkerStep, WorkerOpens, WorkerReports, WorkerRetries,
     WorkerCompletes, WorkerGivesUp, WorkerExits, supervision, Requests, Cancel,
     SignalCancelled, Delete, RemoveFiles, AgeFinished, CloseCancels
<1>. QED  BY <1>1, <1>2

LEMMA OtherJobWorkspace ==
    ASSUME StoreTypeOK, ManagerTypeOK, NEW j \in JobIds, NEW k \in JobIds,
           k # j, WorkspaceInv(k), OwnStep(j)
    PROVE  WorkspaceInv(k)'
<1>1. toRemove' \in {toRemove, toRemove \cup {j}, toRemove \ {j}}
  BY ToRemoveStep
<1>2. SameJob(k)
  BY OtherJob
<1>. QED
  BY <1>1, <1>2 DEF SameJob, WorkspaceInv, Claimed, Silent, At, Running, Event

LEMMA GlobalWorkspace ==
    ASSUME ManagerTypeOK, NEW k \in JobIds, WorkspaceInv(k),
           CleanupExpired \/ Close \/ Shutdown \/ Stopped \/ UNCHANGED vars
    PROVE  WorkspaceInv(k)'
<1>1. UNCHANGED <<pc, proc, step, chan, ws>>
  BY DEF CleanupExpired, Close, Shutdown, Stopped, vars, jobVars, workerVars,
         processVars
<1>2. CASE CleanupExpired /\ k \in Expired
  BY <1>1, <1>2, TakenWorkspace
  DEF CleanupExpired, PurgeExpired, RemoveRecords, Expired, TerminalJobs
<1>3. CASE ~(CleanupExpired /\ k \in Expired)
  <2>1. status'[k] = status[k] /\ (k \in toRemove => k \in toRemove')
    BY <1>3 DEF CleanupExpired, PurgeExpired, RemoveRecords, Close, Shutdown,
       Stopped, vars, storeVars, clientVars
  <2>. QED
    BY <1>1, <2>1 DEF WorkspaceInv, Claimed, Silent, At, Running, Event
<1>. QED  BY <1>2, <1>3

LEMMA NextWorkspace ==
    IndInv /\ (\A k \in JobIds : WorkspaceInv(k)) /\ [Next]_vars
        => \A k \in JobIds : WorkspaceInv(k)'
<1>. SUFFICES ASSUME IndInv, \A k \in JobIds : WorkspaceInv(k), [Next]_vars,
                     NEW k \in JobIds
              PROVE  WorkspaceInv(k)'
  OBVIOUS
<1>. USE DEF IndInv, StoreInv, ManagerInv
<1>1. ASSUME NEW j \in JobIds, OwnStep(j)
      PROVE  WorkspaceInv(k)'
  BY <1>1, OtherJobWorkspace, SupervisionWorkspace, WorkerWorkspace,
     RequestWorkspace, PoolWorkspace
  DEF OwnStep
<1>2. CASE CleanupExpired \/ Close \/ Shutdown \/ Stopped \/ UNCHANGED vars
  BY <1>2, GlobalWorkspace
<1>. QED  BY <1>1, <1>2 DEF Next, OwnStep

(* When a supervisor has returned and its process is gone, no branch of    *)
(* _supervise has left a directory behind that nobody answers for.         *)
THEOREM ManagerLeavesNothing == Spec => []NothingLeftBehind
<1>. DEFINE Inv == \A j \in JobIds : WorkspaceInv(j)
<1>1. Init => Inv
  BY NoJobAssumption
  DEF Init, StoreInit, WorkspaceInv, BeforeSpawn, Undecided, At
<1>2. IndInv /\ Inv /\ [Next]_vars => Inv'
  BY NextWorkspace
<1>3. Inv => NothingLeftBehind
  BY DEF WorkspaceInv, Claimed, NothingLeftBehind
<1>. QED  BY <1>1, <1>2, <1>3, ManagerInductive, PTL DEF Spec

=============================================================================
