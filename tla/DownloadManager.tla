--------------------------- MODULE DownloadManager ---------------------------
(***************************************************************************)
(* services/manager.py: the bounded thread pool whose threads supervise    *)
(* one worker process each, the clients and the cleanup task that act on   *)
(* the same jobs, and the shutdown.  It EXTENDS JobStore: the shared job   *)
(* table and its methods are used as they are there.                       *)
(*                                                                         *)
(* The worker process (workers/download_worker.py running                  *)
(* services/downloader.py) is seen as the supervisor sees it: the events   *)
(* it writes, the files it leaves and how it ends.  What yt-dlp does       *)
(* inside is a free choice among the orders of events that code can emit.  *)
(*                                                                         *)
(* A definition marked "Slip" is not part of the model: it is a plausible  *)
(* mistake in the definition after it, for mutation checks.                *)
(***************************************************************************)
EXTENDS JobStore, Sequences

CONSTANTS
    MaxConcurrent,  \* settings.max_concurrent_jobs, the threads of the pool
    MaxAttempts     \* transfers a worker tries: range(2) in run_download_task

ASSUME MaxConcurrentAssumption == MaxConcurrent \in 1..Capacity
ASSUME MaxAttemptsAssumption == MaxAttempts \in Nat \ {0}

VARIABLES
    pc,          \* per job: where its submission, then its supervisor is
    seen,        \* per job: the snapshot the progress handler read
    timedOut,    \* the jobs whose supervisor has set timed_out
    signalled,   \* per job: signalled_at, None, a time, or a day ahead
    waiting,     \* the executor's work queue
    futures,     \* manager._futures
    processes,   \* the keys of manager._processes
    proc,        \* per job: the worker process
    sig,         \* per job: the strongest signal sent to its process group
    step,        \* per job: how far the worker is in its task
    attempts,    \* per job: the transfers the worker has begun
    chan,        \* per job: event lines written and not yet handled
    ws,          \* per job: the workspace directory
    toSignal,    \* cancel() calls between request_cancel and the signal
    toRemove,    \* jobs removed from the table, files not yet removed
    closer,      \* the progress of close()
    toCancel     \* close(): the futures it has still to cancel

locals == <<seen, timedOut, signalled>>
poolVars == <<waiting, futures>>
clientVars == <<toSignal, toRemove, closer, toCancel>>
processVars == <<proc, sig, step, attempts>>
workerVars == <<processVars, chan, ws>>
vars == <<storeVars, pc, locals, poolVars, processes, clientVars, workerVars>>

-----------------------------------------------------------------------------
(* Where a job's thread of control can be.                                 *)

Supervising ==
    {"begin", "inspect", "spawn", "register", "feed", "launchFailed", "loop",
     "patchProgress", "patchFinal", "eventCleanup", "watch", "rejectTimeout",
     "failStopped", "except", "exceptFail", "finishCancel", "cleanup", "leave"}

(* "abandoned": the supervisor cleaned up while its process was still      *)
(* alive, having sent it SIGKILL.                                          *)
Over == {"done", "abandoned", "refused"}

Places == Supervising \cup Over \cup {"unborn", "submitting", "waiting"}

FinalEvents == {"complete", "rejected", "failed"}
Events == {"downloading", "processing"} \cup FinalEvents

Steps == {"boot", "tasked", "working", "downloading", "processing", "finished"}

ManagerTypeOK ==
    /\ pc \in [JobIds -> Places]
    /\ seen \in [JobIds -> JobStatus \cup {NoJob}]
    /\ timedOut \subseteq JobIds
    /\ signalled \in [JobIds -> {"no", "sent", "killed"}]
    /\ waiting \in Seq(JobIds)
    /\ futures \subseteq JobIds
    /\ processes \subseteq JobIds
    /\ proc \in [JobIds -> {"none", "running", "exited"}]
    /\ sig \in [JobIds -> {"none", "term", "kill"}]
    /\ step \in [JobIds -> Steps]
    /\ attempts \in [JobIds -> 1..MaxAttempts]
    /\ chan \in [JobIds -> Seq(Events)]
    /\ ws \in [JobIds -> {"none", "partial", "output"}]
    /\ toSignal \subseteq JobIds
    /\ toRemove \subseteq JobIds
    /\ closer \in {"open", "closing", "closed"}
    /\ toCancel \subseteq JobIds

Init ==
    /\ StoreInit
    /\ pc = [j \in JobIds |-> "unborn"]
    /\ seen = [j \in JobIds |-> NoJob]
    /\ timedOut = {}
    /\ signalled = [j \in JobIds |-> "no"]
    /\ waiting = <<>>
    /\ futures = {}
    /\ processes = {}
    /\ proc = [j \in JobIds |-> "none"]
    /\ sig = [j \in JobIds |-> "none"]
    /\ step = [j \in JobIds |-> "boot"]
    /\ attempts = [j \in JobIds |-> 1]
    /\ chan = [j \in JobIds |-> <<>>]
    /\ ws = [j \in JobIds |-> "none"]
    /\ toSignal = {}
    /\ toRemove = {}
    /\ closer = "open"
    /\ toCancel = {}

At(j, place) == pc[j] = place
Goto(j, place) == pc' = [pc EXCEPT ![j] = place] /\ UNCHANGED locals

(* proc is "exited" when poll() is not None.                               *)
Running(j) == proc[j] = "running"
Busy == {j \in JobIds : pc[j] \in Supervising}

(* _signal_process and _kill_process: SIGTERM or SIGKILL to the process    *)
(* group unless the process is already dead.  Delivery takes time.         *)
Signal(j) ==
    /\ sig' = [sig EXCEPT ![j] =
                  IF Running(j) /\ @ = "none" THEN "term" ELSE @]
    /\ UNCHANGED <<proc, step, attempts>>

Kill(j) ==
    /\ sig' = [sig EXCEPT ![j] = IF Running(j) THEN "kill" ELSE @]
    /\ UNCHANGED <<proc, step, attempts>>

(* The worker's own progress.                                              *)
Step(j, s) ==
    /\ step' = [step EXCEPT ![j] = s]
    /\ UNCHANGED <<proc, sig, attempts>>

(* _remove_workspace                                                       *)
RemoveWorkspace(j) == ws' = [ws EXCEPT ![j] = "none"]

-----------------------------------------------------------------------------
(* submit()                                                                *)

(* The record is drawn and admitted.  A full table raises QueueFullError   *)
(* and changes nothing.                                                    *)
Admit(j) ==
    /\ At(j, "unborn")
    /\ TryCreate(j)
    /\ Goto(j, "submitting")
    /\ UNCHANGED <<poolVars, processes, clientVars, workerVars>>

(* Under the manager's lock: the future is made and registered ...         *)
Enqueue(j) ==
    /\ At(j, "submitting")
    /\ closer = "open"
    /\ waiting' = Append(waiting, j)
    /\ futures' = futures \cup {j}
    /\ Goto(j, "waiting")
    /\ UNCHANGED <<storeVars, processes, clientVars, workerVars>>

(* ... or close() came first, and the record fails.                        *)
RefuseClosed(j) ==
    /\ At(j, "submitting")
    /\ closer # "open"
    /\ Patch(j, "failed")
    /\ Goto(j, "refused")
    /\ UNCHANGED <<poolVars, processes, clientVars, workerVars>>

(* A free thread of the pool takes the oldest work item.                   *)
Start(j) ==
    /\ waiting # <<>>
    /\ j = Head(waiting)
    /\ Cardinality(Busy) < MaxConcurrent
    /\ waiting' = Tail(waiting)
    /\ Goto(j, "begin")
    /\ UNCHANGED <<storeVars, futures, processes, clientVars, workerVars>>

-----------------------------------------------------------------------------
(* _supervise(), up to the running worker                                  *)

Begin(j) ==
    /\ At(j, "begin")
    /\ Goto(j, IF status[j] = NoJob THEN "leave"
               ELSE IF CancelRequested(j) THEN "finishCancel" ELSE "inspect")
    /\ UNCHANGED <<storeVars, poolVars, clientVars, processes, workerVars>>

Inspect(j) ==
    /\ At(j, "inspect")
    /\ PatchReturns(j, {"queued"}, "inspecting")
    /\ Goto(j, IF status'[j] = "inspecting" THEN "spawn" ELSE "finishCancel")
    /\ UNCHANGED <<poolVars, clientVars, processes, workerVars>>

(* _launch_worker: Popen, which may fail.                                  *)
Spawn(j) ==
    /\ At(j, "spawn")
    /\ proc' = [proc EXCEPT ![j] = "running"]
    /\ Goto(j, "register")
    /\ UNCHANGED <<storeVars, poolVars, clientVars, processes, sig, step, attempts,
                   chan, ws>>

SpawnFails(j) ==
    /\ At(j, "spawn")
    /\ Goto(j, "launchFailed")
    /\ UNCHANGED <<storeVars, poolVars, clientVars, processes, workerVars>>

(* The process becomes visible to cancel().  The patch that follows        *)
(* records a process id only.                                              *)
Register(j) ==
    /\ At(j, "register")
    /\ processes' = processes \cup {j}
    /\ Goto(j, "feed")
    /\ UNCHANGED <<storeVars, poolVars, clientVars, workerVars>>

(* The reader threads start and the task is written to the worker's stdin. *)
Feed(j) ==
    /\ At(j, "feed")
    /\ Running(j)
    /\ Step(j, "tasked")
    /\ Goto(j, "loop")
    /\ UNCHANGED <<storeVars, poolVars, clientVars, processes, chan, ws>>

(* Slip: the partial process is not torn down.                             *)
FeedFailsUnkilled(j) ==
    /\ At(j, "feed")
    /\ processes' = processes \ {j}
    /\ Goto(j, "launchFailed")
    /\ UNCHANGED <<storeVars, poolVars, clientVars, workerVars>>

(* A thread cannot be started, or the write meets a dead process: the      *)
(* partial process is torn down and the exception goes to _supervise.      *)
FeedFails(j) ==
    /\ At(j, "feed")
    /\ Kill(j)
    /\ processes' = processes \ {j}
    /\ Goto(j, "launchFailed")
    /\ UNCHANGED <<storeVars, poolVars, clientVars, chan, ws>>

(* The first except clause of _supervise.  On a cancelling record the      *)
(* patch itself raises: nothing more of the clause runs.                   *)
LaunchFailed(j) ==
    /\ At(j, "launchFailed")
    /\ IF PatchRaises(j, Active, "failed")
       THEN UNCHANGED <<storeVars, ws>>
       ELSE /\ PatchReturns(j, Active, "failed")
            /\ RemoveWorkspace(j)
    /\ Goto(j, "leave")
    /\ UNCHANGED <<poolVars, clientVars, processes, processVars, chan>>

-----------------------------------------------------------------------------
(* _supervise(): one iteration takes at most one message, then looks at    *)
(* the clock and at the cancellation event.                                *)

Event(j) == Head(chan[j])
Consume(j) == chan' = [chan EXCEPT ![j] = Tail(@)]
Live == {"inspecting", "downloading", "processing"}

(* _handle_event_line ignores every event of a cancelled job, and progress *)
(* of a job whose snapshot is not live.                                    *)
IgnoreEvent(j) ==
    /\ At(j, "loop")
    /\ chan[j] # <<>>
    /\ \/ CancelRequested(j)
       \/ Event(j) \notin FinalEvents /\ status[j] \notin Active \ {"cancelling"}
    /\ Consume(j)
    /\ Goto(j, "watch")
    /\ UNCHANGED <<storeVars, poolVars, processes, clientVars, processVars, ws>>

(* The cancellation test passed.  For progress the snapshot is read too.   *)
TakeProgress(j) ==
    /\ At(j, "loop")
    /\ chan[j] # <<>>
    /\ Event(j) \notin FinalEvents
    /\ ~CancelRequested(j)
    /\ status[j] \in Active \ {"cancelling"}
    /\ pc' = [pc EXCEPT ![j] = "patchProgress"]
    /\ seen' = [seen EXCEPT ![j] = status[j]]
    /\ UNCHANGED <<storeVars, timedOut, signalled, poolVars, processes, clientVars, workerVars>>

TakeFinal(j) ==
    /\ At(j, "loop")
    /\ chan[j] # <<>>
    /\ Event(j) \in FinalEvents
    /\ ~CancelRequested(j)
    /\ Goto(j, "patchFinal")
    /\ UNCHANGED <<storeVars, poolVars, processes, clientVars, workerVars>>

(* A patch that raises inside the loop lands in the second except clause.  *)
Handled(j, place) ==
    /\ pc' = [pc EXCEPT ![j] = place]
    /\ seen' = [seen EXCEPT ![j] = NoJob]
    /\ UNCHANGED <<timedOut, signalled, poolVars, processes, clientVars,
                   processVars, ws>>

EventRaises(j) ==
    /\ Handled(j, "except")
    /\ UNCHANGED <<storeVars, chan>>

PatchProgress(j) ==
    /\ At(j, "patchProgress")
    /\ IF PatchRaises(j, {seen[j]}, Event(j))
       THEN EventRaises(j)
       ELSE /\ PatchReturns(j, {seen[j]}, Event(j))
            /\ Consume(j)
            /\ Handled(j, "watch")

(* "complete": the output is validated inside the workspace, then recorded *)
PatchComplete(j) ==
    /\ At(j, "patchFinal")
    /\ Event(j) = "complete"
    /\ IF ws[j] # "output" \/ PatchRaises(j, Live, "completed")
       THEN EventRaises(j)
       ELSE /\ PatchReturns(j, Live, "completed")
            /\ Consume(j)
            /\ Handled(j, "watch")

(* "rejected" and "failed": a job cancelled since the test above raises.   *)
PatchEnded(j) ==
    /\ At(j, "patchFinal")
    /\ Event(j) # "complete"
    /\ IF PatchRaises(j, Active, Event(j))
       THEN EventRaises(j)
       ELSE /\ PatchReturns(j, Active, Event(j))
            /\ Consume(j)
            /\ Handled(j, "eventCleanup")

EventCleanup(j) ==
    /\ At(j, "eventCleanup")
    /\ RemoveWorkspace(j)
    /\ Goto(j, "watch")
    /\ UNCHANGED <<storeVars, poolVars, processes, clientVars, processVars, chan>>

(* The end of an iteration, after a message or after a tenth of a second   *)
(* without one.                                                            *)
Watching(j) == At(j, "watch") \/ (At(j, "loop") /\ chan[j] = <<>>)

Watched(j) ==
    /\ pc' = [pc EXCEPT ![j] = "loop"]
    /\ UNCHANGED <<storeVars, seen, poolVars, processes, clientVars, chan, ws>>

Mark(j, s) == signalled' = [signalled EXCEPT ![j] = s]

(* Slips: the deadline is noted and no signal sent; the grace period ends  *)
(* in another SIGTERM.                                                     *)
WatchDeadlineOnly(j) ==
    /\ Watching(j) /\ j \notin timedOut
    /\ timedOut' = timedOut \cup {j}
    /\ UNCHANGED <<signalled, processVars>>
    /\ Watched(j)

WatchGraceTerm(j) ==
    /\ Watching(j) /\ signalled[j] = "sent"
    /\ Signal(j) /\ Mark(j, "killed")
    /\ UNCHANGED timedOut
    /\ Watched(j)

WatchDeadline(j) ==
    /\ Watching(j) /\ j \notin timedOut
    /\ timedOut' = timedOut \cup {j}
    /\ Signal(j) /\ Mark(j, "sent")
    /\ Watched(j)

WatchCancelled(j) ==
    /\ Watching(j) /\ CancelRequested(j) /\ signalled[j] = "no"
    /\ Signal(j) /\ Mark(j, "sent")
    /\ UNCHANGED timedOut
    /\ Watched(j)

WatchGrace(j) ==
    /\ Watching(j) /\ signalled[j] = "sent"
    /\ Kill(j) /\ Mark(j, "killed")
    /\ UNCHANGED timedOut
    /\ Watched(j)

WatchQuiet(j) ==
    /\ At(j, "watch")
    /\ ~(CancelRequested(j) /\ signalled[j] = "no")
    /\ UNCHANGED <<timedOut, signalled, processVars>>
    /\ Watched(j)

-----------------------------------------------------------------------------
(* _supervise(), after the loop                                            *)

(* Slip: the timeout is settled without a look at the record's status.     *)
ReapTimedOutFirst(j) ==
    /\ At(j, "loop")
    /\ proc[j] = "exited"
    /\ chan[j] = <<>>
    /\ Goto(j, IF status[j] = NoJob THEN "cleanup"
               ELSE IF CancelRequested(j) THEN "finishCancel"
               ELSE IF j \in timedOut THEN "rejectTimeout"
               ELSE IF status[j] \in Terminal THEN "leave" ELSE "failStopped")
    /\ UNCHANGED <<storeVars, poolVars, processes, clientVars, workerVars>>

(* The process is reaped, both pipes are at their end and every line is    *)
(* handled: the branch is chosen on the record and the cancellation event. *)
Reap(j) ==
    /\ At(j, "loop")
    /\ proc[j] = "exited"
    /\ chan[j] = <<>>
    /\ Goto(j, IF status[j] = NoJob THEN "cleanup"
               ELSE IF CancelRequested(j) THEN "finishCancel"
               ELSE IF status[j] \in Terminal THEN "leave"
               ELSE IF j \in timedOut THEN "rejectTimeout" ELSE "failStopped")
    /\ UNCHANGED <<storeVars, poolVars, processes, clientVars, workerVars>>

(* Slip: the record is settled and the workspace forgotten.                *)
SettleKeepsFiles(j, next) ==
    /\ IF PatchRaises(j, Active, next)
       THEN Goto(j, "except") /\ UNCHANGED storeVars
       ELSE PatchReturns(j, Active, next) /\ Goto(j, "leave")
    /\ UNCHANGED <<poolVars, processes, clientVars, workerVars>>

Settle(j, next) ==
    /\ IF PatchRaises(j, Active, next)
       THEN Goto(j, "except") /\ UNCHANGED storeVars
       ELSE PatchReturns(j, Active, next) /\ Goto(j, "cleanup")
    /\ UNCHANGED <<poolVars, processes, clientVars, workerVars>>

RejectTimeout(j) == At(j, "rejectTimeout") /\ Settle(j, "rejected")
FailStopped(j) == At(j, "failStopped") /\ Settle(j, "failed")

(* _finish_cancel                                                          *)
FinishCancel(j) ==
    /\ At(j, "finishCancel")
    /\ IF status[j] \in {"cancelling", "queued"}
       THEN Patch(j, "cancelled")
       ELSE UNCHANGED storeVars
    /\ Goto(j, "cleanup")
    /\ UNCHANGED <<poolVars, processes, clientVars, workerVars>>

(* Slips: the clause kills but leaves the record; or tends to the record   *)
(* but leaves the process.                                                 *)
ExceptOnlyKills(j) ==
    /\ At(j, "except")
    /\ Kill(j)
    /\ Goto(j, "leave")
    /\ UNCHANGED <<storeVars, poolVars, processes, clientVars, chan, ws>>

ExceptSparesProcess(j) ==
    /\ At(j, "except")
    /\ Goto(j, IF status[j] \notin Active THEN "leave"
               ELSE IF CancelRequested(j) THEN "finishCancel" ELSE "exceptFail")
    /\ UNCHANGED <<storeVars, poolVars, processes, clientVars, workerVars>>

(* The second except clause: the process is killed and not waited for.     *)
Except(j) ==
    /\ At(j, "except")
    /\ Kill(j)
    /\ Goto(j, IF status[j] \notin Active THEN "leave"
               ELSE IF CancelRequested(j) THEN "finishCancel" ELSE "exceptFail")
    /\ UNCHANGED <<storeVars, poolVars, processes, clientVars, chan, ws>>

ExceptFail(j) ==
    /\ At(j, "exceptFail")
    /\ IF PatchRaises(j, Active, "failed")
       THEN UNCHANGED storeVars
       ELSE PatchReturns(j, Active, "failed")
    /\ Goto(j, "cleanup")
    /\ UNCHANGED <<poolVars, processes, clientVars, workerVars>>

(* Slip: the future is not forgotten.                                      *)
ReturnKeepsFuture(j) ==
    /\ processes' = processes \ {j}
    /\ pc' = [pc EXCEPT ![j] = IF Running(j) THEN "abandoned" ELSE "done"]
    /\ chan' = [chan EXCEPT ![j] = <<>>]
    /\ UNCHANGED <<storeVars, locals, poolVars, clientVars, processVars>>

(* The finally clause and the future's callback: the thread is free again, *)
(* the locals, the message queue and a dead process are garbage.           *)
DropProcess(j) ==
    /\ proc' = [proc EXCEPT ![j] = "none"]
    /\ sig' = [sig EXCEPT ![j] = "none"]
    /\ step' = [step EXCEPT ![j] = "boot"]
    /\ attempts' = [attempts EXCEPT ![j] = 1]

Return(j) ==
    /\ processes' = processes \ {j}
    /\ futures' = futures \ {j}
    /\ pc' = [pc EXCEPT ![j] = IF Running(j) THEN "abandoned" ELSE "done"]
    /\ timedOut' = timedOut \ {j}
    /\ signalled' = [signalled EXCEPT ![j] = "no"]
    /\ chan' = [chan EXCEPT ![j] = <<>>]
    /\ IF Running(j) THEN UNCHANGED processVars ELSE DropProcess(j)
    /\ UNCHANGED <<storeVars, seen, waiting, clientVars>>

Cleanup(j) == At(j, "cleanup") /\ RemoveWorkspace(j) /\ Return(j)

Leave(j) == At(j, "leave") /\ UNCHANGED ws /\ Return(j)

-----------------------------------------------------------------------------
(* The worker process.  main() runs run_download_task, which emits any     *)
(* progress yt-dlp reports and then exactly one final event.  Repeated     *)
(* progress of one kind changes nothing more than the first and is left    *)
(* out.                                                                    *)

supervision == <<storeVars, pc, locals, poolVars, processes, clientVars>>

Emit(j, e) == chan' = [chan EXCEPT ![j] = Append(@, e)]
Transferring == {"working", "downloading", "processing"}

(* validate_url passed; the workspace is made.                             *)
WorkerOpens(j) ==
    /\ Running(j) /\ step[j] = "tasked"
    /\ Step(j, "working")
    /\ ws' = [ws EXCEPT ![j] = "partial"]
    /\ UNCHANGED <<supervision, chan>>

(* progress_hook and postprocessor_hook, with the files written so far.    *)
WorkerReports(j, e) ==
    /\ Running(j)
    /\ \/ e = "downloading" /\ step[j] = "working"
       \/ e = "processing" /\ step[j] \in {"working", "downloading"}
    /\ Step(j, e)
    /\ Emit(j, e)
    /\ ws' = [ws EXCEPT ![j] = "partial"]
    /\ UNCHANGED supervision

(* Slip: the retry is not counted.                                         *)
WorkerRetriesFreely(j) ==
    /\ Running(j) /\ step[j] \in Transferring
    /\ step' = [step EXCEPT ![j] = "working"]
    /\ attempts' = [attempts EXCEPT ![j] = @ + 1]
    /\ UNCHANGED <<supervision, proc, sig, chan, ws>>

(* A transient DownloadError: the partial output is cleared, the transfer  *)
(* starts over.                                                            *)
WorkerRetries(j) ==
    /\ Running(j) /\ step[j] \in Transferring
    /\ attempts[j] < MaxAttempts
    /\ step' = [step EXCEPT ![j] = "working"]
    /\ attempts' = [attempts EXCEPT ![j] = @ + 1]
    /\ UNCHANGED <<supervision, proc, sig, chan, ws>>

(* The output exists inside the workspace; the cookie copy is gone.        *)
WorkerCompletes(j) ==
    /\ Running(j) /\ step[j] \in Transferring
    /\ ws[j] # "none"
    /\ Step(j, "finished")
    /\ Emit(j, "complete")
    /\ ws' = [ws EXCEPT ![j] = "output"]
    /\ UNCHANGED supervision

(* A policy rejection or an error, from validation on.                     *)
WorkerGivesUp(j, e) ==
    /\ Running(j) /\ step[j] \in Transferring \cup {"tasked"}
    /\ Step(j, "finished")
    /\ Emit(j, e)
    /\ UNCHANGED <<supervision, ws>>

(* The process ends: by itself, by a signal, or by a crash at any time.    *)
WorkerExits(j) ==
    /\ Running(j)
    /\ proc' = [proc EXCEPT ![j] = "exited"]
    /\ UNCHANGED <<supervision, sig, step, attempts, chan, ws>>

WorkerStep(j) ==
    \/ WorkerOpens(j)
    \/ \E e \in {"downloading", "processing"} : WorkerReports(j, e)
    \/ WorkerRetries(j)
    \/ WorkerCompletes(j)
    \/ \E e \in {"rejected", "failed"} : WorkerGivesUp(j, e)
    \/ WorkerExits(j)

-----------------------------------------------------------------------------
(* Clients, the cleanup task and close().                                  *)

jobVars == <<pc, locals, poolVars, processes, workerVars>>

(* The caller of submit() has the identifier once submit() has returned.   *)
Known(j) == pc[j] \notin {"unborn", "submitting", "refused"}

(* delete_job on an active job: cancel().  A cancel that finds the job     *)
(* finished meanwhile returns the record and changes nothing.              *)
CancelCall(j) ==
    /\ RequestCancel(j)
    /\ toSignal' = toSignal \cup {j}

Cancel(j) ==
    /\ Known(j)
    /\ CancelCall(j)
    /\ UNCHANGED <<toRemove, closer, toCancel, jobVars>>

(* The rest of cancel(): the process is looked up and signalled.           *)
SignalCancelled(j) ==
    /\ j \in toSignal
    /\ toSignal' = toSignal \ {j}
    /\ IF j \in processes THEN Signal(j) ELSE UNCHANGED processVars
    /\ UNCHANGED <<storeVars, pc, locals, poolVars, processes, chan, ws, toRemove,
                   closer, toCancel>>

(* delete_job on a finished job, and the cleanup task: the records go      *)
(* first, the files after.                                                 *)
Delete(j) ==
    /\ Known(j)
    /\ DeleteTerminal(j)
    /\ toRemove' = toRemove \cup {j}
    /\ UNCHANGED <<toSignal, closer, toCancel, jobVars>>

CleanupExpired ==
    /\ PurgeExpired
    /\ toRemove' = toRemove \cup Expired
    /\ UNCHANGED <<toSignal, closer, toCancel, jobVars>>

RemoveFiles(j) ==
    /\ j \in toRemove
    /\ toRemove' = toRemove \ {j}
    /\ RemoveWorkspace(j)
    /\ UNCHANGED <<storeVars, pc, locals, poolVars, processes, processVars, chan,
                   toSignal, closer, toCancel>>

(* Every transition renews updated_at, so only a finished record's age is  *)
(* ever looked at.                                                         *)
AgeFinished(j) ==
    /\ status[j] \in Terminal
    /\ Age(j)
    /\ UNCHANGED <<clientVars, jobVars>>

Close ==
    /\ closer = "open"
    /\ closer' = "closing"
    /\ toCancel' = futures
    /\ UNCHANGED <<storeVars, toSignal, toRemove, jobVars>>

CloseCancels(j) ==
    /\ j \in toCancel
    /\ toCancel' = toCancel \ {j}
    /\ IF status[j] \in Active
       THEN CancelCall(j)
       ELSE UNCHANGED <<storeVars, toSignal>>
    /\ UNCHANGED <<toRemove, closer, jobVars>>

(* Slip: executor.shutdown(wait=False).                                    *)
ShutdownAtOnce ==
    /\ closer = "closing"
    /\ toCancel = {}
    /\ closer' = "closed"
    /\ UNCHANGED <<storeVars, toSignal, toRemove, toCancel, jobVars>>

(* executor.shutdown(wait=True)                                            *)
Shutdown ==
    /\ closer = "closing"
    /\ toCancel = {}
    /\ futures = {}
    /\ closer' = "closed"
    /\ UNCHANGED <<storeVars, toSignal, toRemove, toCancel, jobVars>>

(* The service has stopped.                                                *)
Stopped == closer = "closed" /\ UNCHANGED vars

-----------------------------------------------------------------------------
Submission(j) == Enqueue(j) \/ RefuseClosed(j)

Supervision(j) ==
    \/ Begin(j) \/ Inspect(j)
    \/ Spawn(j) \/ SpawnFails(j) \/ Register(j)
    \/ Feed(j) \/ FeedFails(j) \/ LaunchFailed(j)
    \/ IgnoreEvent(j) \/ TakeProgress(j) \/ TakeFinal(j)
    \/ PatchProgress(j) \/ PatchComplete(j) \/ PatchEnded(j) \/ EventCleanup(j)
    \/ WatchDeadline(j) \/ WatchCancelled(j) \/ WatchGrace(j) \/ WatchQuiet(j)
    \/ Reap(j) \/ RejectTimeout(j) \/ FailStopped(j) \/ FinishCancel(j)
    \/ Except(j) \/ ExceptFail(j) \/ Cleanup(j) \/ Leave(j)

Requests(j) ==
    \/ Cancel(j) \/ SignalCancelled(j)
    \/ Delete(j) \/ RemoveFiles(j) \/ AgeFinished(j)
    \/ CloseCancels(j)

Next ==
    \/ \E j \in JobIds :
          \/ Admit(j) \/ Submission(j) \/ Start(j)
          \/ Supervision(j)
          \/ WorkerStep(j)
          \/ Requests(j)
    \/ CleanupExpired \/ Close \/ Shutdown \/ Stopped

Spec == Init /\ [][Next]_vars

(* Threads keep running.  A clock reading eventually passes the deadline   *)
(* and the grace period.  A process that returned from main() or was sent  *)
(* SIGKILL ends; nothing is assumed of one that only got SIGTERM, or of    *)
(* one that is still working.                                              *)
ProcessEnds(j) ==
    /\ step[j] = "finished" \/ sig[j] = "kill"
    /\ WorkerExits(j)

Fairness ==
    /\ \A j \in JobIds :
          /\ WF_vars(Submission(j)) /\ WF_vars(Start(j))
          /\ WF_vars(Supervision(j))
          /\ WF_vars(WatchDeadline(j)) /\ WF_vars(WatchGrace(j))
          /\ WF_vars(ProcessEnds(j))
          /\ WF_vars(SignalCancelled(j)) /\ WF_vars(RemoveFiles(j))
          /\ WF_vars(CloseCancels(j))
    /\ WF_vars(Shutdown)

FairSpec == Spec /\ Fairness

-----------------------------------------------------------------------------
(* Safety.                                                                 *)

Unsupervised(j) == pc[j] \in Over

(* A finished supervision never leaves a record in a state that only a     *)
(* supervisor can move on, so no slot of the table is lost to it.  (A      *)
(* cancelling record is the exception, CancellingIsSupervised.)            *)
ActiveIsSupervised ==
    \A j \in JobIds : status[j] \in Active \ {"cancelling"} => ~Unsupervised(j)

CancellingIsSupervised ==
    \A j \in JobIds : status[j] = "cancelling" => ~Unsupervised(j)

(* As long as a record says completed, its file is there: no late event,   *)
(* timeout, cancellation or cleanup of the same job takes it away.         *)
CompletedHasFile ==
    \A j \in JobIds : status[j] = "completed" => ws[j] = "output"

(* When a supervisor has returned after its process ended, the workspace   *)
(* survives only with a completed record, or until the client or cleanup   *)
(* that took the record has removed it.                                    *)
NothingLeftBehind ==
    \A j \in JobIds :
        At(j, "done") /\ status[j] # "completed" /\ j \notin toRemove
            => ws[j] = "none"

(* The executor's own queue is unbounded: what bounds it is that every     *)
(* job in it still counts against the table's capacity.                    *)
BacklogBounded ==
    /\ \A i \in 1..Len(waiting) : status[waiting[i]] \in {"queued", "cancelling"}
    /\ Len(waiting) <= Capacity

(* A process outlives its supervisor only with SIGKILL on its way: nobody   *)
(* else could stop it.                                                     *)
NoStrayWorker ==
    \A j \in JobIds :
        Running(j) /\ sig[j] # "kill" => pc[j] \in Supervising

(* No more workers run together than the service was configured for,       *)
(* those already killed aside (README.md:265, "Child workers allowed to    *)
(* run together").  The pool bounds threads; this says that every thread   *)
(* it gives back was the end of a worker.                                  *)
WorkersBounded ==
    Cardinality({j \in JobIds : Running(j) /\ sig[j] # "kill"}) <= MaxConcurrent

(* After close() returns nothing runs and nothing waits; the only records  *)
(* not finished are of submissions that close() overtook.                  *)
ClosedIsQuiet ==
    closer = "closed" =>
        /\ Busy = {} /\ waiting = <<>> /\ processes = {}
        /\ \A j \in JobIds :
              At(j, "submitting") \/ status[j] \notin Active \ {"cancelling"}

(* What a client sees of a job, and what it may fetch: the steps of the    *)
(* manager are steps of the contract.                                      *)
Phase(j) ==
    IF status[j] = NoJob
    THEN IF At(j, "unborn") THEN "unknown" ELSE "forgotten"
    ELSE IF status[j] \in Active \ {"cancelling"} THEN "pending" ELSE status[j]

Deliverable == {j \in JobIds : status[j] = "completed" /\ ws[j] = "output"}

Contract == INSTANCE JobContract WITH
                phase <- [j \in JobIds |-> Phase(j)],
                deliverable <- Deliverable

ImplementsContract == Contract!Spec

-----------------------------------------------------------------------------
(* Liveness, under Fairness.                                               *)

(* Every accepted job gives its future and its thread back: a worker that  *)
(* hangs, or ignores SIGTERM, is stopped by the deadline, the grace period *)
(* and SIGKILL.                                                            *)
SupervisionEnds == \A j \in JobIds : j \in futures ~> j \notin futures

(* A job nobody cancels reaches a final status.                            *)
AdmittedFinishes ==
    \A j \in JobIds :
        status[j] = "queued" ~> status[j] \notin Active \ {"cancelling"}

(* close() returns.                                                        *)
ShutdownEnds == closer = "closing" ~> closer = "closed"

(* docs/api.md on DELETE of an active job: "Poll that location until       *)
(* `cancelled`."                                                           *)
CancellationFinishes ==
    \A j \in JobIds : status[j] = "cancelling" ~> status[j] # "cancelling"

=============================================================================
