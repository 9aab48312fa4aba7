-------------------------- MODULE ManagerInvariants --------------------------
(***************************************************************************)
(* The invariants of one job that make the safety properties of            *)
(* DownloadManager inductive: what each place of a supervisor, and each    *)
(* state of its record, says about the process, its events and its files.  *)
(***************************************************************************)
EXTENDS DownloadManager

(* The message taken from the queue is still the head of chan while it is  *)
(* being handled, so taking it off later takes off a message.              *)
EventInHand(j) == pc[j] \in {"patchProgress", "patchFinal"} => chan[j] # <<>>

(* Only identifiers that submit() returned are used by clients and by      *)
(* close(), and what waits for removal has lost its record for good.       *)
KnownInv(j) ==
    /\ j \in futures \cup toCancel => Known(j)
    /\ j \in toRemove => ~At(j, "unborn") /\ status[j] = NoJob

(* The record against the place of the thread that works on it.            *)
ThreadInv(j) ==
    /\ At(j, "unborn") => status[j] = NoJob
    /\ At(j, "submitting") => status[j] = "queued"
    /\ pc[j] \in {"waiting", "begin", "inspect"} =>
           status[j] \in {"queued", "cancelling"}
    /\ pc[j] \in Over \cup {"finishCancel", "cleanup", "leave"} =>
           status[j] \notin Active \ {"cancelling"}

(* There is no process before it is spawned, and past the loop a process   *)
(* that is still alive has been sent SIGKILL.                              *)
BeforeSpawn ==
    {"unborn", "submitting", "refused", "waiting", "begin", "inspect", "spawn"}

PastLoop ==
    {"launchFailed", "rejectTimeout", "failStopped", "exceptFail",
     "finishCancel", "cleanup", "leave"} \cup Over

ProcessInv(j) ==
    /\ pc[j] \in BeforeSpawn => proc[j] = "none"
    /\ pc[j] \in PastLoop /\ Running(j) => sig[j] = "kill"

(* The worker says nothing after its final event and writes no file after  *)
(* it; a record completed on that event finds a supervisor that will not   *)
(* clean up.                                                               *)
FinalIsLast(j) ==
    \A i \in 1..Len(chan[j]) :
        chan[j][i] \in FinalEvents => i = Len(chan[j]) /\ step[j] = "finished"

SilentBeforeTask(j) ==
    pc[j] \in BeforeSpawn \cup {"register", "feed"} =>
        step[j] = "boot" /\ chan[j] = <<>>

CompletedInv(j) ==
    status[j] = "completed" =>
        /\ ws[j] = "output"
        /\ chan[j] = <<>>
        /\ pc[j] \in {"loop", "watch", "leave", "done", "abandoned"}
        /\ Running(j) => step[j] = "finished"

FileInv(j) == FinalIsLast(j) /\ SilentBeforeTask(j) /\ CompletedInv(j)

JobInv(j) ==
    EventInHand(j) /\ KnownInv(j) /\ ThreadInv(j) /\ ProcessInv(j) /\ FileInv(j)

(* A job is in the work queue once, and its thread is nowhere else.        *)
QueueInv ==
    /\ \A i \in 1..Len(waiting) : At(waiting[i], "waiting")
    /\ \A i, k \in 1..Len(waiting) : waiting[i] = waiting[k] => i = k

(* The inductive invariant of the manager, beside its types and the        *)
(* invariant of the job table.                                             *)
ManagerInv == QueueInv /\ \A j \in JobIds : JobInv(j)

=============================================================================
