----------------------------- MODULE DirectStream -----------------------------
(***************************************************************************)
(* api/routes.py, _direct_download_stream: with settings.serverless the    *)
(* answer to a submission is a stream whose generator follows the job,     *)
(* sends the file and takes record and workspace away.  It EXTENDS         *)
(* DownloadManager: the generator is one more client of the job table and  *)
(* of the manager, and the cleanup task, the other routes and the shutdown *)
(* act on the same job between any two of its steps.                       *)
(*                                                                         *)
(* The generator runs from one yield to the next; the client may go away   *)
(* at a yield, which closes the generator there, or before the first one,  *)
(* when there is no generator frame yet whose finally clause would run.    *)
(*                                                                         *)
(* A definition marked "Slip" is not part of the model: it is a plausible  *)
(* mistake in the definition after it, for mutation checks.                *)
(***************************************************************************)
EXTENDS DownloadManager

VARIABLES
    at,    \* per job: where its generator is
    told   \* per job: the status of the snapshot the loop holds, job.status

streamVars == <<at, told>>
allVars == <<vars, streamVars>>

(* "looking": at the top of the loop.  "told", "announced", "sending": at  *)
(* a yield, of a snapshot or heartbeat, of the file event, of a chunk.     *)
(* "dropped": the client was gone before the generator started.            *)
Open == {"looking", "told", "checked", "announced", "sending"}
Closing == {"finally", "cancel", "delete"}
Sites == {"none"} \cup Open \cup Closing \cup {"over", "dropped"}

StreamTypeOK ==
    /\ at \in [JobIds -> Sites]
    /\ told \in [JobIds -> JobStatus]

StreamInit ==
    /\ Init
    /\ at = [j \in JobIds |-> "none"]
    /\ told = [j \in JobIds |-> "queued"]

MoveTo(j, site) == at' = [at EXCEPT ![j] = site]
Proceed(j, site) == MoveTo(j, site) /\ UNCHANGED <<vars, told>>

-----------------------------------------------------------------------------
(* The response starts to read the generator, or finds nobody to send to.  *)
Begins(j) == at[j] = "none" /\ Known(j) /\ Proceed(j, "looking")

NeverBegins(j) == at[j] = "none" /\ Known(j) /\ Proceed(j, "dropped")

(* Slip: without the test for None.                                        *)
LooksOnly(j) ==
    /\ at[j] = "looking"
    /\ MoveTo(j, "told")
    /\ told' = [told EXCEPT ![j] = status[j]]
    /\ UNCHANGED vars

(* store.get(), and the snapshot, the heartbeat or the error event.        *)
Looks(j) ==
    /\ at[j] = "looking"
    /\ IF status[j] = NoJob
       THEN MoveTo(j, "finally") /\ UNCHANGED told
       ELSE MoveTo(j, "told") /\ told' = [told EXCEPT ![j] = status[j]]
    /\ UNCHANGED vars

(* Slip: only a completed job ends the loop.                               *)
ContinuesUntilCompleted(j) ==
    /\ at[j] = "told"
    /\ \/ told[j] # "completed" /\ Proceed(j, "looking")
       \/ told[j] = "completed" /\ Proceed(j, "checked")

(* The test of the snapshot; _completed_output() finds the file or not.    *)
Continues(j) ==
    /\ at[j] = "told"
    /\ \/ told[j] \notin Terminal /\ Proceed(j, "looking")
       \/ told[j] = "completed" /\ ws[j] = "output" /\ Proceed(j, "checked")
       \/ told[j] = "completed" /\ ws[j] # "output" /\ Proceed(j, "finally")
       \/ told[j] \in Terminal \ {"completed"} /\ Proceed(j, "finally")

(* output.stat() for the file event, then output.open(): either raises if  *)
(* the file is gone by now.  An open file is read to its end even if its   *)
(* name is removed.                                                        *)
Announces(j) ==
    /\ at[j] = "checked"
    /\ Proceed(j, IF ws[j] = "output" THEN "announced" ELSE "finally")

Opens(j) ==
    /\ at[j] = "announced"
    /\ Proceed(j, IF ws[j] = "output" THEN "sending" ELSE "finally")

Sends(j) == at[j] = "sending" /\ Proceed(j, "finally")

(* GeneratorExit at a yield                                                *)
GoesAway(j) ==
    /\ at[j] \in {"told", "announced", "sending"}
    /\ Proceed(j, "finally")

-----------------------------------------------------------------------------
(* The finally clause: it reads the record again, and acts on what it read. *)

(* Slip: only finished jobs are taken care of.                             *)
FinallyDeletes(j) ==
    /\ at[j] = "finally"
    /\ Proceed(j, IF status[j] \in Terminal THEN "delete" ELSE "over")

Finally(j) ==
    /\ at[j] = "finally"
    /\ Proceed(j, CASE status[j] \in Active -> "cancel"
                    [] status[j] \in Terminal -> "delete"
                    [] OTHER -> "over")

(* Slip: the record is cancelling whatever it has become meanwhile.        *)
CancelsAnyway(j) ==
    /\ at[j] = "cancel" /\ MoveTo(j, "over") /\ UNCHANGED told
    /\ status[j] # NoJob
    /\ status' = [status EXCEPT ![j] = "cancelling"]
    /\ cancelEvents' = cancelEvents \cup {j}
    /\ UNCHANGED <<stale, clientVars, jobVars>>

(* manager.cancel(), which does nothing for a job that is finished or gone *)
(* by now.                                                                 *)
Cancels(j) ==
    /\ at[j] = "cancel" /\ MoveTo(j, "over") /\ UNCHANGED told
    /\ \/ Cancel(j)
       \/ status[j] \notin Active /\ UNCHANGED vars

(* Slip: the record only.                                                  *)
DeletesRecord(j) ==
    /\ at[j] = "delete" /\ MoveTo(j, "over") /\ UNCHANGED told
    /\ \/ DeleteTerminal(j) /\ UNCHANGED <<clientVars, jobVars>>
       \/ status[j] \notin Terminal /\ UNCHANGED vars

(* store.delete_terminal(), and manager.delete_files() (RemoveFiles) also  *)
(* when somebody else has taken the record.                                *)
Deletes(j) ==
    /\ at[j] = "delete" /\ MoveTo(j, "over") /\ UNCHANGED told
    /\ \/ Delete(j)
       \/ /\ status[j] \notin Terminal
          /\ toRemove' = toRemove \cup {j}
          /\ UNCHANGED <<storeVars, toSignal, closer, toCancel, jobVars>>

-----------------------------------------------------------------------------
Yields(j) == Continues(j) \/ Opens(j) \/ Sends(j) \/ GoesAway(j)

Stream(j) ==
    \/ Begins(j) \/ NeverBegins(j)
    \/ Looks(j) \/ Announces(j) \/ Yields(j)
    \/ Finally(j) \/ Cancels(j) \/ Deletes(j)

StreamNext ==
    \/ Next /\ UNCHANGED streamVars
    \/ \E j \in JobIds : Stream(j)

StreamSpec == StreamInit /\ [][StreamNext]_allVars

(* The generator's thread keeps running, and its client reads on or goes.  *)
StreamFairness ==
    \A j \in JobIds :
        /\ WF_allVars(Looks(j)) /\ WF_allVars(Announces(j))
        /\ WF_allVars(Yields(j))
        /\ WF_allVars(Finally(j) \/ Cancels(j) \/ Deletes(j))

(* Fairness of DownloadManager, for the wider state                        *)
ManagerFairness ==
    /\ \A j \in JobIds :
          /\ WF_allVars(Submission(j) /\ UNCHANGED streamVars)
          /\ WF_allVars(Start(j) /\ UNCHANGED streamVars)
          /\ WF_allVars(Supervision(j) /\ UNCHANGED streamVars)
          /\ WF_allVars(WatchDeadline(j) /\ UNCHANGED streamVars)
          /\ WF_allVars(WatchGrace(j) /\ UNCHANGED streamVars)
          /\ WF_allVars(ProcessEnds(j) /\ UNCHANGED streamVars)
          /\ WF_allVars(SignalCancelled(j) /\ UNCHANGED streamVars)
          /\ WF_allVars(RemoveFiles(j) /\ UNCHANGED streamVars)
          /\ WF_allVars(CloseCancels(j) /\ UNCHANGED streamVars)
    /\ WF_allVars(Shutdown /\ UNCHANGED streamVars)

FairStreamSpec == StreamSpec /\ StreamFairness /\ ManagerFairness

-----------------------------------------------------------------------------
(* Properties.                                                             *)

(* No job runs on after its stream: once the finally clause has run, the   *)
(* job is finished, gone or being cancelled, whatever it was when the      *)
(* client went away.                                                       *)
StreamTakesJobAlong ==
    \A j \in JobIds : at[j] = "over" => status[j] \notin Active \ {"cancelling"}

(* A stream that has begun ends, unless it waits for a cancellation that   *)
(* nobody finishes (see CancellationFinishes).                             *)
StreamEnds ==
    \A j \in JobIds :
        at[j] = "looking" ~> at[j] = "over" \/ status[j] = "cancelling"

(* A job the stream has seen completed goes with the stream: no record and *)
(* no workspace of it outlives the finally clause and its removal.         *)
SeenFileIsRemoved ==
    \A j \in JobIds :
        at[j] = "over" /\ told[j] = "completed" /\ j \notin toRemove
            => status[j] = NoJob /\ ws[j] = "none"

(* docs/api.md:128: "the server deletes the ephemeral job workspace after  *)
(* the stream ends."  Here: once the stream is over, its job supervised to *)
(* the end and no removal outstanding.                                     *)
WorkspaceGoesWithStream ==
    \A j \in JobIds :
        at[j] = "over" /\ At(j, "done") /\ j \notin toRemove => ws[j] = "none"

=============================================================================
