-------------------------- MODULE DirectStreamProofs --------------------------
(***************************************************************************)
(* The stream of a serverless submission, for every set of jobs: its       *)
(* generator is one more client of the manager, so everything proved of    *)
(* the manager holds beside it, and no job runs on after its stream.       *)
(***************************************************************************)
EXTENDS DirectStream, ManagerRefinement

(* What the generator knows between two of its steps, however the other    *)
(* actors interleave: its job was submitted, what it decided to delete     *)
(* stays finished or gone, and after its end the job is not running on.    *)
SiteInv(j) ==
    /\ at[j] # "none" => Known(j)
    /\ at[j] = "delete" => status[j] \in Terminal \cup {NoJob}
    /\ at[j] = "over" => status[j] \notin Active \ {"cancelling"}

StreamInv == \A j \in JobIds : SiteInv(j)

FullInv == IndInv /\ StreamTypeOK /\ StreamInv

-----------------------------------------------------------------------------
(* The manager's steps.                                                    *)

(* An identifier that submit() has returned stays known.                   *)
LEMMA KnownKept ==
    ASSUME IndInv, [Next]_vars, NEW k \in JobIds, Known(k)
    PROVE  Known(k)'
<1>. USE DEF IndInv, ManagerInv, StoreInv, Known
<1>1. ASSUME NEW j \in JobIds, OwnStep(j), k # j PROVE Known(k)'
  BY <1>1, OtherJob DEF SameJob
<1>2. CASE Supervision(k)
  BY <1>2, SupervisionPlaceAfter DEF Supervising
<1>3. CASE Submission(k) \/ Admit(k)
  BY <1>3 DEF Submission, Enqueue, RefuseClosed, Admit, At
<1>4. CASE Start(k)
  BY <1>4 DEF Start, Goto, ManagerTypeOK
<1>5. CASE WorkerStep(k)
  BY <1>5, WorkerStepFrame DEF WorkerFrame, supervision
<1>6. CASE Requests(k)
  BY <1>6 DEF Requests, Cancel, SignalCancelled, Delete, RemoveFiles,
     AgeFinished, CloseCancels, jobVars
<1>7. CASE CleanupExpired \/ Close \/ Shutdown \/ Stopped \/ UNCHANGED vars
  BY <1>7 DEF CleanupExpired, Close, Shutdown, Stopped, vars, jobVars
<1>. QED  BY <1>1, <1>2, <1>3, <1>4, <1>5, <1>6, <1>7 DEF Next, OwnStep

(* A known job that has no record gets none, ...                           *)
LEMMA GoneStaysGone ==
    ASSUME IndInv, [Next]_vars, NEW k \in JobIds, Known(k), status[k] = NoJob
    PROVE  status'[k] = NoJob
<1>. USE DEF IndInv, StoreInv, StoreTypeOK
<1>1. ASSUME NEW j \in JobIds, Admit(j) PROVE status'[k] = NoJob
  BY <1>1 DEF Admit, TryCreate, Known, At
<1>2. CASE RecordStep
  BY <1>2, NoJobAssumption
  DEF RecordStep, Patch, RequestCancel, RemoveRecords, Active, JobStatus
<1>. QED  BY <1>1, <1>2, StepKinds, IndInvTable

(* ... and one that is finished or being cancelled never runs again.       *)
LEMMA EndedStaysEnded ==
    ASSUME IndInv, [Next]_vars, NEW k \in JobIds, Known(k)
    PROVE  /\ status[k] \in Terminal \cup {NoJob} =>
                  status'[k] \in Terminal \cup {NoJob}
           /\ status[k] \notin Active \ {"cancelling"} =>
                  status'[k] \notin Active \ {"cancelling"}
<1>1. status[k] \in JobStatus \cup {NoJob} /\ StoreInv
  BY DEF IndInv, StoreInv, StoreTypeOK
<1>2. LegalChange(status[k], status'[k])
  BY <1>1, StepIsStoreStep, NextLegal DEF storeVars, LegalChange
<1>. QED
  BY <1>1, <1>2, GoneStaysGone, NoJobAssumption
  DEF LegalChange, Transitions, Active, Terminal, JobStatus

LEMMA ManagerStepKeepsSites ==
    ASSUME FullInv, [Next]_vars, UNCHANGED streamVars
    PROVE  StreamTypeOK' /\ StreamInv'
<1>1. ASSUME NEW j \in JobIds PROVE SiteInv(j)'
  <2>1. SiteInv(j) /\ at' = at
    BY DEF FullInv, StreamInv, streamVars
  <2>2. at[j] # "none" => Known(j) /\ Known(j)'
    BY <2>1, KnownKept DEF SiteInv, FullInv
  <2>. QED  BY <2>1, <2>2, EndedStaysEnded DEF SiteInv, FullInv
<1>. QED  BY <1>1 DEF StreamInv, FullInv, StreamTypeOK, streamVars

-----------------------------------------------------------------------------
(* The generator's steps.                                                  *)

(* The one thing a generator does that no other client does: it removes    *)
(* the files of a job whose record somebody else has taken meanwhile.      *)
RemovesAgain(j) ==
    /\ at[j] = "delete" /\ status[j] \notin Terminal
    /\ toRemove' = toRemove \cup {j}
    /\ UNCHANGED <<storeVars, toSignal, closer, toCancel, jobVars>>

LEMMA StreamIsClient ==
    ASSUME NEW j \in JobIds, Stream(j)
    PROVE  UNCHANGED vars \/ Cancel(j) \/ Delete(j) \/ RemovesAgain(j)
BY DEF Stream, Begins, NeverBegins, Looks, Announces, Yields, Continues, Opens,
   Sends, GoesAway, Finally, Cancels, Deletes, Proceed, RemovesAgain

LEMMA ClientStepIsNext ==
    ASSUME NEW j \in JobIds, UNCHANGED vars \/ Cancel(j) \/ Delete(j)
    PROVE  [Next]_vars
BY DEF Next, Requests

LEMMA RemovesAgainInv ==
    ASSUME FullInv, NEW j \in JobIds, RemovesAgain(j)
    PROVE  IndInv'
<1>. USE DEF FullInv, IndInv, ManagerInv, RemovesAgain, jobVars
<1>1. status[j] = NoJob /\ ~At(j, "unborn")
  BY DEF StreamInv, SiteInv, Known, At
<1>2. StoreInv'
  BY NextStoreInv
<1>3. ManagerTypeOK' /\ QueueInv'
  BY DEF ManagerTypeOK, QueueInv, At, locals, poolVars, processVars, workerVars
<1>4. ASSUME NEW k \in JobIds PROVE JobInv(k)'
  <2>1. CASE k # j
    BY <2>1, SameJobInv
    DEF SameJob, storeVars, poolVars, processVars, workerVars
  <2>2. CASE k = j
    <3>1. KnownInv(j)'
      BY <1>1, <2>2 DEF JobInv, KnownInv, Known, At, storeVars, poolVars
    <3>2. EventInHand(j)' /\ ThreadInv(j)' /\ ProcessInv(j)' /\ FileInv(j)'
      BY <2>2
      DEF JobInv, EventInHand, ThreadInv, ProcessInv, FileInv, FinalIsLast,
          SilentBeforeTask, CompletedInv, Running, At, storeVars, poolVars,
          processVars, workerVars
    <3>. QED  BY <2>2, <3>1, <3>2 DEF JobInv
  <2>. QED  BY <2>1, <2>2
<1>. QED  BY <1>2, <1>3, <1>4

LEMMA StreamTyped ==
    ASSUME StoreTypeOK, StreamTypeOK, NEW j \in JobIds, Stream(j)
    PROVE  StreamTypeOK'
BY DEF StreamTypeOK, StoreTypeOK, Stream, Begins, NeverBegins, Looks, Announces,
   Yields, Continues, Opens, Sends, GoesAway, Finally, Cancels, Deletes, Proceed,
   MoveTo, Sites, Open, Closing

(* The generator of one job moves no other.                                *)
LEMMA OtherSites ==
    ASSUME StreamTypeOK, NEW j \in JobIds, NEW k \in JobIds, k # j, Stream(j)
    PROVE  at'[k] = at[k]
BY DEF StreamTypeOK, Stream, Begins, NeverBegins, Looks, Announces, Yields,
   Continues, Opens, Sends, GoesAway, Finally, Cancels, Deletes, Proceed, MoveTo

LEMMA OwnSite ==
    ASSUME FullInv, NEW j \in JobIds, Stream(j)
    PROVE  SiteInv(j)'
<1>. USE DEF FullInv, StreamTypeOK, SiteInv, MoveTo, Proceed
<1>1. SiteInv(j) /\ status[j] \in JobStatus \cup {NoJob}
  BY DEF StreamInv, IndInv, StoreInv, StoreTypeOK
<1>2. CASE Begins(j) \/ NeverBegins(j)
  BY <1>2 DEF Begins, NeverBegins, vars, Known
<1>3. CASE Looks(j) \/ Announces(j) \/ Yields(j)
  BY <1>1, <1>3
  DEF Looks, Announces, Yields, Continues, Opens, Sends, GoesAway, vars, Known
<1>4. CASE Finally(j)
  <2>1. /\ at[j] = "finally" /\ UNCHANGED <<status, pc>>
        /\ at'[j] = "delete" => status[j] \in Terminal
        /\ at'[j] = "over" => status[j] \notin Active
    <3>1. CASE status[j] \in Active
      BY <1>4, <3>1 DEF Finally, vars, storeVars, Active
    <3>2. CASE status[j] \in Terminal
      BY <1>4, <3>2 DEF Finally, vars, storeVars, Active
    <3>3. CASE status[j] \notin Active \cup Terminal
      BY <1>4, <3>3 DEF Finally, vars, storeVars
    <3>. QED  BY <3>1, <3>2, <3>3
  <2>. QED  BY <1>1, <2>1 DEF Known
<1>5. CASE Cancels(j)
  BY <1>1, <1>5
  DEF Cancels, Cancel, CancelCall, RequestCancel, vars, storeVars, jobVars,
      Known, IndInv, StoreInv, StoreTypeOK
<1>6. CASE Deletes(j)
  BY <1>1, <1>6, NoJobAssumption
  DEF Deletes, Delete, DeleteTerminal, RemoveRecords, storeVars, jobVars, Known,
      Active, JobStatus
<1>. QED  BY <1>2, <1>3, <1>4, <1>5, <1>6 DEF Stream

LEMMA StreamStepInv ==
    ASSUME FullInv, NEW j \in JobIds, Stream(j)
    PROVE  FullInv'
<1>1. CASE UNCHANGED vars \/ Cancel(j) \/ Delete(j)
  <2>1. [Next]_vars
    BY <1>1, ClientStepIsNext
  <2>2. ASSUME NEW k \in JobIds, k # j PROVE SiteInv(k)'
    BY <2>1, <2>2, OtherSites, KnownKept, EndedStaysEnded
    DEF FullInv, StreamInv, SiteInv
  <2>. QED
    BY <2>1, <2>2, NextIndInv, StreamTyped, OwnSite
    DEF FullInv, StreamInv, IndInv, StoreInv
<1>2. CASE RemovesAgain(j)
  <2>1. ASSUME NEW k \in JobIds, k # j PROVE SiteInv(k)'
    BY <1>2, <2>1, OtherSites
    DEF FullInv, StreamInv, SiteInv, RemovesAgain, storeVars, jobVars, Known
  <2>. QED
    BY <1>2, <2>1, RemovesAgainInv, StreamTyped, OwnSite
    DEF FullInv, StreamInv, IndInv, StoreInv
<1>. QED  BY <1>1, <1>2, StreamIsClient

-----------------------------------------------------------------------------
(* The theorems.                                                           *)

(* The invariant of the manager, and what a generator knows, hold in every *)
(* state of a serverless service.                                          *)
THEOREM StreamInductive == StreamSpec => []FullInv
<1>1. StreamInit => FullInv
  BY InitIndInv
  DEF StreamInit, FullInv, StreamTypeOK, StreamInv, SiteInv, Sites, JobStatus
<1>2. FullInv /\ [StreamNext]_allVars => FullInv'
  <2>. SUFFICES ASSUME FullInv, [StreamNext]_allVars PROVE FullInv'
    OBVIOUS
  <2>1. CASE [Next]_vars /\ UNCHANGED streamVars
    BY <2>1, NextIndInv, ManagerStepKeepsSites DEF FullInv
  <2>. QED  BY <2>1, StreamStepInv DEF StreamNext, allVars
<1>. QED  BY <1>1, <1>2, PTL DEF StreamSpec

(* However the client goes away and whatever else acts on its job, the job *)
(* does not run on after the finally clause of its stream.                 *)
THEOREM StreamEndsJob == StreamSpec => []StreamTakesJobAlong
<1>1. FullInv => StreamTakesJobAlong
  BY DEF FullInv, StreamInv, SiteInv, StreamTakesJobAlong
<1>. QED  BY <1>1, StreamInductive, PTL

(* Type correctness.                                                       *)
THEOREM StreamTypeCorrect == StreamSpec => []StreamTypeOK
<1>1. FullInv => StreamTypeOK
  BY DEF FullInv
<1>. QED  BY <1>1, StreamInductive, PTL

(* The removal at the end of a stream, racing deletion and cleanup of the  *)
(* same job, never leaves a completed record without its file.             *)
THEOREM StreamKeepsFiles == StreamSpec => []CompletedHasFile
<1>1. FullInv => CompletedHasFile
  BY IndInvTable, TableKeepsFiles DEF FullInv
<1>. QED  BY <1>1, StreamInductive, PTL

(* What stays true of a job once it has been seen completed, whoever        *)
(* deletes it: it never runs again, and its file goes with its record.     *)
Finished(j) ==
    /\ Known(j) /\ status[j] \in {"completed", NoJob}
    /\ pc[j] \in {"loop", "watch", "leave", "cleanup", "done", "abandoned"}
    /\ chan[j] = <<>> /\ (Running(j) => step[j] = "finished")
    /\ Claimed(j)

SeenInv(j) ==
    told[j] = "completed" =>
        /\ Finished(j)
        /\ at[j] \notin {"none", "cancel"}
        /\ at[j] = "over" => status[j] = NoJob

LEMMA FinishedKept ==
    ASSUME IndInv, [Next]_vars, NEW k \in JobIds, Finished(k)
    PROVE  Finished(k)'
<1>. USE DEF IndInv, ManagerInv, StoreInv, Finished, Claimed
<1>1. Known(k)'
  BY KnownKept
<1>2. status'[k] \in {"completed", NoJob}
  <2>1. status[k] # NoJob => LegalChange(status[k], status'[k])
    BY StepIsStoreStep, NextLegal DEF storeVars, LegalChange
  <2>. QED
    BY <2>1, GoneStaysGone, NoJobAssumption
    DEF LegalChange, Transitions, Terminal, JobStatus
<1>3. ASSUME NEW j \in JobIds, OwnStep(j), k # j PROVE Finished(k)'
  BY <1>1, <1>3, OtherJob, ToRemoveStep DEF SameJob, Running
<1>4. CASE Supervision(k)
  <2>1. k \notin cancelEvents
    BY DEF CancelWins, StoreTypeOK, Records
  <2>2. \/ pc'[k] \in {"loop", "leave", "cleanup"} /\ UNCHANGED <<chan, ws, step, proc>>
        \/ Cleanup(k) \/ Leave(k)
    BY <1>4, <2>1, NoJobAssumption
    DEF ManagerTypeOK, Supervision, Begin, Inspect, Spawn, SpawnFails, Register,
        Feed, FeedFails, LaunchFailed, IgnoreEvent, TakeProgress, TakeFinal,
        PatchProgress, PatchComplete, PatchEnded, EventCleanup, WatchDeadline,
        WatchCancelled, WatchGrace, WatchQuiet, Watched, Signal, Kill, Reap,
        RejectTimeout, FailStopped, FinishCancel, Except, ExceptFail, Goto, At,
        workerVars, processVars, CancelRequested, Terminal, JobStatus
  <2>3. UNCHANGED toRemove
    BY <1>4, SupervisionPlaceAfter
  <2>4. CASE Cleanup(k) \/ Leave(k)
    <3>1. /\ UNCHANGED status /\ chan'[k] = <<>>
          /\ pc'[k] \in {"done", "abandoned"}
          /\ ws'[k] \in {"none", ws[k]}
          /\ proc'[k] # "running" \/ UNCHANGED <<proc, step>>
      BY <2>4
      DEF Cleanup, Leave, Return, RemoveWorkspace, DropProcess, ManagerTypeOK,
          processVars, storeVars
    <3>. QED  BY <1>1, <1>2, <2>3, <3>1 DEF Running
  <2>5. CASE ~(Cleanup(k) \/ Leave(k))
    <3>1. UNCHANGED status
      BY <1>4, <2>5, NoJobAssumption
      DEF Supervision, Begin, Inspect, Spawn, SpawnFails, Register,
          Feed, FeedFails, LaunchFailed, IgnoreEvent, TakeProgress, TakeFinal,
          PatchProgress, PatchComplete, PatchEnded, EventCleanup, WatchDeadline,
          WatchCancelled, WatchGrace, WatchQuiet, Watched, Reap, RejectTimeout,
          FailStopped, FinishCancel, Except, ExceptFail, At, storeVars
    <3>. QED  BY <1>1, <1>2, <2>2, <2>3, <2>5, <3>1 DEF Running
  <2>. QED  BY <2>4, <2>5
<1>5. CASE WorkerStep(k)
  <2>1. /\ WorkerFrame(k)
        /\ UNCHANGED <<status, pc, toRemove>>
    BY <1>5, WorkerStepFrame DEF WorkerFrame, supervision, storeVars, clientVars
  <2>2. proc'[k] = "exited" /\ UNCHANGED <<step, chan, ws>>
    BY <2>1 DEF WorkerFrame
  <2>. QED  BY <1>1, <2>1, <2>2 DEF Running
<1>6. CASE Requests(k)
  <2>1. /\ UNCHANGED <<pc, proc, step, chan>>
        /\ UNCHANGED <<status, ws, toRemove>> \/ k \in toRemove' \/ ws'[k] = "none"
    BY <1>6
    DEF ManagerTypeOK, Requests, Cancel, CancelCall, RequestCancel,
        SignalCancelled, Signal, Delete, RemoveFiles, RemoveWorkspace, AgeFinished,
        Age, CloseCancels, jobVars, workerVars, processVars, clientVars, storeVars,
        Active, Terminal
  <2>. QED  BY <1>1, <1>2, <2>1 DEF Running
<1>7. CASE Admit(k) \/ Submission(k) \/ Start(k)
  BY <1>7, HeadIsWaiting DEF Admit, Submission, Enqueue, RefuseClosed, At
<1>8. CASE CleanupExpired \/ Close \/ Shutdown \/ Stopped \/ UNCHANGED vars
  <2>1. /\ UNCHANGED <<pc, proc, step, chan, ws>>
        /\ k \in toRemove' \/ (UNCHANGED status[k] /\ k \notin toRemove)
    BY <1>8
    DEF CleanupExpired, PurgeExpired, RemoveRecords, StoreTypeOK, Close, Shutdown,
        Stopped, vars, jobVars, workerVars, processVars, clientVars, storeVars
  <2>. QED  BY <1>1, <1>2, <2>1 DEF Running
<1>. QED  BY <1>3, <1>4, <1>5, <1>6, <1>7, <1>8 DEF Next, OwnStep

LEMMA StreamSeen ==
    ASSUME FullInv, \A k \in JobIds : SeenInv(k), [StreamNext]_allVars,
           NEW k \in JobIds
    PROVE  SeenInv(k)'
<1>. USE DEF FullInv, SeenInv
<1>1. IndInv /\ StreamTypeOK
  OBVIOUS
<1>2. ASSUME NEW j \in JobIds, RemovesAgain(j), Finished(k) PROVE Finished(k)'
  BY <1>2
  DEF RemovesAgain, Finished, Claimed, Known, Running, storeVars, jobVars,
      workerVars, processVars
<1>3. Finished(k) => Finished(k)'
  BY <1>2, FinishedKept, StreamIsClient, ClientStepIsNext DEF StreamNext, allVars
<1>4. CASE at'[k] = at[k] /\ told'[k] = told[k]
  <2>1. Known(k) /\ status[k] = NoJob => status'[k] = NoJob
    <3>1. ASSUME NEW j \in JobIds, RemovesAgain(j) PROVE UNCHANGED status
      BY <3>1 DEF RemovesAgain, storeVars
    <3>. QED
      BY <3>1, GoneStaysGone, StreamIsClient, ClientStepIsNext
      DEF StreamNext, allVars
  <2>. QED  BY <1>3, <1>4, <2>1 DEF Finished
<1>5. CASE Stream(k)
  <2>. USE DEF StreamTypeOK, MoveTo, Proceed
  <2>1. CASE Looks(k)
    <3>1. UNCHANGED vars
      BY <2>1 DEF Looks
    <3>2. status[k] = "completed" => Finished(k)
      BY <2>1
      DEF Looks, IndInv, ManagerInv, JobInv, FileInv, CompletedInv, StreamInv,
          SiteInv, Finished, Claimed
    <3>3. \/ at'[k] = "finally" /\ told'[k] = told[k]
          \/ at'[k] = "told" /\ told'[k] = status[k]
      BY <2>1 DEF Looks
    <3>. QED  BY <1>3, <3>2, <3>3
  <2>2. CASE Begins(k) \/ NeverBegins(k) \/ Announces(k) \/ Yields(k)
    <3>1. told'[k] = told[k] /\ at'[k] \notin {"none", "cancel", "over"}
      BY <2>2 DEF Begins, NeverBegins, Announces, Yields, Continues, Opens, Sends,
         GoesAway
    <3>. QED  BY <1>3, <3>1
  <2>3. CASE Finally(k)
    <3>1. told'[k] = told[k] /\ UNCHANGED status
      BY <2>3 DEF Finally, vars, storeVars
    <3>2. CASE status[k] \in Active
      BY <1>3, <3>1, <3>2, NoJobAssumption
      DEF Finished, Active, Terminal, JobStatus
    <3>3. CASE status[k] \in Terminal
      <4>1. at'[k] = "delete"
        BY <2>3, <3>3 DEF Finally, Active
      <4>. QED  BY <1>3, <3>1, <4>1
    <3>4. CASE status[k] \notin Active \cup Terminal
      <4>1. at'[k] = "over"
        BY <2>3, <3>4 DEF Finally
      <4>. QED  BY <1>3, <3>1, <3>4, <4>1 DEF Finished, Terminal
    <3>. QED  BY <3>2, <3>3, <3>4
  <2>4. CASE Cancels(k)
    BY <2>4 DEF Cancels
  <2>5. CASE Deletes(k)
    <3>1. /\ told'[k] = told[k] /\ at'[k] = "over"
          /\ status'[k] = NoJob \/ (UNCHANGED status /\ status[k] \notin Terminal)
      BY <2>5
      DEF Deletes, Delete, DeleteTerminal, RemoveRecords, storeVars
    <3>. QED  BY <1>3, <3>1 DEF Finished, Terminal
  <2>. QED  BY <1>5, <2>1, <2>2, <2>3, <2>4, <2>5 DEF Stream
<1>6. ASSUME NEW j \in JobIds, Stream(j), j # k
      PROVE  at'[k] = at[k] /\ told'[k] = told[k]
  BY <1>6
  DEF StreamTypeOK, Stream, Begins, NeverBegins, Looks, Announces, Yields,
      Continues, Opens, Sends, GoesAway, Finally, Cancels, Deletes, Proceed, MoveTo
<1>. QED  BY <1>4, <1>5, <1>6 DEF StreamNext, allVars, streamVars

(* A job its stream has seen completed goes with it, also if somebody else *)
(* deletes it at the same time: no record, and no file once the removal    *)
(* has run.                                                                *)
THEOREM StreamRemovesSeenFile == StreamSpec => []SeenFileIsRemoved
<1>. DEFINE Inv == \A k \in JobIds : SeenInv(k)
<1>1. StreamInit => Inv
  BY DEF StreamInit, SeenInv
<1>2. FullInv /\ Inv /\ [StreamNext]_allVars => Inv'
  BY StreamSeen
<1>3. Inv => SeenFileIsRemoved
  BY NoJobAssumption
  DEF SeenInv, Finished, Claimed, SeenFileIsRemoved, JobStatus
<1>. QED  BY <1>1, <1>2, <1>3, StreamInductive, PTL DEF StreamSpec

(* A client that polls beside the stream sees only the job contract.       *)
THEOREM StreamImplementsContract == StreamSpec => ImplementsContract
<1>1. StreamInit => Contract!Init
  BY NoJobAssumption
  DEF StreamInit, Init, StoreInit, Contract!Init, Phase, Deliverable, At,
      JobStatus
<1>2. FullInv /\ FullInv' /\ [StreamNext]_allVars => [Contract!Next]_contractVars
  <2>. SUFFICES ASSUME FullInv, FullInv', [StreamNext]_allVars
                PROVE  [Contract!Next]_contractVars
    OBVIOUS
  <2>1. CASE [Next]_vars
    BY <2>1, StepImplements, IndInvTable, IndInvTableNext DEF FullInv
  <2>2. ASSUME NEW j \in JobIds, RemovesAgain(j)
        PROVE  UNCHANGED contractVars
    BY <2>2
    DEF RemovesAgain, storeVars, jobVars, workerVars, contractVars, phases,
        Phase, Deliverable, At
  <2>. QED
    BY <2>1, <2>2, StreamIsClient, ClientStepIsNext DEF StreamNext, allVars
<1>3. FullInv /\ FullInv' /\ [StreamNext]_allVars
         => [Contract!Next]_<<[j \in JobIds |-> Phase(j)], Deliverable>>
  BY <1>2 DEF contractVars, phases
<1>. QED
  BY <1>1, <1>3, StreamInductive, PTL
  DEF StreamSpec, ImplementsContract, Contract!Spec

-----------------------------------------------------------------------------
(* What the manager promises to everybody it also promises beside any      *)
(* number of streams.                                                      *)
BesideInv == QuietInv /\ PoolInv /\ \A k \in JobIds : WorkspaceInv(k)

LEMMA RemovesAgainBeside ==
    ASSUME BesideInv, NEW j \in JobIds, RemovesAgain(j)
    PROVE  BesideInv'
<1>1. /\ UNCHANGED <<status, pc, futures, processes, closer, proc, step, chan, ws>>
      /\ toRemove \subseteq toRemove'
  BY DEF RemovesAgain, storeVars, jobVars, poolVars, workerVars, processVars
<1>2. QuietInv'
  BY <1>1 DEF BesideInv, QuietInv, Drained, OwnerInv
<1>3. PoolInv'
  BY <1>1, FewerBusy DEF BesideInv, Busy
<1>4. ASSUME NEW k \in JobIds PROVE WorkspaceInv(k)'
  BY <1>1 DEF BesideInv, WorkspaceInv, Claimed, Silent, At, Running, Event
<1>. QED  BY <1>2, <1>3, <1>4 DEF BesideInv

LEMMA ManagerStepBeside ==
    ASSUME IndInv, BesideInv, [Next]_vars
    PROVE  BesideInv'
BY NextQuiet, NextPoolInv, NextWorkspace DEF BesideInv

(* A generator that deletes and removes what somebody else deletes too     *)
(* leaves every promise of the manager's alone: no record without a        *)
(* supervisor, no more waiting or running than configured, no worker and   *)
(* no directory left behind, quiet after close().                          *)
THEOREM StreamKeepsService ==
    StreamSpec => [](/\ ActiveIsSupervised /\ BacklogBounded
                     /\ WorkersBounded /\ NoStrayWorker
                     /\ NothingLeftBehind /\ ClosedIsQuiet)
<1>1. StreamInit => BesideInv
  <2>. SUFFICES ASSUME StreamInit PROVE BesideInv
    OBVIOUS
  <2>1. QuietInv
    BY DEF StreamInit, Init, QuietInv, Drained, OwnerInv, Supervising
  <2>2. ASSUME NEW k \in JobIds PROVE WorkspaceInv(k)
    BY NoJobAssumption
    DEF StreamInit, Init, StoreInit, WorkspaceInv, BeforeSpawn, Undecided, At
  <2>. QED  BY <2>1, <2>2, InitPool DEF StreamInit, BesideInv
<1>2. FullInv /\ BesideInv /\ [StreamNext]_allVars => BesideInv'
  BY RemovesAgainBeside, ManagerStepBeside, StreamIsClient, ClientStepIsNext
  DEF FullInv, StreamNext, allVars
<1>3. ASSUME FullInv, BesideInv
      PROVE  /\ ActiveIsSupervised /\ BacklogBounded
             /\ WorkersBounded /\ NoStrayWorker
             /\ NothingLeftBehind /\ ClosedIsQuiet
  <2>1. TableInv /\ NoStrayWorker
    BY <1>3, IndInvTable, StraysAreKilled DEF FullInv
  <2>2. WorkersBounded
    BY <1>3, <2>1, ThreadsBoundWorkers DEF BesideInv
  <2>3. ClosedIsQuiet
    BY <1>3, <2>1, DrainedIsQuiet DEF BesideInv, ClosedIsQuiet
  <2>4. NothingLeftBehind
    BY <1>3 DEF BesideInv, WorkspaceInv, Claimed, NothingLeftBehind
  <2>. QED  BY <2>1, <2>2, <2>3, <2>4, TableSupervises, TableBacklog
<1>. QED  BY <1>1, <1>2, <1>3, StreamInductive, PTL DEF StreamSpec

=============================================================================
