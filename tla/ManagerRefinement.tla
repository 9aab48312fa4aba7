-------------------------- MODULE ManagerRefinement --------------------------
(***************************************************************************)
(* The download manager implements JobContract: a client that polls sees   *)
(* only what the contract allows.  Every step maps to one step of the      *)
(* contract or to none.                                                    *)
(***************************************************************************)
EXTENDS DownloadManagerProofs

(* What a step of the manager does to the records: the identifiers drawn   *)
(* are the same, and one record is moved or cancelled, or finished ones    *)
(* are removed.                                                            *)
UnbornKept == \A k \in JobIds : At(k, "unborn")' <=> At(k, "unborn")

RecordStep ==
    \/ UNCHANGED status
    \/ \E j \in JobIds, next \in JobStatus :
          /\ Patch(j, next)
          /\ next = "cancelled" => status[j] \in {"cancelling", "cancelled"}
    \/ \E j \in JobIds : RequestCancel(j)
    \/ \E gone \in SUBSET TerminalJobs : RemoveRecords(gone)

(* A supervisor cancels a record only in _finish_cancel.                   *)
LEMMA OnlyFinishCancels ==
    ASSUME StoreTypeOK, ManagerTypeOK, NEW j \in JobIds, RecordInv(j),
           Supervision(j), status[j] # "cancelled", status'[j] = "cancelled"
    PROVE  FinishCancel(j)
<1>1. pc[j] \in {"patchProgress", "patchFinal"} => Event(j) # "cancelled"
  BY ChanTyped DEF RecordInv, EventInHand, Events, FinalEvents
<1>2. CASE Inspect(j) \/ LaunchFailed(j) \/ ExceptFail(j)
  BY <1>2, PatchSetsStatus DEF Inspect, LaunchFailed, ExceptFail, storeVars
<1>3. CASE PatchProgress(j) \/ PatchComplete(j) \/ PatchEnded(j)
  BY <1>1, <1>3, PatchSetsStatus
  DEF PatchProgress, PatchComplete, PatchEnded, EventRaises, storeVars, At
<1>4. CASE RejectTimeout(j) \/ FailStopped(j)
  BY <1>4, PatchSetsStatus DEF RejectTimeout, FailStopped, Settle, storeVars
<1>5. CASE UNCHANGED storeVars
  BY <1>5 DEF storeVars
<1>. QED
  BY <1>2, <1>3, <1>4, <1>5
  DEF Supervision, Begin, Spawn, SpawnFails, Register, Feed, FeedFails,
      IgnoreEvent, TakeProgress, TakeFinal, EventCleanup, WatchDeadline,
      WatchCancelled, WatchGrace, WatchQuiet, Watched, Reap, Except, Cleanup,
      Leave, Return

LEMMA SupervisionRecordStep ==
    ASSUME StoreTypeOK, ManagerTypeOK, NEW j \in JobIds, RecordInv(j),
           Supervision(j)
    PROVE  RecordStep
<1>1. CASE UNCHANGED status
  BY <1>1 DEF RecordStep
<1>2. ASSUME NEW next, Patch(j, next)
      PROVE  RecordStep
  <2>1. next \in JobStatus
    BY <1>2, TransitionFacts DEF Patch, StoreTypeOK
  <2>2. status'[j] = next
    BY <1>2 DEF Patch, StoreTypeOK
  <2>3. ASSUME next = "cancelled" PROVE status[j] \in {"cancelling", "cancelled"}
    <3>1. CASE status[j] # "cancelled"
      <4>1. FinishCancel(j)
        BY <2>2, <2>3, <3>1, OnlyFinishCancels
      <4>2. status[j] \notin Active \ {"cancelling"}
        BY <4>1 DEF FinishCancel, RecordInv, ThreadInv, At
      <4>. QED
        BY <1>2, <2>2, <2>3, <3>1, <4>1, <4>2
        DEF FinishCancel, Active, Terminal, JobStatus, storeVars
    <3>. QED  BY <3>1
  <2>. QED  BY <1>2, <2>1, <2>3 DEF RecordStep
<1>. QED  BY <1>1, <1>2, SupervisionRecord

LEMMA StepKinds ==
    ASSUME TableInv, [Next]_vars
    PROVE  (\E j \in JobIds : Admit(j)) \/ (UnbornKept /\ RecordStep)
<1>. USE DEF TableInv, StoreInv
<1>1. ASSUME NEW j \in JobIds, OwnStep(j), At(j, "unborn")' <=> At(j, "unborn")
      PROVE  UnbornKept
  BY <1>1, OtherJob DEF SameJob, UnbornKept, At
<1>2. ASSUME NEW j \in JobIds, Supervision(j)
      PROVE  UnbornKept /\ RecordStep
  <2>1. At(j, "unborn")' <=> At(j, "unborn")
    BY <1>2, SupervisionPlace, SupervisionPlaceAfter DEF At, Supervising
  <2>. QED  BY <1>1, <1>2, <2>1, SupervisionRecordStep DEF OwnStep
<1>3. ASSUME NEW j \in JobIds, WorkerStep(j)
      PROVE  UnbornKept /\ RecordStep
  BY <1>3, WorkerStepFrame
  DEF WorkerFrame, supervision, storeVars, UnbornKept, RecordStep, At
<1>4. ASSUME NEW j \in JobIds, Submission(j) \/ Start(j)
      PROVE  UnbornKept /\ RecordStep
  <2>1. UnbornKept
    <3>1. pc[j] \in {"submitting", "waiting"}
      BY <1>4, HeadIsWaiting DEF Submission, Enqueue, RefuseClosed, At
    <3>2. pc'[j] \in {"waiting", "refused", "begin"}
      BY <1>4 DEF Submission, Enqueue, RefuseClosed, Start, Goto, ManagerTypeOK
    <3>. QED  BY <1>1, <1>4, <3>1, <3>2 DEF OwnStep, At
  <2>2. CASE RefuseClosed(j)
    <3>1. "failed" \in JobStatus /\ "failed" # "cancelled" /\ Patch(j, "failed")
      BY <2>2 DEF RefuseClosed, JobStatus
    <3>2. RecordStep
      BY <3>1 DEF RecordStep
    <3>. QED  BY <2>1, <3>2
  <2>. QED
    BY <1>4, <2>1, <2>2 DEF Submission, Enqueue, Start, RecordStep, storeVars
<1>5. ASSUME NEW j \in JobIds, Requests(j)
      PROVE  UnbornKept /\ RecordStep
  <2>1. UNCHANGED pc
    BY <1>5 DEF Requests, Cancel, SignalCancelled, Delete, RemoveFiles,
       AgeFinished, CloseCancels, jobVars
  <2>2. UNCHANGED status \/ RequestCancel(j) \/ DeleteTerminal(j)
    BY <1>5 DEF Requests, Cancel, SignalCancelled, Delete, RemoveFiles,
       AgeFinished, Age, CloseCancels, CancelCall, storeVars
  <2>3. DeleteTerminal(j) => {j} \in SUBSET TerminalJobs /\ RemoveRecords({j})
    BY DEF DeleteTerminal, TerminalJobs
  <2>. QED  BY <2>1, <2>2, <2>3 DEF UnbornKept, RecordStep, At
<1>6. CASE CleanupExpired
  BY <1>6 DEF CleanupExpired, PurgeExpired, Expired, jobVars, UnbornKept,
     RecordStep, At
<1>7. CASE Close \/ Shutdown \/ Stopped \/ UNCHANGED vars
  BY <1>7 DEF Close, Shutdown, Stopped, vars, storeVars, jobVars, UnbornKept,
     RecordStep, At
<1>. QED  BY <1>2, <1>3, <1>4, <1>5, <1>6, <1>7 DEF Next

-----------------------------------------------------------------------------
(* The refinement mapping: phase and deliverable, and how they change.     *)

phases == [k \in JobIds |-> Phase(k)]

Completed == {k \in JobIds : status[k] = "completed"}

LEMMA DeliverableIsCompleted == TableInv => Deliverable = Completed
BY DEF TableInv, RecordInv, FileInv, CompletedInv, Deliverable, Completed

LEMMA DeliverableNext == (TableInv => Deliverable = Completed)'
BY DeliverableIsCompleted, PTL

(* Unborn jobs have no record, so the phase of every other job is a        *)
(* function of its status.                                                 *)
PhaseOfStatus(k) ==
    /\ status[k] = NoJob => Phase(k) \in {"unknown", "forgotten"}
    /\ status[k] = NoJob /\ ~At(k, "unborn") => Phase(k) = "forgotten"
    /\ At(k, "unborn") => Phase(k) = "unknown"
    /\ status[k] \in Active \ {"cancelling"} => Phase(k) = "pending"
    /\ status[k] \in Terminal \cup {"cancelling"} => Phase(k) = status[k]

LEMMA PhaseByStatus == TableInv => \A k \in JobIds : PhaseOfStatus(k)
BY NoJobAssumption
DEF TableInv, RecordInv, ThreadInv, StoreInv, StoreTypeOK, Phase, Active,
    Terminal, JobStatus, PhaseOfStatus

LEMMA PhaseByStatusNext == (TableInv => \A k \in JobIds : PhaseOfStatus(k))'
BY PhaseByStatus, PTL

LEMMA PhaseKept ==
    ASSUME NEW k \in JobIds, status'[k] = status[k],
           At(k, "unborn")' <=> At(k, "unborn")
    PROVE  Phase(k)' = Phase(k)
BY DEF Phase

(* One job moves; the others stay.                                         *)
LEMMA OnePhase ==
    ASSUME StoreTypeOK, UnbornKept, NEW j \in JobIds, NEW s,
           status' = [status EXCEPT ![j] = s]
    PROVE  phases' = [phases EXCEPT ![j] = Phase(j)']
<1>1. \A k \in JobIds : k # j => Phase(k)' = Phase(k)
  BY PhaseKept DEF StoreTypeOK, UnbornKept
<1>. QED  BY <1>1 DEF phases

LEMMA UnfinishedIsActive ==
    ASSUME TableInv
    PROVE  {k \in JobIds : phases[k] \in {"pending", "cancelling"}} = ActiveJobs
<1>1. ASSUME NEW k \in JobIds
      PROVE  phases[k] \in {"pending", "cancelling"} <=> status[k] \in Active
  <2>1. status[k] \in JobStatus \cup {NoJob}
    BY DEF TableInv, StoreInv, StoreTypeOK
  <2>. QED
    BY <2>1, PhaseByStatus, NoJobAssumption
    DEF PhaseOfStatus, phases, Active, Terminal, JobStatus
<1>. QED  BY <1>1 DEF ActiveJobs

-----------------------------------------------------------------------------
(* Every kind of step, seen through the mapping.                           *)

contractVars == <<phases, Deliverable>>

(* The contract's module has a Cardinality of its own.                     *)
LEMMA SameCardinality == \A S : Contract!Cardinality(S) = Cardinality(S)
BY DEF Contract!Cardinality, Cardinality

LEMMA AdmitAccepts ==
    ASSUME TableInv, TableInv', NEW j \in JobIds, Admit(j)
    PROVE  Contract!Accept(j)
<1>. USE DEF TableInv, StoreInv
<1>1. /\ status' = [status EXCEPT ![j] = "queued"]
      /\ status[j] = NoJob /\ At(j, "unborn") /\ pc'[j] = "submitting"
      /\ Cardinality(ActiveJobs) < Capacity
  BY DEF Admit, TryCreate, Goto, ManagerTypeOK
<1>2. Phase(j) = "unknown" /\ Phase(j)' = "pending"
  BY <1>1, NoJobAssumption
  DEF Phase, StoreTypeOK, JobStatus, Active, Terminal, At
<1>3. \A k \in JobIds : k # j => Phase(k)' = Phase(k)
  BY <1>1, OtherJob, PhaseKept DEF OwnStep, SameJob, At
<1>4. phases' = [phases EXCEPT ![j] = "pending"]
  BY <1>2, <1>3 DEF phases
<1>5. Deliverable' = Deliverable
  BY <1>1, DeliverableIsCompleted, DeliverableNext, NoJobAssumption DEF Completed, StoreTypeOK, JobStatus
<1>6. Contract!Unfinished = ActiveJobs
  BY UnfinishedIsActive DEF Contract!Unfinished, phases
<1>7. Contract!Move(j, "unknown", "pending")
  BY <1>2, <1>4 DEF Contract!Move, phases
<1>. QED  BY <1>1, <1>5, <1>6, <1>7, SameCardinality DEF Contract!Accept

LEMMA PatchMoves ==
    ASSUME TableInv, TableInv', UnbornKept, NEW j \in JobIds,
           NEW next \in JobStatus, Patch(j, next),
           next = "cancelled" => status[j] \in {"cancelling", "cancelled"}
    PROVE  \/ UNCHANGED contractVars
           \/ Contract!Complete(j) \/ Contract!Fail(j)
           \/ Contract!AcceptCancel(j) \/ Contract!Cancelled(j)
<1>. USE DEF TableInv, StoreInv
<1>1. /\ status' = [status EXCEPT ![j] = next]
      /\ status'[j] = next
      /\ status[j] \in JobStatus
      /\ next = status[j] \/ next \in Transitions[status[j]]
  BY DEF Patch, StoreTypeOK
<1>2. phases' = [phases EXCEPT ![j] = Phase(j)']
  BY <1>1, OnePhase
<1>3. Deliverable' = {k \in JobIds : status'[k] = "completed"}
  BY DeliverableNext DEF Completed
<1>4. CASE next = "completed" /\ status[j] # "completed"
  <2>1. status[j] \in {"downloading", "processing"}
    BY <1>1, <1>4 DEF Transitions, Ended, JobStatus
  <2>2. Phase(j) = "pending" /\ Phase(j)' = "completed"
    BY <1>1, <1>4, <2>1, PhaseByStatus, PhaseByStatusNext DEF PhaseOfStatus, Active, Terminal, JobStatus
  <2>3. Deliverable' = Deliverable \cup {j}
    BY <1>1, <1>3, <1>4, DeliverableIsCompleted, DeliverableNext DEF Completed, StoreTypeOK
  <2>. QED
    BY <1>2, <2>2, <2>3 DEF Contract!Complete, Contract!Move, phases
<1>5. CASE next # "completed" \/ status[j] = "completed"
  <2>1. status[j] = "completed" => next = "completed"
    BY <1>1, TransitionFacts DEF Terminal
  <2>2. Deliverable' = Deliverable
    BY <1>1, <1>3, <1>5, <2>1, DeliverableIsCompleted, DeliverableNext DEF Completed, StoreTypeOK
  <2>3. \/ Phase(j)' = Phase(j)
        \/ Phase(j) = "pending" /\ Phase(j)' \in {"rejected", "failed", "cancelling"}
        \/ Phase(j) = "cancelling" /\ Phase(j)' = "cancelled"
    <3>1. CASE next = status[j]
      BY <1>1, <3>1, PhaseKept DEF UnbornKept
    <3>2. CASE status[j] = "cancelling" /\ next = "cancelled"
      BY <1>1, <3>2, PhaseByStatus, PhaseByStatusNext DEF PhaseOfStatus, Terminal
    <3>3. CASE status[j] \in Active \ {"cancelling"} /\ next # "cancelled"
      BY <1>1, <1>5, <3>3, PhaseByStatus, PhaseByStatusNext DEF PhaseOfStatus, Active, Terminal, JobStatus
    <3>. QED
      BY <1>1, <3>1, <3>2, <3>3, TransitionFacts DEF Active
  <2>. QED
    BY <1>2, <2>2, <2>3
    DEF Contract!Fail, Contract!AcceptCancel, Contract!Cancelled, Contract!Move,
        contractVars, phases
<1>. QED  BY <1>4, <1>5

LEMMA CancelMoves ==
    ASSUME TableInv, TableInv', UnbornKept, NEW j \in JobIds, RequestCancel(j)
    PROVE  UNCHANGED contractVars \/ Contract!AcceptCancel(j)
<1>. USE DEF TableInv, StoreInv
<1>1. /\ status' = [status EXCEPT ![j] = "cancelling"]
      /\ status'[j] = "cancelling" /\ status[j] \in Active
  BY DEF RequestCancel, StoreTypeOK
<1>2. phases' = [phases EXCEPT ![j] = Phase(j)']
  BY <1>1, OnePhase
<1>3. Deliverable' = Deliverable
  BY <1>1, DeliverableIsCompleted, DeliverableNext DEF Completed, StoreTypeOK, Active, Terminal
<1>4. Phase(j)' = "cancelling" /\ Phase(j) \in {"pending", "cancelling"}
  BY <1>1, PhaseByStatus, PhaseByStatusNext DEF PhaseOfStatus, Active, Terminal
<1>. QED
  BY <1>2, <1>3, <1>4 DEF Contract!AcceptCancel, Contract!Move, contractVars, phases

LEMMA RemovalForgets ==
    ASSUME TableInv, TableInv', UnbornKept, NEW gone \in SUBSET TerminalJobs,
           RemoveRecords(gone)
    PROVE  Contract!Forget(gone)
<1>. USE DEF TableInv, StoreInv
<1>1. \A k \in JobIds : status'[k] = IF k \in gone THEN NoJob ELSE status[k]
  BY DEF RemoveRecords
<1>2. \A k \in gone : k \in JobIds /\ status[k] \in Terminal
  BY DEF TerminalJobs
<1>3. \A k \in gone : Phase(k) \in Terminal /\ ~At(k, "unborn")
  BY <1>2, PhaseByStatus, PhaseByStatusNext, NoJobAssumption
  DEF PhaseOfStatus, RecordInv, ThreadInv, Terminal, JobStatus
<1>4. \A k \in JobIds : Phase(k)' = IF k \in gone THEN "forgotten" ELSE Phase(k)
  BY <1>1, <1>3, PhaseByStatus, PhaseByStatusNext, PhaseKept DEF PhaseOfStatus, UnbornKept
<1>5. Deliverable' = Deliverable \ gone
  BY <1>1, DeliverableIsCompleted, DeliverableNext, NoJobAssumption DEF Completed, JobStatus
<1>. QED
  BY <1>2, <1>3, <1>4, <1>5
  DEF Contract!Forget, Contract!Finished, Terminal, phases

LEMMA StepImplements ==
    ASSUME TableInv, TableInv', [Next]_vars
    PROVE  [Contract!Next]_contractVars
<1>1. ASSUME UnbornKept, UNCHANGED status
      PROVE  UNCHANGED contractVars
  BY <1>1, PhaseKept, DeliverableIsCompleted, DeliverableNext
  DEF Completed, UnbornKept, contractVars, phases
<1>2. ASSUME NEW gone \in SUBSET TerminalJobs PROVE gone \in SUBSET JobIds
  BY DEF TerminalJobs
<1>. QED
  BY <1>1, <1>2, StepKinds, AdmitAccepts, PatchMoves, CancelMoves, RemovalForgets
  DEF RecordStep, Contract!Next

(* The whole manager, supervisors, workers, clients, cleanup and shutdown  *)
(* interleaved in any way, shows a client nothing but JobContract.         *)
THEOREM ManagerImplementsContract == Spec => ImplementsContract
<1>1. Init => Contract!Init
  BY NoJobAssumption
  DEF Init, StoreInit, Contract!Init, Phase, Deliverable, At, JobStatus
<1>2. IndInv /\ IndInv' /\ [Next]_vars
         => [Contract!Next]_<<[j \in JobIds |-> Phase(j)], Deliverable>>
  BY StepImplements, IndInvTable, IndInvTableNext DEF contractVars, phases
<1>. QED
  BY <1>1, <1>2, ManagerInductive, PTL DEF Spec, ImplementsContract, Contract!Spec

=============================================================================
