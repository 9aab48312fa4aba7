--------------------------- MODULE JobStoreProofs ---------------------------
(***************************************************************************)
(* What the job table promises to any number of callers, for every set of  *)
(* identifiers (finite or not) and every capacity.                         *)
(***************************************************************************)
EXTENDS JobStore, FiniteSetTheorems, TLAPS

(* The type invariant and the two safety invariants are inductive          *)
(* together.                                                               *)
StoreInv == StoreTypeOK /\ CapacityRespected /\ CancelWins

(* No edge of the table leads from a finished status, or back from         *)
(* cancelling to anything but cancelled.                                   *)
LEMMA TransitionFacts ==
    /\ Transitions \in [JobStatus -> SUBSET JobStatus]
    /\ \A s \in Terminal : Transitions[s] = {}
    /\ Transitions["cancelling"] = {"cancelled"}
BY DEF Transitions, JobStatus, Terminal, Ended

(* Removing active jobs, or none, from a table within its capacity leaves  *)
(* it within its capacity.                                                 *)
LEMMA FewerActive ==
    ASSUME CapacityRespected, ActiveJobs' \subseteq ActiveJobs
    PROVE  CapacityRespected'
<1>1. /\ IsFiniteSet(ActiveJobs')
      /\ Cardinality(ActiveJobs') <= Cardinality(ActiveJobs)
  BY FS_Subset DEF CapacityRespected
<1>2. Cardinality(ActiveJobs') \in Nat /\ Cardinality(ActiveJobs) \in Nat
  BY <1>1, FS_CardinalityType DEF CapacityRespected
<1>. QED  BY <1>1, <1>2, CapacityAssumption DEF CapacityRespected

(* One more active job fits when there was room before.                    *)
LEMMA OneMoreActive ==
    ASSUME CapacityRespected, NEW j, Cardinality(ActiveJobs) < Capacity,
           ActiveJobs' \subseteq ActiveJobs \cup {j}
    PROVE  CapacityRespected'
<1>1. /\ IsFiniteSet(ActiveJobs \cup {j})
      /\ Cardinality(ActiveJobs \cup {j}) <= Cardinality(ActiveJobs) + 1
  <2>1. Cardinality(ActiveJobs) \in Nat
    BY FS_CardinalityType DEF CapacityRespected
  <2>. QED  BY <2>1, FS_AddElement DEF CapacityRespected
<1>2. /\ IsFiniteSet(ActiveJobs')
      /\ Cardinality(ActiveJobs') <= Cardinality(ActiveJobs \cup {j})
  BY <1>1, FS_Subset
<1>3. /\ Cardinality(ActiveJobs') \in Nat
      /\ Cardinality(ActiveJobs \cup {j}) \in Nat
      /\ Cardinality(ActiveJobs) \in Nat
  BY <1>1, <1>2, FS_CardinalityType DEF CapacityRespected
<1>. QED  BY <1>1, <1>2, <1>3, CapacityAssumption DEF CapacityRespected

LEMMA InitStoreInv == StoreInit => StoreInv
<1>. SUFFICES ASSUME StoreInit PROVE StoreInv
  OBVIOUS
<1>1. StoreTypeOK
  BY DEF StoreInit, StoreTypeOK
<1>2. ActiveJobs = {}
  BY NoJobAssumption DEF StoreInit, ActiveJobs, Active
<1>3. CapacityRespected
  BY <1>2, FS_EmptySet, CapacityAssumption DEF CapacityRespected
<1>4. CancelWins
  BY DEF StoreInit, CancelWins
<1>. QED  BY <1>1, <1>3, <1>4 DEF StoreInv

(* Removal is common to delete_terminal and purge_expired.                 *)
LEMMA RemovePreserves ==
    ASSUME StoreInv, NEW gone, RemoveRecords(gone)
    PROVE  StoreInv'
<1>1. StoreTypeOK'
  BY DEF StoreInv, StoreTypeOK, RemoveRecords, Records
<1>2. ActiveJobs' \subseteq ActiveJobs
  BY NoJobAssumption DEF StoreInv, StoreTypeOK, RemoveRecords, ActiveJobs, Active
<1>3. CapacityRespected'
  BY <1>2, FewerActive DEF StoreInv
<1>4. CancelWins'
  BY DEF StoreInv, StoreTypeOK, RemoveRecords, CancelWins, Records
<1>. QED  BY <1>1, <1>3, <1>4 DEF StoreInv

LEMMA NextStoreInv == StoreInv /\ [StoreNext]_storeVars => StoreInv'
<1>. SUFFICES ASSUME StoreInv, [StoreNext]_storeVars PROVE StoreInv'
  OBVIOUS
<1>. USE DEF StoreInv
<1>1. CASE UNCHANGED storeVars
  <2>1. StoreTypeOK' /\ CancelWins'
    BY <1>1 DEF storeVars, StoreTypeOK, CancelWins, Records
  <2>2. ActiveJobs' \subseteq ActiveJobs
    BY <1>1 DEF storeVars, ActiveJobs
  <2>. QED  BY <2>1, <2>2, FewerActive
<1>2. ASSUME NEW j \in JobIds, TryCreate(j) PROVE StoreInv'
  <2>1. StoreTypeOK'
    BY <1>2 DEF TryCreate, StoreTypeOK, Records, JobStatus
  <2>2. ActiveJobs' \subseteq ActiveJobs \cup {j}
    BY <1>2 DEF TryCreate, ActiveJobs, StoreTypeOK
  <2>3. CapacityRespected'
    BY <1>2, <2>2, OneMoreActive DEF TryCreate
  <2>4. CancelWins'
    BY <1>2 DEF TryCreate, CancelWins, StoreTypeOK, Records
  <2>. QED  BY <2>1, <2>3, <2>4
<1>3. ASSUME NEW j \in JobIds, NEW next \in JobStatus, Patch(j, next)
      PROVE  StoreInv'
  <2>. status[j] \in JobStatus
    BY <1>3 DEF Patch, StoreTypeOK
  <2>1. StoreTypeOK'
    BY <1>3, NoJobAssumption DEF Patch, StoreTypeOK, Records
  <2>2. ActiveJobs' \subseteq ActiveJobs
    BY <1>3, TransitionFacts DEF Patch, ActiveJobs, Active, StoreTypeOK
  <2>3. CapacityRespected'
    BY <2>2, FewerActive
  <2>4. CancelWins'
    BY <1>3, TransitionFacts
    DEF Patch, CancelWins, StoreTypeOK, Records, Terminal
  <2>. QED  BY <2>1, <2>3, <2>4
<1>4. ASSUME NEW j \in JobIds, RequestCancel(j) PROVE StoreInv'
  <2>1. StoreTypeOK'
    BY <1>4, NoJobAssumption
    DEF RequestCancel, StoreTypeOK, Records, Active, JobStatus
  <2>2. ActiveJobs' \subseteq ActiveJobs
    BY <1>4 DEF RequestCancel, ActiveJobs, StoreTypeOK
  <2>3. CapacityRespected'
    BY <2>2, FewerActive
  <2>4. CancelWins'
    BY <1>4 DEF RequestCancel, CancelWins, StoreTypeOK, Records
  <2>. QED  BY <2>1, <2>3, <2>4
<1>5. ASSUME NEW j \in JobIds, DeleteTerminal(j) PROVE StoreInv'
  BY <1>5, RemovePreserves DEF DeleteTerminal
<1>6. ASSUME NEW j \in JobIds, Age(j) PROVE StoreInv'
  <2>1. StoreTypeOK' /\ CancelWins'
    BY <1>6 DEF Age, StoreTypeOK, CancelWins, Records
  <2>2. ActiveJobs' \subseteq ActiveJobs
    BY <1>6 DEF Age, ActiveJobs
  <2>. QED  BY <2>1, <2>2, FewerActive
<1>7. CASE PurgeExpired
  BY <1>7, RemovePreserves DEF PurgeExpired
<1>. QED  BY <1>1, <1>2, <1>3, <1>4, <1>5, <1>6, <1>7 DEF StoreNext

(* The table keeps its types, its capacity and its cancellations under     *)
(* every schedule of try_create, patch, request_cancel, delete_terminal    *)
(* and purge_expired.                                                      *)
THEOREM StoreInvariant == StoreSpec => []StoreInv
BY InitStoreInv, NextStoreInv, PTL DEF StoreSpec

(* Type correctness: no method leaves a cancellation event or an age       *)
(* behind without a record.                                                *)
THEOREM StoreTypeCorrect == StoreSpec => []StoreTypeOK
<1>1. StoreInv => StoreTypeOK
  BY DEF StoreInv
<1>. QED  BY <1>1, StoreInvariant, PTL

(* Admission never overshoots max_concurrent_jobs + max_queued_jobs.       *)
THEOREM StoreCapacity == StoreSpec => []CapacityRespected
<1>1. StoreInv => CapacityRespected
  BY DEF StoreInv
<1>. QED  BY <1>1, StoreInvariant, PTL

(* A late update never moves a job on which cancellation was requested     *)
(* anywhere but to cancelled.                                              *)
THEOREM StoreCancelWins == StoreSpec => []CancelWins
<1>1. StoreInv => CancelWins
  BY DEF StoreInv
<1>. QED  BY <1>1, StoreInvariant, PTL

LEMMA NextLegal ==
    StoreInv /\ [StoreNext]_storeVars =>
        [\A j \in JobIds : LegalChange(status[j], status'[j])]_storeVars
<1>. SUFFICES ASSUME StoreInv, StoreNext, NEW k \in JobIds
              PROVE  LegalChange(status[k], status'[k])
  OBVIOUS
<1>. status \in [JobIds -> JobStatus \cup {NoJob}]
  BY DEF StoreInv, StoreTypeOK
<1>1. ASSUME NEW j \in JobIds, TryCreate(j)
      PROVE  LegalChange(status[k], status'[k])
  BY <1>1 DEF TryCreate, LegalChange
<1>2. ASSUME NEW j \in JobIds, NEW next \in JobStatus, Patch(j, next)
      PROVE  LegalChange(status[k], status'[k])
  BY <1>2 DEF Patch, LegalChange
<1>3. ASSUME NEW j \in JobIds, RequestCancel(j)
      PROVE  LegalChange(status[k], status'[k])
  <2>1. \A s \in Active : s = "cancelling" \/ "cancelling" \in Transitions[s]
    BY DEF Active, JobStatus, Terminal, Transitions, Ended
  <2>. QED  BY <1>3, <2>1 DEF RequestCancel, LegalChange, Active
<1>4. ASSUME NEW j \in JobIds, DeleteTerminal(j)
      PROVE  LegalChange(status[k], status'[k])
  BY <1>4 DEF DeleteTerminal, RemoveRecords, LegalChange
<1>5. ASSUME NEW j \in JobIds, Age(j)
      PROVE  LegalChange(status[k], status'[k])
  BY <1>5 DEF Age, LegalChange
<1>6. CASE PurgeExpired
  BY <1>6 DEF PurgeExpired, RemoveRecords, Expired, TerminalJobs, LegalChange
<1>. QED  BY <1>1, <1>2, <1>3, <1>4, <1>5, <1>6 DEF StoreNext

(* A record is created queued, moves along the table's edges only, and     *)
(* leaves the table only when it is finished: no method that writes around *)
(* the table brings a finished job back.                                   *)
THEOREM StoreLifecycle == StoreSpec => Lifecycle
BY StoreInvariant, NextLegal, PTL DEF StoreSpec, Lifecycle

=============================================================================
