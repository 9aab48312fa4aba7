------------------------------ MODULE JobStore ------------------------------
(***************************************************************************)
(* The in-memory job table of the backend: services/jobs.py and the status *)
(* vocabulary of models.py.  Every method of JobStore holds one lock from  *)
(* its first read to its last write, so a method is one action here.  The  *)
(* callers are arbitrary threads: StoreNext lets any of them call any      *)
(* method with any argument at any time.                                   *)
(*                                                                         *)
(* A record is reduced to its status and to whether it is older than the   *)
(* retention time; progress, titles, names and times of day are data that  *)
(* no method branches on.                                                  *)
(***************************************************************************)
EXTENDS Naturals, FiniteSets

CONSTANTS
    JobIds,    \* the identifiers jobs are drawn from (uuid4 in the code)
    Capacity,  \* settings.job_capacity, the max_jobs of try_create
    NoJob      \* stands for "no record under this identifier"

JobStatus == {"queued", "inspecting", "downloading", "processing", "completed",
              "rejected", "failed", "cancelling", "cancelled"}

Terminal == {"completed", "rejected", "failed", "cancelled"}

Active == JobStatus \ Terminal

(* settings.job_capacity adds max_concurrent_jobs, which __post_init__     *)
(* requires to be positive, and max_queued_jobs, which it requires not to  *)
(* be negative.                                                            *)
ASSUME CapacityAssumption == Capacity \in Nat \ {0}

ASSUME NoJobAssumption == NoJob \notin JobStatus

VARIABLES
    status,        \* the status of each record, NoJob where there is none
    cancelEvents,  \* the jobs whose cancellation event is set
    stale          \* the records not updated for longer than the TTL

storeVars == <<status, cancelEvents, stale>>

(* The transition table that patch consults.                               *)
Ended == {"rejected", "failed", "cancelling", "cancelled"}

Transitions ==
    [s \in JobStatus |->
        CASE s = "queued"      -> {"inspecting", "cancelling", "cancelled", "failed"}
          [] s = "inspecting"  -> {"downloading", "processing"} \cup Ended
          [] s = "downloading" -> {"processing", "completed"} \cup Ended
          [] s = "processing"  -> {"completed"} \cup Ended
          [] s = "cancelling"  -> {"cancelled"}
          [] OTHER             -> {}]

Records == {j \in JobIds : status[j] # NoJob}
ActiveJobs == {j \in JobIds : status[j] \in Active}
TerminalJobs == {j \in JobIds : status[j] \in Terminal}

StoreTypeOK ==
    /\ status \in [JobIds -> JobStatus \cup {NoJob}]
    /\ cancelEvents \subseteq Records
    /\ stale \subseteq Records

StoreInit ==
    /\ status = [j \in JobIds |-> NoJob]
    /\ cancelEvents = {}
    /\ stale = {}

-----------------------------------------------------------------------------
(* Slips.  Not part of the model: plausible mistakes in the methods below, *)
(* for mutation checks.                                                    *)

CreateUncounted(j) ==
    /\ status[j] = NoJob
    /\ status' = [status EXCEPT ![j] = "queued"]
    /\ cancelEvents' = cancelEvents \ {j}
    /\ UNCHANGED stale

PatchUnchecked(j, next) ==
    /\ status[j] # NoJob
    /\ status' = [status EXCEPT ![j] = next]
    /\ stale' = stale \ {j}
    /\ UNCHANGED cancelEvents

RemoveRecordsOnly(gone) ==
    /\ status' = [j \in JobIds |-> IF j \in gone THEN NoJob ELSE status[j]]
    /\ stale' = stale \ gone
    /\ UNCHANGED cancelEvents

CancelQueuedAtOnce(j) ==
    /\ status[j] \in Active
    /\ status' = [status EXCEPT ![j] =
                     IF @ = "queued" THEN "cancelled" ELSE "cancelling"]
    /\ cancelEvents' = cancelEvents \cup {j}
    /\ stale' = stale \ {j}

DeleteAnyStatus(j) ==
    /\ status[j] # NoJob
    /\ status' = [status EXCEPT ![j] = NoJob]
    /\ cancelEvents' = cancelEvents \ {j}
    /\ stale' = stale \ {j}

ExpiredAtAnyStatus == stale

-----------------------------------------------------------------------------
(* The methods.                                                            *)

(* try_create that finds room: the count of active records, the test and   *)
(* the insertion are under one lock.  Its other outcome returns None and   *)
(* changes nothing.                                                        *)
TryCreate(j) ==
    /\ Cardinality(ActiveJobs) < Capacity
    /\ status[j] = NoJob
    /\ status' = [status EXCEPT ![j] = "queued"]
    /\ cancelEvents' = cancelEvents \ {j}
    /\ UNCHANGED stale

(* patch, by outcome.  Where the record is missing or its status is not    *)
(* expected, patch changes nothing; where the table has no such edge it    *)
(* raises JobTransitionError and changes nothing.                          *)
PatchIgnored(j, expected) == status[j] \notin expected

PatchRaises(j, expected, next) ==
    /\ ~PatchIgnored(j, expected)
    /\ next # status[j]
    /\ next \notin Transitions[status[j]]

Patch(j, next) ==
    /\ status[j] # NoJob
    /\ next = status[j] \/ next \in Transitions[status[j]]
    /\ status' = [status EXCEPT ![j] = next]
    /\ stale' = stale \ {j}
    /\ UNCHANGED cancelEvents

PatchReturns(j, expected, next) ==
    \/ PatchIgnored(j, expected) /\ UNCHANGED storeVars
    \/ ~PatchIgnored(j, expected) /\ Patch(j, next)

(* request_cancel on an active record.  It writes the status past the      *)
(* transition table.                                                       *)
RequestCancel(j) ==
    /\ status[j] \in Active
    /\ status' = [status EXCEPT ![j] = "cancelling"]
    /\ cancelEvents' = cancelEvents \cup {j}
    /\ stale' = stale \ {j}

CancelRequested(j) == j \in cancelEvents

(* Removing records takes their cancellation events along.                 *)
RemoveRecords(gone) ==
    /\ status' = [j \in JobIds |-> IF j \in gone THEN NoJob ELSE status[j]]
    /\ cancelEvents' = cancelEvents \ gone
    /\ stale' = stale \ gone

DeleteTerminal(j) ==
    /\ status[j] \in Terminal
    /\ RemoveRecords({j})

(* purge_expired removes every record it finds expired under one lock.     *)
Expired == TerminalJobs \cap stale

PurgeExpired ==
    /\ Expired # {}
    /\ RemoveRecords(Expired)

(* Time passes: a record's updated_at falls behind the cutoff.  Any record *)
(* may age before any other one, which allows more than a clock does.      *)
Age(j) ==
    /\ j \in Records \ stale
    /\ stale' = stale \cup {j}
    /\ UNCHANGED <<status, cancelEvents>>

StoreNext ==
    \/ \E j \in JobIds :
          \/ TryCreate(j)
          \/ \E next \in JobStatus : Patch(j, next)
          \/ RequestCancel(j)
          \/ DeleteTerminal(j)
          \/ Age(j)
    \/ PurgeExpired

StoreSpec == StoreInit /\ [][StoreNext]_storeVars

-----------------------------------------------------------------------------
(* Properties.                                                             *)

(* Concurrent admissions never overshoot the configured capacity: the      *)
(* count in try_create is still true when it inserts, and no later status  *)
(* change brings a finished job back into the count.                       *)
CapacityRespected ==
    /\ IsFiniteSet(ActiveJobs)
    /\ Cardinality(ActiveJobs) <= Capacity

(* Once request_cancel has set a job's event, no late update of a worker   *)
(* or a supervisor moves the job anywhere but to cancelled, for as long as *)
(* the record exists; a new record never inherits an old event.            *)
CancelWins ==
    \A j \in cancelEvents : status[j] \in {"cancelling", "cancelled"}

(* What one step may do to one record: create it queued, move it along an  *)
(* edge of the table, or remove it when it is finished.  request_cancel,   *)
(* delete_terminal and purge_expired write around the table, and a         *)
(* finished or removed job must never come back to life through them.      *)
LegalChange(old, new) ==
    \/ old = new
    \/ old = NoJob /\ new = "queued"
    \/ old \in Terminal /\ new = NoJob
    \/ old \in JobStatus /\ new \in Transitions[old]

Lifecycle == [][\A j \in JobIds : LegalChange(status[j], status'[j])]_storeVars

=============================================================================
