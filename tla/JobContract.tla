----------------------------- MODULE JobContract -----------------------------
(***************************************************************************)
(* What the API promises about one job, whatever runs behind it: the       *)
(* client's view of GET /jobs/{id}, GET /jobs/{id}/file and DELETE.        *)
(*   - at most Capacity jobs are unfinished at a time;                     *)
(*   - a job finishes once, and after an accepted cancellation only as     *)
(*     cancelled;                                                          *)
(*   - the file can be fetched exactly while the job says completed;       *)
(*   - only finished jobs are forgotten, and a forgotten one stays so.     *)
(* A service that is started again keeps these promises in each of its     *)
(* lives and loses all of its jobs at once in between (RestartSpec).       *)
(***************************************************************************)
EXTENDS Naturals, FiniteSets

CONSTANTS JobIds, Capacity

VARIABLES
    phase,        \* per job, what a poll of it answers
    deliverable   \* the jobs whose file can be fetched

Finished == {"completed", "rejected", "failed", "cancelled"}
Unfinished == {j \in JobIds : phase[j] \in {"pending", "cancelling"}}

Init ==
    /\ phase = [j \in JobIds |-> "unknown"]
    /\ deliverable = {}

Move(j, from, to) ==
    /\ phase[j] = from
    /\ phase' = [phase EXCEPT ![j] = to]

Accept(j) ==
    /\ Cardinality(Unfinished) < Capacity
    /\ Move(j, "unknown", "pending")
    /\ UNCHANGED deliverable

Complete(j) ==
    /\ Move(j, "pending", "completed")
    /\ deliverable' = deliverable \cup {j}

Fail(j) ==
    /\ Move(j, "pending", "rejected") \/ Move(j, "pending", "failed")
    /\ UNCHANGED deliverable

AcceptCancel(j) ==
    /\ Move(j, "pending", "cancelling")
    /\ UNCHANGED deliverable

Cancelled(j) ==
    /\ Move(j, "cancelling", "cancelled")
    /\ UNCHANGED deliverable

Forget(gone) ==
    /\ \A j \in gone : phase[j] \in Finished
    /\ phase' = [j \in JobIds |-> IF j \in gone THEN "forgotten" ELSE phase[j]]
    /\ deliverable' = deliverable \ gone

Next ==
    \/ \E j \in JobIds :
          Accept(j) \/ Complete(j) \/ Fail(j) \/ AcceptCancel(j) \/ Cancelled(j)
    \/ \E gone \in SUBSET JobIds : Forget(gone)

Spec == Init /\ [][Next]_<<phase, deliverable>>

(* The record of the jobs is the memory of one API process.  An identifier *)
(* drawn before stays forgotten and is never drawn again.                  *)
Lose ==
    /\ phase' = [j \in JobIds |->
                    IF phase[j] = "unknown" THEN "unknown" ELSE "forgotten"]
    /\ deliverable' = {}

RestartSpec == Init /\ [][Next \/ Lose]_<<phase, deliverable>>

=============================================================================
