------------------------------- MODULE Frontend -------------------------------
(***************************************************************************)
(* The web client, frontend/assets/app.js, and the API as JobContract      *)
(* describes it.  The page has one thread: an event handler or the code    *)
(* after an await runs to its next await without interruption, and is one  *)
(* action.  Requests, answers, timers, the user and the jobs on the server *)
(* interleave freely; any request may fail or time out on the page's side  *)
(* while the server still handles it.                                      *)
(*                                                                         *)
(* The four running statuses of a job look alike to the page and are one   *)
(* phase, "pending"; what is rendered beyond the visible controls, delays  *)
(* and texts are left out.  The page is gone after "pagehide".             *)
(*                                                                         *)
(* A definition marked "Slip" is not part of the model: it is a plausible  *)
(* mistake in the definition after it, for mutation checks.                *)
(***************************************************************************)
EXTENDS Naturals, FiniteSets

CONSTANTS
    JobIds,      \* the submissions, named by the identifier they may get
    Capacity,    \* the server's settings.job_capacity
    NoJob,       \* null
    Deliveries,  \* the values settings.serverless may have
    UsesPaste    \* does the user use the Paste tool of the address field

ASSUME FrontendAssumption ==
    /\ Capacity \in Nat \ {0}
    /\ NoJob \notin JobIds
    /\ Deliveries \subseteq BOOLEAN /\ Deliveries # {}
    /\ UsesPaste \in BOOLEAN

VARIABLES
    serverless,   \* settings.serverless: the answer to a submission streams
    (* model *)
    ui,           \* model.ui
    inspected,    \* model.metadata, inspectedUrl and selectedMode are set
    scope,        \* model.failureScope
    job,          \* model.job.job_id
    shown,        \* model.job.status; "none" where model.job is null
    (* poller *)
    pollJob,      \* poller.jobId, NoJob unless poller.active
    timer,        \* the timer of schedulePoll is set
    polls,        \* the polls under way; live: of the current generation
    (* the other requests of the page *)
    inspection,   \* inspectionController is set
    creation,     \* the submission creationController belongs to
    stream,       \* how far consumeDirectDownload has read
    aborted,      \* the consumer of an aborted submission has yet to fail
    deletes,      \* the DELETEs that calls of cancelJob() await
    pasting,      \* a clipboard.readText() is under way
    (* the server *)
    phase, deliverable,  \* see JobContract
    post,         \* per submission: the POST and its answer
    strays,       \* jobs with a DELETE on its way that the page gave up on
    tail,         \* per job: the final snapshot its stream was sent
    closed,       \* the streams whose generator has finished
    (* history *)
    overtaken     \* a clipboard answered a polled page that had moved on

model == <<ui, inspected, scope, job, shown>>
poller == <<pollJob, timer, polls>>
clipboard == <<pasting, overtaken>>
requests == <<inspection, creation, stream, aborted, deletes, clipboard>>
jobs == <<phase, deliverable>>
server == <<jobs, post, strays, tail, closed>>
vars == <<model, poller, requests, server>>

API == INSTANCE JobContract

-----------------------------------------------------------------------------
UiState == {"idle", "inspecting", "ready", "creating", "active", "cancelling",
            "completed", "rejected", "failed", "cancelled"}

(* ALLOWED_TRANSITIONS                                                     *)
Restart == {"idle", "inspecting", "ready", "creating"}
Allowed ==
    [s \in UiState |->
        CASE s = "idle"       -> {"inspecting", "failed"}
          [] s = "inspecting" -> {"idle", "ready", "failed"}
          [] s = "ready"      -> {"idle", "inspecting", "creating"}
          [] s = "creating"   -> {"ready", "active", "cancelling"} \cup API!Finished
          [] s = "active"     -> {"cancelling"} \cup API!Finished
          [] s = "cancelling" -> {"active"} \cup API!Finished
          [] s = "completed"  -> Restart \ {"ready"}
          [] OTHER            -> Restart]

Statuses == {"pending", "cancelling"} \cup API!Finished
Answers == Statuses \cup {"none", "missing"}

FrontendTypeOK ==
    /\ serverless \in Deliveries
    /\ ui \in UiState
    /\ inspected \in BOOLEAN
    /\ scope \in {"none", "inspect", "create", "job"}
    /\ job \in JobIds \cup {NoJob}
    /\ shown \in Statuses \cup {"none"}
    /\ pollJob \in JobIds \cup {NoJob}
    /\ timer \in BOOLEAN
    /\ polls \subseteq [job : JobIds, live : BOOLEAN, answer : Answers]
    /\ inspection \in BOOLEAN
    /\ creation \in JobIds \cup {NoJob}
    /\ stream \in {"none", "open", "ended", "completed", "file", "whole"}
    /\ aborted \in BOOLEAN
    /\ deletes \subseteq [job : JobIds, nth : Nat, answer : Answers \cup {"deleted"}]
    /\ pasting \in BOOLEAN /\ overtaken \in BOOLEAN
    /\ phase \in [JobIds -> Statuses \cup {"unknown", "forgotten"}]
    /\ deliverable \subseteq JobIds
    /\ post \in [JobIds -> {"none", "sent", "accepted", "refused"}]
    /\ strays \subseteq JobIds
    /\ tail \in [JobIds -> {"none"} \cup API!Finished]
    /\ closed \subseteq JobIds

Init ==
    /\ serverless \in Deliveries
    /\ ui = "idle" /\ inspected = FALSE /\ scope = "none"
    /\ job = NoJob /\ shown = "none"
    /\ pollJob = NoJob /\ timer = FALSE /\ polls = {}
    /\ inspection = FALSE
    /\ creation = NoJob /\ stream = "none" /\ aborted = FALSE
    /\ deletes = {}
    /\ pasting = FALSE /\ overtaken = FALSE
    /\ API!Init
    /\ post = [j \in JobIds |-> "none"]
    /\ strays = {}
    /\ tail = [j \in JobIds |-> "none"]
    /\ closed = {}

-----------------------------------------------------------------------------
(* render() and renderJob(): which controls the user can reach.            *)

ResultVisible ==
    /\ inspected
    /\ ui \in {"ready", "creating"} \/ (ui = "failed" /\ scope = "create")

JobVisible ==
    /\ shown # "none"
    /\ \/ ui \in {"active", "cancelling", "completed", "rejected", "cancelled"}
       \/ (ui = "failed" /\ scope = "job")

(* Slip: the form stays usable beside a job panel.                         *)
LockedWhileCreating == ui = "creating"

WorkflowLocked == ui = "creating" \/ JobVisible

ErrorControls == JobVisible /\ shown \in {"failed", "rejected", "cancelled"}
DoneControls == JobVisible /\ shown \in API!Finished
CancelControl == JobVisible /\ shown = "pending" /\ ui # "cancelling"

(* transition(), with the fields of its patch                              *)
Transition(next, sc, j, s) ==
    /\ ui' = next
    /\ scope' = sc
    /\ job' = j
    /\ shown' = s

(* stopPolling(): the generation moves on and the request is aborted.  Its *)
(* answer may have reached the page already.                               *)
Stale == {[p EXCEPT !.live = FALSE] : p \in polls}

StopPolling == pollJob' = NoJob /\ timer' = FALSE /\ polls' = Stale
StartPolling(j) == pollJob' = j /\ timer' = TRUE /\ polls' = Stale

LivePolls == {p \in polls : p.live}

(* uiStateForJob() and applyJob() without its stopPolling().               *)
UiStateForJob(s) == IF s = "pending" THEN "active" ELSE s
Apply(j, s) ==
    /\ Transition(UiStateForJob(s), IF s = "failed" THEN "job" ELSE "none", j, s)
    /\ UNCHANGED inspected

Forgo == inspected' = FALSE

-----------------------------------------------------------------------------
(* Inspection.                                                             *)

InspectButton == ~WorkflowLocked /\ ui # "inspecting"

(* An address that does not parse; the one that was inspected does.        *)
InspectInvalid ==
    /\ InspectButton /\ ~inspected
    /\ Transition("failed", "inspect", job, shown) /\ Forgo
    /\ UNCHANGED <<poller, requests, server>>

Inspect ==
    /\ InspectButton
    /\ StopPolling
    /\ inspection' = TRUE
    /\ Transition("inspecting", "none", NoJob, "none") /\ Forgo
    /\ UNCHANGED <<creation, stream, aborted, deletes, clipboard, server>>

InspectionEnds(next, sc, found) ==
    /\ inspection
    /\ inspection' = FALSE
    /\ Transition(next, sc, job, shown)
    /\ inspected' = found
    /\ UNCHANGED <<poller, creation, stream, aborted, deletes, clipboard, server>>

InspectionSucceeds == InspectionEnds("ready", "none", TRUE)

(* An error answer, no answer, or none within INSPECTION_TIMEOUT_MS        *)
InspectionFails == InspectionEnds("failed", "inspect", FALSE)

CancelInspection ==
    /\ ui = "inspecting"
    /\ inspection' = FALSE
    /\ Transition("idle", "none", job, shown) /\ Forgo
    /\ UNCHANGED <<poller, creation, stream, aborted, deletes, clipboard, server>>

(* handleUrlInput()                                                        *)
HandleUrlInput ==
    \/ /\ ui = "inspecting"
       /\ inspection' = FALSE
       /\ Transition("idle", "none", job, shown)
       /\ UNCHANGED inspected
    \/ /\ ui # "inspecting"
       /\ inspected \/ (ui = "failed" /\ scope = "inspect")
       /\ Transition("idle", "none", NoJob, "none") /\ Forgo
       /\ UNCHANGED inspection
    \/ /\ ui # "inspecting"
       /\ ~inspected /\ ~(ui = "failed" /\ scope = "inspect")
       /\ UNCHANGED <<model, inspection>>

EditUrl ==
    /\ ~WorkflowLocked
    /\ HandleUrlInput
    /\ UNCHANGED <<poller, creation, stream, aborted, deletes, clipboard, server>>

(* handleAuthChange()                                                      *)
AuthChange ==
    /\ ~WorkflowLocked /\ ui # "inspecting" /\ inspected
    /\ Transition("idle", "none", NoJob, "none") /\ Forgo
    /\ UNCHANGED <<poller, requests, server>>

(* useInputTool() on an empty field reads the clipboard, which may wait    *)
(* for a permission; nothing keeps the user from asking again meanwhile.   *)
(* The field is not empty while what it says is inspected.                 *)
PasteStarts ==
    /\ UsesPaste /\ ~WorkflowLocked
    /\ ui # "inspecting" /\ ~inspected
    /\ pasting' = TRUE
    /\ UNCHANGED <<model, poller, inspection, creation, stream, aborted, deletes,
                   overtaken, server>>

MovedOn == ~serverless /\ ~(InspectButton /\ ~inspected)

PasteAnswered ==
    /\ pasting /\ pasting' \in BOOLEAN
    /\ overtaken' = (overtaken \/ MovedOn)
    /\ UNCHANGED <<poller, creation, stream, aborted, deletes, server>>

PasteArrives == PasteAnswered /\ HandleUrlInput

PasteFails ==
    /\ PasteAnswered
    /\ Transition("failed", "inspect", job, shown)
    /\ UNCHANGED <<inspected, inspection>>

-----------------------------------------------------------------------------
(* Submission: startDownload() and the buttons that call it.               *)

(* creationController.abort(): what still awaits it fails at once.         *)
AbortCreation == aborted' = (creation # NoJob)

StartDownload(j) ==
    /\ post[j] = "none"
    /\ inspected
    /\ (ResultVisible /\ ui # "creating") \/ ErrorControls
    /\ StopPolling
    /\ AbortCreation
    /\ creation' = j /\ stream' = "none"
    /\ post' = [post EXCEPT ![j] = "sent"]
    /\ Transition("creating", "none", NoJob, "none")
    /\ UNCHANGED <<inspected, inspection, deletes, clipboard, jobs, strays,
                   tail, closed>>

(* retryDownload() without a selection                                     *)
RetryForgotten ==
    /\ ErrorControls /\ ~inspected
    /\ Transition("idle", "none", NoJob, "none")
    /\ UNCHANGED <<inspected, poller, requests, server>>

ChangeOptions ==
    /\ ErrorControls /\ inspected
    /\ StopPolling
    /\ Transition("ready", "none", NoJob, "none")
    /\ UNCHANGED <<inspected, requests, server>>

(* resetApplication()                                                      *)
AnotherDownload ==
    /\ DoneControls
    /\ StopPolling
    /\ AbortCreation
    /\ inspection' = FALSE
    /\ creation' = NoJob /\ stream' = "none"
    /\ Transition("idle", "none", NoJob, "none") /\ Forgo
    /\ UNCHANGED <<deletes, clipboard, server>>

(* The catch clause of startDownload()                                     *)
Caught ==
    /\ IF shown # "none"
       THEN Transition("failed", "job", job, "failed")
       ELSE Transition("failed", "create", NoJob, "none")
    /\ UNCHANGED inspected

AbortCaught == IF ui = "cancelled" THEN UNCHANGED model ELSE Caught

(* The consumer of an aborted submission                                   *)
ConsumerAborts ==
    /\ aborted /\ aborted' = FALSE
    /\ AbortCaught
    /\ UNCHANGED <<poller, inspection, creation, stream, deletes, clipboard, server>>

(* Its finally clause                                                      *)
CreationOver == creation' = NoJob /\ stream' = "none"

(* An error answer, an unreadable one, a lost connection, an error line of *)
(* the stream, or a stream that ends early                                 *)
CreationFails ==
    /\ creation # NoJob
    /\ Caught
    /\ CreationOver
    /\ UNCHANGED <<poller, inspection, aborted, deletes, clipboard, server>>

(* REQUEST_TIMEOUT_MS or DIRECT_REQUEST_TIMEOUT_MS                         *)
CreationTimesOut ==
    /\ creation # NoJob
    /\ AbortCaught
    /\ CreationOver
    /\ UNCHANGED <<poller, inspection, aborted, deletes, clipboard, server>>

CreationAccepted ==
    /\ ~serverless
    /\ creation # NoJob /\ post[creation] = "accepted"
    /\ Apply(creation, "pending")
    /\ StartPolling(creation)
    /\ CreationOver
    /\ UNCHANGED <<inspection, aborted, deletes, clipboard, server>>

-----------------------------------------------------------------------------
(* consumeDirectDownload()                                                 *)

Reading(state) == creation # NoJob /\ stream = state
Consumed == UNCHANGED <<poller, inspection, aborted, deletes, clipboard, server>>

StreamOpens ==
    /\ serverless /\ Reading("none")
    /\ post[creation] = "accepted"
    /\ Transition("active", "none", creation, "pending")
    /\ stream' = "open"
    /\ UNCHANGED <<inspected, creation>> /\ Consumed

(* A snapshot of an unfinished job                                         *)
StreamReports ==
    /\ Reading("open")
    /\ phase[creation] \in {"pending", "cancelling"}
    /\ Apply(creation, phase[creation])
    /\ UNCHANGED <<creation, stream>> /\ Consumed

(* The snapshot of one that ended without a file, and the end of the body  *)
StreamEnds ==
    /\ Reading("open")
    /\ tail[creation] \in {"rejected", "failed", "cancelled"}
    /\ Apply(creation, tail[creation])
    /\ StopPolling
    /\ stream' = "ended"
    /\ UNCHANGED <<creation, inspection, aborted, deletes, clipboard, server>>

StreamReturns ==
    /\ Reading("ended")
    /\ shown \in API!Finished
    /\ CreationOver
    /\ UNCHANGED model /\ Consumed

(* The snapshot of a completed one is kept back until the file is there.   *)
StreamCompletes ==
    /\ Reading("open")
    /\ tail[creation] = "completed"
    /\ stream' = "completed"
    /\ UNCHANGED <<model, creation>> /\ Consumed

StreamDelivers ==
    /\ Reading("completed")
    /\ Apply(creation, "pending")
    /\ stream' = "file"
    /\ UNCHANGED creation /\ Consumed

(* The last of the bytes that the file's line has announced                *)
StreamArrives ==
    /\ Reading("file")
    /\ stream' = "whole"
    /\ UNCHANGED <<model, creation>> /\ Consumed

(* The end of the body, with as many bytes as announced.  (A body that     *)
(* ends before is one of CreationFails.)                                   *)
StreamSaves ==
    /\ Reading("whole")
    /\ Apply(creation, "completed")
    /\ StopPolling
    /\ CreationOver
    /\ UNCHANGED <<inspection, aborted, deletes, clipboard, server>>

-----------------------------------------------------------------------------
(* Polling.                                                                *)

polled == <<requests, server>>

PollStarts ==
    /\ timer
    /\ timer' = FALSE
    /\ polls' = polls \cup {[job |-> pollJob, live |-> TRUE, answer |-> "none"]}
    /\ UNCHANGED <<model, pollJob, polled>>

(* The answer of a poll that stopPolling() overtook                        *)
PollDropped(p) ==
    /\ ~p.live
    /\ polls' = polls \ {p}
    /\ UNCHANGED <<model, pollJob, timer, polled>>

(* schedulePoll() of the finally clause's successor                        *)
PollAgain(p) == polls' = polls \ {p} /\ timer' = TRUE /\ UNCHANGED pollJob

(* Slip: without the look at the generation.                               *)
PollAnsweredLate(p) ==
    /\ p.answer \in Statuses
    /\ Apply(p.job, p.answer)
    /\ IF p.answer \in API!Finished
       THEN /\ pollJob' = NoJob /\ timer' = FALSE
            /\ polls' = {[q EXCEPT !.live = FALSE] : q \in polls \ {p}}
       ELSE /\ polls' = polls \ {p}
            /\ timer' = (timer \/ p.live)
            /\ UNCHANGED pollJob
    /\ UNCHANGED polled

PollAnswered(p) ==
    /\ p.live /\ p.answer \in Statuses
    /\ Apply(p.job, p.answer)
    /\ IF p.answer \in API!Finished
       THEN /\ pollJob' = NoJob /\ timer' = FALSE
            /\ polls' = {[q EXCEPT !.live = FALSE] : q \in polls \ {p}}
       ELSE PollAgain(p)
    /\ UNCHANGED polled

(* Slip: a missing job is polled for like after any other error.           *)
PollMissingRetried(p) ==
    /\ p.live /\ p.answer = "missing"
    /\ PollAgain(p)
    /\ UNCHANGED <<model, polled>>

(* 404                                                                     *)
PollMissing(p) ==
    /\ p.live /\ p.answer = "missing"
    /\ pollJob' = NoJob /\ timer' = FALSE
    /\ polls' = {[q EXCEPT !.live = FALSE] : q \in polls \ {p}}
    /\ Transition("failed", "job", job, "failed")
    /\ UNCHANGED <<inspected, polled>>

(* Slip: the first error ends the chain.                                   *)
PollGivesUp(p) ==
    /\ p.live
    /\ polls' = polls \ {p}
    /\ UNCHANGED <<model, pollJob, timer, polled>>

(* Any other error, and REQUEST_TIMEOUT_MS                                 *)
PollFails(p) ==
    /\ p.live
    /\ PollAgain(p)
    /\ UNCHANGED <<model, polled>>

(* Slip: also when a poll is under way.                                    *)
BecomesVisibleAnyway ==
    /\ pollJob # NoJob
    /\ timer' = TRUE
    /\ UNCHANGED <<model, pollJob, polls, polled>>

(* visibilitychange: the next poll is due now.                             *)
BecomesVisible ==
    /\ pollJob # NoJob /\ LivePolls = {}
    /\ timer' = TRUE
    /\ UNCHANGED <<model, pollJob, polls, polled>>

-----------------------------------------------------------------------------
(* cancelJob()                                                             *)

(* A stream is cancelled by closing it.                                    *)
CancelStream ==
    /\ CancelControl
    /\ serverless /\ creation # NoJob
    /\ aborted' = TRUE
    /\ CreationOver
    /\ Transition("cancelled", scope, job, "cancelled")
    /\ UNCHANGED <<inspected, poller, inspection, deletes, clipboard, server>>

(* A second DELETE of the same job is a request of its own.                *)
Cancel ==
    /\ CancelControl /\ job # NoJob
    /\ ~serverless
    /\ StopPolling
    /\ \E n \in 0..Cardinality(deletes) :
          /\ \A d \in deletes : d.job = job => d.nth # n
          /\ deletes' = deletes \cup {[job |-> job, nth |-> n, answer |-> "none"]}
    /\ Transition("cancelling", scope, job, "cancelling")
    /\ UNCHANGED <<inspected, inspection, creation, stream, aborted, clipboard, server>>

Answered(d) ==
    /\ deletes' = deletes \ {d}
    /\ UNCHANGED <<inspection, creation, stream, aborted, clipboard, jobs,
                   post, tail, closed>>

(* The record, after the cancellation or already finished                  *)
CancelAnswered(d) ==
    /\ d.answer \in Statuses
    /\ Apply(d.job, d.answer)
    /\ IF d.answer \in API!Finished THEN StopPolling ELSE StartPolling(d.job)
    /\ Answered(d) /\ UNCHANGED strays

(* {deleted, job_id}: no status, the one shown stays.                      *)
CancelDeleted(d) ==
    /\ d.answer = "deleted"
    /\ Apply(d.job, IF shown = "none" THEN "pending" ELSE shown)
    /\ StartPolling(d.job)
    /\ Answered(d) /\ UNCHANGED strays

(* Slip: a cancellation without an answer is taken for done.               *)
CancelAssumed(d) ==
    /\ Transition("cancelled", scope, job, "cancelled")
    /\ UNCHANGED <<inspected, poller, strays>>
    /\ Answered(d)

(* An error answer, no answer, or none within REQUEST_TIMEOUT_MS; the      *)
(* server may still get the request.  The panel goes back to the phase of  *)
(* the last snapshot, which is another job's where the clipboard has       *)
(* brought the page that far.                                              *)
CancelFails(d) ==
    /\ IF shown = "none"
       THEN UNCHANGED <<model, poller>>
       ELSE /\ \E s \in {"pending", "cancelling", shown} :
                   (s = "pending" \/ overtaken) /\ Transition("active", scope, job, s)
            /\ StartPolling(d.job)
            /\ UNCHANGED inspected
    /\ \/ d.answer = "none" /\ strays' = strays \cup {d.job}
       \/ UNCHANGED strays
    /\ Answered(d)

-----------------------------------------------------------------------------
(* The server: what JobContract allows, and the routes that answer.        *)

page == <<model, poller, requests>>

PostAccepted(j) ==
    /\ post[j] = "sent"
    /\ API!Accept(j)
    /\ post' = [post EXCEPT ![j] = "accepted"]
    /\ UNCHANGED <<page, strays, tail, closed>>

PostRefused(j) ==
    /\ post[j] = "sent"
    /\ post' = [post EXCEPT ![j] = "refused"]
    /\ UNCHANGED <<page, jobs, strays, tail, closed>>

(* The job runs, expires, or is cancelled or deleted by someone else.      *)
JobMoves(j) ==
    /\ API!Complete(j) \/ API!Fail(j) \/ API!AcceptCancel(j) \/ API!Cancelled(j)
           \/ API!Forget({j})
    /\ jobs' # jobs
    /\ UNCHANGED <<page, post, strays, tail, closed>>

(* Slip: the answer to a poll of a removed job is its last phase.          *)
PollServedAnyway(p) ==
    /\ p.answer = "none"
    /\ polls' = (polls \ {p}) \cup {[p EXCEPT !.answer = phase[p.job]]}
    /\ UNCHANGED <<model, pollJob, timer, requests, server>>

(* get_job                                                                 *)
PollServed(p) ==
    /\ p.answer = "none"
    /\ polls' = (polls \ {p}) \cup
          {[p EXCEPT !.answer =
               IF phase[p.job] \in Statuses THEN phase[p.job] ELSE "missing"]}
    /\ UNCHANGED <<model, pollJob, timer, requests, server>>

(* delete_job, with the answer to it                                       *)
DeleteRoute(j, answer) ==
    \/ /\ phase[j] = "pending" /\ answer = "cancelling"
       /\ API!AcceptCancel(j)
    \/ /\ phase[j] = "cancelling" /\ answer = "cancelling"
       /\ UNCHANGED jobs
    \/ /\ phase[j] \in API!Finished /\ answer = "deleted"
       /\ API!Forget({j})
    \/ /\ phase[j] \in API!Finished /\ answer = phase[j]  \* finished meanwhile
       /\ UNCHANGED jobs
    \/ /\ phase[j] = "forgotten" /\ answer = "missing"
       /\ UNCHANGED jobs

DeleteServed(d) ==
    /\ d.answer = "none"
    /\ \E answer \in Answers \cup {"deleted"} :
          /\ DeleteRoute(d.job, answer)
          /\ deletes' = (deletes \ {d}) \cup {[d EXCEPT !.answer = answer]}
    /\ UNCHANGED <<model, poller, inspection, creation, stream, aborted, pasting,
                   overtaken, post, strays, tail, closed>>

StrayServed(j) ==
    /\ j \in strays
    /\ strays' = strays \ {j}
    /\ \E answer \in Answers \cup {"deleted"} : DeleteRoute(j, answer)
    /\ UNCHANGED <<page, post, tail, closed>>

(* _direct_download_stream reaches a finished record ...                   *)
StreamFinishes(j) ==
    /\ serverless /\ post[j] = "accepted"
    /\ creation = j /\ j \notin closed /\ tail[j] = "none"
    /\ phase[j] \in API!Finished
    /\ tail' = [tail EXCEPT ![j] = phase[j]]
    /\ UNCHANGED <<page, jobs, post, strays, closed>>

(* ... and its finally clause, also when the page has gone away.           *)
StreamCloses(j) ==
    /\ serverless /\ post[j] = "accepted"
    /\ tail[j] # "none" \/ creation # j
    /\ j \notin closed /\ closed' = closed \cup {j}
    /\ \/ phase[j] = "pending" /\ API!AcceptCancel(j)
       \/ phase[j] \in API!Finished /\ API!Forget({j})
       \/ phase[j] # "pending" /\ UNCHANGED jobs
    /\ UNCHANGED <<page, post, strays, tail>>

(* The API process ends and is started again: its store is new.  What was  *)
(* on its way is answered by the new process or fails; a generator ends    *)
(* with its process, and closing it later finds no job.                    *)
ServerRestarts ==
    /\ API!Lose
    /\ UNCHANGED <<page, post, strays, tail, closed>>

-----------------------------------------------------------------------------
Poll(p) == PollDropped(p) \/ PollAnswered(p) \/ PollMissing(p) \/ PollFails(p)
CancelEnds(d) == CancelAnswered(d) \/ CancelDeleted(d) \/ CancelFails(d)

User ==
    \/ InspectInvalid \/ Inspect \/ CancelInspection
    \/ EditUrl \/ AuthChange \/ PasteStarts
    \/ \E j \in JobIds : StartDownload(j)
    \/ RetryForgotten \/ ChangeOptions \/ AnotherDownload
    \/ Cancel \/ CancelStream
    \/ BecomesVisible

Arrivals ==
    \/ InspectionSucceeds \/ InspectionFails
    \/ PasteArrives \/ PasteFails
    \/ CreationFails \/ CreationTimesOut \/ CreationAccepted
    \/ StreamOpens \/ StreamReports \/ StreamEnds \/ StreamReturns
    \/ StreamCompletes \/ StreamDelivers \/ StreamArrives \/ StreamSaves
    \/ PollStarts \/ \E p \in polls : Poll(p)
    \/ \E d \in deletes : CancelEnds(d)

Server ==
    \/ \E j \in JobIds :
          \/ PostAccepted(j) \/ PostRefused(j) \/ JobMoves(j)
          \/ StrayServed(j) \/ StreamFinishes(j) \/ StreamCloses(j)
    \/ \E p \in polls : PollServed(p)
    \/ \E d \in deletes : DeleteServed(d)
    \/ ServerRestarts

(* The rejection of an aborted await is handled before the next event.     *)
Next ==
    \/ ConsumerAborts
    \/ ~aborted /\ (User \/ Arrivals)
    \/ Server

Spec == Init /\ [][Next /\ UNCHANGED serverless]_<<vars, serverless>>

(* The network is not down for ever, the first poll after startPolling is  *)
(* due at once, ahead of what the user does next, and a submission's time  *)
(* limit is a timer of the page that comes due.                            *)
Fairness ==
    /\ WF_vars(\E d \in deletes : CancelEnds(d))
    /\ SF_vars(PollStarts)
    /\ WF_vars(CreationTimesOut)
    /\ SF_vars(\E p \in LivePolls : PollServed(p))
    /\ SF_vars(\E p \in polls : PollAnswered(p) \/ PollMissing(p))

FairSpec == Spec /\ Fairness

-----------------------------------------------------------------------------
(* Properties.                                                             *)

Unfinished == {"active", "cancelling"}

(* A job panel that promises to move on is being moved: a poll of that job *)
(* is under way or scheduled, its cancellation is awaited, or its stream   *)
(* is being read.  Where an answer of the clipboard has overtaken the page *)
(* it may be another job that moves it, but nothing freezes it.            *)
Watched(j) ==
    \/ pollJob = j /\ (timer \/ LivePolls # {})
    \/ \E d \in deletes : d.job = j
    \/ serverless /\ creation = j

UnfinishedIsWatched ==
    ui \in Unfinished => \E j \in JobIds : Watched(j) /\ (j = job \/ overtaken)

(* There is one chain of polls, not two; and it serves the job of an       *)
(* unfinished panel and stops with the panel, whatever overtakes it but an *)
(* answer of the clipboard.                                                *)
OnePoller ==
    /\ Cardinality(LivePolls) + (IF timer THEN 1 ELSE 0) =
          IF pollJob = NoJob THEN 0 ELSE 1
    /\ \A p \in LivePolls : p.job = pollJob
    /\ pollJob # NoJob /\ ~overtaken => ui \in Unfinished /\ job = pollJob

(* The panel takes up a job when the answer to the current submission      *)
(* arrives, and keeps to it: no answer about an older job replaces it, as  *)
(* long as no answer of the clipboard has let the user submit beside it.   *)
PanelFollowsSubmission ==
    [][job' # NoJob /\ job' # job => job' = creation \/ overtaken]_vars

(* What the panel says of the outcome is what became of that job: an old   *)
(* poll, a late answer or an overtaken cancellation never says otherwise.  *)
(* "failed" is also the page's own word, and a closed stream is shown      *)
(* cancelled before the server knows.                                      *)
ShownIsTrue ==
    /\ shown \in {"completed", "rejected"} => phase[job] \in {shown, "forgotten"}
    /\ shown = "cancelled" /\ ~serverless => phase[job] \in {shown, "forgotten"}

(* app.js, transition(): console.warn(`Unexpected UI transition ...`)      *)
ExpectedTransitions == [][ui' # ui => ui' \in Allowed[ui]]_vars

(* Against a polled service the page keeps to that table, in whatever      *)
(* order answers, time limits and clicks arrive, up to the first answer of *)
(* the clipboard to a page that has moved on.                              *)
PolledTransitions ==
    [][~serverless /\ ~overtaken' /\ ui' # ui => ui' \in Allowed[ui]]_vars

(* The page learns of the end of the job it shows.                         *)
FinishedIsShown ==
    \A j \in JobIds :
        job = j /\ ui \in Unfinished /\ phase[j] \notin {"pending", "cancelling"}
            ~> ~(job = j /\ ui \in Unfinished)

=============================================================================
