-------------------------------- MODULE Worker --------------------------------
(***************************************************************************)
(* The isolated worker process: workers/download_worker.py and             *)
(* run_download_task of services/downloader.py, from the task line on      *)
(* stdin to the last event on stdout.  DownloadManager sees this process   *)
(* from outside; here is what happens inside, and that it is no more than  *)
(* what DownloadManager allows a worker.                                   *)
(*                                                                         *)
(* yt-dlp and the source are external: what an extraction finds or raises, *)
(* and which files a transfer writes and reports, is a free choice.  The   *)
(* fallback to Reddit's embed page is one more source of the same media.   *)
(*                                                                         *)
(* A definition marked "Slip" is not part of the model: it is a plausible  *)
(* mistake in the definition after it, for mutation checks.                *)
(***************************************************************************)
EXTENDS Integers, Sequences, FiniteSets

CONSTANTS
    Names,          \* the files a transfer may leave in the workspace
    PartNames,      \* those of them that end in .part or .ytdl
    Limits,         \* what the configured limits may be
    DefaultLimit,   \* the limits' value in Settings where none is given
    Magnitudes,     \* lengths and sizes; 0 where it is not known
    Media,          \* what an extraction may find
    Nothing         \* None

ASSUME WorkerAssumption ==
    /\ PartNames \subseteq Names
    /\ Limits \subseteq Nat \ {0} /\ DefaultLimit \in Nat \ {0}
    /\ Magnitudes \subseteq Nat
    /\ Media \subseteq [generic : BOOLEAN, restricted : BOOLEAN,
                        kind : {"plain", "drm", "live"}, length : Magnitudes, size : Magnitudes]
    /\ Nothing \notin Names \cup {"rejected", "failed"}
    /\ Nothing \notin [name : Names, size : Magnitudes]

VARIABLES
    server,      \* the settings of the API process
    useAuth,     \* use_auth of the task
    settings,    \* the settings the worker goes by
    pc,          \* where run_download_task is
    verdict,     \* what the try statement or main() makes of an exception
    tries,       \* attempt, of the inspection
    preview,     \* the media that was inspected
    transfer,    \* attempt, of the transfer
    media,       \* the media this transfer is of
    made,        \* the workspace exists
    dir,         \* per name: the transfer that wrote the file, 0 without file
    finalPath,   \* final_path, the file the last postprocessor reported
    infoPath,    \* info["filepath"] of the transfer that succeeded
    cookie,      \* the private copy of the cookie file exists
    step,        \* the last progress this transfer reported
    sent,        \* the events written
    output,      \* the file and the size announced as complete
    proc         \* the process: "running" or "exited"

task == <<server, useAuth>>
control == <<pc, verdict>>
inspection == <<settings, tries, preview>>
attempt == <<transfer, media>>
paths == <<finalPath, infoPath>>
reported == <<step, sent, output>>
vars == <<task, inspection, control, attempt, made, dir, paths, cookie, reported, proc>>

-----------------------------------------------------------------------------
Settings ==
    [max_filesize : Limits, max_duration : Limits, public_mode : BOOLEAN,
     allow_generic : BOOLEAN, authenticated : BOOLEAN]

(* Settings.worker_policy names what a worker needs; the settings it does  *)
(* not name are none the worker looks at ...                               *)
WorkerPolicy(s) ==
    [max_filesize |-> s.max_filesize, max_duration |-> s.max_duration,
     public_mode |-> s.public_mode, allow_generic |-> s.allow_generic,
     authenticated |-> s.authenticated]

(* Slip: a limit is not taken over and has its default.                    *)
FromWorkerPolicyPartly(p) ==
    [max_filesize |-> p.max_filesize, max_duration |-> DefaultLimit,
     public_mode |-> p.public_mode, allow_generic |-> p.allow_generic,
     authenticated |-> p.authenticated]

(* ... and from_worker_policy rebuilds them, each from its own entry.       *)
FromWorkerPolicy(p) ==
    [max_filesize |-> p.max_filesize, max_duration |-> p.max_duration,
     public_mode |-> p.public_mode, allow_generic |-> p.allow_generic,
     authenticated |-> p.authenticated]

Progress == {"downloading", "processing"}
Final == {"complete", "rejected", "failed"}
InTry == {"inspect", "enforce", "transfer", "unwind"}
Places == InTry \cup {"receive", "validate", "open", "copy", "identify", "report", "over"}

(* settings is None until the task is read.                                *)
WorkerTypeOK ==
    /\ server \in Settings /\ useAuth \in BOOLEAN
    /\ settings \in Settings \cup {Nothing}
    /\ pc \in Places /\ verdict \in {Nothing, "rejected", "failed"}
    /\ tries \in 1..3 /\ transfer \in 1..2
    /\ preview \in Media \cup {Nothing} /\ media \in Media \cup {Nothing}
    /\ made \in BOOLEAN /\ dir \in [Names -> 0..2]
    /\ finalPath \in Names \cup {Nothing} /\ infoPath \in Names \cup {Nothing}
    /\ cookie \in BOOLEAN
    /\ step \in {"working"} \cup Progress
    /\ sent \in Seq(Progress \cup Final)
    /\ output \in [name : Names, size : Magnitudes] \cup {Nothing}
    /\ proc \in {"running", "exited"}

Init ==
    /\ server \in Settings /\ useAuth \in BOOLEAN
    /\ settings = Nothing /\ tries = 1 /\ preview = Nothing
    /\ pc = "receive" /\ verdict = Nothing
    /\ transfer = 1 /\ media = Nothing
    /\ made = FALSE /\ dir = [n \in Names |-> 0]
    /\ finalPath = Nothing /\ infoPath = Nothing
    /\ cookie = FALSE
    /\ step = "working" /\ sent = <<>> /\ output = Nothing
    /\ proc = "running"

At(place) == proc = "running" /\ pc = place
Goto(place) == pc' = place /\ UNCHANGED verdict

(* An exception.  Inside the try statement its finally clause is next.     *)
Raise(v) ==
    /\ verdict' = v
    /\ pc' = IF pc \in InTry THEN "unwind" ELSE "report"

-----------------------------------------------------------------------------
(* main() and the first lines of run_download_task                         *)

(* No task, one without a policy, or one with a value that is refused      *)
ReceiveFails ==
    /\ At("receive")
    /\ \E v \in {"rejected", "failed"} : Raise(v)
    /\ UNCHANGED <<task, inspection, attempt, made, dir, paths, cookie, reported, proc>>

Receive ==
    /\ At("receive")
    /\ settings' = FromWorkerPolicy(WorkerPolicy(server))
    /\ Goto("validate")
    /\ UNCHANGED <<task, tries, preview, attempt, made, dir, paths, cookie, reported, proc>>

(* validate_url, whose answer may differ from the one the API had          *)
Validate ==
    /\ At("validate")
    /\ Goto("open") \/ Raise("rejected")
    /\ UNCHANGED <<task, inspection, attempt, made, dir, paths, cookie, reported, proc>>

(* mkdir, which does not take over an existing directory                   *)
Open ==
    /\ At("open")
    /\ \/ made' = TRUE /\ Goto("copy")
       \/ UNCHANGED made /\ Raise("failed")
    /\ UNCHANGED <<task, inspection, attempt, dir, paths, cookie, reported, proc>>

(* create_cookie_copy in the workspace, if the task asks for it            *)
Copy ==
    /\ At("copy")
    /\ useAuth => settings.authenticated
    /\ cookie' = useAuth
    /\ Goto("inspect")
    /\ UNCHANGED <<task, inspection, attempt, made, dir, paths, reported, proc>>

(* Not enabled, or the file cannot be read, is too large or has no cookies *)
CopyFails ==
    /\ At("copy") /\ useAuth
    /\ \E v \in {"rejected", "failed"} : Raise(v)
    /\ UNCHANGED <<task, inspection, attempt, made, dir, paths, cookie, reported, proc>>

-----------------------------------------------------------------------------
(* The inspection and the policy                                           *)

Transient == {"transient", "account"}        \* _TRANSIENT_DOWNLOAD_MARKERS
NeedsLogin == {"account", "login"}           \* "authentication is required"
Errors == Transient \cup NeedsLogin \cup {"permanent"}

inspected == <<task, settings, attempt, made, dir, paths, cookie, reported, proc>>

Found(m) == preview' = m /\ Goto("enforce") /\ UNCHANGED tries

Inspect ==
    /\ At("inspect")
    /\ \E m \in Media : Found(m)
    /\ UNCHANGED inspected

(* Slip: one attempt too many.                                             *)
InspectFailsOnce(kind) ==
    /\ At("inspect") /\ kind \in Transient
    /\ tries <= 3 /\ tries' = tries + 1
    /\ UNCHANGED <<preview, control, inspected>>

(* A DownloadError.  From the second attempt on a login error may be got   *)
(* around by Reddit's embed page, if there is one.                         *)
InspectFails(kind) ==
    /\ At("inspect")
    /\ \/ /\ tries >= 2 /\ kind \in NeedsLogin
          /\ \E m \in Media : Found(m)
       \/ /\ tries < 3 /\ kind \in Transient
          /\ tries' = tries + 1
          /\ UNCHANGED <<preview, control>>
       \/ /\ tries = 3 \/ kind \notin Transient
          /\ Raise("failed")
          /\ UNCHANGED <<tries, preview>>
    /\ UNCHANGED inspected

(* ensure_single_item raises, or anything else does.                       *)
InspectRaises ==
    /\ At("inspect")
    /\ \E v \in {"rejected", "failed"} : Raise(v)
    /\ UNCHANGED <<inspected, tries, preview>>

ExtractorDisabled(m) == m.generic /\ settings.public_mode /\ ~settings.allow_generic
NotAuthorized(m) == (m.restricted /\ ~useAuth) \/ m.kind = "drm"
BeyondLimits(m) ==
    \/ m.kind = "live"
    \/ m.length > settings.max_duration
    \/ m.size > settings.max_filesize

Refused(m) == ExtractorDisabled(m) \/ NotAuthorized(m) \/ BeyondLimits(m)

Enforce ==
    /\ At("enforce")
    /\ IF Refused(preview) THEN Raise("rejected") /\ UNCHANGED media
       ELSE Goto("transfer") /\ media' = preview
    /\ tries' = 1
    /\ UNCHANGED <<task, settings, preview, transfer, made, dir, paths, cookie, reported, proc>>

-----------------------------------------------------------------------------
(* The transfer                                                            *)

transferred == <<task, inspection, made, cookie, output, proc>>

(* yt-dlp at work on the files                                             *)
Writes(n, t) ==
    /\ At("transfer")
    /\ dir[n] # t
    /\ dir' = [dir EXCEPT ![n] = t]
    /\ UNCHANGED <<transferred, control, attempt, paths, step, sent>>

Report(e) ==
    IF step = e THEN UNCHANGED <<step, sent>>
    ELSE step' = e /\ sent' = Append(sent, e)

(* progress_hook                                                           *)
ReportProgress ==
    /\ At("transfer") /\ step = "working"
    /\ Report("downloading")
    /\ UNCHANGED <<transferred, control, attempt, dir, paths>>

(* postprocessor_hook: it may be told of a file, there already or not, and *)
(* of a start.                                                             *)
ReportProcessing(n) ==
    /\ At("transfer")
    /\ finalPath' = IF n = Nothing THEN finalPath ELSE n
    /\ Report("processing") \/ UNCHANGED <<step, sent>>
    /\ UNCHANGED <<transferred, control, attempt, dir, infoPath>>

(* The workspace outgrows the limit, or an error that is not retried       *)
TransferRaises ==
    /\ At("transfer")
    /\ \E v \in {"rejected", "failed"} : Raise(v)
    /\ UNCHANGED <<transferred, attempt, dir, paths, step, sent>>

(* Slips: the directory is emptied, the copy of the cookies with it; what  *)
(* the first transfer left stays; the attempt is not counted.              *)
RetryClearsAll ==
    /\ At("transfer") /\ transfer = 1
    /\ transfer' = 2 /\ media' \in Media
    /\ dir' = [n \in Names |-> 0] /\ cookie' = FALSE
    /\ step' = "working"
    /\ UNCHANGED <<task, inspection, made, output, proc, control, paths, sent>>

RetryClearsNothing ==
    /\ At("transfer") /\ transfer = 1
    /\ transfer' = 2 /\ media' \in Media
    /\ step' = "working"
    /\ UNCHANGED <<transferred, control, dir, paths, sent>>

RetryUncounted ==
    /\ At("transfer")
    /\ dir' = [n \in Names |-> 0]
    /\ step' = "working"
    /\ UNCHANGED <<transferred, control, attempt, paths, sent>>

(* _clear_retryable_output spares the directory of the cookie copy.        *)
ClearRetryableOutput == dir' = [n \in Names |-> 0]

(* A transient error: the second and last transfer, of what a fresh        *)
(* extraction finds.  Nobody compares that with what was inspected.        *)
Retry ==
    /\ At("transfer") /\ transfer = 1
    /\ transfer' = 2 /\ media' \in Media
    /\ ClearRetryableOutput
    /\ step' = "working"
    /\ UNCHANGED <<transferred, control, paths, sent>>

TransferEnds(n) ==
    /\ At("transfer")
    /\ infoPath' = n
    /\ Goto("unwind")
    /\ UNCHANGED <<transferred, attempt, dir, finalPath, step, sent>>

(* finally: remove_cookie_copy                                             *)
Unwind ==
    /\ At("unwind")
    /\ cookie' = FALSE
    /\ Goto(IF verdict = Nothing THEN "identify" ELSE "report")
    /\ UNCHANGED <<task, inspection, attempt, made, dir, paths, reported, proc>>

-----------------------------------------------------------------------------
(* The output                                                              *)

Exists(n) == n # Nothing /\ dir[n] # 0
Leftovers == {n \in Names \ PartNames : dir[n] # 0}

Identified ==
    IF Exists(finalPath) THEN {finalPath}
    ELSE IF Exists(infoPath) THEN {infoPath}
    ELSE IF Cardinality(Leftovers) = 1 THEN Leftovers ELSE {}

Complete(n, size) ==
    /\ At("identify")
    /\ n \in Identified /\ size <= settings.max_filesize
    /\ output' = [name |-> n, size |-> size]
    /\ sent' = Append(sent, "complete")
    /\ Goto("over")
    /\ UNCHANGED <<task, inspection, attempt, made, dir, paths, cookie, step, proc>>

(* No output, or one that is too large                                     *)
NoOutput(v) ==
    /\ At("identify")
    /\ \/ v = "failed" /\ Identified = {}
       \/ v = "rejected" /\ Identified # {} /\ \E size \in Magnitudes : size > settings.max_filesize
    /\ Raise(v)
    /\ UNCHANGED <<task, inspection, attempt, made, dir, paths, cookie, reported, proc>>

(* The except clauses of main()                                            *)
ReportEnd ==
    /\ At("report")
    /\ sent' = Append(sent, verdict)
    /\ Goto("over")
    /\ UNCHANGED <<task, inspection, attempt, made, dir, paths, cookie, step, output, proc>>

(* main() returns, or the process is killed wherever it is.                *)
Exits ==
    /\ proc = "running"
    /\ proc' = "exited"
    /\ UNCHANGED <<task, inspection, control, attempt, made, dir, paths, cookie, reported>>

Exited == proc = "exited" /\ UNCHANGED vars

Next ==
    \/ Receive \/ ReceiveFails \/ Validate \/ Open \/ Copy \/ CopyFails
    \/ Inspect \/ (\E kind \in Errors : InspectFails(kind)) \/ InspectRaises \/ Enforce
    \/ \E n \in Names, t \in {0, transfer} : Writes(n, t)
    \/ ReportProgress \/ \E n \in Names \cup {Nothing} : ReportProcessing(n)
    \/ TransferRaises \/ Retry \/ \E n \in Names \cup {Nothing} : TransferEnds(n)
    \/ Unwind
    \/ \E n \in Names, size \in Magnitudes : Complete(n, size)
    \/ \E v \in {"rejected", "failed"} : NoOutput(v)
    \/ ReportEnd \/ Exits \/ Exited

Spec == Init /\ [][Next]_vars

-----------------------------------------------------------------------------
(* Properties                                                              *)

Ended == \E i \in 1..Len(sent) : sent[i] \in Final
Completed == output # Nothing

(* While a task with use_auth talks to the source it has its copy of the   *)
(* cookies, a retry included, and before the end is reported the copy is   *)
(* gone, whatever ended the task; only a killed worker leaves one behind.  *)
CookieWhileNeeded ==
    /\ useAuth /\ pc \in {"inspect", "enforce", "transfer"} => cookie
    /\ Ended => ~cookie

(* The file announced as complete was written by the transfer that         *)
(* succeeded: no path or file of an abandoned first transfer is taken for  *)
(* it, by name or by the scan of the directory.                            *)
OutputOfLastTransfer == Completed => dir[output.name] = transfer

(* The policy's verdict on media, in the terms of the API's settings       *)
Acceptable(m) ==
    /\ m.kind = "plain"
    /\ m.generic => ~server.public_mode \/ server.allow_generic
    /\ m.restricted => useAuth /\ server.authenticated
    /\ m.length <= server.max_duration
    /\ m.size <= server.max_filesize

(* Whatever completes passed the policy the API process was configured     *)
(* with when it was inspected, although the worker decides by what its     *)
(* task line carried over; a first transfer is of those very media, and no *)
(* output is larger than the limit.  What a second one is of, nobody       *)
(* looked at: see RetryWithinLimits.                                       *)
CompletedWasAcceptable ==
    Completed =>
        /\ Acceptable(preview)
        /\ transfer = 1 => media = preview
        /\ output.size <= server.max_filesize

(* SECURITY.md:38, "Live streams, playlists, and DRM-only media remain     *)
(* rejected", and docs/architecture.md:114, "Application limits bound      *)
(* known duration": of the media a completed transfer was of.              *)
RetryWithinLimits ==
    Completed => media.kind # "live" /\ media.length <= server.max_duration

-----------------------------------------------------------------------------
(* The worker as DownloadManager sees it: one supervised process, with the *)
(* task written to it, and nothing of the manager's own state touched.     *)

Job == "job"
Of(x) == [j \in {Job} |-> x]

Supervised == INSTANCE DownloadManager WITH
    JobIds <- {Job}, Capacity <- 1, NoJob <- Nothing, MaxConcurrent <- 1, MaxAttempts <- 2,
    status <- Of("inspecting"), cancelEvents <- {}, stale <- {},
    pc <- Of("loop"), seen <- Of(Nothing), timedOut <- {}, signalled <- Of("no"),
    waiting <- <<>>, futures <- {Job}, processes <- {Job}, sig <- Of("none"),
    toSignal <- {}, toRemove <- {}, closer <- "open", toCancel <- {},
    proc <- Of(proc), attempts <- Of(transfer), chan <- Of(sent),
    step <- Of(IF Ended THEN "finished" ELSE IF made THEN step ELSE "tasked"),
    ws <- Of(IF Completed THEN "output" ELSE IF made THEN "partial" ELSE "none")

(* Every step of the worker is one that DownloadManager allows a worker,   *)
(* or is not seen there: one final event, after the progress of at most    *)
(* two transfers, and an output exactly when the event is "complete".      *)
ImplementsSupervisedWorker ==
    [][Supervised!WorkerStep(Job)]_<<proc, transfer, sent, step, made, output>>

=============================================================================
