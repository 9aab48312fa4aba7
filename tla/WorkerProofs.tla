------------------------------ MODULE WorkerProofs ------------------------------
(***************************************************************************)
(* The safety of one worker process, for any files, limits and media.      *)
(***************************************************************************)
EXTENDS Worker, TLAPS

(* Once the task is read the worker goes by the API's own settings.        *)
SettingsTaken ==
    pc \notin {"receive", "report", "over"} => settings = server

(* The private copy exists from its creation to the end of the try         *)
(* statement, and then the settings allow an account.                      *)
CookieHeld ==
    /\ useAuth /\ pc \in {"inspect", "enforce", "transfer"} => cookie
    /\ cookie => useAuth /\ server.authenticated /\ pc \in InTry

(* What the final event will say is known where it is written, and it is   *)
(* the last one.                                                           *)
EndIsLast ==
    /\ pc = "report" => verdict \in {"rejected", "failed"}
    /\ pc # "over" => sent \in Seq(Progress)
    /\ Completed => pc = "over"

(* The files in the workspace are those of the transfer that is counted.   *)
FilesOfTransfer == \A n \in Names : dir[n] \in {0, transfer}

(* There is a workspace from mkdir on, and no progress before a transfer.  *)
WorkspaceKnown ==
    /\ pc \in {"receive", "validate", "open"} => ~made
    /\ pc \in InTry \cup {"copy", "identify"} => made
    /\ pc \in {"receive", "validate", "open", "copy", "inspect", "enforce"} => step = "working"

(* Nothing is transferred or announced that the policy did not accept; the *)
(* try statement is left without an exception by a transfer only.          *)
PolicyPassed ==
    /\ pc = "enforce" => preview \in Media
    /\ pc \in {"transfer", "identify"} \/ (pc = "unwind" /\ verdict = Nothing) \/ Completed
        => /\ preview \in Media /\ Acceptable(preview)
           /\ transfer = 1 => media = preview

OutputKept ==
    Completed => /\ output.name \in Names /\ dir[output.name] = transfer
                 /\ output.size <= server.max_filesize

WorkerInv ==
    /\ WorkerTypeOK
    /\ SettingsTaken
    /\ CookieHeld
    /\ EndIsLast
    /\ FilesOfTransfer
    /\ WorkspaceKnown
    /\ PolicyPassed
    /\ OutputKept

-----------------------------------------------------------------------------
USE DEF attempt

LEMMA WorkerInitInv == Init => WorkerInv
  <1> SUFFICES ASSUME Init PROVE WorkerInv
    OBVIOUS
  <1>1. WorkerTypeOK
    <2>1. sent \in Seq(Progress \cup Final)
      BY DEF Init
    <2>2. dir \in [Names -> 0..2]
      BY DEF Init
    <2>3. preview \in Media \cup {Nothing} /\ media \in Media \cup {Nothing} /\ settings \in Settings \cup {Nothing}
          /\ output \in [name : Names, size : Magnitudes] \cup {Nothing}
      BY DEF Init
    <2>4. pc \in Places /\ verdict \in {Nothing, "rejected", "failed"} /\ tries \in 1..3 /\ transfer \in 1..2
          /\ proc \in {"running", "exited"} /\ step \in {"working"} \cup Progress
      BY DEF Init, Places
    <2>5. /\ server \in Settings /\ useAuth \in BOOLEAN /\ made \in BOOLEAN /\ cookie \in BOOLEAN
          /\ finalPath \in Names \cup {Nothing} /\ infoPath \in Names \cup {Nothing}
      BY DEF Init
    <2> QED
      BY <2>1, <2>2, <2>3, <2>4, <2>5 DEF WorkerTypeOK
  <1>2. SettingsTaken /\ CookieHeld /\ EndIsLast /\ FilesOfTransfer /\ PolicyPassed /\ OutputKept /\ WorkspaceKnown
    BY DEF Init, SettingsTaken, CookieHeld, EndIsLast, FilesOfTransfer, PolicyPassed, OutputKept, WorkspaceKnown,
           Completed, InTry
  <1> QED
    BY <1>1, <1>2 DEF WorkerInv

(* The worker's settings are the API's, whatever they are: nothing that    *)
(* from_worker_policy rebuilds is lost or mixed up on the way.             *)
LEMMA PolicyCarried ==
  ASSUME NEW s \in Settings
  PROVE  FromWorkerPolicy(WorkerPolicy(s)) = s
  BY DEF Settings, FromWorkerPolicy, WorkerPolicy

(* An exception leaves the try statement by its finally clause and goes    *)
(* straight to main() from elsewhere.                                      *)
LEMMA RaiseInv ==
  ASSUME WorkerInv, NEW v \in {"rejected", "failed"}, Raise(v), pc \notin {"over", "report"},
         UNCHANGED <<task, settings, preview, made, dir, paths, cookie, reported, proc, transfer, media>>,
         tries' \in 1..3
  PROVE  WorkerInv'
  <1> USE DEF WorkerInv, Raise, task, paths, reported
  <1>1. WorkerTypeOK'
    BY DEF WorkerTypeOK, Places, InTry
  <1>2. SettingsTaken' /\ CookieHeld' /\ FilesOfTransfer'
    BY DEF SettingsTaken, CookieHeld, FilesOfTransfer, InTry
  <1>3. EndIsLast' /\ OutputKept' /\ WorkspaceKnown'
    BY DEF EndIsLast, OutputKept, WorkspaceKnown, Completed, InTry
  <1>4. PolicyPassed'
    BY WorkerAssumption DEF PolicyPassed, EndIsLast, Completed, InTry
  <1> QED
    BY <1>1, <1>2, <1>3, <1>4

LEMMA StartInv ==
  ASSUME WorkerInv, ReceiveFails \/ Receive \/ Validate \/ Open \/ Copy \/ CopyFails
  PROVE  WorkerInv'
  <1>1. CASE ReceiveFails
    BY <1>1, RaiseInv DEF ReceiveFails, At, inspection, WorkerInv, WorkerTypeOK
  <1>2. CASE Receive
    <2>1. settings' = server
      BY <1>2, PolicyCarried DEF Receive, WorkerInv, WorkerTypeOK
    <2> USE <1>2, <2>1 DEF Receive, At, Goto, WorkerInv, task, paths, reported
    <2>2. WorkerTypeOK'
      BY DEF WorkerTypeOK, Places
    <2>3. SettingsTaken' /\ CookieHeld' /\ FilesOfTransfer' /\ EndIsLast' /\ OutputKept' /\ WorkspaceKnown' /\ PolicyPassed'
      BY DEF SettingsTaken, CookieHeld, FilesOfTransfer, EndIsLast, OutputKept, WorkspaceKnown, PolicyPassed, Completed, InTry
    <2> QED
      BY <2>2, <2>3
  <1>3. CASE Validate
    <2>1. CASE Raise("rejected")
      BY <1>3, <2>1, RaiseInv DEF Validate, At, inspection, WorkerInv, WorkerTypeOK
    <2>2. CASE Goto("open")
      <3> USE <1>3, <2>2 DEF Validate, At, Goto, WorkerInv, task, inspection, paths, reported
      <3>1. WorkerTypeOK'
        BY DEF WorkerTypeOK, Places
      <3>2. SettingsTaken' /\ CookieHeld' /\ FilesOfTransfer' /\ EndIsLast' /\ OutputKept' /\ WorkspaceKnown' /\ PolicyPassed'
        BY DEF SettingsTaken, CookieHeld, FilesOfTransfer, EndIsLast, OutputKept, WorkspaceKnown, PolicyPassed, Completed, InTry
      <3> QED
        BY <3>1, <3>2
    <2> QED
      BY <1>3, <2>1, <2>2 DEF Validate
  <1>4. CASE Open
    <2>1. CASE made' = made /\ Raise("failed")
      BY <1>4, <2>1, RaiseInv DEF Open, At, inspection, WorkerInv, WorkerTypeOK
    <2>2. CASE made' = TRUE /\ Goto("copy")
      <3> USE <1>4, <2>2 DEF Open, At, Goto, WorkerInv, task, inspection, paths, reported
      <3>1. WorkerTypeOK'
        BY DEF WorkerTypeOK, Places
      <3>2. SettingsTaken' /\ CookieHeld' /\ FilesOfTransfer' /\ EndIsLast' /\ OutputKept' /\ WorkspaceKnown' /\ PolicyPassed'
        BY DEF SettingsTaken, CookieHeld, FilesOfTransfer, EndIsLast, OutputKept, WorkspaceKnown, PolicyPassed, Completed, InTry
      <3> QED
        BY <3>1, <3>2
    <2> QED
      BY <1>4, <2>1, <2>2 DEF Open
  <1>5. CASE Copy
    <2> USE <1>5 DEF Copy, At, Goto, WorkerInv, task, inspection, paths, reported
    <2>1. WorkerTypeOK'
      BY DEF WorkerTypeOK, Places, InTry
    <2>2. SettingsTaken' /\ CookieHeld'
      BY DEF SettingsTaken, CookieHeld, InTry
    <2>3. FilesOfTransfer' /\ EndIsLast' /\ OutputKept' /\ WorkspaceKnown' /\ PolicyPassed'
      BY DEF FilesOfTransfer, EndIsLast, OutputKept, WorkspaceKnown, PolicyPassed, Completed
    <2> QED
      BY <2>1, <2>2, <2>3
  <1>6. CASE CopyFails
    BY <1>6, RaiseInv DEF CopyFails, At, inspection, WorkerInv, WorkerTypeOK
  <1> QED
    BY <1>1, <1>2, <1>3, <1>4, <1>5, <1>6

LEMMA InspectionInv ==
  ASSUME WorkerInv,
         Inspect \/ (\E kind \in Errors : InspectFails(kind)) \/ InspectRaises \/ Enforce
  PROVE  WorkerInv'
  <1> USE DEF WorkerInv, inspected
  <1>1. ASSUME NEW m \in Media, At("inspect"), Found(m), UNCHANGED inspected
        PROVE  WorkerInv'
    <2> USE <1>1 DEF At, Found, Goto, task, paths, reported
    <2>1. WorkerTypeOK'
      BY DEF WorkerTypeOK, Places, InTry
    <2>2. SettingsTaken' /\ CookieHeld' /\ FilesOfTransfer'
      BY DEF SettingsTaken, CookieHeld, FilesOfTransfer, InTry
    <2>3. EndIsLast' /\ OutputKept' /\ WorkspaceKnown' /\ PolicyPassed'
      BY DEF EndIsLast, OutputKept, WorkspaceKnown, PolicyPassed, Completed, InTry
    <2> QED
      BY <2>1, <2>2, <2>3
  <1>2. CASE Inspect
    BY <1>1, <1>2 DEF Inspect
  <1>3. ASSUME NEW kind \in Errors, InspectFails(kind)
        PROVE  WorkerInv'
    <2>1. CASE \E m \in Media : Found(m)
      BY <1>1, <1>3, <2>1 DEF InspectFails
    <2>2. CASE tries < 3 /\ tries' = tries + 1 /\ UNCHANGED <<preview, control>>
      <3> USE <1>3, <2>2 DEF InspectFails, At, control, task, paths, reported
      <3>1. WorkerTypeOK'
        BY DEF WorkerTypeOK
      <3>2. SettingsTaken' /\ CookieHeld' /\ FilesOfTransfer' /\ EndIsLast' /\ OutputKept' /\ WorkspaceKnown' /\ PolicyPassed'
        BY DEF SettingsTaken, CookieHeld, FilesOfTransfer, EndIsLast, OutputKept, WorkspaceKnown, PolicyPassed,
               Acceptable, Completed
      <3> QED
        BY <3>1, <3>2
    <2>3. CASE Raise("failed") /\ UNCHANGED <<tries, preview>>
      BY <1>3, <2>3, RaiseInv DEF InspectFails, At, WorkerTypeOK
    <2> QED
      BY <1>3, <2>1, <2>2, <2>3 DEF InspectFails
  <1>4. CASE InspectRaises
    BY <1>4, RaiseInv DEF InspectRaises, At, WorkerTypeOK
  <1>5. CASE Enforce
    <2>1. CASE Refused(preview)
      BY <1>5, <2>1, RaiseInv DEF Enforce, At, WorkerTypeOK
    <2>2. CASE ~Refused(preview)
      <3> USE <1>5, <2>2 DEF Enforce, At, Goto, task, paths, reported
      <3>1. WorkerTypeOK'
        BY DEF WorkerTypeOK, Places, InTry
      <3>2. SettingsTaken' /\ CookieHeld' /\ FilesOfTransfer' /\ EndIsLast' /\ OutputKept' /\ WorkspaceKnown'
        BY DEF SettingsTaken, CookieHeld, FilesOfTransfer, EndIsLast, OutputKept, WorkspaceKnown, Completed, InTry
      <3>3. preview \in Media /\ Acceptable(preview)
        <4>1. preview \in Media /\ settings = server
          BY DEF SettingsTaken, PolicyPassed
        <4>2. preview.restricted => useAuth /\ server.authenticated
          BY <4>1 DEF Refused, NotAuthorized, CookieHeld
        <4>3. /\ preview.length \in Nat /\ preview.size \in Nat
              /\ server.max_duration \in Nat /\ server.max_filesize \in Nat
          BY <4>1, WorkerAssumption DEF WorkerTypeOK, Settings
        <4>4. preview.kind = "plain" /\ preview.length <= server.max_duration
              /\ preview.size <= server.max_filesize
          BY <4>1, <4>3, WorkerAssumption DEF Refused, NotAuthorized, BeyondLimits
        <4>5. preview.generic => ~server.public_mode \/ server.allow_generic
          BY <4>1 DEF Refused, ExtractorDisabled
        <4> QED
          BY <4>1, <4>2, <4>4, <4>5 DEF Acceptable
      <3>4. PolicyPassed'
        BY <3>3 DEF PolicyPassed, Acceptable
      <3> QED
        BY <3>1, <3>2, <3>4
    <2> QED
      BY <2>1, <2>2
  <1> QED
    BY <1>2, <1>3, <1>4, <1>5

LEMMA TransferInv ==
  ASSUME WorkerInv,
         \/ \E n \in Names, t \in {0, transfer} : Writes(n, t)
         \/ ReportProgress \/ (\E n \in Names \cup {Nothing} : ReportProcessing(n))
         \/ TransferRaises \/ Retry \/ (\E n \in Names \cup {Nothing} : TransferEnds(n))
  PROVE  WorkerInv'
  <1> USE DEF WorkerInv, transferred, task, inspection
  <1>1. ASSUME NEW n \in Names, NEW t \in {0, transfer}, Writes(n, t)
        PROVE  WorkerInv'
    <2> USE <1>1 DEF Writes, At, control, paths
    <2>1. WorkerTypeOK' /\ FilesOfTransfer'
      BY DEF WorkerTypeOK, FilesOfTransfer
    <2>2. SettingsTaken' /\ CookieHeld' /\ EndIsLast' /\ OutputKept' /\ WorkspaceKnown' /\ PolicyPassed'
      BY DEF SettingsTaken, CookieHeld, EndIsLast, OutputKept, WorkspaceKnown, PolicyPassed, Acceptable, Completed
    <2> QED
      BY <2>1, <2>2
  <1>2. ASSUME NEW e \in Progress, At("transfer"), Report(e) \/ UNCHANGED <<step, sent>>,
               UNCHANGED <<transferred, control, attempt, dir>>,
               finalPath' \in Names \cup {Nothing}, infoPath' \in Names \cup {Nothing}
        PROVE  WorkerInv'
    <2> USE <1>2 DEF At, control
    <2>1. step' \in {"working"} \cup Progress /\ sent' \in Seq(Progress)
      BY DEF Report, EndIsLast, WorkerTypeOK, At
    <2>2. sent' \in Seq(Progress \cup Final)
      BY DEF Report, WorkerTypeOK
    <2>3. WorkerTypeOK'
      BY <2>1, <2>2 DEF WorkerTypeOK
    <2>4. SettingsTaken' /\ CookieHeld' /\ FilesOfTransfer' /\ EndIsLast' /\ OutputKept' /\ WorkspaceKnown' /\ PolicyPassed'
      BY <2>1 DEF SettingsTaken, CookieHeld, FilesOfTransfer, EndIsLast, OutputKept, WorkspaceKnown, PolicyPassed,
                  Acceptable, Completed
    <2> QED
      BY <2>3, <2>4
  <1>3. CASE ReportProgress
    BY <1>2, <1>3 DEF ReportProgress, Progress, WorkerTypeOK, paths
  <1>4. ASSUME NEW n \in Names \cup {Nothing}, ReportProcessing(n)
        PROVE  WorkerInv'
    BY <1>2, <1>4 DEF ReportProcessing, Progress, WorkerTypeOK
  <1>5. CASE TransferRaises
    BY <1>5, RaiseInv DEF TransferRaises, At, WorkerTypeOK, reported
  <1>6. CASE Retry
    <2> USE <1>6 DEF Retry, At, control, paths
    <2>1. WorkerTypeOK' /\ FilesOfTransfer'
      BY DEF WorkerTypeOK, FilesOfTransfer, ClearRetryableOutput
    <2>2. SettingsTaken' /\ CookieHeld' /\ EndIsLast' /\ OutputKept' /\ WorkspaceKnown' /\ PolicyPassed'
      BY DEF SettingsTaken, CookieHeld, EndIsLast, OutputKept, WorkspaceKnown, PolicyPassed, Acceptable, Completed
    <2> QED
      BY <2>1, <2>2
  <1>7. ASSUME NEW n \in Names \cup {Nothing}, TransferEnds(n)
        PROVE  WorkerInv'
    <2> USE <1>7 DEF TransferEnds, At, Goto
    <2>1. WorkerTypeOK'
      BY DEF WorkerTypeOK, Places, InTry
    <2>2. SettingsTaken' /\ CookieHeld' /\ FilesOfTransfer'
      BY DEF SettingsTaken, CookieHeld, FilesOfTransfer, InTry
    <2>3. EndIsLast' /\ OutputKept' /\ WorkspaceKnown' /\ PolicyPassed'
      BY DEF EndIsLast, OutputKept, WorkspaceKnown, PolicyPassed, Acceptable, Completed, InTry
    <2> QED
      BY <2>1, <2>2, <2>3
  <1> QED
    BY <1>1, <1>3, <1>4, <1>5, <1>6, <1>7

(* A file the worker takes for its output is one that is there.            *)
LEMMA IdentifiedExists ==
  ASSUME WorkerTypeOK
  PROVE  \A n \in Identified : n \in Names /\ dir[n] # 0
  <1>1. \A n \in Leftovers : n \in Names /\ dir[n] # 0
    BY DEF Leftovers
  <1> QED
    BY <1>1 DEF Identified, Exists, WorkerTypeOK

LEMMA OutputInv ==
  ASSUME WorkerInv,
         \/ Unwind \/ ReportEnd
         \/ \E n \in Names, size \in Magnitudes : Complete(n, size)
         \/ \E v \in {"rejected", "failed"} : NoOutput(v)
  PROVE  WorkerInv'
  <1> USE DEF WorkerInv, task, inspection
  <1>1. CASE Unwind
    <2> USE <1>1 DEF Unwind, At, Goto, paths, reported
    <2>1. WorkerTypeOK'
      BY DEF WorkerTypeOK, Places
    <2>2. SettingsTaken' /\ CookieHeld' /\ FilesOfTransfer'
      BY DEF SettingsTaken, CookieHeld, FilesOfTransfer
    <2>3. EndIsLast' /\ OutputKept' /\ WorkspaceKnown' /\ PolicyPassed'
      BY DEF EndIsLast, OutputKept, WorkspaceKnown, PolicyPassed, Acceptable, Completed, InTry, WorkerTypeOK
    <2> QED
      BY <2>1, <2>2, <2>3
  <1>2. CASE ReportEnd
    <2> USE <1>2 DEF ReportEnd, At, Goto, paths
    <2>1. sent' \in Seq(Progress \cup Final)
      BY DEF WorkerTypeOK, EndIsLast, Final
    <2>2. WorkerTypeOK'
      BY <2>1 DEF WorkerTypeOK, Places
    <2>3. SettingsTaken' /\ CookieHeld' /\ FilesOfTransfer' /\ EndIsLast' /\ OutputKept' /\ WorkspaceKnown' /\ PolicyPassed'
      BY DEF SettingsTaken, CookieHeld, FilesOfTransfer, EndIsLast, OutputKept, WorkspaceKnown, PolicyPassed, Completed, InTry
    <2> QED
      BY <2>2, <2>3
  <1>3. ASSUME NEW n \in Names, NEW size \in Magnitudes, Complete(n, size)
        PROVE  WorkerInv'
    <2> USE <1>3 DEF Complete, At, Goto, paths
    <2>1. sent' \in Seq(Progress \cup Final)
      BY DEF WorkerTypeOK, Final
    <2>2. WorkerTypeOK'
      BY <2>1 DEF WorkerTypeOK, Places
    <2>3. dir[n] = transfer
      BY IdentifiedExists DEF FilesOfTransfer
    <2>4. size <= server.max_filesize
      BY DEF SettingsTaken
    <2>5. OutputKept'
      BY <2>3, <2>4 DEF OutputKept
    <2>6. SettingsTaken' /\ CookieHeld' /\ FilesOfTransfer' /\ EndIsLast' /\ WorkspaceKnown' /\ PolicyPassed'
      BY DEF SettingsTaken, CookieHeld, FilesOfTransfer, EndIsLast, WorkspaceKnown, PolicyPassed,
             Acceptable, InTry
    <2> QED
      BY <2>2, <2>5, <2>6
  <1>4. ASSUME NEW v \in {"rejected", "failed"}, NoOutput(v)
        PROVE  WorkerInv'
    BY <1>4, RaiseInv DEF NoOutput, At, WorkerTypeOK
  <1> QED
    BY <1>1, <1>2, <1>3, <1>4

(* Being killed, or anything else that leaves the program's state alone    *)
LEMMA HaltInv ==
  ASSUME WorkerInv, Exits \/ Exited \/ UNCHANGED vars
  PROVE  WorkerInv'
  <1> USE DEF Exits, Exited, vars, WorkerInv, task, inspection, control, paths, reported
  <1>1. WorkerTypeOK'
    BY DEF WorkerTypeOK
  <1>2. SettingsTaken' /\ CookieHeld' /\ FilesOfTransfer' /\ EndIsLast' /\ OutputKept' /\ WorkspaceKnown' /\ PolicyPassed'
    BY DEF SettingsTaken, CookieHeld, FilesOfTransfer, EndIsLast, OutputKept, WorkspaceKnown, PolicyPassed,
           Acceptable, Completed
  <1> QED
    BY <1>1, <1>2

-----------------------------------------------------------------------------
(* The inductive invariant of a worker: what it decides by, what it holds  *)
(* of the account, which files are whose, and what it has said.            *)
THEOREM WorkerInvariant == Spec => []WorkerInv
  <1>1. WorkerInv /\ [Next]_vars => WorkerInv'
    BY StartInv, InspectionInv, TransferInv, OutputInv, HaltInv DEF Next
  <1> QED
    BY WorkerInitInv, <1>1, PTL DEF Spec

(* Type correctness of the worker, the two bounds on its attempts included *)
THEOREM WorkerTypeCorrect == Spec => []WorkerTypeOK
  <1>1. WorkerInv => WorkerTypeOK
    BY DEF WorkerInv
  <1> QED
    BY WorkerInvariant, <1>1, PTL

(* create_cookie_copy and remove_cookie_copy enclose all use of the        *)
(* account: the copy is there for every extraction and transfer, retries   *)
(* included, and gone before the final event is written.                   *)
THEOREM WorkerReturnsCookie == Spec => []CookieWhileNeeded
  <1>1. WorkerInv => CookieWhileNeeded
    <2> SUFFICES ASSUME WorkerInv PROVE CookieWhileNeeded
      OBVIOUS
    <2>1. CASE pc = "over"
      BY <2>1 DEF WorkerInv, CookieHeld, CookieWhileNeeded, InTry
    <2>2. CASE pc # "over"
      <3>1. ~Ended
        BY <2>2 DEF WorkerInv, EndIsLast, Ended, Progress, Final
      <3> QED
        BY <3>1 DEF WorkerInv, CookieHeld, CookieWhileNeeded
    <2> QED
      BY <2>1, <2>2
  <1> QED
    BY WorkerInvariant, <1>1, PTL

(* A retry never passes off what an abandoned transfer left as the output  *)
THEOREM WorkerAnnouncesLastTransfer == Spec => []OutputOfLastTransfer
  <1>1. WorkerInv => OutputOfLastTransfer
    BY DEF WorkerInv, OutputKept, OutputOfLastTransfer
  <1> QED
    BY WorkerInvariant, <1>1, PTL

(* What a worker completes is what the API process would have let through, *)
(* for all limits, lengths and sizes.                                      *)
THEOREM WorkerKeepsPolicy == Spec => []CompletedWasAcceptable
  <1>1. WorkerInv => CompletedWasAcceptable
    BY DEF WorkerInv, PolicyPassed, OutputKept, Acceptable, CompletedWasAcceptable
  <1> QED
    BY WorkerInvariant, <1>1, PTL

-----------------------------------------------------------------------------
(* The worker implements the worker of DownloadManager.                    *)

shown == <<proc, transfer, sent, step, made, output>>

(* A process that has not ended its report has announced no output.        *)
LEMMA NotEndedBefore ==
  ASSUME WorkerInv, pc # "over"
  PROVE  ~Ended /\ ~Completed
  BY DEF WorkerInv, EndIsLast, Ended, Progress, Final

(* One event more, and the worker has ended exactly if it is a final one.  *)
LEMMA EndedAfter ==
  ASSUME WorkerInv, pc # "over", NEW e \in Progress \cup Final, sent' = Append(sent, e)
  PROVE  Ended' <=> e \in Final
  <1>1. sent \in Seq(Progress) /\ sent \in Seq(Progress \cup Final)
    BY DEF WorkerInv, EndIsLast, WorkerTypeOK
  <1>2. /\ Len(sent') = Len(sent) + 1 /\ sent'[Len(sent) + 1] = e
        /\ \A i \in 1..Len(sent) : sent'[i] = sent[i]
    BY <1>1
  <1>3. \A i \in 1..Len(sent) : sent[i] \notin Final
    BY <1>1 DEF Progress, Final
  <1> QED
    BY <1>1, <1>2, <1>3 DEF Ended

(* mkdir is WorkerOpens.                                                   *)
LEMMA OpenMaps ==
  ASSUME WorkerInv, Open
  PROVE  Supervised!WorkerStep(Job) \/ UNCHANGED shown
  <1>1. CASE made' = made
    BY <1>1 DEF Open, reported, shown
  <1>2. CASE made' = TRUE /\ made' # made
    <2>1. ~Ended /\ ~Completed /\ ~made /\ step = "working" /\ proc = "running"
      BY <1>2, NotEndedBefore DEF WorkerInv, WorkspaceKnown, Open, At
    <2>2. ~Ended' /\ ~Completed' /\ made' /\ UNCHANGED <<proc, transfer, sent, step, output>>
      BY <1>2, <2>1 DEF Open, reported, Ended, Completed
    <2>3. Supervised!WorkerOpens(Job)
      BY <2>1, <2>2
      DEF Supervised!WorkerOpens, Supervised!Running, Supervised!Step, Supervised!supervision,
          Supervised!storeVars, Supervised!locals, Supervised!poolVars, Supervised!clientVars, Of, Job
    <2> QED
      BY <2>3 DEF Supervised!WorkerStep
  <1> QED
    BY <1>1, <1>2 DEF Open

(* What is reported of a transfer, and the start of the second one         *)
LEMMA ReportMaps ==
  ASSUME WorkerInv, NEW e \in Progress, At("transfer"), Report(e),
         e = "downloading" => step = "working",
         UNCHANGED <<proc, transfer, made, output>>
  PROVE  Supervised!WorkerStep(Job) \/ UNCHANGED shown
  <1>1. CASE step = e
    BY <1>1 DEF Report, shown
  <1>2. CASE step # e
    <2>1. ~Ended /\ ~Completed /\ made /\ proc = "running" /\ step \in {"working"} \cup Progress
      BY NotEndedBefore DEF WorkerInv, WorkerTypeOK, WorkspaceKnown, At, InTry
    <2>2. step' = e /\ sent' = Append(sent, e)
      BY <1>2 DEF Report
    <2>3. ~Ended' /\ ~Completed' /\ made'
      BY <2>1, <2>2, EndedAfter DEF At, Completed, Progress, Final
    <2>4. Supervised!WorkerReports(Job, e)
      BY <1>2, <2>1, <2>2, <2>3
      DEF Progress, Supervised!WorkerReports, Supervised!Running, Supervised!Step, Supervised!Emit,
          Supervised!supervision, Supervised!storeVars, Supervised!locals, Supervised!poolVars,
          Supervised!clientVars, Of, Job
    <2> QED
      BY <2>4 DEF Supervised!WorkerStep, Progress
  <1> QED
    BY <1>1, <1>2

LEMMA RetryMaps ==
  ASSUME WorkerInv, Retry
  PROVE  Supervised!WorkerStep(Job)
  <1>1. ~Ended /\ ~Completed /\ made /\ proc = "running" /\ step \in {"working"} \cup Progress
    BY NotEndedBefore DEF WorkerInv, WorkerTypeOK, WorkspaceKnown, Retry, At, InTry
  <1>2. /\ ~Ended' /\ ~Completed' /\ made' /\ step' = "working"
        /\ UNCHANGED <<proc, sent, output, made>>
    BY <1>1 DEF Retry, transferred, Ended, Completed
  <1>3. transfer = 1 /\ transfer' = 2
    BY DEF Retry
  <1>4. Of(transfer)[Job] < 2 /\ Of(transfer)' = [Of(transfer) EXCEPT ![Job] = @ + 1]
    BY <1>3 DEF Of, Job
  <1>5. Of(sent)' = Of(sent)
    BY <1>2 DEF Of
  <1>6. Supervised!WorkerRetries(Job)
    BY <1>1, <1>2, <1>4, <1>5
    DEF Progress, Supervised!WorkerRetries, Supervised!Running, Supervised!Transferring,
        Supervised!supervision, Supervised!storeVars, Supervised!locals, Supervised!poolVars,
        Supervised!clientVars, Of, Job
  <1> QED
    BY <1>6 DEF Supervised!WorkerStep

(* The two ways to end a report                                            *)
LEMMA CompleteMaps ==
  ASSUME WorkerInv, NEW n \in Names, NEW size \in Magnitudes, Complete(n, size)
  PROVE  Supervised!WorkerStep(Job)
  <1>1. ~Ended /\ ~Completed /\ made /\ proc = "running" /\ step \in {"working"} \cup Progress
    BY NotEndedBefore DEF WorkerInv, WorkerTypeOK, WorkspaceKnown, Complete, At
  <1>2. sent' = Append(sent, "complete") /\ UNCHANGED <<proc, transfer, made, step>>
    BY DEF Complete
  <1>3. Ended'
    BY <1>2, EndedAfter DEF Complete, At, Final
  <1>4. Completed'
    <2>1. output' \in [name : Names, size : Magnitudes]
      BY DEF Complete
    <2> QED
      BY <2>1, WorkerAssumption DEF Completed
  <1>5. Supervised!WorkerCompletes(Job)
    BY <1>1, <1>2, <1>3, <1>4
    DEF Progress, Supervised!WorkerCompletes, Supervised!Running, Supervised!Transferring,
        Supervised!Step, Supervised!Emit, Supervised!supervision, Supervised!storeVars,
        Supervised!locals, Supervised!poolVars, Supervised!clientVars, Of, Job
  <1> QED
    BY <1>5 DEF Supervised!WorkerStep

LEMMA ReportEndMaps ==
  ASSUME WorkerInv, ReportEnd
  PROVE  Supervised!WorkerStep(Job)
  <1>1. /\ ~Ended /\ ~Completed /\ proc = "running" /\ step \in {"working"} \cup Progress
        /\ verdict \in {"rejected", "failed"}
    BY NotEndedBefore DEF WorkerInv, WorkerTypeOK, EndIsLast, ReportEnd, At
  <1>2. sent' = Append(sent, verdict) /\ UNCHANGED <<proc, transfer, made, step, output>>
    BY DEF ReportEnd
  <1>3. Ended' /\ ~Completed'
    BY <1>1, <1>2, EndedAfter DEF ReportEnd, At, Final, Completed
  <1>4. Supervised!WorkerGivesUp(Job, verdict)
    BY <1>1, <1>2, <1>3
    DEF Progress, Supervised!WorkerGivesUp, Supervised!Running, Supervised!Transferring,
        Supervised!Step, Supervised!Emit, Supervised!supervision, Supervised!storeVars,
        Supervised!locals, Supervised!poolVars, Supervised!clientVars, Of, Job
  <1> QED
    BY <1>1, <1>4 DEF Supervised!WorkerStep

LEMMA ExitMaps ==
  ASSUME Exits
  PROVE  Supervised!WorkerStep(Job)
  <1>1. proc = "running" /\ proc' = "exited" /\ UNCHANGED <<transfer, sent, step, made, output>>
    BY DEF Exits, reported
  <1>2. UNCHANGED <<Ended, Completed>>
    BY <1>1 DEF Ended, Completed
  <1>3. Supervised!WorkerExits(Job)
    BY <1>1, <1>2
    DEF Supervised!WorkerExits, Supervised!Running, Supervised!supervision, Supervised!storeVars,
        Supervised!locals, Supervised!poolVars, Supervised!clientVars, Of, Job
  <1> QED
    BY <1>3 DEF Supervised!WorkerStep

(* A worker does nothing its supervisor is not prepared for: every step is *)
(* one of WorkerStep in DownloadManager, or changes nothing seen there.    *)
THEOREM WorkerIsSupervised == Spec => ImplementsSupervisedWorker
  <1>1. WorkerInv /\ [Next]_vars
            => [Supervised!WorkerStep(Job)]_<<proc, transfer, sent, step, made, output>>
    <2> SUFFICES ASSUME WorkerInv, [Next]_vars
                 PROVE  Supervised!WorkerStep(Job) \/ UNCHANGED shown
      BY DEF shown
    <2>1. CASE \/ Receive \/ ReceiveFails \/ Validate \/ Copy \/ CopyFails \/ Inspect
               \/ (\E kind \in Errors : InspectFails(kind)) \/ InspectRaises \/ Enforce \/ Unwind
               \/ (\E v \in {"rejected", "failed"} : NoOutput(v))
      BY <2>1 DEF Receive, ReceiveFails, Validate, Copy, CopyFails, Inspect, InspectFails,
                  InspectRaises, Enforce, Unwind, NoOutput, inspected, reported, shown
    <2>2. CASE \/ \E n \in Names, t \in {0, transfer} : Writes(n, t)
               \/ TransferRaises \/ \E n \in Names \cup {Nothing} : TransferEnds(n)
      BY <2>2 DEF Writes, TransferRaises, TransferEnds, transferred, shown
    <2>3. CASE Open
      BY <2>3, OpenMaps
    <2>4. CASE ReportProgress
      BY <2>4, ReportMaps DEF ReportProgress, transferred, Progress
    <2>5. ASSUME NEW n \in Names \cup {Nothing}, ReportProcessing(n)
          PROVE  Supervised!WorkerStep(Job) \/ UNCHANGED shown
      <3>1. CASE Report("processing")
        BY <2>5, <3>1, ReportMaps DEF ReportProcessing, transferred, Progress
      <3>2. CASE UNCHANGED <<step, sent>>
        BY <2>5, <3>2 DEF ReportProcessing, transferred, shown
      <3> QED
        BY <2>5, <3>1, <3>2 DEF ReportProcessing
    <2>6. CASE Retry \/ ReportEnd \/ Exits
      BY <2>6, RetryMaps, ReportEndMaps, ExitMaps
    <2>7. CASE \E n \in Names, size \in Magnitudes : Complete(n, size)
      BY <2>7, CompleteMaps
    <2>8. CASE Exited \/ UNCHANGED vars
      BY <2>8 DEF Exited, vars, reported, shown
    <2> QED
      BY <2>1, <2>2, <2>3, <2>4, <2>5, <2>6, <2>7, <2>8 DEF Next
  <1> QED
    BY WorkerInvariant, <1>1, PTL DEF Spec, ImplementsSupervisedWorker

=============================================================================
