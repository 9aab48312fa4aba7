----------------------------- MODULE FrontendProofs -----------------------------
(***************************************************************************)
(* The safety of the page, for any number of submissions, both deliveries  *)
(* and every user, the one of the Paste tool included.  The page's one     *)
(* thread holds three lines of work on a job (a poller, the awaited        *)
(* DELETEs, a stream).  Part of the invariant holds always; the rest, that *)
(* at most one line is in hand and serves the panel, holds until an answer *)
(* of the clipboard overtakes a polled page.                               *)
(***************************************************************************)
EXTENDS Frontend, FiniteSetTheorems, TLAPS

(* What the state of the page says of the record it shows                  *)
ShownAs ==
    /\ ui \in {"active", "cancelling", "completed", "rejected", "cancelled"}
           => ui = UiStateForJob(shown)
    /\ ui = "failed" /\ scope = "job" => shown = "failed"
    /\ shown # "none" => job # NoJob

(* The poller: idle, waiting for its timer, or for one answer              *)
Chain ==
    \/ pollJob = NoJob /\ ~timer /\ LivePolls = {}
    \/ pollJob # NoJob /\ timer /\ LivePolls = {}
    \/ pollJob # NoJob /\ ~timer /\ \E p \in polls : LivePolls = {p} /\ p.job = pollJob

(* An unfinished panel has a line of work, be it another job's.            *)
Led ==
    /\ ui \in Unfinished => shown # "none"
    /\ ~serverless =>
          /\ stream = "none"
          /\ ui \in Unfinished => pollJob # NoJob \/ deletes # {}

(* What the page has been told of a job that ended is what became of it.   *)
Became(j, s) == phase[j] \in {s, "forgotten"}
Told ==
    /\ \A p \in polls : p.answer \in API!Finished => Became(p.job, p.answer)
    /\ \A d \in deletes :
          /\ d.answer \in API!Finished => Became(d.job, d.answer)
          /\ d.answer = "deleted" => phase[d.job] = "forgotten"
    /\ \A j \in JobIds : tail[j] # "none" => Became(j, tail[j])
    /\ creation # NoJob /\ stream \in {"completed", "file", "whole"}
           => tail[creation] = "completed"
    /\ shown \in {"completed", "rejected"} \/ (shown = "cancelled" /\ ~serverless)
           => job \in JobIds /\ Became(job, shown)

(* Against a polled service, as long as the clipboard has not overtaken it *)
Polled ==
    ~serverless =>
        /\ ~aborted
        /\ creation # NoJob => ui = "creating"
        /\ inspection => ui = "inspecting"
        /\ ui = "ready" => inspected
        /\ \A d \in deletes :
              /\ ui = "cancelling" /\ job = d.job /\ pollJob = NoJob
              /\ deletes = {d}
        /\ pollJob # NoJob => ui \in Unfinished /\ job = pollJob

Streamed ==
    serverless =>
        /\ pollJob = NoJob /\ deletes = {}
        /\ ui \in Unfinished => creation = job

(* Whatever the user does, a poll is about a job.                          *)
Named ==
    /\ timer => pollJob # NoJob
    /\ \A p \in polls : p.live => pollJob # NoJob

TypedInv == FrontendTypeOK /\ Named
SoundInv == TypedInv /\ Chain /\ Led /\ Told /\ (overtaken => ~serverless)
OrderlyInv == ShownAs /\ Polled /\ Streamed

PageInv == SoundInv /\ (~overtaken => OrderlyInv)

-----------------------------------------------------------------------------
(* The steps, by the line of work they belong to.                          *)

Inspecting ==
    \/ InspectInvalid \/ Inspect \/ CancelInspection \/ EditUrl \/ AuthChange
    \/ InspectionSucceeds \/ InspectionFails

Submitting ==
    \/ \E j \in JobIds : StartDownload(j)
    \/ RetryForgotten \/ ChangeOptions \/ AnotherDownload
    \/ ConsumerAborts \/ CreationFails \/ CreationTimesOut \/ CreationAccepted

Streaming ==
    \/ StreamOpens \/ StreamReports \/ StreamEnds \/ StreamReturns
    \/ StreamCompletes \/ StreamDelivers \/ StreamArrives \/ StreamSaves

Polling ==
    \/ PollStarts \/ BecomesVisible
    \/ \E p \in polls : Poll(p) \/ PollServed(p)

Cancelling ==
    \/ Cancel \/ CancelStream
    \/ \E d \in deletes : CancelEnds(d) \/ DeleteServed(d)

Serving ==
    \/ \E j \in JobIds :
          \/ PostAccepted(j) \/ PostRefused(j) \/ JobMoves(j)
          \/ StrayServed(j) \/ StreamFinishes(j) \/ StreamCloses(j)
    \/ ServerRestarts

Pasting == PasteStarts \/ PasteArrives \/ PasteFails

Kinds == Inspecting \/ Submitting \/ Streaming \/ Polling \/ Cancelling \/ Serving

(* Every step is of one of these.                                          *)
LEMMA StepKinds ==
    ASSUME Next
    PROVE  Kinds \/ Pasting
BY DEF Kinds, Next, User, Arrivals, Server,
       Inspecting, Submitting, Streaming, Polling, Cancelling, Serving, Pasting

(* The clipboard is harmless beside a stream, which goes on by itself, and *)
(* where the page has not moved on.                                        *)
CalmPasting == Pasting /\ (serverless \/ ~overtaken')

-----------------------------------------------------------------------------
(* Types, by the thing they are about                                      *)

ModelTyped ==
    /\ ui \in UiState
    /\ scope \in {"none", "inspect", "create", "job"}
    /\ job \in JobIds \cup {NoJob}
    /\ shown \in Statuses \cup {"none"}

FlagsTyped ==
    /\ inspected \in BOOLEAN /\ timer \in BOOLEAN /\ inspection \in BOOLEAN
    /\ aborted \in BOOLEAN /\ pasting \in BOOLEAN /\ overtaken \in BOOLEAN

PollsTyped == polls \subseteq [job : JobIds, live : BOOLEAN, answer : Answers]

RequestsTyped ==
    /\ pollJob \in JobIds \cup {NoJob}
    /\ creation \in JobIds \cup {NoJob}
    /\ stream \in {"none", "open", "ended", "completed", "file", "whole"}
    /\ deletes \subseteq [job : JobIds, nth : Nat, answer : Answers \cup {"deleted"}]

JobsTyped ==
    /\ phase \in [JobIds -> Statuses \cup {"unknown", "forgotten"}]
    /\ deliverable \subseteq JobIds

ServerTyped ==
    /\ post \in [JobIds -> {"none", "sent", "accepted", "refused"}]
    /\ strays \subseteq JobIds
    /\ tail \in [JobIds -> {"none"} \cup API!Finished]
    /\ closed \subseteq JobIds

(* A poll that is overtaken is the same poll, no longer of the generation. *)
LEMMA StalePolls ==
    ASSUME PollsTyped
    PROVE  /\ Stale \subseteq [job : JobIds, live : BOOLEAN, answer : Answers]
           /\ \A p \in polls : {[q EXCEPT !.live = FALSE] : q \in polls \ {p}}
                  \subseteq [job : JobIds, live : BOOLEAN, answer : Answers]
BY DEF PollsTyped, Stale

-----------------------------------------------------------------------------
(* What the controls offer, and what the handlers are put together from    *)
USE FrontendAssumption
    DEF WorkflowLocked, JobVisible, ResultVisible, ErrorControls, DoneControls,
        CancelControl, InspectButton, HandleUrlInput,
        Transition, Apply, UiStateForJob, Forgo, StopPolling, StartPolling,
        AbortCreation, Caught, AbortCaught, CreationOver, InspectionEnds, Consumed,
        Reading, Answered, PollAgain, Poll, polled, page, DeleteRoute,
        model, poller, clipboard, requests, jobs, server, Unfinished, LivePolls,
        API!Finished, API!Accept, API!Complete, API!Fail, API!AcceptCancel,
        API!Cancelled, API!Forget, API!Lose, API!Move

(* The actions, expanded where their group is                              *)
USE DEF Statuses, Answers,
        InspectInvalid, Inspect, CancelInspection, EditUrl, AuthChange,
        InspectionSucceeds, InspectionFails,
        StartDownload, RetryForgotten, ChangeOptions, AnotherDownload,
        ConsumerAborts, CreationFails, CreationTimesOut, CreationAccepted,
        StreamOpens, StreamReports, StreamEnds, StreamReturns, StreamCompletes,
        StreamDelivers, StreamArrives, StreamSaves,
        PollStarts, BecomesVisible, PollDropped, PollAnswered, PollMissing,
        PollFails, PollServed,
        PasteStarts, PasteAnswered, PasteArrives, PasteFails, MovedOn,
        Cancel, CancelStream, CancelAnswered, CancelDeleted, CancelFails, CancelEnds,
        DeleteServed,
        PostAccepted, PostRefused, JobMoves, StrayServed, StreamFinishes,
        StreamCloses, ServerRestarts

(* What each kind of step leaves typed                                     *)
LEMMA ModelTypedKept ==
    ASSUME TypedInv, Kinds \/ Pasting, serverless' = serverless
    PROVE  ModelTyped'
BY DEF Kinds, Inspecting, Submitting, Streaming, Polling, Cancelling, Serving, Pasting,
    TypedInv, FrontendTypeOK, ModelTyped, UiState

LEMMA FlagsTypedKept ==
    ASSUME TypedInv, Kinds \/ Pasting, serverless' = serverless
    PROVE  FlagsTyped'
<1>1. CASE Inspecting
  BY <1>1
  DEF Inspecting, TypedInv, FrontendTypeOK, FlagsTyped
<1>2. CASE Submitting
  BY <1>2
  DEF Submitting, TypedInv, FrontendTypeOK, FlagsTyped
<1>3. CASE Streaming
  BY <1>3
  DEF Streaming, TypedInv, FrontendTypeOK, FlagsTyped
<1>4. CASE Polling
  <2>1. ASSUME PollStarts \/ BecomesVisible
        PROVE  FlagsTyped'
    BY <2>1 DEF TypedInv, FrontendTypeOK, FlagsTyped
  <2>2. ASSUME NEW p \in polls, Poll(p)
        PROVE  FlagsTyped'
    BY <2>2 DEF TypedInv, FrontendTypeOK, FlagsTyped
  <2>3. ASSUME NEW p \in polls, PollServed(p)
        PROVE  FlagsTyped'
    BY <2>3 DEF TypedInv, FrontendTypeOK, FlagsTyped
  <2>. QED
    BY <1>4, <2>1, <2>2, <2>3 DEF Polling
<1>5. CASE Cancelling
  <2>1. ASSUME Cancel
        PROVE  FlagsTyped'
    BY <2>1 DEF TypedInv, FrontendTypeOK, FlagsTyped
  <2>2. ASSUME CancelStream
        PROVE  FlagsTyped'
    BY <2>2 DEF TypedInv, FrontendTypeOK, FlagsTyped
  <2>3. ASSUME NEW d \in deletes, CancelAnswered(d)
        PROVE  FlagsTyped'
    BY <2>3 DEF TypedInv, FrontendTypeOK, FlagsTyped
  <2>4. ASSUME NEW d \in deletes, CancelDeleted(d)
        PROVE  FlagsTyped'
    BY <2>4 DEF TypedInv, FrontendTypeOK, FlagsTyped
  <2>5. ASSUME NEW d \in deletes, CancelFails(d)
        PROVE  FlagsTyped'
    BY <2>5 DEF TypedInv, FrontendTypeOK, FlagsTyped
  <2>6. ASSUME NEW d \in deletes, DeleteServed(d)
        PROVE  FlagsTyped'
    BY <2>6 DEF TypedInv, FrontendTypeOK, FlagsTyped
  <2>. QED
    BY <1>5, <2>1, <2>2, <2>3, <2>4, <2>5, <2>6 DEF Cancelling
<1>6. CASE Serving
  BY <1>6
  DEF Serving, TypedInv, FrontendTypeOK, FlagsTyped
<1>7. CASE Pasting
  BY <1>7
  DEF Pasting, TypedInv, FrontendTypeOK, FlagsTyped
<1>. QED
  BY <1>1, <1>2, <1>3, <1>4, <1>5, <1>6, <1>7 DEF Kinds

LEMMA RequestsTypedKept ==
    ASSUME TypedInv, Kinds \/ Pasting, serverless' = serverless
    PROVE  RequestsTyped'
BY DEF Kinds, Inspecting, Submitting, Streaming, Polling, Cancelling, Serving, Pasting,
    TypedInv, FrontendTypeOK, RequestsTyped

LEMMA JobsTypedKept ==
    ASSUME TypedInv, Kinds \/ Pasting, serverless' = serverless
    PROVE  JobsTyped'
BY DEF Kinds, Inspecting, Submitting, Streaming, Polling, Cancelling, Serving, Pasting,
    TypedInv, FrontendTypeOK, JobsTyped

LEMMA ServerTypedKept ==
    ASSUME TypedInv, Kinds \/ Pasting, serverless' = serverless
    PROVE  ServerTyped'
BY DEF Kinds, Inspecting, Submitting, Streaming, Polling, Cancelling, Serving, Pasting,
    TypedInv, FrontendTypeOK, ServerTyped

(* The polls                                                               *)
LEMMA PollsTypedKept ==
    ASSUME TypedInv, Kinds \/ Pasting, serverless' = serverless
    PROVE  PollsTyped'
<1>1. CASE Inspecting
  BY <1>1, StalePolls
  DEF Inspecting, TypedInv, FrontendTypeOK, PollsTyped
<1>2. CASE Submitting
  BY <1>2, StalePolls
  DEF Submitting, TypedInv, FrontendTypeOK, PollsTyped
<1>3. CASE Streaming
  BY <1>3, StalePolls
  DEF Streaming, TypedInv, FrontendTypeOK, PollsTyped
<1>4. CASE Polling
  <2>1. CASE PollStarts
    <3>. DEFINE new == [job |-> pollJob, live |-> TRUE, answer |-> "none"]
    <3>1. pollJob # NoJob /\ polls' = polls \cup {new}
      BY <2>1 DEF TypedInv, Named, PollStarts
    <3>2. new \in [job : JobIds, live : BOOLEAN, answer : Answers]
      BY <3>1 DEF TypedInv, FrontendTypeOK, Answers
    <3>. QED
      BY <3>1, <3>2 DEF TypedInv, FrontendTypeOK, PollsTyped
  <2>2. CASE BecomesVisible
    BY <2>2
    DEF TypedInv, FrontendTypeOK, PollsTyped
  <2>3. ASSUME NEW p \in polls, PollDropped(p)
        PROVE  PollsTyped'
    BY <2>3
    DEF TypedInv, FrontendTypeOK, PollsTyped
  <2>4. ASSUME NEW p \in polls, PollAnswered(p)
        PROVE  PollsTyped'
    <3>1. PollsTyped
      BY DEF TypedInv, FrontendTypeOK, PollsTyped
    <3>. QED
      BY <2>4, <3>1, StalePolls DEF PollsTyped, PollAnswered
  <2>5. ASSUME NEW p \in polls, PollMissing(p)
        PROVE  PollsTyped'
    <3>1. PollsTyped
      BY DEF TypedInv, FrontendTypeOK, PollsTyped
    <3>. QED
      BY <2>5, <3>1, StalePolls DEF PollsTyped, PollMissing
  <2>6. ASSUME NEW p \in polls, PollFails(p)
        PROVE  PollsTyped'
    BY <2>6
    DEF TypedInv, FrontendTypeOK, PollsTyped
  <2>7. ASSUME NEW p \in polls, PollServed(p)
        PROVE  PollsTyped'
    BY <2>7
    DEF TypedInv, FrontendTypeOK, PollsTyped
  <2>. QED
    BY <1>4, <2>1, <2>2, <2>3, <2>4, <2>5, <2>6, <2>7 DEF Polling
<1>5. CASE Cancelling
  BY <1>5, StalePolls
  DEF Cancelling, TypedInv, FrontendTypeOK, PollsTyped
<1>6. CASE Serving
  BY <1>6, StalePolls
  DEF Serving, TypedInv, FrontendTypeOK, PollsTyped
<1>7. CASE Pasting
  BY <1>7
  DEF Pasting, TypedInv, FrontendTypeOK, PollsTyped
<1>. QED
  BY <1>1, <1>2, <1>3, <1>4, <1>5, <1>6, <1>7 DEF Kinds

(* Who starts the poller names the job, and who drops the job stops it.    *)
LEMMA NamedKept ==
    ASSUME TypedInv, Kinds \/ Pasting, serverless' = serverless
    PROVE  Named'
<1>1. CASE Inspecting
  BY <1>1 DEF Inspecting, TypedInv, FrontendTypeOK, Named, Stale
<1>2. CASE Submitting
  BY <1>2 DEF Submitting, TypedInv, FrontendTypeOK, Named, Stale
<1>3. CASE Streaming
  BY <1>3 DEF Streaming, TypedInv, FrontendTypeOK, Named, Stale
<1>4. CASE Polling
  BY <1>4 DEF Polling, TypedInv, FrontendTypeOK, Named, Stale
<1>5. CASE Cancelling
  BY <1>5 DEF Cancelling, TypedInv, FrontendTypeOK, Named, Stale
<1>6. CASE Serving
  BY <1>6 DEF Serving, TypedInv, FrontendTypeOK, Named, Stale
<1>7. CASE Pasting
  BY <1>7 DEF Pasting, TypedInv, FrontendTypeOK, Named
<1>. QED
  BY <1>1, <1>2, <1>3, <1>4, <1>5, <1>6, <1>7 DEF Kinds

(* No handler starts a second chain of polls, or leaves one behind.        *)
LEMMA ChainKept ==
    ASSUME TypedInv, Chain, Kinds \/ Pasting, serverless' = serverless
    PROVE  Chain'
<1>1. CASE Inspecting
  BY <1>1
  DEF Inspecting, TypedInv, FrontendTypeOK, Chain, Named, Stale
<1>2. CASE Submitting
  BY <1>2
  DEF Submitting, TypedInv, FrontendTypeOK, Chain, Named, Stale
<1>3. CASE Streaming
  BY <1>3
  DEF Streaming, TypedInv, FrontendTypeOK, Chain, Named, Stale
<1>4. CASE Polling
  <2>1. CASE PollStarts
    <3>. DEFINE new == [job |-> pollJob, live |-> TRUE, answer |-> "none"]
    <3>1. pollJob # NoJob /\ LivePolls = {} /\ polls' = polls \cup {new}
      BY <2>1 DEF TypedInv, Named, Chain, PollStarts
    <3>2. LivePolls' = {new}
      BY <3>1
    <3>3. new \in polls' /\ new.job = pollJob' /\ ~timer' /\ UNCHANGED pollJob
      BY <2>1, <3>1 DEF PollStarts
    <3>. HIDE DEF LivePolls, new
    <3>. QED
      BY <3>1, <3>2, <3>3 DEF Chain
  <2>2. CASE BecomesVisible
    BY <2>2
    DEF TypedInv, FrontendTypeOK, Chain, Stale
  <2>3. ASSUME NEW p \in polls, PollDropped(p)
        PROVE  Chain'
    BY <2>3
    DEF TypedInv, FrontendTypeOK, Chain, Stale
  <2>4. ASSUME NEW p \in polls, PollAnswered(p)
        PROVE  Chain'
    BY <2>4
    DEF TypedInv, FrontendTypeOK, Chain, Stale
  <2>5. ASSUME NEW p \in polls, PollMissing(p)
        PROVE  Chain'
    BY <2>5
    DEF TypedInv, FrontendTypeOK, Chain, Stale
  <2>6. ASSUME NEW p \in polls, PollFails(p)
        PROVE  Chain'
    BY <2>6
    DEF TypedInv, FrontendTypeOK, Chain, Stale
  <2>7. ASSUME NEW p \in polls, PollServed(p)
        PROVE  Chain'
    <3>. DEFINE r == IF phase[p.job] \in Statuses THEN phase[p.job] ELSE "missing"
                new == [p EXCEPT !.answer = r]
    <3>1. new.live = p.live /\ new.job = p.job /\ polls' = (polls \ {p}) \cup {new}
      BY <2>7 DEF TypedInv, FrontendTypeOK, PollServed
    <3>2. LivePolls' = IF p.live THEN (LivePolls \ {p}) \cup {new} ELSE LivePolls
      BY <3>1
    <3>3. UNCHANGED <<pollJob, timer>>
      BY <2>7 DEF PollServed
    <3>4. CASE p.live
      <4>1. LivePolls = {p} /\ p.job = pollJob
        BY <3>4 DEF Chain
      <4>2. LivePolls' = {new} /\ new \in polls'
        BY <3>1, <3>2, <3>4, <4>1
      <4>. QED
        BY <3>1, <3>3, <4>1, <4>2 DEF Chain
    <3>5. CASE ~p.live
      <4>1. \A q \in LivePolls : q \in polls'
        BY <3>1, <3>5
      <4>2. LivePolls' = LivePolls
        BY <3>2, <3>5
      <4>. HIDE DEF LivePolls
      <4>. QED
        BY <3>3, <4>1, <4>2 DEF Chain
    <3>. QED
      BY <3>4, <3>5
  <2>. QED
    BY <1>4, <2>1, <2>2, <2>3, <2>4, <2>5, <2>6, <2>7 DEF Polling
<1>5. CASE Cancelling
  BY <1>5
  DEF Cancelling, TypedInv, FrontendTypeOK, Chain, Named, Stale
<1>6. CASE Serving
  BY <1>6
  DEF Serving, TypedInv, FrontendTypeOK, Chain, Named, Stale
<1>7. CASE Pasting
  BY <1>7
  DEF Pasting, TypedInv, FrontendTypeOK, Chain, Named, Stale
<1>. QED
  BY <1>1, <1>2, <1>3, <1>4, <1>5, <1>6, <1>7 DEF Kinds

(* Who stops one line of work takes the panel out of the unfinished states, *)
(* or has another.                                                         *)
LEMMA LedKept ==
    ASSUME TypedInv, Chain, Led, Kinds \/ Pasting, serverless' = serverless
    PROVE  Led'
<1>1. CASE Inspecting
  BY <1>1
  DEF Inspecting, TypedInv, FrontendTypeOK, Chain, Led
<1>2. CASE Submitting
  BY <1>2
  DEF Submitting, TypedInv, FrontendTypeOK, Chain, Led
<1>3. CASE Streaming
  BY <1>3
  DEF Streaming, TypedInv, FrontendTypeOK, Chain, Led
<1>4. CASE Polling
  BY <1>4
  DEF Polling, TypedInv, FrontendTypeOK, Chain, Led
<1>5. CASE Cancelling
  <2>1. ASSUME Cancel
        PROVE  Led'
    BY <2>1 DEF TypedInv, FrontendTypeOK, Led
  <2>2. ASSUME CancelStream
        PROVE  Led'
    BY <2>2 DEF TypedInv, FrontendTypeOK, Led
  <2>3. ASSUME NEW d \in deletes, CancelAnswered(d)
        PROVE  Led'
    BY <2>3 DEF TypedInv, FrontendTypeOK, Led
  <2>4. ASSUME NEW d \in deletes, CancelDeleted(d)
        PROVE  Led'
    BY <2>4 DEF TypedInv, FrontendTypeOK, Led
  <2>5. ASSUME NEW d \in deletes, CancelFails(d)
        PROVE  Led'
    BY <2>5 DEF TypedInv, FrontendTypeOK, Led
  <2>6. ASSUME NEW d \in deletes, DeleteServed(d)
        PROVE  Led'
    BY <2>6 DEF TypedInv, FrontendTypeOK, Led
  <2>. QED
    BY <1>5, <2>1, <2>2, <2>3, <2>4, <2>5, <2>6 DEF Cancelling
<1>6. CASE Serving
  BY <1>6
  DEF Serving, TypedInv, FrontendTypeOK, Chain, Led
<1>7. CASE Pasting
  BY <1>7
  DEF Pasting, TypedInv, FrontendTypeOK, Chain, Led
<1>. QED
  BY <1>1, <1>2, <1>3, <1>4, <1>5, <1>6, <1>7 DEF Kinds

(* Answers may be late but were true, and a finished job is only forgotten. *)
LEMMA ToldKept ==
    ASSUME TypedInv, Led, Told, Kinds \/ Pasting, serverless' = serverless
    PROVE  Told'
<1>1. CASE Inspecting
  BY <1>1
  DEF Inspecting, TypedInv, FrontendTypeOK, Led, Told, Became, Stale
<1>2. CASE Submitting
  BY <1>2
  DEF Submitting, TypedInv, FrontendTypeOK, Led, Told, Became, Stale
<1>3. CASE Streaming
  BY <1>3
  DEF Streaming, TypedInv, FrontendTypeOK, Led, Told, Became, Stale
<1>4. CASE Polling
  BY <1>4
  DEF Polling, TypedInv, FrontendTypeOK, Led, Told, Became, Stale
<1>5. CASE Cancelling
  BY <1>5
  DEF Cancelling, TypedInv, FrontendTypeOK, Led, Told, Became, Stale
<1>6. CASE Serving
  BY <1>6
  DEF Serving, TypedInv, FrontendTypeOK, Led, Told, Became, Stale
<1>7. CASE Pasting
  BY <1>7
  DEF Pasting, TypedInv, FrontendTypeOK, Led, Told, Became, Stale
<1>. QED
  BY <1>1, <1>2, <1>3, <1>4, <1>5, <1>6, <1>7 DEF Kinds

(* Only a polled page is overtaken, and it stays so.                       *)
LEMMA OvertakenKept ==
    ASSUME TypedInv, overtaken => ~serverless, Kinds \/ Pasting, serverless' = serverless
    PROVE  (overtaken' => ~serverless') /\ (overtaken => overtaken')
<1>1. CASE Inspecting
  BY <1>1
  DEF Inspecting, TypedInv, FrontendTypeOK, MovedOn
<1>2. CASE Submitting
  BY <1>2
  DEF Submitting, TypedInv, FrontendTypeOK, MovedOn
<1>3. CASE Streaming
  BY <1>3
  DEF Streaming, TypedInv, FrontendTypeOK, MovedOn
<1>4. CASE Polling
  BY <1>4
  DEF Polling, TypedInv, FrontendTypeOK, MovedOn
<1>5. CASE Cancelling
  BY <1>5
  DEF Cancelling, TypedInv, FrontendTypeOK, MovedOn
<1>6. CASE Serving
  BY <1>6
  DEF Serving, TypedInv, FrontendTypeOK, MovedOn
<1>7. CASE Pasting
  BY <1>7
  DEF Pasting, TypedInv, FrontendTypeOK, MovedOn
<1>. QED
  BY <1>1, <1>2, <1>3, <1>4, <1>5, <1>6, <1>7 DEF Kinds

-----------------------------------------------------------------------------
(* The orderly page.                                                       *)

(* A state that names a status is entered with that status shown.          *)
LEMMA ShownAsKept ==
    ASSUME ~overtaken, SoundInv, OrderlyInv, Kinds \/ CalmPasting, serverless' = serverless
    PROVE  ShownAs'
<1>1. CASE Inspecting
  BY <1>1
  DEF Inspecting, TypedInv, FrontendTypeOK, SoundInv, OrderlyInv, ShownAs, Chain, Led,
      Polled, Streamed
<1>2. CASE Submitting
  BY <1>2
  DEF Submitting, TypedInv, FrontendTypeOK, SoundInv, OrderlyInv, ShownAs, Chain, Led,
      Polled, Streamed
<1>3. CASE Streaming
  BY <1>3
  DEF Streaming, TypedInv, FrontendTypeOK, SoundInv, OrderlyInv, ShownAs, Chain, Led,
      Polled, Streamed
<1>4. CASE Polling
  BY <1>4
  DEF Polling, TypedInv, FrontendTypeOK, SoundInv, OrderlyInv, ShownAs, Chain, Led,
      Polled, Streamed
<1>5. CASE Cancelling
  <2>1. ASSUME Cancel
        PROVE  ShownAs'
    BY <2>1 DEF TypedInv, FrontendTypeOK, SoundInv, OrderlyInv, ShownAs, Led, Polled
  <2>2. ASSUME CancelStream
        PROVE  ShownAs'
    BY <2>2 DEF TypedInv, FrontendTypeOK, SoundInv, OrderlyInv, ShownAs, Led, Polled
  <2>3. ASSUME NEW d \in deletes, CancelAnswered(d)
        PROVE  ShownAs'
    BY <2>3 DEF TypedInv, FrontendTypeOK, SoundInv, OrderlyInv, ShownAs, Led, Polled
  <2>4. ASSUME NEW d \in deletes, CancelDeleted(d)
        PROVE  ShownAs'
    BY <2>4 DEF TypedInv, FrontendTypeOK, SoundInv, OrderlyInv, ShownAs, Led, Polled
  <2>5. ASSUME NEW d \in deletes, CancelFails(d)
        PROVE  ShownAs'
    BY <2>5 DEF TypedInv, FrontendTypeOK, SoundInv, OrderlyInv, ShownAs, Led, Polled
  <2>6. ASSUME NEW d \in deletes, DeleteServed(d)
        PROVE  ShownAs'
    BY <2>6 DEF TypedInv, FrontendTypeOK, SoundInv, OrderlyInv, ShownAs, Led, Polled
  <2>. QED
    BY <1>5, <2>1, <2>2, <2>3, <2>4, <2>5, <2>6 DEF Cancelling
<1>6. CASE Serving
  BY <1>6
  DEF Serving, TypedInv, FrontendTypeOK, SoundInv, OrderlyInv, ShownAs, Chain, Led,
      Polled, Streamed
<1>7. CASE CalmPasting
  BY <1>7
  DEF CalmPasting, Pasting, TypedInv, FrontendTypeOK, SoundInv, OrderlyInv, ShownAs, Chain, Led,
      Polled, Streamed
<1>. QED
  BY <1>1, <1>2, <1>3, <1>4, <1>5, <1>6, <1>7 DEF Kinds

(* Against a polled service a submission, a poller and a DELETE exclude    *)
(* each other.                                                             *)
LEMMA PolledKept ==
    ASSUME SoundInv, OrderlyInv, Kinds \/ CalmPasting, serverless' = serverless
    PROVE  Polled'
<1>1. CASE Inspecting
  BY <1>1
  DEF Inspecting, TypedInv, FrontendTypeOK, SoundInv, OrderlyInv, ShownAs, Chain, Led,
      Polled, Streamed, Stale
<1>2. CASE Submitting
  BY <1>2
  DEF Submitting, TypedInv, FrontendTypeOK, SoundInv, OrderlyInv, ShownAs, Chain, Led,
      Polled, Streamed, Stale
<1>3. CASE Streaming
  BY <1>3
  DEF Streaming, TypedInv, FrontendTypeOK, SoundInv, OrderlyInv, ShownAs, Chain, Led,
      Polled, Streamed, Stale
<1>4. CASE Polling
  BY <1>4
  DEF Polling, TypedInv, FrontendTypeOK, SoundInv, OrderlyInv, ShownAs, Chain, Led,
      Polled, Streamed, Stale
<1>5. CASE Cancelling
  BY <1>5
  DEF Cancelling, TypedInv, FrontendTypeOK, SoundInv, OrderlyInv, ShownAs, Chain, Led,
      Polled, Streamed, Stale
<1>6. CASE Serving
  BY <1>6
  DEF Serving, TypedInv, FrontendTypeOK, SoundInv, OrderlyInv, ShownAs, Chain, Led,
      Polled, Streamed, Stale
<1>7. CASE CalmPasting
  BY <1>7
  DEF CalmPasting, Pasting, TypedInv, FrontendTypeOK, SoundInv, OrderlyInv, ShownAs, Chain, Led,
      Polled, Streamed, Stale
<1>. QED
  BY <1>1, <1>2, <1>3, <1>4, <1>5, <1>6, <1>7 DEF Kinds

(* Against a streaming one there is neither a poller nor a DELETE.         *)
LEMMA StreamedKept ==
    ASSUME SoundInv, OrderlyInv, Kinds \/ CalmPasting, serverless' = serverless
    PROVE  Streamed'
<1>1. CASE Inspecting
  BY <1>1
  DEF Inspecting, TypedInv, FrontendTypeOK, SoundInv, OrderlyInv, ShownAs, Chain, Led,
      Polled, Streamed, Stale
<1>2. CASE Submitting
  BY <1>2
  DEF Submitting, TypedInv, FrontendTypeOK, SoundInv, OrderlyInv, ShownAs, Chain, Led,
      Polled, Streamed, Stale
<1>3. CASE Streaming
  BY <1>3
  DEF Streaming, TypedInv, FrontendTypeOK, SoundInv, OrderlyInv, ShownAs, Chain, Led,
      Polled, Streamed, Stale
<1>4. CASE Polling
  BY <1>4
  DEF Polling, TypedInv, FrontendTypeOK, SoundInv, OrderlyInv, ShownAs, Chain, Led,
      Polled, Streamed, Stale
<1>5. CASE Cancelling
  BY <1>5
  DEF Cancelling, TypedInv, FrontendTypeOK, SoundInv, OrderlyInv, ShownAs, Chain, Led,
      Polled, Streamed, Stale
<1>6. CASE Serving
  BY <1>6
  DEF Serving, TypedInv, FrontendTypeOK, SoundInv, OrderlyInv, ShownAs, Chain, Led,
      Polled, Streamed, Stale
<1>7. CASE CalmPasting
  BY <1>7
  DEF CalmPasting, Pasting, TypedInv, FrontendTypeOK, SoundInv, OrderlyInv, ShownAs, Chain, Led,
      Polled, Streamed, Stale
<1>. QED
  BY <1>1, <1>2, <1>3, <1>4, <1>5, <1>6, <1>7 DEF Kinds

-----------------------------------------------------------------------------
(* The invariant                                                           *)

(* The types together                                                      *)
LEMMA TypesKept ==
    ASSUME TypedInv, Kinds \/ Pasting, serverless' = serverless
    PROVE  TypedInv'
BY ModelTypedKept, FlagsTypedKept, RequestsTypedKept, JobsTypedKept, ServerTypedKept,
   PollsTypedKept, NamedKept
DEF TypedInv, FrontendTypeOK, ModelTyped, FlagsTyped, RequestsTyped, JobsTyped,
    ServerTyped, PollsTyped

(* The whole holds at the start ...                                        *)
LEMMA PageInit ==
    ASSUME Init
    PROVE  PageInv
<1>1. TypedInv
  BY DEF Init, API!Init, TypedInv, Named, FrontendTypeOK, UiState, Statuses, Answers
<1>2. Chain /\ Led /\ Told /\ ~overtaken
  BY DEF Init, API!Init, Chain, Led, Told, Became
<1>3. ShownAs /\ Polled /\ Streamed
  BY DEF Init, API!Init, ShownAs, Polled, Streamed
<1>. QED
  BY <1>1, <1>2, <1>3 DEF PageInv, SoundInv, OrderlyInv

(* ... and every step keeps it.                                            *)
LEMMA PageNext ==
    ASSUME PageInv, [Next /\ UNCHANGED serverless]_<<vars, serverless>>
    PROVE  PageInv'
<1>1. CASE UNCHANGED <<vars, serverless>>
  BY <1>1
  DEF vars, PageInv, SoundInv, OrderlyInv, TypedInv, Named, FrontendTypeOK, ShownAs, Chain,
      Led, Polled, Streamed, Told, Became
<1>2. CASE Next /\ UNCHANGED serverless
  <2>1. Kinds \/ Pasting
    BY <1>2, StepKinds
  <2>2. SoundInv' /\ (overtaken => overtaken')
    BY <1>2, <2>1, TypesKept, ChainKept, LedKept, ToldKept, OvertakenKept
    DEF PageInv, SoundInv
  <2>3. ASSUME ~overtaken'
        PROVE  OrderlyInv'
    <3>1. ~overtaken /\ OrderlyInv /\ (Kinds \/ CalmPasting)
      BY <2>1, <2>2, <2>3 DEF PageInv, CalmPasting
    <3>. QED
      BY <1>2, <3>1, ShownAsKept, PolledKept, StreamedKept DEF PageInv, OrderlyInv
  <2>. QED
    BY <2>2, <2>3 DEF PageInv
<1>. QED
  BY <1>1, <1>2

(* The page, its polls and requests, and what they have been told agree in *)
(* every reachable state; and before the clipboard overtakes a polled page *)
(* one line of work at most is in hand, for the job of the panel.          *)
THEOREM PageInductive == Spec => []PageInv
<1>1. Init => PageInv
  BY PageInit
<1>2. PageInv /\ [Next /\ UNCHANGED serverless]_<<vars, serverless>> => PageInv'
  BY PageNext
<1>. QED
  BY <1>1, <1>2, PTL DEF Spec

(* Type correctness of the page and of the server as the page sees it.     *)
THEOREM PageTypeCorrect == Spec => []FrontendTypeOK
<1>1. PageInv => FrontendTypeOK
  BY DEF PageInv, SoundInv, TypedInv
<1>. QED
  BY <1>1, PageInductive, PTL

(* The three forms of the chain, counted                                   *)
LEMMA OneOfChain ==
    ASSUME Chain, pollJob # NoJob /\ ~overtaken => ui \in Unfinished /\ job = pollJob
    PROVE  OnePoller
<1>1. CASE LivePolls = {}
  <2>1. Cardinality(LivePolls) = 0
    BY <1>1, FS_EmptySet
  <2>. HIDE DEF LivePolls
  <2>. QED
    BY <1>1, <2>1 DEF Chain, OnePoller
<1>2. ASSUME NEW p \in polls, LivePolls = {p}, p.job = pollJob, ~timer, pollJob # NoJob
      PROVE  OnePoller
  <2>1. Cardinality(LivePolls) = 1
    BY <1>2, FS_Singleton
  <2>. HIDE DEF LivePolls
  <2>. QED
    BY <1>2, <2>1 DEF Chain, OnePoller
<1>. HIDE DEF LivePolls
<1>. QED
  BY <1>1, <1>2 DEF Chain

(* poller of app.js: one chain of polls whatever the user does; and, until *)
(* the clipboard overtakes the page, for the job of an unfinished panel    *)
(* and none when there is no such panel.                                   *)
THEOREM PageHasOnePoller == Spec => []OnePoller
<1>1. PageInv => OnePoller
  <2>1. ASSUME PageInv, pollJob # NoJob, ~overtaken
        PROVE  ui \in Unfinished /\ job = pollJob
    <3>1. CASE serverless
      BY <2>1, <3>1 DEF PageInv, OrderlyInv, Streamed
    <3>2. CASE ~serverless
      BY <2>1, <3>2 DEF PageInv, OrderlyInv, Polled
    <3>. QED
      BY <3>1, <3>2
  <2>. QED
    BY <2>1, OneOfChain DEF PageInv, SoundInv
<1>. QED
  BY <1>1, PageInductive, PTL

(* A panel that shows an unfinished job is being moved, by the poller, an  *)
(* awaited DELETE or the stream: of that job, until the clipboard          *)
(* overtakes the page, and of some job even then.                          *)
THEOREM PageWatchesUnfinished == Spec => []UnfinishedIsWatched
<1>1. ASSUME PageInv, ui \in Unfinished, ~overtaken
      PROVE  job \in JobIds /\ Watched(job)
  <2>1. job \in JobIds
    BY <1>1 DEF PageInv, SoundInv, OrderlyInv, TypedInv, FrontendTypeOK, Led, ShownAs
  <2>2. CASE serverless
    BY <1>1, <2>1, <2>2 DEF PageInv, OrderlyInv, Streamed, Watched
  <2>3. CASE ~serverless /\ pollJob # NoJob
    BY <1>1, <2>1, <2>3 DEF PageInv, SoundInv, OrderlyInv, Chain, Polled, Watched
  <2>4. CASE ~serverless /\ deletes # {}
    BY <1>1, <2>1, <2>4 DEF PageInv, OrderlyInv, Polled, Watched
  <2>. QED
    BY <1>1, <2>1, <2>2, <2>3, <2>4 DEF PageInv, SoundInv, Led
<1>2. ASSUME PageInv, ui \in Unfinished, overtaken
      PROVE  \E j \in JobIds : Watched(j)
  <2>1. CASE pollJob # NoJob
    BY <1>2, <2>1 DEF PageInv, SoundInv, TypedInv, FrontendTypeOK, Chain, Watched
  <2>2. ASSUME NEW d \in deletes
        PROVE  d.job \in JobIds /\ Watched(d.job)
    BY <1>2 DEF PageInv, SoundInv, TypedInv, FrontendTypeOK, Watched
  <2>. QED
    BY <1>2, <2>1, <2>2 DEF PageInv, SoundInv, Led
<1>3. PageInv => UnfinishedIsWatched
  BY <1>1, <1>2 DEF UnfinishedIsWatched, PageInv, SoundInv, TypedInv, FrontendTypeOK
<1>. QED
  BY <1>3, PageInductive, PTL

(* No late or overtaken answer makes the page report another end of a job  *)
(* than the one the job had, whatever the user does.                       *)
THEOREM PageShowsTruth == Spec => []ShownIsTrue
<1>1. PageInv => ShownIsTrue
  BY DEF PageInv, SoundInv, Told, Became, ShownIsTrue
<1>. QED
  BY <1>1, PageInductive, PTL

-----------------------------------------------------------------------------
(* Steps                                                                   *)

PanelMoves == job' # NoJob /\ job' # job => job' = creation
TableMoves == ~serverless /\ ui' # ui => ui' \in Allowed[ui]

(* What each step of the orderly page does to the job shown                *)
LEMMA PanelMovesKept ==
    ASSUME SoundInv, OrderlyInv, Kinds \/ CalmPasting, serverless' = serverless
    PROVE  PanelMoves
<1>1. CASE Inspecting
  BY <1>1
  DEF Inspecting, TypedInv, FrontendTypeOK, SoundInv, OrderlyInv, ShownAs, Chain, Led,
      Polled, Streamed, PanelMoves
<1>2. CASE Submitting
  BY <1>2
  DEF Submitting, TypedInv, FrontendTypeOK, SoundInv, OrderlyInv, ShownAs, Chain, Led,
      Polled, Streamed, PanelMoves
<1>3. CASE Streaming
  BY <1>3
  DEF Streaming, TypedInv, FrontendTypeOK, SoundInv, OrderlyInv, ShownAs, Chain, Led,
      Polled, Streamed, PanelMoves
<1>4. CASE Polling
  BY <1>4
  DEF Polling, TypedInv, FrontendTypeOK, SoundInv, OrderlyInv, ShownAs, Chain, Led,
      Polled, Streamed, PanelMoves
<1>5. CASE Cancelling
  BY <1>5
  DEF Cancelling, TypedInv, FrontendTypeOK, SoundInv, OrderlyInv, ShownAs, Chain, Led,
      Polled, Streamed, PanelMoves
<1>6. CASE Serving
  BY <1>6
  DEF Serving, TypedInv, FrontendTypeOK, SoundInv, OrderlyInv, ShownAs, Chain, Led,
      Polled, Streamed, PanelMoves
<1>7. CASE CalmPasting
  BY <1>7
  DEF CalmPasting, Pasting, TypedInv, FrontendTypeOK, SoundInv, OrderlyInv, ShownAs, Chain, Led,
      Polled, Streamed, PanelMoves
<1>. QED
  BY <1>1, <1>2, <1>3, <1>4, <1>5, <1>6, <1>7 DEF Kinds

(* What each step of it does to the state of the page                      *)
LEMMA TableMovesKept ==
    ASSUME SoundInv, OrderlyInv, Kinds \/ CalmPasting, serverless' = serverless
    PROVE  TableMoves
<1>1. CASE Inspecting
  BY <1>1
  DEF Inspecting, TypedInv, FrontendTypeOK, SoundInv, OrderlyInv, ShownAs, Chain, Led,
      Polled, Streamed, UiState, Restart, Allowed, TableMoves
<1>2. CASE Submitting
  BY <1>2
  DEF Submitting, TypedInv, FrontendTypeOK, SoundInv, OrderlyInv, ShownAs, Chain, Led,
      Polled, Streamed, UiState, Restart, Allowed, TableMoves
<1>3. CASE Streaming
  BY <1>3
  DEF Streaming, TypedInv, FrontendTypeOK, SoundInv, OrderlyInv, ShownAs, Chain, Led,
      Polled, Streamed, UiState, Restart, Allowed, TableMoves
<1>4. CASE Polling
  BY <1>4
  DEF Polling, TypedInv, FrontendTypeOK, SoundInv, OrderlyInv, ShownAs, Chain, Led,
      Polled, Streamed, UiState, Restart, Allowed, TableMoves
<1>5. CASE Cancelling
  BY <1>5
  DEF Cancelling, TypedInv, FrontendTypeOK, SoundInv, OrderlyInv, ShownAs, Chain, Led,
      Polled, Streamed, UiState, Restart, Allowed, TableMoves
<1>6. CASE Serving
  BY <1>6
  DEF Serving, TypedInv, FrontendTypeOK, SoundInv, OrderlyInv, ShownAs, Chain, Led,
      Polled, Streamed, UiState, Restart, Allowed, TableMoves
<1>7. CASE CalmPasting
  BY <1>7
  DEF CalmPasting, Pasting, TypedInv, FrontendTypeOK, SoundInv, OrderlyInv, ShownAs, Chain, Led,
      Polled, Streamed, UiState, Restart, Allowed, TableMoves
<1>. QED
  BY <1>1, <1>2, <1>3, <1>4, <1>5, <1>6, <1>7 DEF Kinds

(* A step of a page that is not overtaken after it is a step of the        *)
(* orderly page.                                                           *)
LEMMA StepsOrderly ==
    ASSUME PageInv, Next, UNCHANGED serverless, ~overtaken'
    PROVE  SoundInv /\ OrderlyInv /\ (Kinds \/ CalmPasting)
<1>1. Kinds \/ Pasting
  BY StepKinds
<1>2. overtaken => overtaken'
  BY <1>1, OvertakenKept DEF PageInv, SoundInv
<1>. QED
  BY <1>1, <1>2 DEF PageInv, CalmPasting

(* The panel takes up a job with the answer to the current submission      *)
(* only, until the clipboard overtakes the page.                           *)
THEOREM PageFollowsSubmission == Spec => PanelFollowsSubmission
<1>1. PageInv /\ [Next /\ UNCHANGED serverless]_<<vars, serverless>>
          => [job' # NoJob /\ job' # job => job' = creation \/ overtaken]_vars
  <2>. SUFFICES ASSUME PageInv, Next, UNCHANGED serverless,
                       job' # NoJob, job' # job, ~overtaken
                PROVE  job' = creation
    BY DEF vars
  <2>1. CASE ~overtaken'
    BY <2>1, StepsOrderly, PanelMovesKept DEF PanelMoves
  <2>2. CASE overtaken'
    <3>1. Kinds \/ Pasting
      BY StepKinds
    <3>2. PasteArrives \/ PasteFails
      BY <2>2, <3>1
      DEF Kinds, Inspecting, Submitting, Streaming, Polling, Cancelling, Serving, Pasting
    <3>. QED
      BY <3>2
  <2>. QED
    BY <2>1, <2>2
<1>. QED
  BY <1>1, PageInductive, PTL DEF Spec, PanelFollowsSubmission

(* Against a polled service the page keeps to ALLOWED_TRANSITIONS, until   *)
(* the clipboard overtakes it.                                             *)
THEOREM PageKeepsTransitions == Spec => PolledTransitions
<1>1. PageInv /\ [Next /\ UNCHANGED serverless]_<<vars, serverless>>
          => [~serverless /\ ~overtaken' /\ ui' # ui => ui' \in Allowed[ui]]_vars
  <2>. SUFFICES ASSUME PageInv, Next, UNCHANGED serverless, ~overtaken'
                PROVE  TableMoves
    BY DEF vars, TableMoves
  <2>. QED
    BY StepsOrderly, TableMovesKept
<1>. QED
  BY <1>1, PageInductive, PTL DEF Spec, PolledTransitions

-----------------------------------------------------------------------------
(* The server of the page                                                  *)

(* Taking one job out of the record is a forgetting of the contract.       *)
LEMMA ForgetsOne ==
    ASSUME NEW j \in JobIds, API!Forget({j})
    PROVE  API!Next
<1>1. {j} \in SUBSET JobIds
  OBVIOUS
<1>. HIDE DEF API!Forget
<1>. QED
  BY <1>1 DEF API!Next

(* The route of a DELETE moves a job on or leaves it.                      *)
LEMMA DeletesWithin ==
    ASSUME NEW j \in JobIds, NEW answer, DeleteRoute(j, answer)
    PROVE  API!Next \/ UNCHANGED jobs
<1>. HIDE DEF API!Forget, API!AcceptCancel
<1>. QED
  BY ForgetsOne DEF API!Next

(* Every step of the server is one the contract knows, or a restart.       *)
LEMMA ServerSteps ==
    ASSUME FrontendTypeOK, Server
    PROVE  API!Next \/ API!Lose \/ UNCHANGED jobs
<1>1. ASSUME NEW j \in JobIds, PostAccepted(j) \/ PostRefused(j) \/ StreamFinishes(j)
      PROVE  API!Next \/ UNCHANGED jobs
  <2>. HIDE DEF API!Accept
  <2>. QED
    BY <1>1 DEF API!Next
<1>2. ASSUME NEW j \in JobIds, JobMoves(j)
      PROVE  API!Next
  <2>. HIDE DEF API!Complete, API!Fail, API!AcceptCancel, API!Cancelled, API!Forget
  <2>. QED
    BY <1>2, ForgetsOne DEF API!Next
<1>3. ASSUME NEW j \in JobIds, StrayServed(j)
      PROVE  API!Next \/ UNCHANGED jobs
  <2>. HIDE DEF DeleteRoute
  <2>. QED
    BY <1>3, DeletesWithin
<1>4. ASSUME NEW j \in JobIds, StreamCloses(j)
      PROVE  API!Next \/ UNCHANGED jobs
  <2>. HIDE DEF API!AcceptCancel, API!Forget
  <2>. QED
    BY <1>4, ForgetsOne DEF API!Next
<1>5. ASSUME NEW d \in deletes, DeleteServed(d)
      PROVE  API!Next \/ UNCHANGED jobs
  <2>1. d.job \in JobIds
    BY DEF FrontendTypeOK
  <2>. HIDE DEF DeleteRoute
  <2>. QED
    BY <1>5, <2>1, DeletesWithin
<1>6. ASSUME NEW p \in polls, PollServed(p)
      PROVE  UNCHANGED jobs
  BY <1>6
<1>7. ASSUME ServerRestarts
      PROVE  API!Lose
  BY <1>7
<1>. HIDE DEF PostAccepted, PostRefused, StreamFinishes, JobMoves, StrayServed,
              StreamCloses, DeleteServed, PollServed, ServerRestarts, jobs, API!Lose
<1>. QED
  BY <1>1, <1>2, <1>3, <1>4, <1>5, <1>6, <1>7 DEF Server

(* What the page assumes of the service is what a service that may be      *)
(* started again promises, and no more: main.py's application keeps it     *)
(* (LifespanHonoursContract), so the page is safe in front of it.          *)
THEOREM PageServerKeepsContract == Spec => API!RestartSpec
<1>1. Init => API!Init
  BY DEF Init
<1>2. FrontendTypeOK /\ [Next /\ UNCHANGED serverless]_<<vars, serverless>>
          => [API!Next \/ API!Lose]_<<phase, deliverable>>
  <2>1. ASSUME FrontendTypeOK, Server
        PROVE  API!Next \/ API!Lose \/ UNCHANGED jobs
    BY <2>1, ServerSteps
  <2>2. ASSUME User \/ Arrivals \/ ConsumerAborts
        PROVE  UNCHANGED jobs
    BY <2>2 DEF User, Arrivals, PasteStarts, PasteArrives, PasteFails
  <2>3. ASSUME UNCHANGED vars
        PROVE  UNCHANGED jobs
    BY <2>3 DEF vars
  <2>. QED
    BY <2>1, <2>2, <2>3 DEF Next
<1>. QED
  BY <1>1, <1>2, PageTypeCorrect, PTL DEF Spec, API!RestartSpec

=============================================================================
