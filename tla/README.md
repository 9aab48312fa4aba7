# OmniFetch, a TLA+ development

OmniFetch is a small web service around yt-dlp: a page asks for a media URL,
the API inspects it, a bounded pool of threads runs one worker process per
download, and the page polls the job, or reads it as one stream, until it can
save the file. This directory holds TLA+ models of the parts of it that run
concurrently, TLC configurations that check them on small instances, and
theorems about them that TLAPS proves for every value of the constants.

Paths are relative to the repository's root; a definition in a module has the
name of the method it models where there is one, and `PROJECT.json` maps every
definition to its lines.

## Inventory

| Component | State | Operations | Interacts with | Hard because |
|---|---|---|---|---|
| **Job table** `services/jobs.py`, `models.py` | records by id, one cancellation event per record, all under one `RLock` | `try_create`, `patch`, `request_cancel`, `delete_terminal`, `purge_expired`, reads | every thread of the API calls it | three methods write around the transition table; every caller acts on a snapshot that is stale once the lock is released |
| **Download manager** `services/manager.py` | executor and its queue, `_futures`, `_processes`, `_closing`; per supervisor: process, output queue, deadline, `signalled_at` | `submit`, `cancel`, `_supervise`, `cleanup_expired`, `sweep_orphans`, `delete_files`, `close` | job table; worker processes (pipes, signals); routes; cleanup task; the file system | deadline, grace period, cancellation, events and the death of the process race; three layers of except clauses; shutdown waits for all of it |
| **Worker process** `workers/download_worker.py`, `services/downloader.py` | a task on stdin, a workspace directory, a cookie copy | validate, inspect (up to 3 times), transfer (up to 2 times), report | writes event lines to its supervisor; dies by signal | partial output, retries, exactly one final event, clean-up of the cookie copy |
| **Routes** `api/routes.py` | the generator of each direct stream | `/download`, `/jobs/{id}`, `/jobs/{id}/file`, `DELETE` | job table, manager, the client | decides by snapshots; a client may vanish between any two chunks |
| **Frontend** `frontend/assets/app.js` | `model`, `poller`, two abort controllers, requests under way | inspect, submit, poll, stream, cancel, retry, reset | the routes | lost, late and overtaken answers, time limits, two kinds of delivery |
| **Lifespan** `main.py` | the cleanup task; whatever earlier lives left on disk | startup sweep, periodic cleanup, shutdown | manager, the file system | cancels a task whose thread goes on; memory is lost with the process, directories and workers are not |
| **Extraction** `api/routes.py`, `services/extractor.py`, `reddit.py` | the semaphore of inspections; per call its try, its answer and its cookie copy | `/extract`: check, up to 3 tries with a fallback, describe | threads of the server, the network | two nested try statements; permit and copy must come back from every point an exception may leave |
| **Authenticated sessions** `services/authentication.py` | the private cookie copy | create, remove | worker, extraction | removal on every path |
| **Configuration, URL policy, runtime lookup, platforms** | none | pure functions of their input | all | not concurrent; of the configuration, the bounds and the part a worker is given are modelled |

What makes each component correct, in a sentence: the job table never exceeds
its capacity and never revives a job; the manager gives every thread, process,
record and file back, whatever fails in whatever order; a worker leaves exactly
one verdict, goes by the API's policy and gives the cookies back; an inspection gives
its permit and its cookies back; a restart clears what was left and nothing else; a
stream takes its job along; the page shows the outcome of the job it submitted and
never stops looking for it.

## Modules

```
JobStore ── DownloadManager ── ManagerInvariants          JobContract
   │          │   │   │   ▲           │                    ▲       ▲
   │          │   │   └── refines ────┼────────────────────┘       │ INSTANCE
   │          │   │       │           │                         Frontend ── FrontendProofs
   │          │   │       └─ INSTANCE ── Worker ── WorkerProofs
   │          │   └── Lifespan        │
JobStoreProofs└── DirectStream        │                         Extraction ── ExtractionProofs
   └──────────────────── DownloadManagerProofs ── ManagerRefinement
                                 DirectStreamProofs ──┴── LifespanProofs
```

* **`JobStore`**: the job table. One action per method, with every outcome; a
  record is its status and whether it is older than the retention time. Each
  method runs under the lock and is one step. `PatchIgnored`, `PatchRaises` and
  `Patch` are the three outcomes of `patch`, which callers distinguish.
* **`DownloadManager`** extends it with the pool, the supervisors, the worker as
  its supervisor sees it, the clients, the cleanup task and `close()`. `pc[j]`
  is where the thread that owns job `j` is: in `submit()` (`submitting`), in the
  executor's queue (`waiting`), or at one of the places of `_supervise` between
  two accesses to shared state: `begin`, `inspect`, `spawn`, `register`, `feed`
  (`_launch_worker`), `loop` and `watch` (the event loop), `patchProgress`,
  `patchFinal`, `eventCleanup` (`_handle_event_line`), `rejectTimeout`,
  `failStopped` (what `Reap` decided), `launchFailed`, `except`, `exceptFail`
  (the except clauses), `finishCancel`, `cleanup`, `leave`. Between a read of
  the table and the patch that relies on it (`seen[j]`) others may run.
  `CancelCall`/`SignalCancelled` and `Delete`/`RemoveFiles` are the two halves
  of `cancel()` and of a deletion, outside of one lock.
* **`JobContract`** is the abstract specification: what a client that polls,
  fetches and deletes can see of a job (`phase`, `deliverable`). It knows nothing
  of threads, processes or files. `DownloadManager` implements it under the
  mapping `Phase`/`Deliverable`, with the generators of `DirectStream` as well.
  `RestartSpec` is the same promise of a service that may be started again: between
  two lives all jobs are lost at once (`Lose`), and nothing else happens to them.
  `Lifespan` implements that one, and the page is modelled against it.
* **`DirectStream`** extends `DownloadManager` with the generator behind a
  serverless submission (`_direct_download_stream`). `at[j]` is the point of the
  generator: the top of its loop, one of its yields, one of the steps of its
  finally clause. The client may leave at any yield (`GoesAway`), or before the
  generator has a frame (`NeverBegins`).
* **`Worker`** opens up the process that `DownloadManager` sees from outside:
  `main()` and `run_download_task`. `pc` is where the program is (`receive`,
  `validate`, `open`, `copy`, then the try statement with `inspect`, `enforce`,
  `transfer` and its finally clause `unwind`, then `identify`, and `report` for the
  except clauses of `main()`), `verdict` the exception under way. `dir` says which
  transfer wrote each file, so that a file left by an abandoned transfer can be told
  from one of the second; `finalPath` and `infoPath` are the two paths the code
  tries before it scans the directory. What yt-dlp finds, writes, reports and raises
  is a free choice: `preview` is what the inspection found, `media` what the transfer
  under way is of, the inspected media in the first and those of a fresh extraction in
  the second (`Retry`). `Supervised` is `DownloadManager` with this one process and the
  supervisor's own state held still; `ImplementsSupervisedWorker` says that each
  step is a `WorkerStep` there or is not seen.
* **`Lifespan`** extends `DownloadManager` with the life of the API process: start,
  the three stages of `sweep_orphans`, serving, shutdown, and a crash at any point.
  `Dies` empties what is memory (table, pool, channels) and keeps what is
  not: directories, and workers, which run in sessions of their own and go on as
  orphans. `lost` are the jobs of earlier lives, `survivors` those whose worker still
  ran at the start. The cleanup task is cancelled by `Stop`; the thread it has handed
  a purge to goes on while `close()` runs (`Underway`).
* **`Extraction`**: `/extract`. `place[r]` is where the thread of call `r` is: between
  two points where an exception may leave the code, and in which clauses it then ends
  up, is a step. `check` stands inside the handler's try, `read` and `write` (the two
  halves of `create_cookie_copy`) before `extract_metadata`'s, `inspect` inside both;
  `discard`, `remove` and `release` are the except and the two finally clauses.
* **`Frontend`**: the page. `Deliveries` are the deliveries a server may announce,
  `serverless` the one it does: it is chosen once, so one run covers both. A page has
  one thread, so an event handler, or the code after an `await`, is one action; what
  interleaves is the user, timers, answers, time limits, the server's jobs and restarts
  of the server. `polls` holds every poll under way, including those `stopPolling()` has
  overtaken (`live = FALSE`), since their answers may be in flight; `deletes` are the
  awaited DELETE requests, several if the clipboard let the user submit beside one;
  `strays` are those the page gave up on and the server still gets. `overtaken` is not
  state of the code: it records that an answer of the clipboard has come to a polled
  page that had moved on, which is where some properties of the page stop.
* **`ManagerInvariants`**: the conjuncts of the inductive invariant.
* **`JobStoreProofs`, `DownloadManagerProofs`, `ManagerRefinement`,
  `DirectStreamProofs`, `WorkerProofs`, `LifespanProofs`, `ExtractionProofs`,
  `FrontendProofs`**: the invariants that only proofs need, and theorems.
* **`MCRequests`** puts `JobStore` and `Extraction` side by side: the table and the
  permits are what the threads that serve requests share, and neither knows of the
  other. **`MCDownloadManager`, `MCLifespan`**: symmetry, and nothing else, for TLC;
  **`MCFrontend`**: symmetry and the bound `FewRequests`; **`MCWorker`**: the media that
  exist.

Definitions marked "Slip" in a module are plausible mistakes in the definition
that follows them. No model uses them: substituting one shows that a property
can tell the code from the mistake.

## What the runs check

| Run | Instance | Properties |
|---|---|---|
| `requests` | 3 ids, capacity 2; 2 calls, 1 permit, 3 tries | `StoreTypeOK`, `CapacityRespected`, `CancelWins`, `Lifecycle`, `ExtractionTypeOK`, `InspectionGivesBack` |
| `two_jobs` | 2 jobs, 1 thread, 1 transfer | `ManagerTypeOK`, `ManagerInv`, `BacklogBounded`, `ClosedIsQuiet`, `ActiveIsSupervised`, `WorkersBounded` |
| `one_job` | 1 job, 2 transfers, fair | `CompletedHasFile`, `NothingLeftBehind`, `NoStrayWorker`, `ImplementsContract`, `SupervisionEnds`, `AdmittedFinishes`, `ShutdownEnds` |
| `stream` | 1 job, 1 transfer, fair | `StreamTypeOK`, `StreamTakesJobAlong`, `SeenFileIsRemoved`, `ImplementsContract`, `StreamEnds` |
| `page` | 2 submissions, polled or streamed, Paste tool, at most 2 requests in flight | `FrontendTypeOK`, `UnfinishedIsWatched`, `OnePoller`, `ShownIsTrue`, `PanelFollowsSubmission`, `PolledTransitions` |
| `page_live` | 1 submission, polled or streamed, Paste tool, fair | `FinishedIsShown` |
| `worker` | 3 files, one of them unfinished; 7 kinds of media, limit 1, magnitudes 0 to 2 | `WorkerTypeOK`, `CookieWhileNeeded`, `OutputOfLastTransfer`, `CompletedWasAcceptable`, `ImplementsSupervisedWorker` |
| `lifespan` | 2 lives, a job in each, 2 transfers | `LifespanTypeOK`, `DiskIsAccountedFor`, `StopLeavesNoWorker`, `LifespanImplementsContract` |
| `cancel_stuck` | 1 job, fair | `CancellationFinishes`, violated |
| `stream_files` | 1 job | `WorkspaceGoesWithStream`, violated |
| `stream_warns` | 1 submission, streamed | `ExpectedTransitions`, violated |
| `retry_policy` | as `worker`, with 1 file | `RetryWithinLimits`, violated |

**Bounds.** Two jobs and one thread are the smallest pool in which a job waits
behind another, is cancelled while it waits, and meets `close()` there; a third
job meets no situation the second does not, as supervisors of different jobs
share nothing but the queue, the pool and the capacity (this is lemma `OtherJob`,
proved for any number). `MaxAttempts = 2` is the code's `range(2)`; the two-job
run takes 1, which one job covers. The capacity is met exactly in `requests` (2 of
3) and never bounds anything else. In the page two submissions are needed for an
answer to be about an older job, and `post[j]` bounds their number. A set of polls is
finite, as a poll with the same job and answer is the same element, but with the Paste
tool two jobs have many combinations of them; `FewRequests`, the constraint of `page`
and the only one in use, keeps polls, awaited DELETEs and stray ones at two together.
That is what it takes for an answer of one line of work to overtake another's; states
with three are generated and checked, and not explored further. What `page` checks is
also proved without that bound. Channels, queue and retries are bounded by the worker, which writes one
final event.

The three files of a worker are two that can be an output and one whose name ends in
`.part`, so that the scan of the directory can find none, one or several; limit 1
against magnitudes 0 to 2 gives unknown, allowed and refused, and `DefaultLimit = 2`
is what a limit would be that the task line does not carry. `EachMedia` has one medium of
each kind, one of unknown extent, and one at and beyond each limit. `MaxLives = 2` and
`JobsPerLife = 1` are caps: one life leaves something behind, the next finds it and
takes on a job of its own; a later start meets no more than the second did. Two
calls share nothing but the permits, of which there is one, so that one of them is turned
away; overlapping calls are `ExtractionGivesBack`'s. `MaxTries = 3` is the code's
`range(3)`. No view is used.

**Fairness, and why the code has it.** Threads of the pool and of the routes
keep running: weak fairness of `Submission`, `Start`, `Supervision`, of each half
of a two-step request, and of the generator's steps. `WatchDeadline` and
`WatchGrace` are fair of their own, because a clock that is read again and again
passes a fixed instant. A process ends if it has returned from `main()` or was
sent SIGKILL (`ProcessEnds`); nothing is assumed of a worker that hangs or
ignores SIGTERM. Admission, cancellation, deletion, expiry and `close()` are not
fair: nobody has to do them. In the page the network is not down for ever (strong
fairness of a poll being served and of its answer arriving, weak fairness of the end of
a DELETE, which has a time limit), and the first poll
after `startPolling()` is due at once, ahead of the user's next click; a stream's
client reads on or goes away, and the page's own time limit for the
answer to a submission runs out (`CreationTimesOut`).

## What is proved

For every set of job ids, capacity, pool size and number of attempts:

* `StoreTypeCorrect`, `StoreCapacity`, `StoreCancelWins`, `StoreLifecycle`: the job table, whatever
  is called in whatever order. The invariant is `StoreInv`; the step that needs an
  argument is that admission under one lock adds one element to a set smaller
  than the capacity, and that no other method adds to it.
* `ManagerUsesStore`: every step of the manager is a step of `JobStore` or leaves
  the table alone, so those theorems hold in the service.
* `ManagerInvariant`, `ManagerTypeCorrect`, and from them `ManagerSupervises`,
  `ManagerKeepsFiles`, `ManagerStopsWorkers`, `ManagerBacklog`, `ManagerBoundsWorkers`.
  `IndInv == StoreInv /\ ManagerTypeOK /\ ManagerInv` is inductive; none of the
  properties is so alone. That a completed record keeps its file, for one, needs:
  the worker writes no file and no event after its final one (`FinalIsLast`), the
  channel is empty once that event is handled (`CompletedInv`), so no branch of
  the supervisor that cleans up can be reached any more; an event in hand is at
  the head of the channel (`EventInHand`); nothing was written before the task
  was fed (`SilentBeforeTask`); and an id waiting for the removal of its files
  has no record (`KnownInv`). That no worker is left running needs the place at
  which each branch sends SIGKILL (`ProcessInv`), and the bound on the queue needs
  that a job is in it once (`QueueInv`) and that its record counts as active
  (`ThreadInv`). The proof has one lemma per actor and part; `OtherJob` shows
  that a step of one job leaves what `JobInv` says of all others.
  A worker that runs unkilled has a supervisor, and a supervisor a thread of the
  pool; `PoolInv` counts those, so the workers are bounded by the pool
  (`ManagerBoundsWorkers`) although no line of the code counts processes.
* What clients and the queue rely on of that invariant is `TableInv`: the table and the
  supervisors, with `RecordInv` for each job, which is `JobInv` without what it says of
  processes (`ProcessInv`). `IndInv` implies it (`IndInvTable`), and so does the
  invariant of a restarted service (`LifespanTable`), where `IndInv` is false: a job of
  an earlier life has no supervisor and may still have a process. The
  lemmas behind `ManagerSupervises`, `ManagerKeepsFiles`, `ManagerBacklog`,
  `ManagerClosesQuietly` and the refinement speak of `TableInv` only, so each is proved
  once and used for the manager alone, beside streams, and over many lives.
* `ManagerClosesQuietly`: whoever waits in the pool or has a process also has a
  future (`OwnerInv`), and `shutdown(wait=True)` returns when no future is left
  (`Drained`); so a `close()` that returned leaves neither.
* `ManagerLeavesNothing`: `WorkspaceInv` says who answers for a directory at each
  point. Where a job is over its directory is gone, or goes with a completed
  record, or with whoever took that record away, and nobody writes there any more.
  It needs that each way out of `_supervise` either cleans up or was told of a file.
* `ManagerImplementsContract`: every step maps to a step of `JobContract` or to a
  stutter. `StepKinds` reduces the actions to admission, patch, cancellation and
  removal; that only `_finish_cancel` writes `cancelled` (`OnlyFinishCancels`) is
  what makes the contract's `Cancelled` step right.
* `StreamInductive`, `StreamTypeCorrect`, `StreamEndsJob`, `StreamKeepsFiles`,
  `StreamRemovesSeenFile`, `StreamImplementsContract`: the generator is one more client. Three of its four
  kinds of steps are steps the manager already has; the fourth, removing files
  of a record somebody else took, is shown to keep `IndInv`, because a known job
  without a record never gets one again (`GoneStaysGone`). That a file the stream has
  seen goes with it needs `SeenInv`: such a job stays finished, so whoever takes its
  record removes its directory too. `StreamKeepsService` carries the rest of the
  manager's promises over: `ActiveIsSupervised`, `BacklogBounded`, `WorkersBounded`,
  `NoStrayWorker`, `NothingLeftBehind` and `ClosedIsQuiet` hold in a serverless service.
* `LifespanInductive` and, from it, `LifespanTypeCorrect`, `LifespanKeepsFiles`,
  `LifespanStopsWorkers`, for any number of lives. `LifespanInv` splits the jobs: of a lost one nothing is in
  memory (`Forgotten`), one of this life is as `JobInv` has it, and the lemmas of
  `DownloadManagerProofs`, which speak of one job at a time, carry over to those. A
  worker of an earlier life runs only if it did at the start (`OrphansKnown`), and
  from its second stage on the sweep has listed whatever nobody claims
  (`SweepInv`), which is why the order of its two reads matters.
* `LifespanSupervises`, `LifespanBacklog`, `LifespanRespectsCapacity`,
  `LifespanClosesQuietly`, `LifespanBoundsWorkers`: what is proved of one life of the
  manager is not weakened by what earlier lives left. In the last one
  (`OwnWorkersBounded`) the workers that outlived a crash do not count; `WorkersBounded`
  itself is false after a crash, since the new pool knows nothing of them.
* `LifespanAccountsForDisk`: between the first request and the end of the process every
  directory has somebody to answer for it, but for two named cases: a worker that was
  given up alive, with SIGKILL on its way (`GivenUp`), may have written after the
  clean-up, and one that outlived the API (`survivors`) after the sweep. Both are told
  below, under what the documents say otherwise. The theorem joins `WorkspaceInv`, for the jobs of this life, to `SweepInv`, for the others
  (`DiskInv`).
* `LifespanHonoursContract`: `LifespanSpec` implements `JobContract!RestartSpec`. A step
  of a life is a step of the manager and maps as there; a death maps to `Lose`; and
  sweep, orphans and inspections are not seen by clients (`UnseenByClients`).

For every number of submissions and both deliveries, with the Paste tool and without:

* `PageInductive`. `PageInv` has two parts. `SoundInv` holds whatever happens: the types,
  with every poll about a job (`Named`); the poller's three forms, idle, waiting for its
  timer or for one answer (`Chain`); an unfinished panel has a line of work (`Led`); and
  what the page was told, however late, was true (`Told`), because a job that has ended
  is only ever forgotten, by a restart too. `OrderlyInv` holds until an answer of the
  clipboard overtakes a polled page: the state of the page fits the record it shows
  (`ShownAs`); against a polled service a submission, the poller and an awaited DELETE
  exclude each other (`Polled`); against a streaming one there are only streams
  (`Streamed`). The steps are grouped by line of work (`StepKinds`), and there is one
  lemma per part and one case per group.
* From it `PageTypeCorrect`, `PageShowsTruth`, `PageHasOnePoller`, `PageWatchesUnfinished`,
  `PageFollowsSubmission` and `PageKeepsTransitions`, none of which assumes anything of
  the user. The first two, and that there is one chain of polls and a line of work for
  every unfinished panel, hold without exception; that it is the panel's own job which
  is polled, watched and kept, and the transition table, hold until `overtaken`. That
  exception is in the formulas, as the code does not have more.
* `PageServerKeepsContract`: the server the page talks to implements
  `JobContract!RestartSpec`, so the page relies on nothing `LifespanHonoursContract`
  does not prove of the service. The two theorems are the two sides of one interface:
  page ↔ contract ↔ service.

For every number of calls, permits and tries:

* `ExtractionGivesBack`: a permit that is not free is held by a call under way, and the
  copy is there for each authenticated try and gone before any answer. The semaphore
  needs an argument about cardinalities (`PermitsFollowCalls`); the copy, that only
  an authenticated call comes to make one (`CopiesAreAskedFor`).

For every set of files, limits, lengths and sizes:

* `WorkerInvariant` and, from it, `WorkerTypeCorrect`, `WorkerReturnsCookie`,
  `WorkerAnnouncesLastTransfer`, `WorkerKeepsPolicy`. `WorkerInv` ties the place in
  the program to what must hold there: from the task to the final event the worker's
  settings are the API's (`SettingsTaken`, by `PolicyCarried`), the copy exists
  inside the try statement only and only where the settings allow an account
  (`CookieHeld`), every file present is of the transfer that is counted
  (`FilesOfTransfer`, which the clearing before a retry restores), and whoever is
  past the policy without an exception was shown a medium the API would accept, which a
  first transfer is of (`PolicyPassed`). Of a second transfer only the size of its output
  is known to meet a limit; `RetryWithinLimits` is false. That `final_path` may still name a file of the first transfer does no harm because a
  path is taken only if its file exists. All exceptions are one lemma, `RaiseInv`.
* `WorkerIsSupervised`: every step of this worker is a `WorkerStep` of
  `DownloadManager` or is not seen there, so what is proved of the manager holds of
  the process the code really starts. It needs `WorkspaceKnown` and that a final
  event is the last (`EndIsLast`, `EndedAfter`).

Assumptions: `Capacity \in Nat \ {0}`, `MaxConcurrent \in 1..Capacity`,
`MaxAttempts \in Nat \ {0}` (`Settings.__post_init__` enforces the first two,
`range(2)` is the third) and that `NoJob` is not a status; for a worker, that limits
and magnitudes are natural numbers, that the media are of those, and that `Nothing` is
neither a file, a verdict nor an announced output; for lives, that the caps are natural
numbers; for inspections, that the calls are finitely many and permits and tries positive;
for the page, that the server has a capacity and says one of the deliveries.

**Only model-checked**: everything under fairness (`SupervisionEnds`,
`AdmittedFinishes`, `ShutdownEnds`, `StreamEnds`, `FinishedIsShown`), which is out
of the prover's reach, and the four properties that are violated.

## Where code and documents disagree

* **A cancellation can stay unfinished** (`cancel_stuck`). If the launch of the
  worker fails after the job was cancelled, the except clause (`manager.py:149`)
  patches `cancelling` to `failed`, which the table forbids; the exception leaves
  `_supervise`, the record stays `cancelling` and keeps its slot. `docs/api.md:187`
  tells clients to poll until `cancelled`.
* **A stream can leave its job behind** (`stream_files`). The finally clause
  (`routes.py:143-148`) decides between cancel and delete by a snapshot; a job
  that completes in between is neither. `docs/api.md:128` says the workspace is
  deleted after the stream ends. The retention time removes it later.
* **A broken stream overwrites an outcome** (`stream_warns`). If the connection
  fails after the last snapshot of a rejected or cancelled job, the catch clause
  (`app.js:529`) moves the page to `failed` with the connection's error, a
  transition `app.js:158` itself reports as unexpected.
* **A retried transfer is of media nobody checked** (`retry_policy`). The second transfer
  extracts the source afresh (`downloader.py:314`); extractor, DRM, live, duration and
  announced size were checked of the first extraction only. `SECURITY.md:38` says that
  live streams remain rejected, `docs/architecture.md:114` that limits bound the known
  duration. Only the bytes written are compared with a limit again.

No run shows the next two, since `DiskIsAccountedFor` names them as its exceptions:

* A directory may stay until the next restart. `sweep_orphans` runs once, before the
  first request (`main.py:56`); the periodic task purges records and never looks for
  directories (`manager.py:88`). A worker that outlives a crash of the API opens or writes
  its workspace after the sweep. `docs/architecture.md:104` says that periodic and startup
  sweeps remove old orphaned directories by age. (The `.auth-` copies of inspections that
  a crash interrupted are not swept at all, since their name is no job's.)
* A failed job may keep partial data. The second except clause (`manager.py:224`) sends
  SIGKILL and does not wait; the clean-up after it removes the workspace while the process
  may still create a file. A transfer that is retried after a postprocessor ran leads
  there: it reports downloading again, no edge leads back from processing (`jobs.py:40`),
  and the patch raises. What was written stays until the record expires or is deleted, or
  until the next start if that came first. `docs/architecture.md:103` says that failure
  and cancellation remove partial data.

`ExpectedTransitions` also fails with the Paste tool in use, whose answer may
arrive when the page has moved on (`app.js:1146`). With a polled service and a second
submission more goes wrong then: the late answer, or an inspection started after it,
unlocks the page while a DELETE of the first job is awaited, the user submits a second
one, and when the DELETE fails its catch clause (`app.js:773`) starts the poller for the
first job beside the panel of the second, which the next answer replaces. No document
speaks of it, so it is not among the findings; `page` has the tool and two submissions,
its `PanelFollowsSubmission`, `PolledTransitions` and parts of `OnePoller` and
`UnfinishedIsWatched` end where `overtaken` begins, and each says so in its formula.

## Abstractions

* A process group is one process, and its pipes end when it does. A helper that
  outlives the group's leader is not in the model (see the plan).
* A supervisor that has given up its process after SIGKILL (`abandoned`) does not
  see the process end; files it writes until then may outlive the clean-up.
  `NothingLeftBehind` speaks of supervisors that saw the end, `DiskIsAccountedFor` names
  the others (`GivenUp`).
* Repeated progress of one kind, title, sizes, heartbeats and sanitised error texts
  change nothing that a property sees. Time is whether a record is stale, a
  deadline or a grace period has passed; any record may age before any other.
* In `Worker` the fallback to Reddit's embed page is one more source of the same media.
  The metadata event and repeated progress are left out; the list of DRM formats is one
  kind of media.
* In `Lifespan` a life begins with nothing of a stopped process but its directories
  and workers. How far an orphan's transfer has come is not told apart. Inspections
  are not in it: the `.auth-` directories a crash leaves behind are not carried over,
  and the end of the process does not wait for a call of `/extract`. Lines an orphan writes are lost; that it ends when its pipe is broken
  is allowed and not required.
* The page is gone after `pagehide`; a page that the browser restores from its
  cache, with its poller stopped, is not modelled. Of a streamed file the last announced
  byte arrives or does not; a body longer than announced is not modelled. Rejections of an aborted
  request are handled before the page's next event, as promise jobs are.
* `_completed_output` succeeds if the output is there: symlinks and containment
  are properties of one path.

## Not modelled

The parsing of the configuration and of a cookie file, URL policy, platform and
runtime lookup, the normalisation and choice of formats and the address of an embed
page are functions of one input without state. Rendering, quality selection
and error texts of the page are display only. Headers and body limits concern one
request. Deployment files hold no program state.

## Plan

Done: `JobStore`, `DownloadManager`, `JobContract`, `DirectStream`, `Worker`,
`Extraction`, `Lifespan`, `Frontend`, and proofs of the safety properties of all of them.

1. `ProcessGroup`: leader, helper and pipes of a worker's process group, and whether
   the escalation reaches a helper that outlives the leader (`manager.py:408`).
2. The readers of a completed file (`routes.py:252`) beside deletion and cleanup.
