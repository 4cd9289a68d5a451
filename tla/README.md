# Semantic Camera: specification and proofs

TLA+ models of the parts of Semantic Camera (`scam/`) whose correctness depends
on the order in which threads, connections, processes and failures come, with
TLC configurations that check them on small instances and TLAPS proofs of what
matters most for every instance.

## 1. The system

A camera process (`scam.nvr.main`, started by `scam.linux_nvr` or `scam.win11`)
watches a few RTSP cameras and keeps a record of what happened. Everything that
lasts is in one SQLite database (`db.py`).

| component | state it keeps | operations | talks to |
|---|---|---|---|
| camera thread: `nvr._run_camera`, `monitor.py`, `track.py`, `gate.py`, `zones.py`, `verdict.py` | tracks, event entries, retry list, review under way | a frame, a lost stream, the final closing | the tables through `sinks.py` |
| store: `db.py`, `sinks.py` | objects, event facts, descriptions, notifications, reviews, segments, patterns, meta | one transaction per call | every other part |
| boot and delayed recovery, backfill: `nvr.py`, `db.py` | snapshot of open rows | close or re-examine rows of earlier runs, complete pairs | the tables, on connections of their own |
| semantic updater: `semantic_updater.py` | queue, retry budget, records | publish description versions | the tables, a model provider |
| slow system: `slow_core.py`, `slow_worker.py`, `linux_slow_path.py`, `patterns.py` | claims, pattern library in memory, retries | claim a closed review, match it, settle it | the tables, a naming provider |
| workbench: `server.py` | none of its own | receipts, pattern feedback, configuration, reads | the tables |
| L1 pipeline: `win11_pipeline.py`, asynchronous half of `monitor.py` | task slots, one result slot per camera, lifecycle | submit, take, stop | camera threads, one inference thread |
| L2: `win11_windows.py`, `win11_l2_*.py`, `win11_admission.py`, `win11_materials.py` | windows, leases, branch tasks, references of scenes | produce, seal, settle, admit | L1, L3 |
| L3/L4: `win11_l3*.py`, `win11_l4*.py` | task table, attempts, results | enqueue, attempt, accept | external models, understanding store |
| event progress: `win11_event_progress.py`, `win11_understanding_store.py`, `win11_event_materials.py` | versions of an event's account | append | the tables |
| crop worker: `win11_crop_worker.py` | pending and in-flight crops, index | submit, save, close | files |
| notification hub: `notify.py` | cursor, attempts | deliver, retry | the tables, external channels |
| recording, recorder, evidence: `recording.py`, `recorder.py`, `evidence.py` | files, quota | rotate, delete, lease | ffmpeg, files |
| desktop shell: `win11_desktop.py`, `desktop/win11/*.cs` | session state | handshake, start, stop | each other over stdio |
| environment baseline: `environment.py`, routes of `server.py` | attempts, versions, pointer | establish, status | the tables, files, a model |
| Linux operations: `linux_backup.py`, `linux_upgrade_contract.py`, `linux_ops_evidence.py` | bundles, contracts, seals | create, prepare, verify, restore | files |

What is hard in it:

* **A handler is many transactions.** Opening an event is a row, a description
  and a notification, each committed on its own; a write may fail with nothing
  committed, or fail and be committed later by the next commit of the same
  connection. The camera thread keeps what it could not write on a retry list.
* **Processes stop anywhere**, and the next one has to close what they left
  open without inventing an end.
* **Several connections** write the same rows: camera thread, delayed recovery,
  backfill, semantic updater, workbench.
* **Optimistic claims.** Slow-system instances claim reviews by comparing the
  whole text of a claim, work for minutes on a library in memory, and write all
  of it back under a generation check, while administrators change patterns.
* **Bounded queues between threads of different speed** (L1, L2, crops), late
  and out-of-order results, deadlines.

`PROJECT.json` lists each of these at its line ("hazards") with the properties
that would notice it going wrong.

### What makes each part correct

* *Event facts*: what a healthy camera thread believes to be stored is stored;
  an open row always has somebody who will close it; a closed one ends at the
  last observation; every ended event is closed in the end; readers see rows
  that open once, move forward and close once.
* *Slow system*: a review is settled once, by whoever holds its claim; feedback
  of an administrator is never taken back; failed work leaves no trace; a
  review is given up only after real failures; every review is settled.
* *Reviews and alarms*: one open review per camera; an alarm waits for its
  review and is then written exactly once.
* *L1, L2, crops*: bounded slots; every accepted task ends in exactly one way;
  no result of an earlier configuration, run or closed instance is applied.
* *L2 windows*: a branch that is pending is always somebody's; the history says
  what became of it; a stop gives everything back; every window leaves the books.
* *Semantic updater, hub, L3*: at most the budgeted attempts; no delivery
  skipped but of what comes a whole resend window late; a call that still runs keeps
  its slot.
* *Event progress, understanding store*: what is appended rests on the event's
  own frames; a record that was acknowledged outlives failed writes and restarts.
* *Evidence, baselines, recordings*: the sweep removes no file a row names; a
  version in force has its file; nothing young or in use is removed.
* *Operations*: what a tool says of its bundle, contract or seal is true of the
  files at the moment it names, whoever edits, kills or clears meanwhile.
* *Desktop*: one backend at a time; a stop that is confirmed has happened; a
  window is not told about a generation it does not belong to.

## 2. The modules

| module | models | kind |
|---|---|---|
| `EventTruth` | `monitor.py` (event part), `sinks.py`, `db.py`, recovery and backfill of `nvr.py` | specification |
| `EventLedger` | what the three event tables promise a reader | abstract specification, refined by `EventTruth` |
| `EventTruthProofs` | type correctness of `EventTruth`, its inductive invariant, the safety properties, the refinement | proofs |
| `SlowCore` | `slow_core.py`, `slow_worker.py`, the library of `patterns.py`, feedback of `server.py` | specification |
| `SlowCoreProofs` | type correctness of `SlowCore`, feedback, claims, counts and libraries | proofs |
| `L1Pipeline` | `win11_pipeline.py` | specification |
| `L1Stage` | the frame loop of `nvr.py`, the asynchronous half of `monitor.py`, with `L1Pipeline` | composition |
| `L1History`, `MCL1Stage`, `MCL1History` | two history variables for promises about time; instances for TLC | model checking |
| `L1StageProofs` | all safety properties of `L1Pipeline`; the stage refines it; order of facts, dwells | proofs |
| `L2Runtime`, `MCL2Runtime` | `win11_windows.py`, threads, queue, books, publication and stop of `win11_l2_runtime.py`; instances | specification |
| `L2RuntimeProofs` | all safety properties of `L2Runtime` | proofs |
| `MaterialsStore` | `win11_materials.py` | specification |
| `Harvest` | hand-off of harvested packages in `win11_l2_runtime.py`, ledger of their pixels | specification |
| `MaterialPool` | `win11_event_materials.py` | specification |
| `Admission` | `win11_admission.py` and the reference kept by `L2Runtime` | specification |
| `L3Model` | `win11_l3.py`, `win11_l3_backend.py` | specification |
| `L3Budget` | ledger of `win11_l3_tasks.py` | specification |
| `Budgets` (extends `L3Budget`, `MaterialsStore`) | what is lent between the cameras and the models | composition |
| `WindowFusion` | `win11_l4.py` and the accumulation of a window | specification |
| `EventProgress` | `win11_event_progress.py` | specification |
| `UnderstandingStore` | `win11_understanding_store.py` | specification |
| `CropWorker` | `win11_crop_worker.py`, `win11_crop_evidence.py` | specification |
| `ReviewTruth` | reviews and rule alarms of `monitor.py`, their tables in `db.py`, recovery | specification |
| `SemanticUpdater` | `semantic_updater.py` | specification |
| `NotifyHub` | `notify.py` | specification |
| `Notices` (extends `NotifyHub`, `SemanticUpdater`) | the two threads that send something out by themselves | composition |
| `BestFrames` | best frames: `evidence.py`, `sinks.py`, `read_evidence` of `server.py` | specification |
| `EnvironmentBaseline` | `environment.py`, its routes in `server.py`, its tables in `db.py` | specification |
| `Recording` | `recorder.py`, `recording.py` | specification |
| `Records` (extends `UnderstandingStore`, `BestFrames`, `EnvironmentBaseline`, `ReviewTruth`, `Recording`) | what is kept of a camera | composition |
| `RecordsProofs` | the five parts of `Records`, and they together | proofs |
| `StateBundle` | `linux_backup.py` | specification |
| `UpgradeContract` (extends `StateBundle`) | `linux_upgrade_contract.py` | composition |
| `OpsEvidence` (extends `UpgradeContract`) | `linux_ops_evidence.py` | composition |
| `OpsProofs` | honesty of bundles, contracts and seals | proofs |
| `DesktopSession` | `BackendSession.cs`, `MainWindow.cs`, `win11_desktop.py` | specification |
| `Ascending` | a set of numbers as a sequence, the least first (used by `CropWorker`, `Harvest`, `EventProgress`) | operators |
| `PartsProofs` | `Harvest`, `MaterialPool`, `L3Model`, `Admission`, `WindowFusion`, `EventProgress`, `DesktopSession`, `Notices`, `CropWorker`, `Budgets` | proofs |
| `MCParts` | one instance of each part that shares no state with another | model checking |
| `PartsTypeProofs` | types of the eighteen parts of `MCParts` | proofs |

### EventTruth

An event is `<<run, track, occurrence>>`, the identity `_event_fact_id` builds.
The variables are the rows of the tables (`obj`, `fact`, `tLast`, `tEnd`, `desc`,
`notif`), the fields of `Monitor` (`occ`, `entry`, `born`, `last`, `pend`), the
call the camera thread makes next (`pc`), the loop it is in (`closing`,
`stopping`) and the snapshot of the delayed recovery (`snap`).

| action | code |
|---|---|
| `Boot`, `FinalizeRecovery` | `recover_stale_records` and `snapshot_pending_recovery`, each with a clock reading of its own; `finalize_snapshot_records` |
| `Crash`, `Exit` | an abnormal end; the end of `close_all_event_facts` |
| `Appear`, `Observe` | a frame in which a track is confirmed or seen: `observe_object`, `_event_fact_step` |
| `OpenFact`, `EnsureInitialDescription`, `EnsureInitialNotification`, `UpdateFact`, `CloseFact` | the five writes of `SqliteSink`, one transaction each |
| `TrackLost`, `StreamLost`, `Stop`, `CloseNext` | `_close_event_fact` and the loops that call it |
| `RetryObserve`, `RetryObject`, `RetryEvent` | the stages of `_retry_one_event_close` |
| `BackfillDescription`, `BackfillNotification` | `backfill_initial_fact_pairs` |
| `PublishSemanticUpdate`, `MarkAvailable`, `Acknowledge` | the updater's publication, the workbench's receipts |

Every write takes its outcome from `Results`: *done*, *failed*, or *torn* (it
raises and is committed all the same). The clock only tells observations apart;
confidence, boxes and payloads are left out, and so is the review segment an
event belongs to.

### SlowCore

One camera. `seg`, `owner`, `text`, `stale` are the claim document in `segments`;
`hits` and `gold` are what a pattern row holds: the reviews counted in it and the
feedback given to it; `gen` is `slow:lib:gen`. Per instance there are the phase
of its round, the rows it has read (`plan`), the claims it holds (`batch`), its
library (`loaded`, `lib`) and `dirty`, an open transaction outside any call.

| action | code |
|---|---|
| `ReadPending` | guard and query of `pending_reviews`, generation check of the loop |
| `Claim`, `Resume`, `TakeOver`, `Finalize`, `Skip` | the rows of the table in its docstring |
| `Compute` | `_compute`: load the library when there is none, match or record, in memory |
| `Persist`, `Conflict`, `Fail`, `Bump` | `_persist_terminal` and the exception branches of `process_pending` |
| `LockedWrite`, `LockedBegin` | "database is locked" without and with an explicit transaction |
| `Load`, `Confirm`, `GiveUp` | `confirm_pattern` on the connection of a request |
| `Age` | a claim passes `stale_after_s` |

Claim texts are numbers that are fresh when written (owner and microsecond never
repeat) and may be used again once nobody remembers them, which keeps the state
space finite. Matching chooses any pattern of the library or a new one: whatever
the similarity says is covered. `SlowWorker` compares the generation with the one
of its last round, which may be older than its library; the model lets any round
drop the library, which covers that.

### L1Pipeline and L1Stage

`L1Pipeline` is one worker thread and the places of every camera (`slot`, with
`change_start`, `latest` and `protected_latest`; `inflight`; `result`), the turn,
the two stop flags and the lifecycle. `worker` and `closer` say where the worker
thread and `close()` are.

| action | code |
|---|---|
| `Submit` (`Accept`, `Refuse`), `TakeResult`, `Snapshot` | `submit` with `_retain_displaced_locked`, `take_result`, `snapshot` with `_refresh_lifecycle_locked` |
| `Start`, `Check`, `Pick`, `Idle`, `Finish` | `start`, the loop of `_run`, `_next_task`, and `_process` to `_produce` |
| `Leave`, `Settle`, `Exit` | the `finally` of `_run`: two critical sections and the end of the thread |
| `Stop`, `Close`, `CloseLate`, `CloseDone` | `stop_event`, `close()` up to its join, its two ways out |

`L1Stage` adds what a camera thread does with the pipeline in a frame:

| action | code |
|---|---|
| `Read` | `take_result`, `apply_detection_result` |
| `Select` | `step` up to `_select_material`, with `_apply_pending_zones` |
| `ConsumeObservation`, `ConsumeFailure`, `ConsumeNothing` | the outcomes of `_recheck_result` and what `_step_async` makes of them (`Tracker.update`, `_advance_dwell_continuity`, `_post_detection`, `pause_open`) |
| `Watch` | `_idle_step` with `_detection_lost_watchdog` |
| `Reconfigure` | `request_zone_update` |

Abstractions. One clock stands for the wall clock, the monotonic clock and the
capture time, so a result "from the future" and a wall clock set back do not
occur. A tick is longer than a frame and passes between frames. Frames are
numbered by the pictures handed over; when the cadence calls for one is a choice,
except that the first frame of a motion always hands one over. Each followed
camera has one object, confirmed when first seen, and one zone. The detector
answers anything; cameras that are not followed only submit and take. A lost
stream, the material store, counters and the pause after a failed model load are
left out. Cameras submit only after `start()`, and `close()` comes after a stop,
as in `nvr.main`.

### L2Runtime

The scheduler (`mats`, `taken`, `waiting`, `leased`, `frozen`, `cursor`), the
books (`win`: window, handle and branches, `queue`: the L3 tasks of each camera),
who is in authority (`registry`, `epoch`, `stopping`, `committed`) and the places
of the L2 thread, the L3 thread and of the thread in `stop()`.

| action | code |
|---|---|
| `Turn`, `Acquire`, `AcquireClosed`, `RegisterWindow` | `WindowScheduler.acquire`: harvesting, promotion, rotation, one window in flight; the entry in the books |
| `RegisterBranch`, `DropBranch`, `CheckTask`, `InsertTask`, `SettleEvicted`, `SealWindow` | the branches of a package, the bounded queue and its victims, settled outside the lock |
| `ExpireWindow`, `ExpireEnd` | sweep of windows beyond their time |
| `Dequeue`, `L3Gate`, `Understand`, `PublishGate`, `Grant`, `AppendRecord`, `Fuse`, `WriteVersion` | the L3 loop, model, `_publish_l3_record`, the two authorizations of a write |
| `L2Stop`, `CommitStop`, `DrainQueue`, `SettleDrained`, `CloseWindow`, `CloseEnd`, `CloseScheduler` | `stop()` with a join that may give up |
| `SetIdentity`, `Arrive` | `set_camera_identity`; a material of a camera |

Time is left open wherever the code compares an age with a limit. A step is what
a thread does under one lock, or between two of them.

### The parts around the windows

`MaterialsStore`, `Harvest`, `MaterialPool`, `Admission`, `L3Model`, `L3Budget`,
`WindowFusion`, `EventProgress`, `UnderstandingStore` and `CropWorker` each have
their own state
and lock and meet `L2Runtime` by calls only. Each is a module whose environment
makes the calls `L2Runtime`, the camera thread or the submitters make, in any
order these can come in. The header of a module says what it abstracts; these
are the choices a reader should know:

* `MaterialsStore`: every public method holds the lock and is one step. A frame
  weighs one and fits the store; ages are choices (the oldest are too old, the
  oldest that wait have waited too long, any lease is overdue). A package that
  left keeps what is known of its frame, since others may still show it. Counters
  of refusals and the memory of consumed identities, which only chooses among
  them, are left out.
* `Harvest`: the L2 thread and `stop()` empty the same queue; a package is
  observed once or dropped, and its buffers are counted once for all packages
  that share them.
* `MaterialPool`: frames of one size; the reservation under the lock and the
  copy outside it are two steps, with close, eviction and sealing between them.
* `Admission`: one camera; what a picture shows is a place on a line and "one
  place away is the same", so a slow drift can be told from a jump.
* `L3Model`: the call, the wait for it and the release of its slot are steps of
  different threads; a call that timed out goes on. `_load_gen` and
  `_delivery_gen` are represented by the flags they always change with.
* `WindowFusion`: the stage has no lock, so its two threads may meet between any two
  things it reads or writes: the look for the state of the window and its entry, the
  results and the gaps for the identity and again for the items, the parent, the append,
  the removal at the end. Stages and states that were replaced live on in `stages` and
  `states`, since a thread may still hold one.
* `EventProgress`: facts and rows are those of `EventTruth`, reduced to what is
  read; a fusion is frozen at submission and resolved against the database later.
* `UnderstandingStore`: a file is rewritten as a whole; writes and reads fail;
  cameras leave the memory and come back from their file. `known` lists the cameras
  in memory, the one that was written to last at its end (`Touched`).
* `CropWorker`: four actors meet over a crop: its submitter, the worker, expiry,
  `close()`; a write of the index that raises may be *uncertain*.

### ReviewTruth

`reviews` and `alarmRows` are the tables with their unique open review per camera
and their foreign key; `underway`, `watched` and `deferred` are the review, the
zone's latch and the waiting alarms of the `Monitor`. A frame is the sequence of
the calls it makes (`frame.pc`), each with an outcome, and the process may end
between any two. `told` and `lastSeen` are history: what failed without anyone
trying again, which rows slipped between the two clock readings of a start, and when
a review was last active.

| action | code |
|---|---|
| `StartReviews`, `FinalizeReviews`, `ReviewProcessEnds` | `recover_stale_records`, the snapshot and the delayed recovery; an end of the process |
| `SeeFrame`, `ReleaseAlarm` | `_post_detection` and the rules; `_release` by leaving, loss or `_apply_pending_zones` |
| `OpenSegment`, `UpdateSegment`, `CloseSegment` | `_review_step` with the three calls of `db.py` |
| `FlushAlarm`, `WriteAlarm` | `_flush_deferred_truth`; the sinks of an alarm |

### What leaves the process, and files

* `SemanticUpdater`: one thread, a round robin over open events, a queue of those
  with evidence not yet described; evidence may change or vanish between the
  look, the call and the publication. What is raised in a scan ends the thread
  (`ScanRaises`). The ledger's key also holds a fingerprint of the model and the
  prompt; it is the same throughout a behaviour.
* `NotifyHub`: cursor, window, limit of a round and tries per event, all rows of
  `meta`; what a failed round wrote stays in the open transaction of the
  connection. An event may be stored at any time after it began, since an alarm waits
  for its review as long as that takes (`StoreAlarm`); `outrun` remembers those that
  were stored after one that began a whole window later. The query orders by
  `t_start` only, so `Batches` holds every order of what begins together.
* `Notices`: both threads beside one another; neither reads what the other writes.
* `BestFrames`: file, rows and sweep are three steps; the server reads the row,
  then the file, then writes what it found. When one of the statements or the commit
  fails the file is removed, and the rows written so far stay in the open transaction:
  `IndexFails` has them stored by the next commit, or lost. `withdrawn` remembers such
  files, `unlinked` the events whose row was not among them.
* `EnvironmentBaseline`: attempts in threads of the server; the commit may be
  uncertain; the status is read in two queries.
* `Recording`: ffmpeg is external: it rolls in time, hangs or dies. Assumed: it ends
  with the process that started it. Files of the same age are cleaned up in any order,
  reviews that begin together are exported in any order (`ByAge`, `NewestReviews`).
* `Records`: these three with `ReviewTruth` and `UnderstandingStore`. Each keeps tables
  or files of its own; the conjunction of their specifications allows their steps to
  fall together in any way.
* `StateBundle`, `UpgradeContract`, `OpsEvidence`: sequences of readings of files
  that others change; a reading yields the content of one moment or is refused,
  as the identity checks before and after it make sure. A behaviour of
  `OpsEvidence` is about making bundles, about contracts of a finished bundle, or
  about seals of a finished contract (`opsCase`). The bundle a seal takes is the one its
  contract is over, or another one (`spare`, `Own`): `_bindings` verifies both and
  compares them with nothing.
* `DesktopSession`: the window's thread, the readers of generations, another
  thread that may ask for a stop, and the backend with its pipe.

## 3. The runs

| run | bounds | shows |
|---|---|---|
| `event_restart` | 1 track, 2 starts, 1 occurrence, 3 times, 1 description, grace | `TypeOK`, `ClosedAtLastSeen`, `RecoveryCoversAll`; implements `EventLedger` |
| `event_reappear` | 1 track, 1 start, 2 occurrences, 2 times | `HealthyIsStored`, `NoOrphanOpen`, `ObjectFirst`, `EndedIsClosed` |
| `event_version_one` | 1 track, 2 descriptions | the documented immutability of version 1 does not hold |
| `event_settles` | 1 track, torn writes | the documented idempotence of closing does not hold for the retry list |
| `slow_rounds` | 2 instances (1 recovering), 1 administrator, 2 reviews, batch of 2, 2 retries, 1 feedback | `TypeOK`, `NoGhost`, `FailedOnlyExhausted`, `FeedbackKept`, `ClaimHeld`, `ReviewSettles` |
| `slow_wedge` | 1 instance, 1 review | one locked write ends the work of an instance |
| `slow_stale` | 1 instance, 1 administrator, 2 reviews | a confirmation overwrites a newer row |
| `l1_stage` | a camera with its Monitor (2 pictures, 2 zone revisions), or two cameras that share the worker (3 and 1 pictures); 3 times; all limits 1 | `StageTypeOK`, `QuietAfterStop`, `HaltedForGood`, `OneHome`, `BoundedBypass`, `FactsForward`, `ZoneDwell`, `StopSettles` |
| `l1_stuck` | a followed camera (4 pictures) and one that is stuck, 4 times | the documented watchdog does not fire while the camera submits |
| `l1_dwell` | 1 camera, 4 pictures, 3 times | a gap nobody watched is counted into a dwell |
| `l2_windows` | 2 cameras, 2 windows, branches p and q, a queue of one task; three instances: windows of two branches and of one, a changing identity, a waiting line of three materials behind a held window | `L2TypeOK`, `Owned`, `HistoryHonest`, `AllReturned`, `WindowsEnd` |
| `parts` | `MCParts.cfg`, 18 subjects | `PartsTypeOK`, `LedgerExact`, `PoolAccounted`, `SceneHonest`, `SlotsCover`, `BudgetsKept`, `CropHonest`, `ProgressHonest`, `FusionGrows`, `RecordsKept`, `OperationsHonest`, `SessionHonest`, `NoticesHonest` |

Why these bounds are enough to be interesting. Two starts are one crash and one
recovery between any two transactions; a second occurrence is what meets a retry
item of the first; three times tell first, last and later observations apart.
One track is enough because the code keeps tracks apart except in the closing
loop; the proofs cover any number. Two instances are a holder of a claim and
somebody who takes it over; two reviews are a settled and a failed attempt in one
batch; two retries are what a lost or doubled count needs to show; one feedback
moves the generation once, between any two steps of both instances.
In the L1 stage two pictures decide every order of two results, three fill and
overfill the three places of a camera; limits of one tick make a result at the
limit and one beyond it; one zone change falls between any two steps of a frame
and of the worker; the stop is asked for at time 0, with every state of places,
worker and `close()` reachable before it. The run looks at a Monitor and at the
sharing of the worker in separate initial states (`Venues`); the proofs cover
any number of cameras together.

`parts` is one run for parts that share no state: `PartsInit` chooses the subject,
and only that part moves, so its states are the sum, not the product, of those of
the parts (2.4 million). In the larger parts TLC tells states apart by the variables
of the subject (`PartsView`): the others keep their first values, so no two states are
taken for one (their number is the same without the view, and the run a quarter
longer). `PartsTypeOK` and the properties that join several parts
(`BudgetsKept`, `RecordsKept`, `OperationsHonest`, `NoticesHonest`) say which
conjunct is whose.
Three branches are what two threads need to build on a state in an order of their own,
with a version appended between the items and the parent of another; two alarms and a
clock of twice the window let one be stored behind the cursor the other moved.
Two packages that share their pixels and one that overlaps them are what the
ledger of `Harvest` can miscount; a queue of one, a pool of three frames and a
plan of two make every cap bite; three crops meet a queue of one while one is
being saved; three packages of two cameras, one of another configuration, with
one lease and room for two frames, make the store of materials share, evict and
refuse (a neighbour too far away in time does not occur among them); two
generations are a session and its successor; one fault falls between any two
steps. Every invariant of this run is also proved for all values of the constants
(section 4); its bounds are there to make every action and every mutant bite. Larger bounds
were checked once by hand without a violation: `BestFrames` with two events, three frames
and a fault (7.6 million states), `DesktopSession` with two troubles (2.2 million),
`SemanticUpdater` with three changes of the evidence and two failures (1.4 million),
`NotifyHub` with three alarms and a clock of five (1.1 million), the operations with two
changes of their world (510,000), `ReviewTruth` with three reviews (231,000), with two
reviews, five instants and a cutoff of two (811,000), and with three reviews, five instants
and two failures (5.5 million).

`CHECK_DEADLOCK FALSE`: a process that has exhausted its bound of starts, or
instances that are gone with every review settled, really have stopped.

### Fairness

`EventTruth` (`event_reappear`, `event_settles`): the calls of a handler follow
each other in one thread (weak fairness of the fault-free call and of the loop);
`_retry_pending_event_closes` runs at every frame and every failed read (strong
fairness of each item's retry); a closing thread returns (`Exit`). Frames, clock,
starts, crashes and other connections are not fair. `<>[][FaultFree]_vars`: the
store stops failing at some time; without it nothing can be promised.

`SlowCore` (`slow_rounds`, `slow_wedge`): the loop of `SlowWorker._run` goes on
(weak fairness of an instance's next step, without choosing how an attempt ends)
and claims age. Assumed of the environment: the database is not locked for ever,
feedback ends, and from some time on no claim turns stale under an instance at
work on it (`STALE_CLAIM_S` is 600 s). Without the last, two recovering
instances could take a review from each other for ever. `ReviewSettles` excuses
only the case that in the end no recovering instance is up with a usable
connection; `slow_wedge` shows that the second half of the excuse is needed.

`FairStage` (`l1_stage`): the worker's loop goes on and an inference ends (weak
fairness of its step, whichever camera and outcome it is), `close()` is called
after a stop and returns once the worker has ended. Cameras, operators, time and
the giving up of `close()` are not fair.

`L2Fair` (`l2_windows`): the L2 thread, the L3 thread and a `stop()` under way go
on, and an inference ends (weak fairness of each thread); time passes, so a
window that stays on the books is beyond its time at a sweep in the end (strong
fairness of `ExpireWindow`). Materials, identities and stops are not fair. The
parts are checked for safety only.

## 4. What is proved

TLAPS checks the proofs for any sets and bounds that satisfy the assumptions of
the modules (`BoundsAssumption`: the bounds are natural numbers and the first
start and occurrence exist; `SlowAssumption`: finitely many instances, at least
one, and positive limits).

* `EventTruthProofs`: `TypeCorrect`. `TypeOK` is not inductive alone: an entry, a
  retry item or a pending call must belong to an occurrence that has begun
  (`Numbered`).
  `Inductive` establishes `Inv`, one row of facts per event,
  by role: the event of a current entry (`CurrentRow`), of the call under way
  (`CallRow`), of a retry item (`ItemRow`), of nobody (`EndedRow`), with the
  order of its times (`Clocks`, `Ends`). An event's row is disturbed only by steps
  about this event (`RowFrame`, `InvQuiet`); each action has one lemma. From it
  follow `HealthyCorrect`, `NoOrphanCorrect`, `ClosedAtLastSeenCorrect`,
  `ObjectFirstCorrect`, `RecoveryCorrect` (of the rows a start leaves open and does not
  remember: their grace ran out while it started, and the next start closes them), and
  `LedgerCorrect`: every step of
  `EventTruth` is a step of `EventLedger` or leaves the tables alone.
* `SlowCoreProofs`: `TypeCorrect`, and `FeedbackIsKept` from `GoldFresh`: a
  library, or a row a request has loaded, is never newer than the table, and when
  it has the table's generation it holds the table's feedback. So a write that
  passes the generation check writes the same feedback back. The type invariant
  needs `GoldCounted`: no library holds more feedback than its generation says.
  `OwnersAreKnown` (a claim's text that is remembered anywhere
  is not written again, so whoever finds its own text in the table is the owner:
  `OwnersKnown`), and from it `ClaimIsHeld`; `FailedExhausted` from
  `CountsBacked` (no count, stored or about to be, exceeds the attempts that
  failed); `NothingGhostly` from `LibrariesTrue` (a library in memory counts only
  reviews that are settled, or that its core is about to settle; one that was
  loaded before a failed attempt is dropped before it can be written).
* `RecordsProofs`: one theorem for each part of `Records`, and `RecordsStayKept`
  for all of them (`RecordsKept`).
  - `ReviewsAreInTime` and `ReviewsStayHonest` (`ReviewsHonest`). The first from
    `ReviewInv`: the review under way is the latest one, it is not closed, and it began
    after every earlier one was last seen (`Latest`); time stands still during the
    calls of a frame. The second from `KeptInv`, which adds what the row of the review
    under way must say at each call of a frame (`AsSeen`, `CurrentOpen`), that an alarm
    has a row or a reason to have none, and an open one somebody who answers for it
    (`AlarmReason`), and what the rows are between two runs (`BetweenRuns`). Of the rows a
    run found open, one that slipped between the two clock readings of the start is
    nobody's during this run; what is proved of it is that its grace is over, so that the
    next start closes it (`LeftBehind`).
  - `FramesStayHonest` (`FramesHonest`) from `FramesInv`: what a row names is on the disk,
    or vanished in one of the two ways there are (`RowsIntact`, `Vanished`); no row is ahead of the
    object's and no verdict about a frame its row has not got to (`InOrder`), what the
    camera thread is about to index is better than the object's frame and on no row
    (`CameraKnows`), and a reader is never ahead of the row it read (`ReaderKnows`).
  - `BaselinesStayHonest` (`BaselinesHonest`) from `BaseInv`: names of files are used
    once (`NamesOnce`), each step of an attempt has the file it says (`Stage`,
    `FileAtHand`), every file is a version's, an attempt's or left behind
    (`FilesAccounted`), and a status query knows the version it read (`StatusKnows`).
  - `UnderstandingStaysKept` (`UnderstandingKept`) from `StoreInv`: memory, files and
    what was saved are lists in order (`Listed`), and each of the first two keeps what
    was saved or has given it up for newer records (`Keeps`).
  - `RecordingsStayHonest` (`RecordingsHonest`) from `RecInv`: segments have names of
    their own and the one ffmpeg has open is the last (`SegmentsShape`, `OpenIsLast`);
    while the thread cleans up, the segments that were there at the beginning and are
    not passed over are in the queue, those too old ahead of the others (`QueueFits`,
    `AgeFits`), and there are no more of them than are counted (`CapacityFits`); a
    clip under way is of a time that is over (`ClipsFit`), so no segment of it can
    still appear.
* `L1StageProofs`, of the pipeline: `StoppedIsQuiet` and `StoppedForGood` from `Ending` (where
  the worker can be once a stop was asked for, and that everything is empty when
  it settles); `OneHomeCorrect` from `Homed` (no place holds a picture not yet
  handed over); `NobodyStarves` from `Served`: what a camera has been passed over
  and its distance from the turn together stay within two rounds. The bound of
  one round, which TLC confirms for two cameras, is not true: the turn is an
  index, and a camera that joins in front of it moves it back by one.
  Of the stage: `StageRunsPipeline` (every step of the stage is a step of
  `L1Pipeline` or leaves it alone), so the theorems above hold in the stage.
  `StageInv` relates every picture of a camera, wherever it is, to the Monitor:
  later frames are not captured earlier, none is of the future, those of the
  zones in force are not older than these, those not yet consumed are not older
  than the last observation. From it follow `StageTypeCorrect`,
  `FactsForwardCorrect` and `ZoneDwellCorrect`. Assumed: `PipelineAssumption` and
  `StageAssumption` (finitely many cameras, limits that are natural numbers).
* `L2RuntimeProofs`: `L2Inductive`, from which follow `L2TypeSafe`,
  `BranchesOwned`, `RecordsHonest` and `StopReturnsAll`. `L2Inv` says, part by
  part: what windows and branches look like (`Shape`), what the materials and
  leases of the scheduler are (`StoreOK`, `LeaseKept`), what each thread has in
  its hands at each of its places (`Hands`), what may be in the queue
  (`QueueKept`) and on the books (`BooksKept`), what the marks left by an expiry
  and by the sweep of `stop()` already guarantee (`Marked`, `Swept`), who owns a
  pending branch (`Owned`) and what the history says (`HistoryHonest`). Ownership
  is not inductive alone: a victim of the queue is settled outside the lock, and
  until then it belongs to the thread that drove it out. What the filters of the
  queue and of the waiting lines keep is stated once, for all sequences.
* `PartsProofs`: one theorem for each of eight parts, and one each for the two of
  `Notices` and the two of `Budgets`.
  - `HarvestIsExact` (`LedgerExact`) from `OnTheWay`, what the queue, the batch
    and the hands of both threads hold, each package once (`Once`), and `BooksOf`,
    the ledger of exactly those that are alive.
  - `PoolStaysAccounted` (`PoolAccounted`) from `PoolInv`: the books are the number
    of entries of all events (`PoolBooks`), no event is above its cap (`PoolCaps`),
    and a row being copied has its reservation for as long as its event is there
    (`Copying`).
  - `OneSlotCovers` (`SlotsCover`), assuming one slot. This is the default and the
    only value the program constructs; with more, the property is false (section 5).
    From `SlotInv`: one caller at most occupies the slot (`OneSlot`), a call that runs
    is one of an occupant and the one the backend tells of (`Running`), and what each
    place of `close()` leaves to run (`Ending`).
  - `SceneStaysHonest` (`SceneHonest`) from `SceneInv`: every reference that is in
    force or may come back, with the scan under way or with a window, is true to the
    observations it stands on (`Faithful`).
  - `FusionOnlyGrows` (`FusionGrows`) from `FusionInv`: every version of a state of the
    window holds what the versions held that were there when its items were put together,
    and nothing the state does not hold (`StateOK`); what a state holds is what became of
    the branches (`Became`); and what a thread has taken of its state is still there,
    since states only grow (`Holds`, `Fits`), whether or not the state is still anybody
    else's. That a version holds all its *parent* holds is not true: the other thread may
    append between the items and the reading of the parent (section 5).
  - `ProgressStaysHonest` (`ProgressHonest`) from `ProgressInv`: rows are of tracks
    and begin when these were born (`RowsOfTracks`), a fusion knows of its frames what
    they showed, but for objects given an event since (`FusionsSnapped`), and what was
    appended rests on frames of its event (`Grounded`).
  - `SessionStaysHonest` (`SessionHonest`) from `SessionInv`: what a generation, its
    pipe and its process say of each other (`AllSaySo`), how far the attempts have
    come (`Attempts`), which of the two clients may be where (`WhoDoesWhat`), that
    no two processes live (`OneLives`), and what the window knows (`WindowKeeps`).
  - `NoticesStayHonest` (`NoticesHonest`) from `HubInv` and `UpdaterInv`. Of the hub:
    what lies a resend window behind the cursor has arrived or was given up, by `meta`
    as the connection sees it and as it is committed, since a restart falls back
    from one to the other (`Behind`), and whoever a round under way has not settled
    is still to come in it or stays in the window however far the round gets
    (`InRound`). The cursor is never beyond the beginning of an event that is stored
    (`HubKnown`), so one stored behind the window was stored after an event that began a
    window later: these are `outrun`, and the only ones excused. Nothing is assumed of how
    late an alarm is stored. Of the updater: what was read for the model was not described
    before, by the one thread that describes; an event waits once, and not while it is
    served.
  - `CropsAreHonest` (`CropHonest`) from `CropInv`: the crop about to get its line must
    still be pending and authorized, so neither expiry nor `close()` can have given
    it up (`Held`), and no crop has a line before its end (`Told`).
  - `TwoPackagesFit` (`NeverOversold`), assuming that a window has two packages at most,
    which is the default of its scheduler (`max_pending`); with three the property is
    false (section 5). From `BudgetInv`: before its first plan a window costs nothing;
    between its two plans, as long as its page is there, the page accounts for exactly
    the tasks not given back and notes the share of each under its index (`Accounts`,
    `NotesShares`); after the second plan the notes may be wrong, but tasks are only
    given back. A plan walks the branches of a package one after another; that each of
    its steps keeps to the limits is shown of the least step that would not.
  - `StoreStaysExact` (`StoreExact`, `MaterialsHonest`) from `MatInv`: packages are well
    made and linked to neighbours of the same camera and configuration (`WellMade`), the
    account counts exactly the frames somebody in stock shows (`Exact`), no ring is above
    its cap, leases are counted by camera (`LeasesCounted`), and the copies consumers
    keep are paid for, a copy without a lease being of a package that is gone
    (`CopiesPaid`). Every loop of the code that drops packages until something fits is
    one lemma about any set of packages in stock (`DroppedFits`).
  - `BudgetsStayKept` (`BudgetsKept`) from these two.
  `LeastNumber` (every set of naturals that is not empty has a least element, from
  the well-foundedness of `<`) stands in for induction where a concrete least
  counterexample is enough.

* `PartsTypeProofs!PartsTypeSafe` (`PartsTypeOK`): one lemma for each part, from its
  invariant above and what the types need beyond it (the definitions that end in `Rest`).
  `L3Model` and `L3Budget` are covered without the assumptions their
  other theorems make. Every step of the composition is a step of each part, or leaves it
  alone (`EachPartMoves`), so what holds of a part by itself holds of it there.

* `OpsProofs!OperationsStayHonest` (`OperationsHonest`) from `OpsInv`, which says of
  every place where a command can be what it has read so far and what that is worth.
  A directory in the making is one maker's and has no valid manifest before the end
  (`MakersHonest`); what a verification has read goes with one manifest that was
  sealed, and it is what lies there for as long as nothing was changed (`ReadHonest`);
  a digest of a tree, or of the evidence, is right up to the file the walk has got to
  (`WalkHonest`, `SealsHonest`); a document that is written whole cites the contents
  of the bundle whose manifest it cites (`ContractsHonest`), and what `prepare` writes
  into is the directory it made (`OwnContract`). That two verifications which agree
  have seen the same bundle (`SameTwice`) needs manifests that are never made twice:
  `created_at` is part of them, so a bundle that was replaced does not come back as it
  was (`Remake`). A seal is true of its own bundle and of the one its contract cites, each
  by its own digests; that they are the same is not claimed: `_bindings` binds the two
independently (`linux_ops_evidence.py:909`) and nothing compares them (`spare`).

tlapm 1.4.5 misreads two updates of the same key in one `EXCEPT`
(`[f EXCEPT ![k].a = x, ![k].b = y]`): it can prove a falsehood from them. The modules
write such a step as one update of the key
(`[f EXCEPT ![k] = [@ EXCEPT !.a = x, !.b = y]]`), which it reads as TLC does. Its
SMT encoding also has `(DOMAIN s = 1..n) <=> (Len s = n)` for every `s`, function or not.
To look for anything that rests on either, the leaves were once tried with `FALSE` as
their goal (those proved are the cases of an action or of an invariant that cannot occur)
and proved again with that axiom restricted to functions. What was
proved anew when `EventTruth`, `ReviewTruth`, `BestFrames`, `WindowFusion`, `NotifyHub`,
`SemanticUpdater` and `OpsEvidence` were brought closer to the code afterwards has not
been tried again in this way; it was proved in the ordinary one.

Only model-checked:

* liveness (`EndedIsClosed`, `ReviewSettles`, `StopSettles`, `WindowsEnd`), since
  the prover has no rules for fairness and `ENABLED`;
* what the code does against its documentation (section 5): counterexamples.

Every invariant and every action property of the passing runs is stated by a theorem.
The assumptions on the constants are those of the modules (named `...Assumption`; TLC
evaluates them in the runs), and two of single theorems: one model slot (`OneSlotCovers`)
and at most two packages in a window (`TwoPackagesFit`, `BudgetsStayKept`). Two of
them only make an instance be one: somebody makes bundles (`1 \in Makers`), and the clock
of the hub starts below its bound (`MaxClock > 0`).

## 5. Where code and documentation disagree

* `event_version_one`: a publication before the initial description is committed
  takes version 1, and the initial observation is never written afterwards.
* `event_settles`: an item whose row a torn write has closed is retried for ever
  and keeps the camera degraded.
* `slow_wedge`: a locked implicit transaction stays open, and every later round
  of the worker, for all cameras, is refused.
* `slow_stale`: the generation does not move with a worker's write, so a
  confirmation, or a second instance, writes an older row over a newer one.

* `l1_stuck`: the age the watchdog reads is that of the oldest picture still
  queued, and new pictures replace old ones: a camera that waits for a detector
  stuck on another camera does not notice as long as it submits.
* `l1_dwell`: the dwell snapshot is used up by the first picture after a gap even
  if the object is not in it; seen again, its dwell contains the gap.

Met while modelling, without a run of their own (the models do what the code does,
and their properties are stated so that they hold for it; `PROJECT.json` quotes the
words of each under "findings"):

* Reviews: nobody looks at whether `close_review` worked, and an open row that
  stays keeps the camera's place until the next start (`monitor.py:772`); an alarm
  may be released before it is written and then be stored open for nobody
  (`monitor.py:1061`); an alarm that waits for a review never stored waits for
  ever (`monitor.py:582`).
* Windows: a refused failing result may leave a sealed window without a pending
  branch to its TTL (`win11_l2_runtime.py:3750`); what was handed over is dropped,
  not observed, in a stop (`:843`); a stage of fusion may be replaced by a second
  thread (`:4114`); the shares of the tasks of a later package overwrite those of
  an earlier one (`win11_l3_tasks.py:404`), which two packages in a window survive
  and three do not: with `WindowPackages = 3` the budget is oversold; a late answer
  may be counted twice (`win11_l3_backend.py:782`); with more than one slot the
  snapshot of the backend answers for the last call only, and the slot of another
  comes back early (`:578`, found when the proof of `SlotsCover` needed
  `ModelSlots = 1`).
* Desktop: the tail of an old generation may reach the session of a new one
  (`BackendSession.cs:399`); a stop is confirmed without the exit code
  (`win11_desktop.py:564`).
* Start: rows are closed by one reading of the clock and remembered by a later one, so a
  row whose grace of 30 s runs out in between stays open until the next start
  (`nvr.py:654`; `Slipped`, `told.slipped`).
* Fusion: a version may name a parent that holds what it lacks (`win11_l4.py:500`; in
  `WindowFusion`: a version with `parent` above `seen`).
* Hub: the resend window applies to every round (`notify.py:268`); an alarm that waits for
  its review longer than that, behind an alarm of another camera, is never sent
  (`notify.py:273`; `outrun`).
* Best frames: a transaction that fails removes its file but is not rolled back, and the
  next commit may store its rows (`evidence.py:146`; `withdrawn`).
* Evidence and baselines: a moved row may be marked missing (`server.py:2888`); a
  status of two reads may ask for a baseline that exists (`db.py:1268`); a full
  disk leaves no note (`server.py:2635`).
* Recordings: a segment after midnight may be in the directory of the day before
  and is then nobody's (`recorder.py:51`); an exception ends the export of all
  older clips (`recording.py:334`).

## 6. Plan

Done: the modules of section 2. What is left, in this order:

1. Liveness of parts: an event with evidence is described or given up, a saved or
   dropped crop is answered, a slot comes back, each under the fairness of its
   thread.
2. Compositions: `EventProgress` on the tables of `EventTruth` instead of its
   reduction; `WindowFusion` driven by `L2Runtime`.

## 7. Not modelled

* Inference, decoding, similarity, parsing of answers and prompts: numeric or
  external; their outcomes are choices of the actions that use them. With them
  sources, gate and detector.
* Configuration, discovery, editions, setup wizards and diagnostics: sequential
  checks at the start. Health reports: reads for one request.
* Acceptance, replay and soak tools: offline, sequential, no shared state; their
  reports are inputs of `OpsEvidence`. Packaging and installation.
* Of the modelled parts:
  - event facts: confidence, boxes, payloads;
  - slow system: pruning at `max_patterns`, corrupt claim documents, embeddings and
    names of patterns, several cameras on one connection, and a library handed in
    by the caller of `run_once` (`linux_slow_path.py:153`);
  - L1: what section 2 names; that the earliest displaced picture is served last
    (`win11_pipeline.py:218`) only delays it, the order of facts being guarded when
    a result is taken;
  - reviews: more than one target, zone or rule; severity and the lists of a row;
    marking a review as seen;
  - L2 and L3: trace events, health, isolation of the L2 model, relations, crops of
    L2; choice of frames in a task, the cloud backend, the limit on source bytes;
  - materials: what section 2 names, and frames larger than the store;
  - store and pool: validation of records, reports, similarity of frames;
  - crops: encoding, counters, reading back;
  - updater: image policy of a remote model, counters; hub: the transports;
  - evidence: JPEG quality, limits of paths and sizes; baselines: the profile made
    by the model; recordings: probing ffmpeg, playback;
  - desktop: diagnostics, single instance, web view, launcher;
  - operations: permissions, path checks, document formats.
