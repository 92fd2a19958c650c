# jesses: TLA+ models and proofs

jesses is a desktop application that encodes, remuxes and inspects media files with
external tools (FFmpeg, SVT-AV1, av1an, ...). A Tauri shell (`src-tauri/src`) exposes
commands to a Svelte frontend and forwards them to `crates/media-runtime`, which keeps a
durable queue of jobs, runs the tools in owned process trees, verifies what they produce
and publishes it without replacing a file.

Source paths below are relative to the repository root; `jobs.rs`, `supervisor.rs` etc.
stand for `crates/media-runtime/src/jobs.rs`, `crates/media-runtime/src/supervisor.rs`.

## 1. Inventory

| Component | State | Operations | What is hard | What makes it correct |
|---|---|---|---|---|
| Job queue, `jobs.rs` (`JobManager`) | `State`: entries (snapshot, cancel channel, pause control, task), shutdown flag, storage error, submission epoch, preflights; the `execution` mutex | admit one job or a batch, cancel, stop, pause, Stop Queue, resume, discard, release an image sequence, shutdown, open; one worker task per job | workers, requests and probes interleave; checks are made before an await and used after it; history writes fail; the process ends anywhere | one job at a time, in order; one unfinished job per destination; no publication after an accepted cancel; success is never lost or invented; saved progress survives |
| History, `jobs/history.rs` | `jobs.json`, `jobs.lock` | open, read, save | crash between write, flush and rename | the last successful save can be read |
| Live pause, `supervisor/pause.rs` (`PauseControl`) | targets, scopes, pause clock | enter and leave a scope, set_paused, attach, detach, timeout | a request walks over trees that exit, are attached or killed | paused means frozen, not paused means running, time limits count active time |
| Supervision, `supervisor.rs`, `supervisor/unix.rs`, `windows.rs` | owned process trees, pipes, rotating logs | run, capture, stream, pipeline, terminate | two stages, cancellation, time limits, pipes nobody reads | no tree outlives its operation |
| Finish action, `src-tauri/src/completion.rs` | options, seen and armed jobs, deadline, generation, admission mutex | configure, tick, claim, cancel, admit_work | the job list is read before the lock under which it is used | dispatched only when idle, after success and a countdown |
| Inspection tickets, `src-tauri/src/analysis.rs` | up to four tickets with 30 s to be used | begin, run, pause, cancel, shutdown | expiry against use | a ticket counts as work exactly while it may do some |
| Files, `jobs/files.rs`, `jobs/files/replace.rs` | temporary files with an identity, sources with a fingerprint | create, verify, publish, clean up, replace in place | crash between the steps of a replacement | nothing foreign is replaced or removed |
| Standalone recovery, `jobs/standalone_recovery.rs` | manifest, phases, sealed artifacts | prepare, checkpoint, validate, cleanup, discover | crash between artifact and manifest | a phase is reused only if its bytes are verified |
| av1an and its recovery, `jobs/av1an*.rs`, `jobs/av1an/`, `jobs/recovery_actions.rs` | workspace phases, chunk receipts | resume saved, resume with new settings, clear chunks, clear all | several workspaces in one action, one failing | receipts describe the chunks on disk |
| Reviewed commands, `jobs/command_edit.rs` | sessions held until the user confirms | prepare, ask, confirm, pause, cancel | page reloads, cancellation while held | a program runs only as confirmed |
| Batch, `batch.rs`, `batch/source_naming.rs` | none | scan, preview, naming | collisions, case, limits | distinct destinations |
| Images and sequences, `jobs/images.rs`, `jobs/sequence.rs` | owned directories, receipts | export, review, publish, release | partial output | a directory is published whole |
| Utilities, `utilities.rs`, `utilities/` | reservations, progress | eleven utilities, batch | shared pause and stop | outputs are rechecked before publication |
| Encode planning and verification (`jobs/encode_plan*.rs`, `parameters`, `audio`, `container`, `mux`, `trim*`, ...) | none | pure translation and checks | arithmetic of times, rates, sizes | the plan describes the request |
| Probing, discovery, preferences, saved jobs | files | read, validate, save | bounded, atomic writes | as the history |
| Tauri shell, `src-tauri/src/lib.rs` | exit stage 0, 1, 2 | commands, exit handler | exit requested twice, or while jobs run | exit after one shutdown |
| Frontend, `src/` | run controller, drafts | Run, Pause, Stop, Resume | late events | status of the run it shows |

How they interact: the shell's commands that start work take the admission mutex of the
finish action and then call the queue. The queue spawns one task per job; the task takes
the execution mutex, enters the scope of the job's `PauseControl` and runs tools through
the supervisor, which attaches every tree to that control. Encodes write a recovery
workspace next to their output and name it in their snapshot; every change of a state is
saved in the history. The finish action samples the job list twice a second and asks the
ticket table whether an inspection runs.

`PROJECT.json` lists every component with its status and every hazard at its line.

## 2. Plan

Done in this version:

1. `JobQueue` (abstract), `JobManager` (detailed), and their proofs, the refinement included.
2. `CompletionMonitor` with the tickets.
3. `PauseControl` with the supervision it depends on.
4. `SavedProgress` (abstract), `StandaloneRecovery` (detailed), and their proofs.
5. `Av1anRecovery` and its proofs.
6. `HistoryFile` (the steps of a save) and `OutputFile` (publication and replacement in
   place), with a machine that stops, and their proofs.
7. `DurableFiles`, which puts 4 to 6 behind one process: what jesses keeps on disk.
8. `Pipeline`: the two tools of a run, their pipes and its end.
9. `CommandEdit`: review sessions between the client, the queue and the worker.
10. `Execution`, which puts 3, 8 and 9 side by side: what stops, feeds and holds tools; and
    the proofs of 3, 8 and 9.

Next, in order of what they protect:

11. The output limits and logs of the supervisor.
12. `Exit` (shutdown of queue and inspections), utility reservations, image directories.
13. Pure operators with reference definitions: destination naming, rate control, packet
    times, cadence.

Proofs to add: that a save of `HistoryFile` is one of the three outcomes of `Persist` in
`JobManager`, and that a publication of `OutputFile` is its one step, as refinements; the
modules that come next, with theirs. Every safety property the passing runs check is proved
(section 5).

## 3. Modules

Operators marked "Seeded fault" are not part of a specification. Each is a plausible
mistake that takes the place of the definition after it when a property is tested for its
power (`PROJECT.json`, "mutants").

### JobManager, JobQueue

One action is one critical section of the state mutex, or one step of a worker between two
of them. A job is one request; an identifier is used once, as the process number, time and
counter in `jobs.rs` make it.

| Variable | Code |
|---|---|
| `entry` | `State.entries`: place in the vector, state, and whether a recovery locator is set |
| `cancel`, `paused` | the watch channel and the `PauseControl` of an entry |
| `pc`, `result` | the position and the local result of `run_queued` / `execute` |
| `slot` | the owner of the `execution` mutex |
| `shuttingDown`, `storageError`, `epoch` | the fields of `State` |
| `batch`, `resume` | calls that probe or validate without the lock |
| `disk`, `workspace`, `out` | the history file, complete manifests, published outputs |
| `tail`, `requested`, `session` | the next place; ghosts for the epoch of a request and the number of restarts |

Actions: `AdmitJob`, `BeginBatch` / `AdmitBatch` / `RejectBatch`, `CancelJob`, `StopJob`,
`SetJobPaused`, `CancelAllJobs` (Stop Queue), `BeginResume` / `CommitResume` /
`RejectResume`, `DiscardRecovery`, `Shutdown`, `Open` (the process ends at any moment and
the next one opens the history); per worker `CheckTurn`, `TakeSlot`, `LeaveQueue`,
`Prepare`, `Run`, `Confirm` (the decision of a review), `Finalize`, `Fail`, `Checkpoint`,
`RecordCheckpoint`, `Publish`, `RemoveWorkspace`, `KeepWorkspace`, `ForgetWorkspace`,
`Report`, `Settle`, `Release`. Every action that saves does so through `Persist` or one of
the two admissions, with the outcomes saved, not saved, and saved but reported as failed
(the directory flush). A place is spent by an admission whose save fails as well: the file
may hold the jobs that were taken back in memory, and until the next successful save a place
in it must not mean two jobs.

Assumed: the recovery workspace is the standalone encoder's, reduced to one bit (its files
are in `StandaloneRecovery`), a manifest can be read at restore, the log lines of a snapshot
tell two attempts apart (modelled by `place`), and nobody outside deletes an output.
`ReviewedJobs` are the jobs that may be held for a review, `EditedJobs` those of them whose
command the user then changes (finding 1). Of the review the module has only what it does to
the job: the decision, `Confirm`, which shows the job as running whatever it was (finding
8); how it is asked for and answered is in `CommandEdit`. Not modelled: image sequence
release, progress, sizes and log texts.

`JobQueue` is what the queue promises: jobs wait in order with distinct destinations, the
first may start when nothing runs, and a job leaves by publishing to a free destination or
by giving up. `ImplementsQueue` maps the unfinished jobs, `slot` and `out` to it.

### CompletionMonitor

`monitor` is the `Monitor` behind its mutex; `dispatched` and `holder` are the admission
mutex and its owner; `call` is the command that holds it; `sampler` is the sampling task
with the list it has read; `ticket` is the table of `AnalysisTasks`. Jobs are reduced to
unlisted, active, succeeded and ended without success; any of them may end, leave the list
or, with `Resumes`, be resumed at any time. Notices and the error field are left out; without
notices only the keys of `Monitor.seen` matter, so `seen` is a set. An instant is the time left until it. The steps of the
sampling task follow `completion.rs:208-285`: sample, tick, lock, refresh, claim, answer.
`PrepareEdit` is `prepare_command_edit`, which queues a job or resumes one under a ticket,
past the admission mutex (`lib.rs:198-221`); a job may therefore also be resumed between the
list and the lock of `set_completion_options`, and then counts as resumed, not as queued.
Taking a ticket is atomic with its admission (`lib.rs:384-390`).

### PauseControl

`targets`, `scopes`, `clock`, `pausedAt`, `pausedFor` are `pause::State`; `setter` is the
request that holds its mutex on a blocking thread, with the trees it has still to signal
and those it has to undo; `tree` is each owned process tree (unstarted, running, stopped,
exited but not reaped, reaped); `at`, `next`, `start`, `canceled` are the operation. The
trees of a run are attached in the order of its stages, so that `targets` is always the
beginning of a run. Signals
are those of Unix process groups: a reaped tree is not found, one whose leader has exited
takes SIGCONT but cannot be confirmed stopped, a live one may miss the confirmation. Trees
go on exiting, being reaped and being terminated while a request walks. A run whose
attachment fails is abandoned: its attachments are dropped before its trees. A tool that
cannot be spawned, and a tree that survives termination for five seconds, are not modelled.

### Pipeline

A run of two tools (`run_pipeline_execute`). The tools are external: each writes to its
streams and, the consumer, reads its input in any order, blocks at a full or an empty pipe,
and ends when it likes, leaving a descendant or not.

| Variable | Code |
|---|---|
| `toFile` | `output` is given: the consumer writes to a file, and has no stdout pipe |
| `tool`, `heirs`, `wish` | the leader of each owned tree, its descendants, the stream it is blocked at |
| `pipe`, `said`, `logged`, `taken` | the records in a pipe; written, in the log, read by the consumer |
| `hand`, `delivered` | what `transfer_binary` has read and not yet written; its flag |
| `noted`, `drained` | accepted statuses, streams read to their end |
| `run`, `verdict` | starting, the loop, cleanup, the last drain, returned; with which result |

`SpawnConsumer`, `SpawnProducer`, then the branches of the loop: `NoteExit` (with the
termination of descendants, and the consumer that ends early), `Receive`, `Forward`,
`Deliver`, `Drain`, `EndDrain`, `Complete`; `Interrupt` is the cancellation and the time
limit; `TerminateBoth` and `Return` follow every end. All errors are one verdict. A failing
log, transfer or termination is not modelled.

### CommandEdit

The review of a command: `prepare_command_edit` queues a job (or starts an image task) with
a session, the worker prepares it up to its program and asks, `confirm_command_edit`
answers, the worker acknowledges and starts the program.

| Variable | Code |
|---|---|
| `held`, `withdrawn`, `decision`, `review`, `answer`, `confirmed` | `Sessions`, and the fields of a `Session` with its one-shot channels |
| `prepare`, `confirm`, `ticket`, `undo` | the two calls, the ticket that aborts them, a `cancel_command_edit` between the session and its job |
| `order`, `worker`, `signal` | unfinished jobs, where the worker of a review stands, its cancel channel |
| `workspace`, `recipe` | owned progress exists; it has the old or the new settings and command |
| `task`, `told` | the kind of request; ghost for a refusal or cancellation that has returned |

Calls: `Prepare`, `NewSettings`, `Admit` / `Refuse`, `EndPrepare`, `Confirm`, `Clear`,
`EndConfirm`, `CancelResult`, `EndResult`; cancellation: `CancelCommandEdit` (the client, or
`cancel_command_reviews` when the page is loaded again) with `EndCancel`, `CancelTicket`,
`CancelJob`, `CancelAllJobs`; the worker: `Start`, `SaveProgress`, `Ask`, `TakeDecision`,
`Acknowledge`, `Launch`, `Spawn`, `Succeed`, `Fail`, `Finish`, `LeaveQueue`. `Launch` is the
last look at the cancellation; the log is opened in an await before `Spawn`
(`supervisor.rs:250-254`), so a program may be started after its review was canceled, and is
then ended. `Fail` is every error, and the cancellation wherever the code looks at it.
`Finish` is `discard_unconfirmed_command` and `Session::finish`, between which no other part
looks. Calls that overlap on one review are one; a page load that stops at its first error
and the closing application are not modelled.

### Execution

A pause, a pipeline and a review share no state, so a behaviour is about one of them
(`side`). The module extends `PauseControl`, instantiates the other two and states the
fairness of the three.

### StandaloneRecovery, SavedProgress

The workspace directory of one standalone encode, file by file, with the attempts that
fill it. A step is one file operation a crash can separate from the next.

| Variable | Code |
|---|---|
| `job` | encoder and pass mode, which fix the phases an attempt goes through |
| `root`, `manifest`, `content`, `leftover`, `foreign` | the directory, `manifest.json`, the copied artifacts, a `manifest.next-*`, an entry of another program |
| `at`, `part`, `file` | where the attempt, discard or cleanup stands |
| `mem`, `seed` | `Recovery.manifest` and the source it was prepared for |
| `locator`, `published` | `JobSnapshot.standalone_recovery`, state Succeeded |
| `output`, `released` | ghosts: what was published, whether a removal has begun |

`Prepare`, `Resume` (validated in `resume_job`) and `Adopt` / `Refuse` (prepared again when
its turn comes) start an attempt. Each phase is `EnsureWorkspace`, `CreateCopy`,
`VerifyCopy`, `StageManifest`, `RenameManifest`, `RecordLocator`. `Cleanup` and `Discard`
lead to `RemoveArtifact`, `RemoveDirectory`, `RemoveManifest`, `RemoveRoot`,
`ForgetLocator`. `GiveUp` is any failing step or a cancellation, `Crash` and `Restart` the
end of the process and `JobManager::open` with `discover_locator`. `ChangeSource`,
`EditArtifact` and `ForeignEntry` are other programs while no attempt holds the files.

Abstracted: the source stands for everything the manifest binds (settings, tools, plan,
frame count); a content is the version of the source it was made from; a fingerprint
matches until somebody edits the file; the receipts of pass one are one file in its own
directory; `workspace.lock` comes and goes with the directory; a file that was synced keeps
its name over a crash; a canceled and a failed attempt leave the same files. The saves of
`remember_source_filter_contract` and `remember_source_qtgmc` add bindings, not phases, and
are not steps. Publication is one step, as in `JobManager`.

`SavedProgress` is the promise: what is kept only grows until the job is published or its
progress is being discarded, and the history never names more than is kept.
`ImplementsSavedProgress` maps it to the ranks of `manifest.phase` and `locator`.

A limit that follows from the code and that the model shows rather than forbids: a removal
that is interrupted, a `manifest.next-*` or a copy without a receipt, and a crash between
the creation of the directory and its first manifest leave a workspace that cleanup and
discard refuse and the user has to remove by hand. That is what the source asks for
("cleanup preserved every entry for review", and its test at
`jobs/standalone_recovery.rs:1587`), so no property forbids it.

### Av1anRecovery

The workspace of one chunked encode. The engine (external) plans a queue, writes chunks,
notes them in `done.json` and joins them; beside it a checkpoint seals the noted chunks in
`manifest.json` every second, and once more after its end.

| Variable | Code |
|---|---|
| `settings`, `known`, `delivered` | `JobSnapshot.encode_settings`, `.recovery`, Succeeded |
| `saved`, `work`, `draft` | `manifest.json`, `Workspace.manifest`, the manifest being written |
| `chunk`, `queue`, `done`, `video` | files of `chunks/encode`, `chunks.json` with `scenes.json`, `done.json`, the joined intermediate |
| `stage`, `next` | where the attempt or the action stands; the settings a reset installs |
| `stray`, `lost`, `product` | a temporary file of an interrupted write; ghosts for an interrupted removal and for what was published |

Attempts: `Prepare`, `Resume`, `Adopt` / `Refuse`, `Sanitize` (partial chunks and foreign
notes go), `SavePrepared`, `RecordPrepared`, then `Launch`, `StartChunk`, `FinishChunk`,
`Join`, `StopEngine` of the engine against `Checkpoint`, `Commit`, `FailCheckpoint`,
`Finalize`, `Publish`. Actions on an idle workspace: `DeleteEncode` with its removal,
`BeginReset` for Delete Chunks and New Settings with every step of `reset_chunks` and
`new_settings` up to `PersistRenewed`. `GiveUp`, `Crash`, `Restart`, `ChangeSource`,
`EditChunk` as above.

Abstracted or left out: the source workflow (retained queues, source cuts), probes of a
target quality, copied segments, launch images, edited commands and Clear All over several
jobs; the engine ends with the application; the history is saved with the publication.

### OutputFile

The verified file of an operation on its way to the user's destination, as on Unix.

| Variable | Code |
|---|---|
| `names` | the files at the destination, at the hidden name of `Temporary`, and elsewhere |
| `survivors` | what `names` may be after the machine stops |
| `flushed`, `whole` | the synced bytes of the made file, and whether it is complete |
| `inPlace`, `edited`, `canceled` | `request.in_place`, the fingerprint of the original, the cancel channel |
| `step` | where the commit stands |

`Flush`, `Publish`, `Cleanup` are `Temporary::publish` (files.rs); `Recheck`, `Exchange`,
`Inspect`, `SyncDirectory`, `Approve`, `RemoveBackup` and the roll-back `Reexamine`,
`RollBack`, `RemoveMade` are `replace_target` (replace.rs); `Abandon` and `Retain` are the
errors before and after the commit. `MoveAway`, `Place`, `EditOriginal` are other programs
at the destination, `Stop` the machine.

Assumed: nobody else knows the hidden name; changes of names reach the disk in their order,
so that what survives is a state the names have been in since the last directory sync; an
edit changes the fingerprint. Between the last look at the original and its exchange an
edit through an open handle is not seen by the code either. `publish` does not sync the
directory after its link, so that a published file outlives the machine is claimed for a
replacement in place only. Windows is not modelled.

### HistoryFile

`jobs.json` and the lock that a manager and its writes share (history.rs). `managing` are
the managers that have it open, `writer` the save of each with its step, `record` the file
as programs see it, `outcomes` what it may be after the machine stops; `saves` and
`reported` number the saves. `Open`, `Close` (the manager goes, its blocking write stays),
`BeginSave`, `Sync`, `Rename`, `SyncDirectory`, `Fail`, `Stop`. The three outcomes of
`Persist` in `JobManager` are those of these steps: done, failed before the rename, failed
after it. The content of a record is the number of its save; other programs leave it alone.

### DurableFiles

What jesses keeps on disk: the phases of a standalone encode, the chunks of an av1an encode,
the finished file, the history. They share no file, so a behaviour is about one of them
(`kind`); the two kinds of saved work share the source. Settings with the av1an backend keep
chunks, all others phases (`encode.rs`). The module extends `StandaloneRecovery` and
instantiates the other three.

## 4. Runs

| Run | Checks | Instance |
|---|---|---|
| `job_queue` | publication against cancel, history limit, refinement of `JobQueue` | 3 jobs, two for one destination, one copy job, one reviewed and edited job, a batch of two, history of 2 |
| `job_requests` | destinations, pause and checkpoints over a resume and a restart; Stop Queue against probing and validating requests; memory and file agree; failed writes cancel; no wrong relabeling; closing; what success owns, also in a file that a failed write or the end of the process left | 2 jobs, one a copy job, one destination, a batch, 1 resume call, 1 Stop Queue, writes may fail, 1 restart |
| `job_liveness` | the turn order over resumes; canceled jobs end, the queue drains, shutdown returns; success survives overlapping resumes | 2 jobs, one a copy job, 2 resume calls |
| `job_edited_cleanup` | violated: finding 1 | 1 reviewed job |
| `job_paused_publishes` | violated: finding 2 | 1 job |
| `recovery_crash` | saved progress is usable after any interruption, the output has one source and one recipe, the receipt goes last, nothing foreign is removed, refinement of `SavedProgress`; no file lost and no answer undone by a publication; the last reported save is kept | phases: SVT-AV1 and x265, one and two passes, up to 5 copies; chunks: 2 chunks, 2 settings, 2 resets; 2 versions of the source, 2 restarts; 2 files of other programs; 2 managers, 3 saves |
| `recovery_chunks_crash` | violated: finding 5 | the same |
| `completion_finish` | the finish action is dispatched only idle, after success, after a countdown; nothing starts after it; it is dispatched or disarmed in the end | 2 jobs, 1 ticket, countdown of 2 |
| `completion_resumed_failure` | violated: finding 3 | 2 jobs |
| `execution_sides` | tools follow the pause, clock, end of a pause, a canceled run ends; a run of two tools ends and reports the truth; a canceled review never completes, an unconfirmed one leaves nothing, nobody waits for ever | pause: a pipeline, then a tool; clock to 4; 1 missed confirmation. Pipes of 1 record, 2 records a tool. 1 review of any kind, behind 1 ordinary job |
| `execution_unrestored` | violated: finding 7 | the same |
| `pause_refused` | violated: finding 4 | a pipeline, then a tool; clock to 2; no missed confirmation |

Why the bounds are enough. The job properties relate at most two jobs and one place where
they meet (a destination, a turn, the history limit); a third job is there for a batch that
meets a job of its own destination. `MaxHistory = 2` is reached, so pruning and refusal both
happen. `MaxPlace` counts admissions and resumes: two or three allow every job of a run to
be queued and, where there are resume calls, one of them to be resumed. `MaxEpoch = 1` suffices
because requests compare an epoch for equality only; `MaxSession = 1` because a restart
forgets everything but the files. In `CompletionMonitor`, `Countdown` and `TicketLife` are
multiples of one unit that differ, `MaxTickets` is reached, and `MaxGeneration` allows an arming, an
admission and a cancellation around one claim. In `PauseControl` a run has at most two trees in the
code; the second run shows a control used again. In `DurableFiles`, SVT-AV1 has no timing
wrapper and x265 has one, so with both pass modes every chain of phases occurs; 5 copies are
a complete two-pass chain and one copy that was interrupted; two restarts
allow an interrupted attempt whose resume is interrupted again; two resets allow New
Settings that are changed once more or followed by Delete Chunks; a second chunk lets one be
sealed while the other is being written. The two versions of the source and the two chunks
are symmetric; no property of the run is about liveness. Two files of other programs are one
that is moved over the destination and one that is moved over that; two managers are one
whose write outlives it and the next. In `Pipeline` a tool with two records can fill a pipe
of one and block at it, at any stream, while the other does the same; `Amount` is over all
its streams. In `CommandEdit` sessions meet only in the queue and in Stop Queue, so that one
review, with a job before it that delays its turn, meets everything its steps depend on.

`CHECK_DEADLOCK FALSE` appears only for `CompletionMonitor`: its sampling task ends when
the application closes, and its counters are bounded. `Pipeline` and `CommandEdit` name the
states in which they may stop (`Over`), so that any other stop is reported. Symmetry (of jobs and of tickets) is
used in `completion_resumed_failure` only, which checks no liveness.

### Fairness

* `JobManager`: Tokio runs every ready task, so each kind of worker step is weakly fair;
  the tools a job runs end by themselves or because they are canceled. A paused job owes a
  step only when it is canceled. No request of a user is fair; `QueueDrains` therefore
  assumes that jobs are not left paused for ever.
* `CompletionMonitor`: the sampling task, the command that holds the admission mutex and
  time are weakly fair; jobs and started inspections end. Nobody has to use a reserved
  ticket: its expiry alone must let the action settle.
* `PauseControl`: the supervising task and the blocking thread are weakly fair. Dropping an
  attachment is strongly fair, because requests may take the mutex again and again and a
  thread that waits for it gets it in the end.
* `Pipeline`: one task polls all futures of the loop, so some supervising step that can be
  taken is taken; a tool that is not blocked goes on and ends. Nobody has to cancel, and no
  time limit has to come.
* `CommandEdit`: the calls, a begun cancellation, the worker and the jobs before it go on by
  themselves. The user need not confirm or cancel.

### Findings

1. **A published job can become Failed** (`job_edited_cleanup`). A reviewed-command encode
   returns the error of its workspace cleanup after publication, and the final change
   relabels the succeeded job. The other encodes log it.
2. **A paused job can publish** (`job_paused_publishes`). Only image export and queue
   concatenation wait for a pause; a job paused after its last tool publishes and succeeds.
3. **A resumed job need not join the armed queue** (`completion_resumed_failure`). If it
   fails again between two samples, the finish action goes ahead.
4. **A pipeline whose producer has ended cannot be paused** (`pause_refused`). Its reaped
   tree refuses the signal as long as the consumer works.
5. **The end of the process inside a checkpoint locks the chunks away**
   (`recovery_chunks_crash`). The temporary file of the write stays, and the tree check
   takes it for a foreign artifact: the job can be neither resumed nor discarded.
6. **The progress of an AOM encode of HDR10 input is refused once its timing wrapper is
   saved.** `validate_layout` does not expect the receipt the attempt wrote. No run shows it
   (`Encoders` leaves `aomHdr10` out of the passing run); the theorem `HdrProgressRefused`
   states it for every reachable state.
7. **Backing out of new settings does not always restore the old ones**
   (`execution_unrestored`). They are saved before the job is queued, and a review that is
   canceled while the job waits for its turn only ends the session: the backup is restored
   by `execute` alone. A resume that is refused after the change leaves the same.
8. **A paused job is shown as running after its command is confirmed.** The decision sets the state to Running whatever it was, while
   the pause control stays paused. A stop that is accepted just before is overwritten as
   well, and the job ends as Canceled instead of Stopped: its progress cannot be discarded. No run
   is kept for it: give `MCJobManager_paused.cfg` `ReviewedJobs <- OneJob` and the invariant
   `FrozenOnlyIfPaused`, and TLC finds it in six steps (`Confirm` is the last).

## 5. Proofs

All theorems hold for every value of the constants that satisfies the named assumptions
(`JobAssumption`, `BoundAssumption`, `CompletionAssumption`, `PauseAssumption`,
`RecoveryAssumption`, `DurableAssumption`), so for any number of jobs, destinations,
batches, resume calls, tickets, runs, trees, source versions, chunks, settings, files of
other programs, managers and saves, and any bounds.

* `JobManager_proofs`: `TypeCorrect`, by one lemma per group of actions and one each on
  `Persist` and `Change`; then `HistoryFaithful`, `FailureCancels`, `DestinationsKeptApart`,
  `ClosingStartsNothing`. The inductive invariant is `SafetyInv`: the types, the three
  invariants and `WorkersUnfinished`, by which a worker before its publication works for
  an unfinished, listed job. It is needed because `DestinationsDistinct` is not inductive by itself: a
  worker that changed the state of an entry that has ended would bring an unfinished job
  back next to a later one for the same destination. Every step is first shown either to
  continue (no new unfinished job), to admit a set of jobs at free destinations, or to
  reopen; the invariants follow from the class of the step.
* `JobPublication_proofs`: `NoPublicationAfterCancel`, `SuccessMeansOutput` and
  `SuccessLasts`. The last one assumes `EditedJobs = {}`; finding 1 shows that it fails
  otherwise. Its invariant, `Remembered`, says that the worker of a succeeded job still
  carries the result of its publication, and that no resume in flight was validated against
  a success, so that the comparison of snapshots in `resume_job` rules out a job that has
  succeeded since.
* `JobOrder_proofs`: `TurnsInOrder`, `FrozenIsShown`, `CheckpointsAreKnown`,
  `StopQueueReaches`, `CancellationsAreRequested`, `HistoryStaysReadable` and
  `QueueKeepsPromise`, the refinement of `JobQueue`. `FrozenIsShown` and
  `CancellationsAreRequested` assume `ReviewedJobs = {}`: a decision overwrites the state of
  its job, and finding 8 shows the first fail. The others hold with reviewed jobs. Here a
  step is the move of one worker (`WorkerEffect`, `Moves`), a request that admits nothing
  (`RequestEffect`), an admission (`Joins`, or `JoinFails` when its save fails) or a
  restart; the admissions take places that were never given. `OrderInv` relates a snapshot
  to where its worker stands: places are given once (`Placed`), whoever executes holds the
  slot (`SlotHeld`), an unfinished job has a worker that will still end it (`Attended`),
  what a local result means at each stage (`Resulting`), who may be shown as working and, of
  the jobs without review, be frozen (`Shown`, `FrozenShown`), that a cancellation of such a
  job that nobody asked for comes from a failed write (`CancelShown`), that the file is
  never ahead of memory (`DiskBehind`), when a manifest is not yet named
  (`CheckpointNamed`), and that a resume under way has checked an ended job at a place that
  is not given again (`ResumeChecked`). The turn order needs the last: a resumed job goes to
  the end of the list, so it can never come to stand before the job whose turn was checked.
  For the length of the history, `EvictionRoom` counts what pruning leaves. In the
  refinement a worker's move is a start, a publication, a leave or a stutter, and an
  admission that cancels others after a failed write is a stutter.
* `CompletionMonitor_proofs`: `DispatchedIdle`, `DispatchedAfterSuccess`,
  `DispatchedAfterCountdown`, `DispatchedStartsNothing`. The invariant, `MonitorInv`, has the
  types and five parts: who holds the admission mutex (`Admission`), what the sampler knows
  of inspections and jobs while nothing has been admitted since its tick (`Sampled`), that
  the countdown began no earlier than the last admission (`Counted`), that a queued job is
  armed or has yet to be seen (`Joined`), and that the bound on generations leaves room for
  the dispatch (`Bounded`). `Sampled` carries the argument: an admission changes the
  generation, and a job that becomes active without one does so under a ticket, which the
  claim sees.
* `Execution_proofs`, on the pause: `ClockCorrect`, `PauseEnds`, `ToolsFollow`, and that they
  hold of an execution (`ExecutionPausesRight`). `PauseInv` says that the
  clocks are ordered numbers, a walking request wants the opposite of the present state
  (`Walking`, the mutex kept for the whole walk), and the scope is entered exactly while
  the operation is inside, with nothing attached between runs (`Scoped`). `ToolsFollowPause`
  speaks of the moments between requests; `WalkInv` carries it through a walk: every target
  is before the walk or behind it (`Walked`), only trees of the present run live, and the
  attached ones are its first (`Running`), what a request to pause has halted it can undo
  (`Halting`), and a request to continue fails only while its run is being cleaned up, where
  trees that stay halted are about to be killed (`Continuing`). Nothing outside the targets
  is halted unless its run is given up (`Detached`).
* `Execution_proofs`, on the run of two tools: `ReturnsComplete`. `PipeInv` counts records
  (`LoggedKept`: written is logged or in the pipe; `CarriedKept`: the producer's output is in
  its pipe, in the hand, in the consumer's pipe or read), and says when a stream has no
  writer left (`Staged`, `Drained`, `Carried`), so that an empty pipe whose writers are gone
  stays empty; `Reported` ties the verdict to these.
* `Execution_proofs`, on reviewed commands: `NothingLeftUnconfirmed`, `CanceledStaysStopped`.
  The second does not say that no program is started after a cancellation, which the code
  allows, but that none gets past its last look any more and none ends in success.
  `ReviewInv` has, for each review, that its worker passes the hold only with a decision
  (`Begun`), that nobody is told of an end but by it (`Told`), that a worker whose review was
  refused or canceled is stopped or before a hold it cannot pass (`Doomed`), and that a fresh
  encode has progress only between its start and its end (`Discardable`).
* `StandaloneRecovery_proofs`: `RecoveryTypes`, `HdrProgressRefused`, and for a workspace of
  its own `SavedProgressIsUsable`, `PublishedFromOneSource`, `ManifestGoesLast`,
  `OnlyReceiptsRemoved` and `KeepsPromise`. The invariant, `RecoveryInv`, adds to the types what is true of the
  disk at any moment (`OnDisk`: a manifest has exactly the receipts of its phase, and until
  a removal begins each names a complete copy of the manifest's source), what a running
  attempt knows in addition (`InAttempt`: nobody else has touched the files, the copy under
  way is newer than every receipt, the staged manifest is the old one and this receipt) and
  what a removal has left (`InRemoval`). The heart is that a rename may or may not be seen
  after a crash: both manifests are sound (`StagedManifest`, `Renamed`). `SavedProgressIsUsable`
  assumes `WrapperKnown`, the absence of the encoder of finding 6. `KeepsPromise` shows that
  every step is a step of `SavedProgress` or a stutter.
* `DurableFiles_proofs`, of the specification that `recovery_crash` runs: `NoFileLost`,
  `AnswersStand`, `LastSaveSurvives`, `OneRecipeThroughout`, `SealedChunksKept`,
  `SavedPhasesUsable`, `OneSourceThroughout`, `ManifestLast`, `RemovalsListed` and
  `PhasesKeepPromise`. For the finished
  file the invariant `OutputInv` is about every arrangement of names that may survive, not
  only the present one (`Lossless`: files have one name, those of others exist, an unflushed
  file is not at the destination); once the directory is synced none of them has the
  original in its place (`Replacing`), which is what allows the backup to go. For the
  history, `HistoryInv` says that one manager or its write has the lock (`Alone`), so that
  what is written is the newest save and synced before its rename (`Newest`), and every
  possible record is whole and at least the reported save (`Readable`). For the chunks and the
  phases, the module takes the proofs of the two workspaces (an instance of
  `Av1anRecovery_proofs`, whose steps are shown to be those of `Chunked`, and
  `StandaloneRecovery_proofs` itself); the invariants `ChunkInv` and `PhaseInv` are theirs
  while the behaviour is about that workspace, and say that it is not yet made otherwise.
* `Av1anRecovery_proofs`, of a workspace of its own: `WorkInvariant`, `OneRecipePublished`,
  `SealedChunksUsable`, under
  `Names` (a part of `DurableAssumption`), which keeps marks apart from settings and versions. `WorkInv` says that a sealed
  queue has the settings of its manifest and of the history and that every stamp has the
  recipe of that queue (`Shapes`), that until a removal of ours begins the files are as the
  manifest in place says or edited (`OnDisk`), and what an attempt, a reset and a removal
  may rely on meanwhile (`InAttempt`, `InReset`, `InHand`). `DraftFits` is what makes a
  crash inside a save harmless for the files: the manifest being written is as true of them
  as the one it replaces. `SealedChunksUsable` leaves out what the source leaves out:
  edited chunks, an interrupted removal (`lost`), an interrupted write (`stray`, finding 5)
  and a workspace without a sealed queue (before the first checkpoint, or after New
  Settings).

The invariants of these proofs were checked by TLC on the instances of section 4 before they
were proved. Two of them changed the model: `Placed` failed because an admission whose save
failed gave its place again, and `Running` because `Unattached` did not say in which order
the trees of a run are attached.

Every safety property of the passing runs has a theorem. Only model-checked: the liveness
properties (`CanceledEnds`, `QueueDrains`, `FinishSettles`, `CanceledRunEnds`,
`PipelineEnds`, `ReviewSettles`), which need fairness and ENABLED; what the violated runs
check; and that the states in which the models stop are the ones meant (deadlock). The
bounds of the runs are constants of the theorems too. Only
proved: finding 6, and the types of `StandaloneRecovery`, `JobManager` and
`CompletionMonitor`.

## 6. Not modelled

The parts of section 2 that are still to come; Windows job objects and console windows; the
contents of media, arguments, probes and logs; the frontend; packaging. `PROJECT.json` gives
the reason for each component.
