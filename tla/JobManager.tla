----------------------------- MODULE JobManager -----------------------------
(***************************************************************************)
(* The durable job queue of crates/media-runtime/src/jobs.rs: admission,    *)
(* the worker task of every job, cancel, stop, pause, Stop Queue, resume,   *)
(* discard, shutdown, the history file, and a crash followed by a restart.  *)
(*                                                                         *)
(* One action is one critical section of the state mutex, or one step a     *)
(* worker takes between two of them.  A job is one request: its             *)
(* destination and its kind are constants.  Vec<Entry> is a function from   *)
(* jobs to snapshots whose "place" orders them; gaps mean nothing.  The     *)
(* recovery workspace is the standalone encoder's (a durable manifest);     *)
(* logs, errors, sizes and progress are left out.                           *)
(***************************************************************************)
EXTENDS Naturals, FiniteSets, Sequences

CONSTANTS
  Job,           \* job identifiers; an identifier is used once
  Dest,          \* output pathnames
  DestOf,        \* the destination of each request
  CopyJobs,      \* remux and mux jobs: no encoder, no recovery
  ReviewedJobs,  \* encodes an attempt of which is reviewed
  EditedJobs,    \* those of them whose command the user changes then
  Batches,       \* the batches (sequences of jobs) a client may submit
  ResumeCall,    \* concurrent resume_job calls
  None,          \* "no job"
  MaxHistory,    \* MAX_HISTORY: entries the history holds
  MaxPlace,      \* bound: admissions and resumes in a behaviour
  MaxEpoch,      \* bound: Stop Queue requests in one session
  MaxSession,    \* bound: restarts
  StorageFaults  \* whether a history write may fail

ASSUME JobAssumption ==
  /\ DestOf \in [Job -> Dest]
  /\ CopyJobs \subseteq Job
  /\ ReviewedJobs \subseteq Job \ CopyJobs
  /\ EditedJobs \subseteq ReviewedJobs
  /\ Batches \subseteq Seq(Job)
  /\ None \notin Job
  /\ StorageFaults \in BOOLEAN

ASSUME BoundAssumption ==
  /\ MaxHistory \in Nat \ {0}
  /\ MaxPlace \in Nat
  /\ MaxEpoch \in Nat
  /\ MaxSession \in Nat

VARIABLES
  entry,         \* State.entries: the snapshot of every job
  cancel,        \* the watch channel of each entry
  paused,        \* PauseControl.paused_at of each entry
  pc,            \* where the worker task of each job stands
  result,        \* the result local to the worker's execute
  slot,          \* holder of the execution mutex
  shuttingDown,  \* State.shutting_down
  storageError,  \* State.storage_error is set
  epoch,         \* State.submission_epoch
  batch,         \* the batch submission in flight
  resume,        \* the resume_job calls in flight
  tail,          \* the place the next pushed entry gets
  disk,          \* the history file
  workspace,     \* which jobs own a complete recovery manifest on disk
  out,           \* which job's output stands at each destination
  requested,     \* ghost: the epoch in which a job's attempt was requested
  session        \* ghost: restarts so far

memory  == <<entry, cancel, paused, shuttingDown, storageError, epoch>>
workers == <<pc, result, slot>>
calls   == <<batch, resume, tail, requested>>
durable == <<disk, workspace, out>>
vars    == <<memory, workers, calls, durable, session>>

-----------------------------------------------------------------------------
(* Snapshots.  Operators marked "Seeded fault" are not part of the         *)
(* specification: each is a plausible mistake that replaces the definition *)
(* after it when the properties are tested for their power.                *)

Terminal == {"Succeeded", "Canceled", "Failed", "Interrupted", "Stopped"}
Pausable == {"Preparing", "Running", "Paused", "Finalizing"}
JobState == Terminal \cup Pausable \cup {"Queued", "Canceling", "Stopping"}

Snapshot == [place : Nat, state : JobState, saved : BOOLEAN]
NoEntry  == [place |-> 0, state |-> "Canceled", saved |-> FALSE]

Listed(e) == {j \in Job : e[j].place > 0}
Unfinished(e) == {j \in Listed(e) : e[j].state \notin Terminal}

Waiting   == {"turn", "wait", "head"}
Attempt   == {"start", "prepare", "run", "finalize"}
Executing == Attempt \cup {"checkpoint", "published", "forget"}
Closing   == {"report", "settle", "release"}
Stage     == {"new", "done"} \cup Waiting \cup Executing \cup Closing

Max0(n) == IF n > 0 THEN n ELSE 0
Before(e, j, k) == e[j].place < e[k].place
Encodes == Job \ CopyJobs

(* Seeded fault: the wake-up of waiting workers is forgotten. *)
NotifiedNobody == pc

(* queue_changed.notify_waiters: a worker registers before it checks, so a *)
(* notification after its check is never lost.                             *)
Notified == [j \in Job |-> IF pc[j] = "wait" THEN "turn" ELSE pc[j]]

-----------------------------------------------------------------------------
(* History writes.  A failed write leaves the old file, or the new one if  *)
(* only the directory flush failed; it cancels what is unfinished and is   *)
(* never retried.                                                          *)

Saved(e) ==
  /\ ~storageError
  /\ disk' = e
  /\ UNCHANGED storageError

SaveFails(e) ==
  /\ StorageFaults
  /\ ~storageError
  /\ disk' \in {disk, e}
  /\ storageError' = TRUE

(* Seeded fault: a paused job is left alone. *)
CancelUnpaused(e, c) ==
  [j \in Job |-> c[j] \/ (j \in Unfinished(e) /\ e[j].state # "Paused")]

CancelUnfinished(e, c) == [j \in Job |-> c[j] \/ j \in Unfinished(e)]

Persist(e, c) ==
  /\ entry' = e
  /\ \/ storageError /\ cancel' = c /\ UNCHANGED <<disk, storageError>>
     \/ Saved(e) /\ cancel' = c
     \/ SaveFails(e) /\ cancel' = CancelUnfinished(e, c)

(* Seeded fault: only a new state is saved, not a new recovery locator. *)
ChangeOfState(j, snapshot, to) ==
  IF snapshot.state = entry[j].state
  THEN /\ pc' = [pc EXCEPT ![j] = to]
       /\ entry' = [entry EXCEPT ![j] = snapshot]
       /\ UNCHANGED <<cancel, disk, storageError>>
  ELSE /\ pc' = [Notified EXCEPT ![j] = to]
       /\ Persist([entry EXCEPT ![j] = snapshot], cancel)

(* JobManager::change: only a new state or recovery, or a terminal state,  *)
(* is saved and announced.  The worker of j goes on to stage "to".         *)
Change(j, snapshot, to) ==
  IF snapshot = entry[j] /\ snapshot.state \notin Terminal
  THEN /\ pc' = [pc EXCEPT ![j] = to]
       /\ UNCHANGED <<entry, cancel, disk, storageError>>
  ELSE /\ pc' = [Notified EXCEPT ![j] = to]
       /\ Persist([entry EXCEPT ![j] = snapshot], cancel)

-----------------------------------------------------------------------------
(* Admission.                                                              *)

(* Seeded fault: the closing application is not looked at. *)
AcceptingWhileClosing == ~storageError

Accepting == ~storageError /\ ~shuttingDown

(* Seeded fault: jobs already being canceled do not count. *)
DestinationFreeOfLive(j) ==
  \A k \in Unfinished(entry) :
    entry[k].state \notin {"Canceling", "Stopping"} => DestOf[k] # DestOf[j]

DestinationFree(j) == \A k \in Unfinished(entry) : DestOf[k] # DestOf[j]

Prunable(j) ==
  /\ entry[j].state \in Terminal
  /\ ~entry[j].saved
  /\ pc[j] = "done"

(* Seeded fault: room is made only once the history is over its limit. *)
EvictionsTooLate(n) ==
  {P \in SUBSET Listed(entry) :
     /\ Cardinality(P) = Max0(Cardinality(Listed(entry)) + n - 1 - MaxHistory)
     /\ \A j \in P : Prunable(j)}

(* The oldest prunable entries that make room for n more. *)
Evictions(n) ==
  {P \in SUBSET Listed(entry) :
     /\ Cardinality(P) = Max0(Cardinality(Listed(entry)) + n - MaxHistory)
     /\ \A j \in P : Prunable(j)
     /\ \A j \in P, k \in Listed(entry) \ P : Prunable(k) => Before(entry, j, k)}

Without(P) == [j \in Job |-> IF j \in P THEN NoEntry ELSE entry[j]]
QueuedAt(n) == [place |-> n, state |-> "Queued", saved |-> FALSE]

(* admit_job_with_review.  A failed save pops the new entry but not what   *)
(* was pruned for it.  The file may hold the entry all the same, so its    *)
(* place is not given again; the same holds for a batch and a resume.      *)
AdmitJob(j, allowQueue) ==
  /\ pc[j] = "new"
  /\ tail <= MaxPlace
  /\ Accepting
  /\ allowQueue \/ Unfinished(entry) = {}
  /\ DestinationFree(j)
  /\ \E P \in Evictions(1) :
       LET e == [Without(P) EXCEPT ![j] = QueuedAt(tail)] IN
       \/ /\ Saved(e)
          /\ entry' = e
          /\ cancel' = [cancel EXCEPT ![j] = FALSE]
          /\ pc' = [Notified EXCEPT ![j] = "turn"]
          /\ tail' = tail + 1
          /\ requested' = [requested EXCEPT ![j] = epoch]
       \/ /\ SaveFails(e)
          /\ entry' = Without(P)
          /\ cancel' = CancelUnfinished(Without(P), cancel)
          /\ tail' = tail + 1
          /\ UNCHANGED <<pc, requested>>
  /\ UNCHANGED <<paused, result, slot, shuttingDown, epoch, batch, resume,
                 workspace, out, session>>

NoBatch == [jobs |-> <<>>, epoch |-> 0]
Members(b) == {b[i] : i \in DOMAIN b}

(* enqueue_encode_batch up to the probes, which run without the lock. *)
BeginBatch(b) ==
  /\ batch = NoBatch
  /\ \A j \in Members(b) : pc[j] = "new"
  /\ batch' = [jobs |-> b, epoch |-> epoch]
  /\ UNCHANGED <<memory, workers, resume, tail, requested, durable, session>>

(* A probe fails or is canceled, or admission refuses the batch. *)
RejectBatch ==
  /\ batch # NoBatch
  /\ batch' = NoBatch
  /\ UNCHANGED <<memory, workers, resume, tail, requested, durable, session>>

(* Seeded fault: Stop Queue does not reach requests under way. *)
AnyEpoch(at) == TRUE

SameEpoch(at) == at = epoch

BatchDestinationsFree(b) ==
  /\ \A j \in Members(b) : DestinationFree(j)
  /\ \A i, k \in DOMAIN b : DestOf[b[i]] = DestOf[b[k]] => i = k

(* admit_encode_batch_at_epoch: saved before memory changes, so a failed   *)
(* save leaves memory as it was, except for the cancellations.             *)
AdmitBatch ==
  /\ batch # NoBatch
  /\ \A j \in Members(batch.jobs) : pc[j] = "new"
  /\ tail + Len(batch.jobs) <= MaxPlace + 1
  /\ SameEpoch(batch.epoch)
  /\ Accepting
  /\ BatchDestinationsFree(batch.jobs)
  /\ \E P \in Evictions(Len(batch.jobs)) :
       LET at(j) == CHOOSE i \in DOMAIN batch.jobs : batch.jobs[i] = j
           e == [j \in Job |-> IF j \in Members(batch.jobs)
                               THEN QueuedAt(tail + at(j) - 1)
                               ELSE Without(P)[j]] IN
       \/ /\ Saved(e)
          /\ entry' = e
          /\ cancel' = [j \in Job |-> cancel[j] /\ j \notin Members(batch.jobs)]
          /\ pc' = [j \in Job |-> IF j \in Members(batch.jobs) THEN "turn" ELSE Notified[j]]
          /\ tail' = tail + Len(batch.jobs)
          /\ requested' = [j \in Job |-> IF j \in Members(batch.jobs)
                                         THEN batch.epoch ELSE requested[j]]
       \/ /\ SaveFails(e)
          /\ cancel' = CancelUnfinished(entry, cancel)
          /\ pc' = Notified
          /\ tail' = tail + Len(batch.jobs)
          /\ UNCHANGED <<entry, requested>>
  /\ batch' = NoBatch
  /\ UNCHANGED <<paused, result, slot, shuttingDown, epoch, resume, workspace,
                 out, session>>

-----------------------------------------------------------------------------
(* The worker task of a job: run_queued, execute and publication.          *)

(* Seeded fault: a job that is being canceled no longer holds its turn. *)
FirstLive(j) ==
  \A k \in Unfinished(entry) :
    k # j /\ entry[k].state \notin {"Canceling", "Stopping"} => Before(entry, j, k)

FirstUnfinished(j) ==
  /\ j \in Unfinished(entry)
  /\ \A k \in Unfinished(entry) : k # j => Before(entry, j, k)

CheckTurn(j) ==
  /\ pc[j] = "turn"
  /\ pc' = [pc EXCEPT ![j] = IF FirstUnfinished(j) THEN "head" ELSE "wait"]
  /\ UNCHANGED <<memory, result, slot, calls, durable, session>>

(* The select prefers cancellation, but polls its branches one after the   *)
(* other: a cancel raised in between is left to execute's own checks.      *)
TakeSlot(j) ==
  /\ pc[j] = "head"
  /\ slot = None
  /\ slot' = j
  /\ pc' = [pc EXCEPT ![j] = "start"]
  /\ UNCHANGED <<memory, result, calls, durable, session>>

(* Seeded fault: a waiting job notices its cancellation only in its turn. *)
LeaveQueueInTurn(j) ==
  /\ pc[j] = "head"
  /\ cancel[j]
  /\ pc' = [pc EXCEPT ![j] = "report"]
  /\ result' = [result EXCEPT ![j] = "canceled"]
  /\ UNCHANGED <<memory, slot, calls, durable, session>>

LeaveQueue(j) ==
  /\ pc[j] \in Waiting
  /\ cancel[j]
  /\ pc' = [pc EXCEPT ![j] = "report"]
  /\ result' = [result EXCEPT ![j] = "canceled"]
  /\ UNCHANGED <<memory, slot, calls, durable, session>>

PhaseState(s, phase) == IF s \in {"Canceling", "Stopping", "Paused"} THEN s ELSE phase

Phase(j, from, phase, to) ==
  /\ pc[j] = from
  /\ Change(j, [entry[j] EXCEPT !.state = PhaseState(@, phase)], to)
  /\ UNCHANGED <<paused, shuttingDown, epoch, result, slot, calls, workspace,
                 out, session>>

Prepare(j)  == Phase(j, "start", "Preparing", "prepare")
Run(j)      == Phase(j, "prepare", "Running", "run")
Finalize(j) == Phase(j, "run", "Finalizing", "finalize")

(* review_command_initial: the decision, once taken, makes the job Running *)
(* whatever was requested of it since it was held.  How it is taken is     *)
(* CommandEdit's.  Another attempt of the job need not be reviewed.        *)
Confirm(j) ==
  /\ j \in ReviewedJobs
  /\ pc[j] = "prepare"
  /\ Change(j, [entry[j] EXCEPT !.state = "Running"], "run")
  /\ UNCHANGED <<paused, shuttingDown, epoch, result, slot, calls, workspace,
                 out, session>>

(* A step of the attempt fails, or reports the cancellation it observed. *)
Fail(j) ==
  /\ pc[j] \in Attempt
  /\ \E r \in {"failed", "canceled"} :
       /\ r = "canceled" => cancel[j]
       /\ result' = [result EXCEPT ![j] = r]
  /\ pc' = [pc EXCEPT ![j] = "report"]
  /\ UNCHANGED <<memory, slot, calls, durable, session>>

(* The manifest is durable before the snapshot names it. *)
Checkpoint(j) ==
  /\ pc[j] = "run"
  /\ j \in Encodes
  /\ ~workspace[j]
  /\ workspace' = [workspace EXCEPT ![j] = TRUE]
  /\ pc' = [pc EXCEPT ![j] = "checkpoint"]
  /\ UNCHANGED <<memory, result, slot, calls, disk, out, session>>

RecordCheckpoint(j) ==
  /\ pc[j] = "checkpoint"
  /\ Change(j, [entry[j] EXCEPT !.saved = TRUE], "run")
  /\ UNCHANGED <<paused, shuttingDown, epoch, result, slot, calls, workspace,
                 out, session>>

(* publish_verified: one critical section checks the cancellation, links   *)
(* the output without replacing a file, and marks the job.                 *)
(* Seeded fault: the cancellation is not read again under the lock. *)
MayPublishCanceled(j) == out[DestOf[j]] = None

(* Seeded fault: an existing output is replaced. *)
MayReplace(j) == ~cancel[j]

MayPublish(j) == ~cancel[j] /\ out[DestOf[j]] = None

Publish(j) ==
  /\ pc[j] = "finalize"
  /\ MayPublish(j)
  /\ out' = [out EXCEPT ![DestOf[j]] = j]
  /\ Persist([entry EXCEPT ![j].state = "Succeeded"], cancel)
  /\ pc' = [pc EXCEPT ![j] = IF j \in Encodes THEN "published" ELSE "report"]
  /\ result' = [result EXCEPT ![j] = "ok"]
  /\ UNCHANGED <<paused, shuttingDown, epoch, slot, calls, workspace, session>>

RemoveWorkspace(j) ==
  /\ pc[j] = "published"
  /\ workspace' = [workspace EXCEPT ![j] = FALSE]
  /\ pc' = [pc EXCEPT ![j] = "forget"]
  /\ UNCHANGED <<memory, result, slot, calls, disk, out, session>>

(* Cleanup of a published job fails: reported on the job, except that the  *)
(* reviewed-command paths return it as the error of the whole attempt.     *)
KeepWorkspace(j) ==
  /\ pc[j] = "published"
  /\ IF j \in EditedJobs
     THEN /\ result' = [result EXCEPT ![j] = "failed"]
          /\ pc' = [pc EXCEPT ![j] = "report"]
          /\ UNCHANGED <<entry, cancel, disk, storageError>>
     ELSE /\ Change(j, entry[j], "report")
          /\ UNCHANGED result
  /\ UNCHANGED <<paused, shuttingDown, epoch, slot, calls, workspace, out, session>>

ForgetWorkspace(j) ==
  /\ pc[j] = "forget"
  /\ Change(j, [entry[j] EXCEPT !.saved = FALSE], "report")
  /\ UNCHANGED <<paused, shuttingDown, epoch, result, slot, calls, workspace,
                 out, session>>

(* A cancellation caused by a storage failure is reported as that failure; *)
(* the error is read in a critical section before the final change.        *)
(* Seeded fault: the storage failure behind a cancellation is dropped. *)
ReportedAsIs(r) == r

Reported(r) == IF r = "canceled" /\ storageError THEN "failed" ELSE r

Report(j) ==
  /\ pc[j] = "report"
  /\ result' = [result EXCEPT ![j] = Reported(@)]
  /\ pc' = [pc EXCEPT ![j] = "settle"]
  /\ UNCHANGED <<memory, slot, calls, durable, session>>

FinalState(j) ==
  CASE result[j] = "ok"       -> entry[j].state
    [] result[j] = "failed"   -> "Failed"
    [] OTHER -> IF entry[j].state = "Stopping" THEN "Stopped" ELSE "Canceled"

(* The final change; a temporary file that cannot be removed fails a job   *)
(* that has not published.                                                 *)
Settle(j) ==
  /\ pc[j] = "settle"
  /\ \E state \in {FinalState(j)} \cup
                  (IF slot = j /\ FinalState(j) # "Succeeded" THEN {"Failed"} ELSE {}) :
       Change(j, [entry[j] EXCEPT !.state = state], "release")
  /\ UNCHANGED <<paused, shuttingDown, epoch, result, slot, calls, workspace,
                 out, session>>

(* with_pause's scope ends and continues its clock, the slot is dropped,   *)
(* the queue is notified and the task ends.                                *)
(* Seeded fault: the pause of an attempt outlives it. *)
ScopeKept(j) == paused

ScopeDropped(j) == [paused EXCEPT ![j] = FALSE]

Release(j) ==
  /\ pc[j] = "release"
  /\ pc' = [Notified EXCEPT ![j] = "done"]
  /\ result' = [result EXCEPT ![j] = "none"]
  /\ IF slot = j THEN slot' = None /\ paused' = ScopeDropped(j)
                 ELSE UNCHANGED <<slot, paused>>
  /\ UNCHANGED <<entry, cancel, shuttingDown, storageError, epoch, calls,
                 durable, session>>

-----------------------------------------------------------------------------
(* Requests on jobs.                                                       *)

Announced == IF storageError' THEN pc ELSE Notified

(* cancel_job: accepted whatever the storage or shutdown state. *)
CancelJob(j) ==
  /\ j \in Listed(entry)
  /\ IF j \in Unfinished(entry)
     THEN Persist([entry EXCEPT ![j].state = "Canceling"], [cancel EXCEPT ![j] = TRUE])
     ELSE Persist(entry, cancel)
  /\ pc' = Announced
  /\ UNCHANGED <<paused, shuttingDown, epoch, result, slot, calls, workspace,
                 out, session>>

StopJob(j) ==
  /\ j \in Listed(entry) \cap Encodes
  /\ Accepting
  /\ IF entry[j].state \in Terminal \cup {"Stopping", "Canceling"}
     THEN Persist(entry, cancel)
     ELSE Persist([entry EXCEPT ![j].state = "Stopping"], [cancel EXCEPT ![j] = TRUE])
  /\ pc' = Announced
  /\ UNCHANGED <<paused, shuttingDown, epoch, result, slot, calls, workspace,
                 out, session>>

SetJobPaused(j, pause) ==
  /\ j \in Listed(entry)
  /\ Accepting
  /\ entry[j].state \in Pausable
  /\ paused' = [paused EXCEPT ![j] = pause]
  /\ Persist([entry EXCEPT ![j].state = IF pause THEN "Paused" ELSE "Running"], cancel)
  /\ UNCHANGED <<shuttingDown, epoch, workers, calls, workspace, out, session>>

Canceling(e) ==
  [j \in Job |-> IF j \in Unfinished(e) THEN [e[j] EXCEPT !.state = "Canceling"] ELSE e[j]]

(* Stop Queue. *)
CancelAllJobs ==
  /\ epoch < MaxEpoch
  /\ epoch' = epoch + 1
  /\ Persist(Canceling(entry), CancelUnfinished(entry, cancel))
  /\ pc' = Notified
  /\ UNCHANGED <<paused, shuttingDown, result, slot, calls, workspace, out, session>>

NoResume == [job |-> None, snapshot |-> NoEntry, epoch |-> 0]

Resumable(j) ==
  /\ j \in Listed(entry) \cap Encodes
  /\ entry[j].state \in Terminal \ {"Succeeded"}
  /\ entry[j].saved
  /\ pc[j] = "done"

(* resume_job: eligibility is checked, then the lock is dropped while the  *)
(* workspace is validated.                                                 *)
BeginResume(r, j) ==
  /\ resume[r] = NoResume
  /\ Accepting
  /\ Resumable(j)
  /\ resume' = [resume EXCEPT ![r] = [job |-> j, snapshot |-> entry[j], epoch |-> epoch]]
  /\ UNCHANGED <<memory, workers, batch, tail, requested, durable, session>>

RejectResume(r) ==
  /\ resume[r] # NoResume
  /\ resume' = [resume EXCEPT ![r] = NoResume]
  /\ UNCHANGED <<memory, workers, batch, tail, requested, durable, session>>

(* Seeded fault: the job is not compared with the one that was checked. *)
AnySnapshot(j, snapshot) == TRUE

(* The log lines of a snapshot tell attempts apart, as "place" does here. *)
SameSnapshot(j, snapshot) == entry[j] = snapshot

(* Seeded fault: the resumed job takes its old turn. *)
RequeuedInPlace(snapshot) == [snapshot EXCEPT !.state = "Queued"]

Requeued(snapshot) == [snapshot EXCEPT !.place = tail, !.state = "Queued"]

CommitResume(r) ==
  LET j == resume[r].job
      e == [entry EXCEPT ![j] = Requeued(entry[j])]
  IN
  /\ resume[r] # NoResume
  /\ tail <= MaxPlace
  /\ workspace[j]
  /\ Accepting
  /\ SameEpoch(resume[r].epoch)
  /\ SameSnapshot(j, resume[r].snapshot)
  /\ DestinationFree(j)
  /\ \/ /\ Saved(e)
        /\ entry' = e
        /\ cancel' = [cancel EXCEPT ![j] = FALSE]
        /\ pc' = [Notified EXCEPT ![j] = "turn"]
        /\ tail' = tail + 1
        /\ requested' = [requested EXCEPT ![j] = resume[r].epoch]
     \/ /\ SaveFails(e)
        /\ cancel' = [CancelUnfinished(entry, cancel) EXCEPT ![j] = TRUE]
        /\ tail' = tail + 1
        /\ UNCHANGED <<entry, pc, requested>>
  /\ resume' = [resume EXCEPT ![r] = NoResume]
  /\ UNCHANGED <<paused, shuttingDown, epoch, result, slot, batch, workspace,
                 out, session>>

(* discard_av1an_recovery: the workspace goes before the snapshot is saved. *)
DiscardRecovery(j) ==
  /\ Accepting
  /\ j \in Listed(entry) \cap Encodes
  /\ entry[j].state \in {"Stopped", "Failed", "Interrupted"}
  /\ entry[j].saved
  /\ pc[j] = "done"
  /\ workspace[j]
  /\ workspace' = [workspace EXCEPT ![j] = FALSE]
  /\ Persist([entry EXCEPT ![j].saved = FALSE], cancel)
  /\ pc' = Announced
  /\ UNCHANGED <<paused, shuttingDown, epoch, result, slot, calls, out, session>>

-----------------------------------------------------------------------------
(* Shutdown, crash and restart.                                            *)

ShutdownStates ==
  [j \in Job |-> IF j \in Unfinished(entry) /\ entry[j].state # "Stopping"
                 THEN [entry[j] EXCEPT !.state = "Canceling"] ELSE entry[j]]

(* A batch still probing is told to stop and then rejected. *)
Shutdown ==
  /\ ~shuttingDown
  /\ shuttingDown' = TRUE
  /\ Persist(ShutdownStates, CancelUnfinished(entry, cancel))
  /\ pc' = Notified
  /\ UNCHANGED <<paused, epoch, result, slot, calls, workspace, out, session>>

(* Seeded fault: only the locator the history knows is restored. *)
RestoredAsSaved(j) ==
  IF disk[j].place = 0 THEN NoEntry
  ELSE [disk[j] EXCEPT !.state = IF @ \in Terminal THEN @ ELSE "Interrupted"]

(* A durable manifest is adopted even if the history had not named it yet. *)
Restored(j) ==
  IF disk[j].place = 0 THEN NoEntry
  ELSE [place |-> disk[j].place,
        state |-> IF disk[j].state \in Terminal THEN disk[j].state ELSE "Interrupted",
        saved |-> disk[j].saved \/ workspace[j]]

Reopened == [j \in Job |-> Restored(j)]

(* The process ends at any moment and JobManager::open runs in the next    *)
(* one.  An unreadable history leaves an empty queue that accepts nothing. *)
Open ==
  /\ session < MaxSession
  /\ session' = session + 1
  /\ \/ /\ entry' = Reopened
        /\ \/ disk' = Reopened /\ storageError' = FALSE
           \/ StorageFaults /\ disk' \in {disk, Reopened} /\ storageError' = TRUE
     \/ /\ StorageFaults
        /\ entry' = [j \in Job |-> NoEntry]
        /\ storageError' = TRUE
        /\ UNCHANGED disk
  /\ cancel' = [j \in Job |-> TRUE]
  /\ paused' = [j \in Job |-> FALSE]
  /\ pc' = [j \in Job |-> IF pc[j] = "new" /\ disk[j].place = 0 THEN "new" ELSE "done"]
  /\ result' = [j \in Job |-> "none"]
  /\ slot' = None
  /\ shuttingDown' = FALSE
  /\ epoch' = 0
  /\ batch' = NoBatch
  /\ resume' = [r \in ResumeCall |-> NoResume]
  /\ requested' = [j \in Job |-> 0]
  /\ UNCHANGED <<tail, workspace, out>>

(* shutdown has awaited every task: the application exits. *)
Exited ==
  /\ shuttingDown
  /\ \A j \in Job : pc[j] \in {"new", "done"}
  /\ UNCHANGED vars

-----------------------------------------------------------------------------
Init ==
  /\ entry = [j \in Job |-> NoEntry]
  /\ cancel = [j \in Job |-> TRUE]
  /\ paused = [j \in Job |-> FALSE]
  /\ pc = [j \in Job |-> "new"]
  /\ result = [j \in Job |-> "none"]
  /\ slot = None
  /\ shuttingDown = FALSE
  /\ storageError = FALSE
  /\ epoch = 0
  /\ batch = NoBatch
  /\ resume = [r \in ResumeCall |-> NoResume]
  /\ tail = 1
  /\ disk = [j \in Job |-> NoEntry]
  /\ workspace = [j \in Job |-> FALSE]
  /\ out = [d \in Dest |-> None]
  /\ requested = [j \in Job |-> 0]
  /\ session = 0

(* What the execution of job j does while its processes may run. *)
Work(j) ==
  \/ Prepare(j) \/ Run(j) \/ Confirm(j) \/ Finalize(j) \/ Fail(j)
  \/ Checkpoint(j) \/ RecordCheckpoint(j)
  \/ Publish(j) \/ RemoveWorkspace(j) \/ KeepWorkspace(j) \/ ForgetWorkspace(j)

Worker(j) ==
  \/ CheckTurn(j) \/ TakeSlot(j) \/ LeaveQueue(j)
  \/ Work(j)
  \/ Report(j) \/ Settle(j) \/ Release(j)

Request ==
  \/ \E j \in Job, allowQueue \in BOOLEAN : AdmitJob(j, allowQueue)
  \/ \E b \in Batches : BeginBatch(b)
  \/ RejectBatch
  \/ AdmitBatch
  \/ \E j \in Job : CancelJob(j)
  \/ \E j \in Job : StopJob(j)
  \/ \E j \in Job, pause \in BOOLEAN : SetJobPaused(j, pause)
  \/ CancelAllJobs
  \/ \E r \in ResumeCall, j \in Job : BeginResume(r, j)
  \/ \E r \in ResumeCall : RejectResume(r)
  \/ \E r \in ResumeCall : CommitResume(r)
  \/ \E j \in Job : DiscardRecovery(j)
  \/ Shutdown

Next ==
  \/ \E j \in Job : Worker(j)
  \/ Request
  \/ Open
  \/ Exited

Spec == Init /\ [][Next]_vars

(* Tokio runs every ready task, and the tools a job runs end by themselves *)
(* or when they are canceled.  A pause suspends tools, not the worker's    *)
(* own steps after one.  Nothing makes a user submit or continue.          *)
Fairness ==
  \A j \in Job :
    /\ WF_vars(CheckTurn(j))
    /\ WF_vars(TakeSlot(j))
    /\ WF_vars(LeaveQueue(j))
    /\ WF_vars((paused[j] /\ pc[j] \in Attempt => cancel[j]) /\ Work(j))
    /\ WF_vars(Report(j) \/ Settle(j) \/ Release(j))

FairSpec == Spec /\ Fairness

-----------------------------------------------------------------------------
(* Properties.                                                             *)

(* Every variable has its type. *)
TypeOK ==
  /\ entry \in [Job -> Snapshot]
  /\ cancel \in [Job -> BOOLEAN]
  /\ paused \in [Job -> BOOLEAN]
  /\ pc \in [Job -> Stage]
  /\ result \in [Job -> {"none", "ok", "failed", "canceled"}]
  /\ slot \in Job \cup {None}
  /\ shuttingDown \in BOOLEAN
  /\ storageError \in BOOLEAN
  /\ epoch \in Nat
  /\ batch \in [jobs : Batches \cup {<<>>}, epoch : Nat]
  /\ resume \in [ResumeCall -> [job : Job \cup {None}, snapshot : Snapshot, epoch : Nat]]
  /\ tail \in Nat
  /\ disk \in [Job -> Snapshot]
  /\ workspace \in [Job -> BOOLEAN]
  /\ out \in [Dest -> Job \cup {None}]
  /\ requested \in [Job -> Nat]
  /\ session \in Nat

(* No two unfinished jobs write to one destination: admission, batches and *)
(* resume each check it in a critical section of their own.                *)
DestinationsDistinct ==
  \A j, k \in Unfinished(entry) : DestOf[j] = DestOf[k] => j = k

(* The job being executed holds the slot, and everything listed before it  *)
(* has finished: the turn is checked under the state lock, but the slot is *)
(* taken after it, while jobs are admitted, resumed and pruned.            *)
ExecutionOrder ==
  \A j \in Job :
    pc[j] \in {"head"} \cup Executing =>
      /\ pc[j] # "head" => slot = j
      /\ \A k \in Unfinished(entry) : k # j => Before(entry, j, k)

(* Unless a write has failed, the history file and the queue in memory     *)
(* agree on every job, its order, state and recovery: no path that changes *)
(* them forgets to save.                                                   *)
DiskMatchesMemory == ~storageError => disk = entry

(* A job is frozen only while it is shown as paused or is on its way out:  *)
(* a control left paused by an earlier attempt would stall a resumed job   *)
(* that is shown as running, and so would a request that a later change of *)
(* the state forgets.                                                      *)
FrozenOnlyIfPaused ==
  \A j \in Job :
    paused[j] => entry[j].state \in {"Paused", "Canceling", "Stopping"} \cup Terminal

(* After a failed history write everything unfinished has been canceled,   *)
(* so nothing goes on to publish an output that the history cannot record. *)
StorageFailureCancels == storageError => \A j \in Unfinished(entry) : cancel[j]

(* A complete manifest of a listed job whose worker has ended is named by  *)
(* its snapshot, even if the process died between the two writes: saved    *)
(* progress can be resumed and is never pruned as if it were not there.    *)
CheckpointKnown ==
  \A j \in Listed(entry) : pc[j] = "done" /\ workspace[j] => entry[j].saved

(* Stop Queue reaches every request made before it: one whose sources were *)
(* still being probed or validated is never queued afterwards.             *)
StopQueueHolds ==
  \A j \in Unfinished(entry) : requested[j] < epoch => cancel[j]

(* The history never outgrows what History::read accepts, or the next      *)
(* start could not open it.                                                *)
HistoryReopens == Cardinality(Listed(disk)) <= MaxHistory

(* A job recorded as succeeded, in memory or in the history file, owns the *)
(* output at its destination: success is saved after the link, and no      *)
(* later job replaces the file.                                            *)
SuccessOwnsOutput ==
  \A j \in Job : "Succeeded" \in {entry[j].state, disk[j].state} => out[DestOf[j]] = j

(* A cancellation accepted before publication prevents it: no step         *)
(* publishes the output of a job whose channel was already set.            *)
CanceledNeverPublishes ==
  [][\A j \in Job : cancel[j] => (out'[DestOf[j]] = j => out[DestOf[j]] = j)]_vars

(* After publication a job stays succeeded for the rest of the session;    *)
(* later cancellations, cleanup failures and storage failures do not       *)
(* relabel it.                                                             *)
PublishedStaysSucceeded ==
  [][session' = session =>
       \A j \in Job : entry[j].state = "Succeeded" =>
         entry'[j].state = "Succeeded" \/ entry'[j].place = 0]_vars

(* Only a job somebody asked to stop ends Canceled or Stopped.  One that   *)
(* was canceled because the history failed ends Failed.                    *)
OnlyRequestedCancelIsCanceled ==
  [][\A j \in Job :
       /\ j \in Unfinished(entry) \cap Listed(entry')
       /\ entry[j].state \notin {"Canceling", "Stopping"}
       => entry'[j].state \notin {"Canceled", "Stopped"}]_vars

(* Once the application is closing or its history has failed, no job       *)
(* starts a new attempt.                                                   *)
NothingStartsWhileClosing ==
  [][(shuttingDown \/ storageError) /\ session' = session =>
       Unfinished(entry') \subseteq Unfinished(entry)]_vars

(* Native work after the last tool waits as well while its job is paused:  *)
(* no step publishes the output of a job that is shown as paused.          *)
PausedNeverPublishes ==
  [][\A j \in Job : entry[j].state = "Paused" =>
       (out'[DestOf[j]] = j => out[DestOf[j]] = j)]_vars

(* A canceled job ends, even if it is paused or waits behind a paused one, *)
(* and shutdown returns: every worker it waits for ends.                   *)
CanceledEnds ==
  /\ \A j \in Job : (j \in Unfinished(entry) /\ cancel[j]) ~> j \notin Unfinished(entry)
  /\ shuttingDown ~> (\A j \in Job : pc[j] \in {"new", "done"})

(* The queue drains: if users do not leave jobs paused, every admitted job *)
(* gets its turn and ends.                                                 *)
QueueDrains ==
  <>[](\A j \in Job : ~paused[j]) =>
    \A j \in Job : j \in Unfinished(entry) ~> j \notin Unfinished(entry)

(* The abstract queue: unfinished jobs in order, one running, one output   *)
(* per destination.                                                        *)
Queue == INSTANCE JobQueue WITH
  place   <- [j \in Job |-> IF j \in Unfinished(entry) THEN entry[j].place ELSE 0],
  running <- slot,
  output  <- out

ImplementsQueue == Queue!Spec
=============================================================================
