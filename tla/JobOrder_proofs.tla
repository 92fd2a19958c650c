--------------------------- MODULE JobOrder_proofs ---------------------------
(* Theorems about turns, pauses, Stop Queue, recovery, cancellation and    *)
(* the length of the history, and that the queue implements its abstract   *)
(* specification: for every set of jobs and every bound.                   *)
EXTENDS JobPublication_proofs, FiniteSetTheorems

-----------------------------------------------------------------------------
(* What the steps do, once more: places, stages and snapshots.             *)

(* Cancellations and a storage error stay, and what is written is what the *)
(* step leaves in memory.                                                  *)
Keeps ==
  /\ \A k \in Job : cancel[k] => cancel'[k]
  /\ storageError => storageError'
  /\ disk' = disk \/ disk' = entry'

(* A worker moves its own stage, result, snapshot, pause and workspace. *)
WorkerEffect(j) ==
  /\ UNCHANGED <<shuttingDown, epoch, calls, session>>
  /\ Keeps
  /\ \A k \in Job : cancel'[k] => cancel[k] \/ storageError'
  /\ \A k \in Job : entry'[k].place = entry[k].place
  /\ \A k \in Job \ {j} :
       /\ Woken(k)
       /\ UNCHANGED <<entry[k], result[k], paused[k], workspace[k]>>

(* A request that admits nothing cancels, stops, pauses or continues. *)
Redirected(k) ==
  \/ entry'[k].state = entry[k].state
  \/ k \in Unfinished(entry) /\ entry'[k].state \in {"Canceling", "Stopping"}
  \/ entry[k].state \in Pausable /\ entry'[k].state = "Paused"
  \/ entry[k].state \in Pausable /\ entry'[k].state = "Running" /\ ~paused'[k]

(* What it does to job k. *)
RequestOn(k) ==
  /\ Woken(k)
  /\ entry'[k].place = entry[k].place
  /\ Redirected(k)
  /\ cancel'[k] => \/ cancel[k]
                   \/ storageError'
                   \/ entry'[k].state \in {"Canceling", "Stopping"}
                   \/ k \notin Unfinished(entry')
  /\ paused'[k] => \/ paused[k]
                   \/ entry[k].state \in Pausable /\ entry'[k].state = "Paused"
  /\ \/ workspace'[k] = workspace[k] /\ entry'[k].saved = entry[k].saved
     \/ ~workspace'[k] /\ pc[k] = "done"

RequestEffect ==
  /\ UNCHANGED <<result, slot, tail, requested, out, session>>
  /\ Keeps
  /\ epoch' = epoch \/ \A k \in Unfinished(entry') : cancel'[k]
  /\ \A k \in Job : RequestOn(k)

(* No resume begins. *)
NoNewCall == \A r \in ResumeCall : resume'[r] \in {resume[r], NoResume}

(* The jobs of A join the queue and those of P are pruned. *)
Joins(A, P) ==
  /\ A \subseteq Job
  /\ NoNewCall
  /\ ~storageError /\ ~storageError'
  /\ UNCHANGED <<paused, result, slot, shuttingDown, epoch, workspace, out, session>>
  /\ disk' = entry'
  /\ tail' >= tail
  /\ \A j \in A : 
       /\ pc[j] = "new" \/ (pc[j] = "done" /\ entry'[j].saved = entry[j].saved
                                           /\ j \in Listed(entry))
       /\ pc'[j] = "turn" /\ ~cancel'[j] /\ requested'[j] = epoch
       /\ entry'[j].state = "Queued"
       /\ tail <= entry'[j].place /\ entry'[j].place < tail'
       /\ DestinationFree(j)
  /\ \A j, k \in A : j # k => DestOf[j] # DestOf[k] /\ entry'[j].place # entry'[k].place
  /\ P \subseteq Listed(entry) /\ \A k \in P : Prunable(k)
  /\ \A k \in Job \ A :
       /\ entry'[k] = Without(P)[k]
       /\ Woken(k)
       /\ UNCHANGED <<cancel[k], requested[k]>>

(* The history cannot be written: nothing joins, and the file may hold the *)
(* jobs that tried to, at places that are not given again.                 *)
JoinFails(P) ==
  /\ NoNewCall
  /\ ~storageError /\ storageError'
  /\ UNCHANGED <<paused, result, slot, shuttingDown, epoch, requested, workspace, out,
                 session>>
  /\ tail' >= tail
  /\ P \subseteq Listed(entry) /\ \A k \in P : Prunable(k)
  /\ entry' = Without(P)
  /\ \A k \in Job :
       /\ Woken(k)
       /\ cancel[k] => cancel'[k]
       /\ \/ disk'[k] \in {disk[k], entry'[k], NoEntry}
          \/ /\ tail <= disk'[k].place /\ disk'[k].place < tail'
             /\ disk'[k].state = "Queued"

(* A resume under way has checked an ended job, at a place that is not     *)
(* given again: while the job is still there, its worker has ended.        *)
ResumeChecked ==
  \A r \in ResumeCall : resume[r] # NoResume =>
    /\ resume[r].job \in Job
    /\ resume[r].snapshot.place > 0 /\ resume[r].snapshot.place < tail
    /\ resume[r].snapshot.state \in Terminal
    /\ entry[resume[r].job].place = resume[r].snapshot.place => pc[resume[r].job] = "done"

LEMMA PersistKeeps ==
  ASSUME TypeOK, NEW e, NEW c \in [Job -> BOOLEAN], Persist(e, c), \A k \in Job : cancel[k] => c[k]
  PROVE  /\ Keeps /\ entry' = e
         /\ \A k \in Job : c[k] => cancel'[k]
         /\ \A k \in Job : cancel'[k] => c[k] \/ storageError'
BY DEF Persist, Saved, SaveFails, Keeps, TypeOK, CancelUnfinished

LEMMA IdleKeeps ==
  ASSUME UNCHANGED <<entry, cancel, disk, storageError>>
  PROVE  Keeps
BY DEF Keeps

(* Updates of a field of one snapshot, seen from the others and from the   *)
(* other fields.                                                           *)
LEMMA FieldUpdates ==
  ASSUME entry \in [Job -> Snapshot], NEW j \in Job, NEW k \in Job
  PROVE  /\ \A v : [entry EXCEPT ![j].state = v][k] =
                     IF k = j THEN [entry[j] EXCEPT !.state = v] ELSE entry[k]
         /\ \A v : [entry EXCEPT ![j].saved = v][k] =
                     IF k = j THEN [entry[j] EXCEPT !.saved = v] ELSE entry[k]
         /\ \A v : /\ [entry[j] EXCEPT !.state = v].state = v
                   /\ [entry[j] EXCEPT !.state = v].place = entry[j].place
                   /\ [entry[j] EXCEPT !.state = v].saved = entry[j].saved
         /\ \A v : /\ [entry[j] EXCEPT !.saved = v].saved = v
                   /\ [entry[j] EXCEPT !.saved = v].place = entry[j].place
                   /\ [entry[j] EXCEPT !.saved = v].state = entry[j].state
<1>1. entry[j] \in Snapshot /\ entry[k] \in Snapshot
  OBVIOUS
<1>q. QED
  BY <1>1 DEF Snapshot

LEMMA ChangeKeeps ==
  ASSUME TypeOK, NEW j \in Job, NEW s, NEW to, Change(j, s, to),
         s.place = entry[j].place,
         UNCHANGED <<shuttingDown, epoch, calls, session>>,
         \A k \in Job \ {j} : UNCHANGED <<result[k], paused[k], workspace[k]>>
  PROVE  WorkerEffect(j)
<1>1. entry \in [Job -> Snapshot] /\ cancel \in [Job -> BOOLEAN] /\ entry' = [entry EXCEPT ![j] = s]
  BY ChangeEntry DEF TypeOK
<1>2. Keeps /\ \A k \in Job : cancel'[k] => cancel[k] \/ storageError'
  <2>1. CASE UNCHANGED <<entry, cancel, disk, storageError>>
    BY <2>1, IdleKeeps
  <2>2. CASE Persist([entry EXCEPT ![j] = s], cancel)
    BY <1>1, <2>2, PersistKeeps
  <2>q. QED
    BY <2>1, <2>2 DEF Change
<1>3. \A k \in Job \ {j} : Woken(k)
  BY ChangeStages
<1>q. QED
  BY <1>1, <1>2, <1>3 DEF WorkerEffect

LEMMA WorkerShape ==
  ASSUME TypeOK, NEW j \in Job, Worker(j)
  PROVE  WorkerEffect(j)
<1>0. /\ entry \in [Job -> Snapshot] /\ pc \in [Job -> Stage]
      /\ result \in [Job -> {"none", "ok", "failed", "canceled"}]
      /\ paused \in [Job -> BOOLEAN] /\ workspace \in [Job -> BOOLEAN]
      /\ cancel \in [Job -> BOOLEAN]
  BY DEF TypeOK
<1>1. CASE CheckTurn(j) \/ TakeSlot(j) \/ LeaveQueue(j) \/ Fail(j) \/ Report(j)
           \/ Checkpoint(j) \/ RemoveWorkspace(j)
  <2>1. /\ UNCHANGED <<memory, calls, disk, session>>
        /\ \E to : pc' = [pc EXCEPT ![j] = to]
        /\ \A k \in Job \ {j} : UNCHANGED <<result[k], workspace[k]>>
    BY <1>0, <1>1 DEF CheckTurn, TakeSlot, LeaveQueue, Fail, Report, Checkpoint, RemoveWorkspace,
       durable
  <2>q. QED
    BY <1>0, <2>1, IdleKeeps DEF WorkerEffect, memory, Woken
<1>2. ASSUME NEW from, NEW phase, NEW to, Phase(j, from, phase, to)
      PROVE  WorkerEffect(j)
  BY <1>0, <1>2, FieldUpdates, ChangeKeeps DEF Phase
<1>3. CASE Prepare(j) \/ Run(j) \/ Finalize(j)
  BY <1>2, <1>3 DEF Prepare, Run, Finalize
<1>c. CASE Confirm(j)
  BY <1>0, <1>c, FieldUpdates, ChangeKeeps DEF Confirm
<1>4. CASE RecordCheckpoint(j) \/ ForgetWorkspace(j)
  BY <1>0, <1>4, FieldUpdates, ChangeKeeps DEF RecordCheckpoint, ForgetWorkspace
<1>5. CASE Publish(j)
  <2>1. Persist([entry EXCEPT ![j].state = "Succeeded"], cancel)
    BY <1>5 DEF Publish
  <2>2. /\ Keeps /\ entry' = [entry EXCEPT ![j].state = "Succeeded"]
        /\ \A k \in Job : cancel'[k] => cancel[k] \/ storageError'
    BY <1>0, <2>1, PersistKeeps
  <2>3. \A k \in Job : entry'[k].place = entry[k].place /\ (k # j => entry'[k] = entry[k])
    BY <1>0, <2>2, FieldUpdates
  <2>q. QED
    BY <1>0, <1>5, <2>2, <2>3 DEF Publish, WorkerEffect, Woken
<1>6. CASE KeepWorkspace(j)
  <2>1. CASE j \in EditedJobs
    BY <1>0, <1>6, <2>1, IdleKeeps DEF KeepWorkspace, WorkerEffect, Woken
  <2>2. CASE j \notin EditedJobs
    BY <1>6, <2>2, ChangeKeeps DEF KeepWorkspace
  <2>q. QED
    BY <2>1, <2>2
<1>7. CASE Settle(j)
  <2>1. PICK state : Change(j, [entry[j] EXCEPT !.state = state], "release")
    BY <1>7 DEF Settle
  <2>2. UNCHANGED <<paused, shuttingDown, epoch, result, calls, workspace, session>>
    BY <1>7 DEF Settle
  <2>3. [entry[j] EXCEPT !.state = state].place = entry[j].place
    BY <1>0, FieldUpdates
  <2>q. QED
    BY <2>1, <2>2, <2>3, ChangeKeeps
<1>8. CASE Release(j)
  <2>1. \A k \in Job \ {j} : Woken(k) /\ UNCHANGED <<result[k], paused[k]>>
    BY <1>0, <1>8 DEF Release, ScopeDropped, Notified, Woken
  <2>q. QED
    BY <1>8, <2>1, IdleKeeps DEF Release, WorkerEffect, durable
<1>q. QED
  BY <1>1, <1>3, <1>4, <1>5, <1>6, <1>7, <1>8, <1>c DEF Worker, Work

(* Requests that admit nothing. *)
LEMMA NotifiedWakes ==
  ASSUME TypeOK
  PROVE  \A k \in Job : /\ pc' = Notified => Woken(k)
                        /\ pc' = Announced => Woken(k)
                        /\ pc' = pc => Woken(k)
BY DEF TypeOK, Notified, Announced, Woken

(* A request that leaves the snapshots and cancellations alone. *)
LEMMA IdleRequest ==
  ASSUME TypeOK, UNCHANGED <<memory, workers, tail, requested, durable, session>>
  PROVE  RequestEffect
<1>1. UNCHANGED <<entry, cancel, disk, storageError, pc>>
  BY DEF memory, workers, durable
<1>2. ASSUME NEW k \in Job
      PROVE  RequestOn(k)
  <2>1. Woken(k)
    BY <1>1, NotifiedWakes
  <2>q. QED
    BY <1>1, <2>1 DEF RequestOn, Redirected, memory, durable
<1>q. QED
  BY <1>1, <1>2, IdleKeeps DEF RequestEffect, memory, workers, durable

(* The history is saved as it is, or with a job on its way out. *)
LEMMA SavingRequest ==
  ASSUME TypeOK, NEW e \in [Job -> Snapshot], NEW c \in [Job -> BOOLEAN], Persist(e, c),
         pc' \in {pc, Notified, Announced},
         UNCHANGED <<paused, epoch, result, slot, tail, requested, workspace, out, session>>,
         \A k \in Job :
           /\ e[k].place = entry[k].place /\ e[k].saved = entry[k].saved
           /\ \/ e[k].state = entry[k].state /\ c[k] = cancel[k]
              \/ k \in Unfinished(entry) /\ c[k] /\ e[k].state \in {"Canceling", "Stopping"}
  PROVE  RequestEffect
<1>0. cancel \in [Job -> BOOLEAN]
  BY DEF TypeOK
<1>1. \A k \in Job : cancel[k] => c[k]
  BY <1>0
<1>2. /\ Keeps /\ entry' = e
      /\ \A k \in Job : cancel'[k] => c[k] \/ storageError'
  BY <1>1, PersistKeeps
<1>3. \A k \in Job : Woken(k)
  BY NotifiedWakes
<1>4. ASSUME NEW k \in Job
      PROVE  RequestOn(k)
  <2>1. /\ cancel'[k] => c[k] \/ storageError'
        /\ Woken(k)
        /\ paused' = paused /\ workspace' = workspace /\ entry'[k] = e[k]
    BY <1>2, <1>3
  <2>2. CASE e[k].state = entry[k].state /\ c[k] = cancel[k]
    BY <2>1, <2>2 DEF RequestOn, Redirected
  <2>3. CASE k \in Unfinished(entry) /\ c[k] /\ e[k].state \in {"Canceling", "Stopping"}
    BY <2>1, <2>3 DEF RequestOn, Redirected
  <2>q. QED
    BY <2>2, <2>3
<1>q. QED
  BY <1>2, <1>4 DEF RequestEffect

LEMMA CancelStep ==
  ASSUME TypeOK, NEW j \in Job, CancelJob(j) \/ StopJob(j)
  PROVE  RequestEffect
<1>0. entry \in [Job -> Snapshot] /\ cancel \in [Job -> BOOLEAN]
  BY DEF TypeOK
<1>1. /\ pc' \in {pc, Notified, Announced}
      /\ UNCHANGED <<paused, epoch, result, slot, tail, requested, workspace, out, session>>
  BY DEF CancelJob, StopJob, calls
<1>2. \/ Persist(entry, cancel)
      \/ \E to \in {"Canceling", "Stopping"} :
           /\ j \in Unfinished(entry)
           /\ Persist([entry EXCEPT ![j].state = to], [cancel EXCEPT ![j] = TRUE])
  BY DEF CancelJob, StopJob, Unfinished
<1>3. CASE Persist(entry, cancel)
  BY <1>0, <1>1, <1>3, SavingRequest
<1>4. ASSUME NEW to \in {"Canceling", "Stopping"}, j \in Unfinished(entry),
             Persist([entry EXCEPT ![j].state = to], [cancel EXCEPT ![j] = TRUE])
      PROVE  RequestEffect
  <2> DEFINE e == [entry EXCEPT ![j].state = to]
             c == [cancel EXCEPT ![j] = TRUE]
  <2>1. e \in [Job -> Snapshot] /\ c \in [Job -> BOOLEAN]
    BY <1>0, SnapshotUpdates DEF JobState
  <2>2. \A k \in Job : k # j => e[k] = entry[k] /\ c[k] = cancel[k]
    BY <1>0
  <2>3. /\ e[j].place = entry[j].place /\ e[j].saved = entry[j].saved
        /\ e[j].state = to /\ c[j]
    BY <1>0, FieldUpdates
  <2>4. Persist(e, c)
    BY <1>4
  <2> HIDE DEF e, c
  <2>5. \A k \in Job :
           /\ e[k].place = entry[k].place /\ e[k].saved = entry[k].saved
           /\ \/ e[k].state = entry[k].state /\ c[k] = cancel[k]
              \/ k \in Unfinished(entry) /\ c[k] /\ e[k].state \in {"Canceling", "Stopping"}
    BY <1>4, <2>2, <2>3
  <2>q. QED
    BY <1>1, <2>1, <2>4, <2>5, SavingRequest
<1>q. QED
  BY <1>2, <1>3, <1>4

LEMMA PauseStep ==
  ASSUME TypeOK, NEW j \in Job, NEW pause \in BOOLEAN, SetJobPaused(j, pause)
  PROVE  RequestEffect
<1>0. entry \in [Job -> Snapshot] /\ cancel \in [Job -> BOOLEAN] /\ paused \in [Job -> BOOLEAN]
  BY DEF TypeOK
<1> DEFINE to == IF pause THEN "Paused" ELSE "Running"
<1>1. /\ UNCHANGED <<pc, epoch, result, slot, tail, requested, workspace, out, session>>
      /\ Persist([entry EXCEPT ![j].state = to], cancel)
      /\ paused' = [paused EXCEPT ![j] = pause]
      /\ entry[j].state \in Pausable
  BY DEF SetJobPaused, workers, calls
<1>2. /\ Keeps /\ entry' = [entry EXCEPT ![j].state = to]
      /\ \A k \in Job : cancel'[k] => cancel[k] \/ storageError'
  BY <1>0, <1>1, PersistKeeps
<1>3. \A k \in Job : /\ entry'[k].place = entry[k].place /\ entry'[k].saved = entry[k].saved
                     /\ k # j => entry'[k] = entry[k]
                     /\ k = j => entry'[k].state = to
  BY <1>0, <1>2, FieldUpdates
<1>4. ~storageError
  BY DEF SetJobPaused, Accepting
<1>5. \A k \in Job : Woken(k) /\ Redirected(k)
  BY <1>0, <1>1, <1>3, NotifiedWakes DEF Redirected
<1>6. \A k \in Job :
        paused'[k] => \/ paused[k]
                      \/ entry[k].state \in Pausable /\ entry'[k].state = "Paused"
  BY <1>0, <1>1, <1>3
<1>7. ASSUME NEW k \in Job
      PROVE  RequestOn(k)
  BY <1>1, <1>2, <1>3, <1>5, <1>6 DEF RequestOn
<1>q. QED
  BY <1>1, <1>2, <1>7 DEF RequestEffect

LEMMA DiscardStep ==
  ASSUME TypeOK, NEW j \in Job, DiscardRecovery(j)
  PROVE  RequestEffect
<1>0. entry \in [Job -> Snapshot] /\ cancel \in [Job -> BOOLEAN] /\ workspace \in [Job -> BOOLEAN]
  BY DEF TypeOK
<1>1. /\ UNCHANGED <<paused, epoch, result, slot, tail, requested, out, session>>
      /\ Persist([entry EXCEPT ![j].saved = FALSE], cancel)
      /\ workspace' = [workspace EXCEPT ![j] = FALSE]
      /\ pc[j] = "done" /\ pc' = Announced
  BY DEF DiscardRecovery, calls
<1>2. /\ Keeps /\ entry' = [entry EXCEPT ![j].saved = FALSE]
      /\ \A k \in Job : cancel'[k] => cancel[k] \/ storageError'
  BY <1>0, <1>1, PersistKeeps
<1>3. \A k \in Job : /\ entry'[k].place = entry[k].place /\ entry'[k].state = entry[k].state
                     /\ k # j => entry'[k] = entry[k]
  BY <1>0, <1>2, FieldUpdates
<1>4. \A k \in Job : Woken(k) /\ Redirected(k)
  BY <1>1, <1>3, NotifiedWakes DEF Redirected
<1>5. \A k \in Job :
        \/ workspace'[k] = workspace[k] /\ entry'[k].saved = entry[k].saved
        \/ ~workspace'[k] /\ pc[k] = "done"
  BY <1>0, <1>1, <1>3
<1>6. ASSUME NEW k \in Job
      PROVE  RequestOn(k)
  BY <1>1, <1>2, <1>3, <1>4, <1>5 DEF RequestOn
<1>q. QED
  BY <1>1, <1>2, <1>6 DEF RequestEffect

LEMMA ClosingStep ==
  ASSUME TypeOK, CancelAllJobs \/ Shutdown
  PROVE  RequestEffect
<1>0. entry \in [Job -> Snapshot] /\ cancel \in [Job -> BOOLEAN]
  BY DEF TypeOK
<1>1. PICK e \in {Canceling(entry), ShutdownStates} :
        /\ Persist(e, CancelUnfinished(entry, cancel))
        /\ pc' = Notified
        /\ UNCHANGED <<paused, result, slot, tail, requested, workspace, out, session>>
  BY DEF CancelAllJobs, Shutdown, calls
<1>2. \A k \in Job : /\ cancel[k] => CancelUnfinished(entry, cancel)[k]
                     /\ k \in Unfinished(entry) => CancelUnfinished(entry, cancel)[k]
                     /\ CancelUnfinished(entry, cancel)[k] => cancel[k] \/ k \in Unfinished(entry)
  BY DEF CancelUnfinished
<1>3. /\ Keeps /\ entry' = e
      /\ \A k \in Unfinished(entry) : cancel'[k]
      /\ \A k \in Job : cancel'[k] => cancel[k] \/ k \in Unfinished(entry) \/ storageError'
  BY <1>1, <1>2, CancelUnfinishedType, PersistKeeps, UnfinishedJobs
<1>4. ASSUME NEW k \in Job
      PROVE  /\ e[k].place = entry[k].place /\ e[k].saved = entry[k].saved
             /\ \/ e[k] = entry[k] /\ (k \in Unfinished(entry) => entry[k].state = "Stopping")
                \/ k \in Unfinished(entry) /\ e[k].state = "Canceling"
  <2>1. \/ e[k] = entry[k] /\ (k \in Unfinished(entry) => entry[k].state = "Stopping")
        \/ k \in Unfinished(entry) /\ e[k] = [entry[k] EXCEPT !.state = "Canceling"]
    BY <1>1 DEF Canceling, ShutdownStates
  <2>2. LET v == [entry[k] EXCEPT !.state = "Canceling"]
        IN  v.state = "Canceling" /\ v.place = entry[k].place /\ v.saved = entry[k].saved
    BY <1>0, FieldUpdates
  <2>q. QED
    BY <2>1, <2>2
<1>5. \A k \in Job : Woken(k) /\ Redirected(k)
  BY <1>1, <1>3, <1>4, NotifiedWakes DEF Redirected
<1>6. \A k \in Unfinished(entry') : k \in Job /\ cancel'[k]
  BY <1>3, <1>4 DEF Unfinished, Listed
<1>7. ASSUME NEW k \in Job
      PROVE  RequestOn(k)
  <2>1. cancel'[k] => \/ cancel[k]
                      \/ storageError'
                      \/ entry'[k].state \in {"Canceling", "Stopping"}
    BY <1>3, <1>4
  <2>q. QED
    BY <1>1, <1>3, <1>4, <1>5, <2>1 DEF RequestOn
<1>q. QED
  BY <1>1, <1>3, <1>6, <1>7 DEF RequestEffect

-----------------------------------------------------------------------------
(* Requests that admit. *)

LEMMA AdmitJobOutcome ==
  ASSUME TypeOK, NEW j \in Job, NEW allowQueue \in BOOLEAN, AdmitJob(j, allowQueue)
  PROVE  \E P : Joins({j}, P) \/ JoinFails(P)
<1>0. /\ entry \in [Job -> Snapshot] /\ pc \in [Job -> Stage] /\ tail \in Nat
      /\ cancel \in [Job -> BOOLEAN] /\ requested \in [Job -> Nat] /\ disk \in [Job -> Snapshot]
  BY DEF TypeOK
<1>1. PICK P \in Evictions(1) :
        LET e == [Without(P) EXCEPT ![j] = QueuedAt(tail)] IN
        \/ /\ Saved(e)
           /\ entry' = e
           /\ cancel' = [cancel EXCEPT ![j] = FALSE]
           /\ pc' = [Notified EXCEPT ![j] = "turn"]
           /\ tail' = tail + 1
           /\ requested' = [requested EXCEPT ![j] = epoch]
        \/ /\ SaveFails(e)
           /\ entry' = Without(P)
           /\ cancel' = CancelUnfinished(Without(P), cancel)
           /\ tail' = tail + 1
           /\ UNCHANGED <<pc, requested>>
  BY DEF AdmitJob
<1> DEFINE e == [Without(P) EXCEPT ![j] = QueuedAt(tail)]
<1>2. P \subseteq Listed(entry) /\ \A k \in P : Prunable(k)
  BY DEF Evictions
<1>3. /\ UNCHANGED <<paused, result, slot, shuttingDown, epoch, workspace, out, session>>
      /\ pc[j] = "new" /\ Accepting /\ DestinationFree(j) /\ NoNewCall
  BY DEF AdmitJob, NoNewCall
<1>4. /\ e[j].place = tail /\ e[j].state = "Queued"
      /\ \A k \in Job : k # j => e[k] = Without(P)[k]
  BY DEF Without, QueuedAt
<1> HIDE DEF e
<1>5. CASE /\ Saved(e)
           /\ entry' = e
           /\ cancel' = [cancel EXCEPT ![j] = FALSE]
           /\ pc' = [Notified EXCEPT ![j] = "turn"]
           /\ tail' = tail + 1
           /\ requested' = [requested EXCEPT ![j] = epoch]
  <2>1. ~storageError /\ ~storageError' /\ disk' = entry'
    BY <1>5 DEF Saved
  <2>2. \A k \in Job \ {j} : Woken(k) /\ UNCHANGED <<cancel[k], requested[k]>>
    BY <1>0, <1>5 DEF Woken, Notified
  <2>3. pc'[j] = "turn" /\ ~cancel'[j] /\ requested'[j] = epoch /\ tail' >= tail /\ tail < tail'
    BY <1>0, <1>5 DEF Notified
  <2>4. Joins({j}, P)
    BY <1>0, <1>2, <1>3, <1>4, <1>5, <2>1, <2>2, <2>3 DEF Joins
  <2>q. QED
    BY <2>4
<1>6. CASE /\ SaveFails(e)
           /\ entry' = Without(P)
           /\ cancel' = CancelUnfinished(Without(P), cancel)
           /\ tail' = tail + 1
           /\ UNCHANGED <<pc, requested>>
  <2>1. ~storageError /\ storageError' /\ disk' \in {disk, e}
    BY <1>6 DEF SaveFails
  <2>2. \A k \in Job : Woken(k) /\ (cancel[k] => cancel'[k])
    BY <1>6 DEF Woken, CancelUnfinished
  <2>3. \A k \in Job : \/ disk'[k] \in {disk[k], entry'[k], NoEntry}
                       \/ /\ tail <= disk'[k].place /\ disk'[k].place < tail'
                          /\ disk'[k].state = "Queued"
    BY <1>0, <1>4, <1>6, <2>1
  <2>4. JoinFails(P)
    BY <1>0, <1>2, <1>3, <1>6, <2>1, <2>2, <2>3 DEF JoinFails
  <2>q. QED
    BY <2>4
<1>q. QED
  BY <1>1, <1>5, <1>6 DEF e

LEMMA BatchJobs ==
  ASSUME TypeOK
  PROVE  /\ batch.jobs \in Seq(Job)
         /\ Len(batch.jobs) \in Nat /\ DOMAIN batch.jobs = 1 .. Len(batch.jobs)
         /\ Members(batch.jobs) \subseteq Job
<1>1. batch.jobs \in Batches \cup {<<>>}
  BY DEF TypeOK
<1>2. <<>> \in Seq(Job) /\ Batches \subseteq Seq(Job)
  BY JobAssumption
<1>3. batch.jobs \in Seq(Job)
  BY <1>1, <1>2
<1>4. Len(batch.jobs) \in Nat /\ DOMAIN batch.jobs = 1 .. Len(batch.jobs)
  BY <1>3
<1>5. \A i \in DOMAIN batch.jobs : batch.jobs[i] \in Job
  BY <1>3
<1>q. QED
  BY <1>3, <1>4, <1>5 DEF Members

LEMMA AdmitBatchOutcome ==
  ASSUME TypeOK, AdmitBatch
  PROVE  \E A, P : Joins(A, P) \/ JoinFails(P)
<1>0. /\ entry \in [Job -> Snapshot] /\ pc \in [Job -> Stage] /\ tail \in Nat
      /\ cancel \in [Job -> BOOLEAN] /\ requested \in [Job -> Nat] /\ disk \in [Job -> Snapshot]
  BY DEF TypeOK
<1> DEFINE A == Members(batch.jobs)
           n == Len(batch.jobs)
           at(j) == CHOOSE i \in DOMAIN batch.jobs : batch.jobs[i] = j
           queued(P) == [j \in Job |-> IF j \in A THEN QueuedAt(tail + at(j) - 1)
                                                  ELSE Without(P)[j]]
<1>1. PICK P \in Evictions(n) :
        \/ /\ Saved(queued(P))
           /\ entry' = queued(P)
           /\ cancel' = [j \in Job |-> cancel[j] /\ j \notin A]
           /\ pc' = [j \in Job |-> IF j \in A THEN "turn" ELSE Notified[j]]
           /\ tail' = tail + n
           /\ requested' = [j \in Job |-> IF j \in A THEN batch.epoch ELSE requested[j]]
        \/ /\ SaveFails(queued(P))
           /\ cancel' = CancelUnfinished(entry, cancel)
           /\ pc' = Notified
           /\ tail' = tail + n
           /\ UNCHANGED <<entry, requested>>
  BY DEF AdmitBatch
<1>2. P \subseteq Listed(entry) /\ \A k \in P : Prunable(k)
  BY DEF Evictions
<1>3. /\ UNCHANGED <<paused, result, slot, shuttingDown, epoch, workspace, out, session>>
      /\ batch.epoch = epoch /\ Accepting /\ NoNewCall
      /\ \A j \in A : pc[j] = "new" /\ DestinationFree(j)
  BY DEF AdmitBatch, SameEpoch, BatchDestinationsFree, NoNewCall
<1>4. /\ n \in Nat /\ A \subseteq Job
      /\ \A j \in A : at(j) \in 1 .. n /\ batch.jobs[at(j)] = j
  <2>1. \A j \in A : at(j) \in DOMAIN batch.jobs /\ batch.jobs[at(j)] = j
    BY DEF Members
  <2>q. QED
    BY <2>1, BatchJobs
<1>5. \A j, k \in A : j # k => DestOf[j] # DestOf[k]
  <2>1. \A i, k \in DOMAIN batch.jobs :
          DestOf[batch.jobs[i]] = DestOf[batch.jobs[k]] => i = k
    BY DEF AdmitBatch, BatchDestinationsFree
  <2>q. QED
    BY <2>1 DEF Members
<1> HIDE DEF at
<1>6. /\ \A j \in A : /\ queued(P)[j].state = "Queued"
                      /\ queued(P)[j].place = tail + at(j) - 1
      /\ \A k \in Job \ A : queued(P)[k] = Without(P)[k]
  BY <1>4 DEF QueuedAt
<1>7. /\ \A j \in A : tail <= queued(P)[j].place /\ queued(P)[j].place < tail + n
      /\ \A j, k \in A : j # k => queued(P)[j].place # queued(P)[k].place
      /\ tail + n >= tail
  <2>1. \A j, k \in A : at(j) = at(k) => j = k
    BY <1>4
  <2>2. \A j \in A : at(j) \in Nat /\ at(j) >= 1 /\ at(j) <= n
    BY <1>4
  <2> HIDE DEF A, n, queued
  <2>3. n \in Nat
    BY <1>4
  <2>q. QED
    BY <1>0, <1>6, <2>1, <2>2, <2>3
<1>8. \A k \in Job : Notified[k] = pc[k] \/ (pc[k] = "wait" /\ Notified[k] = "turn")
  BY DEF Notified
<1> HIDE DEF n, queued
<1>9. CASE /\ Saved(queued(P))
           /\ entry' = queued(P)
           /\ cancel' = [j \in Job |-> cancel[j] /\ j \notin A]
           /\ pc' = [j \in Job |-> IF j \in A THEN "turn" ELSE Notified[j]]
           /\ tail' = tail + n
           /\ requested' = [j \in Job |-> IF j \in A THEN batch.epoch ELSE requested[j]]
  <2>1. ~storageError /\ ~storageError' /\ disk' = entry'
    BY <1>9 DEF Saved
  <2>2. \A k \in Job \ A : Woken(k) /\ UNCHANGED <<cancel[k], requested[k]>>
    BY <1>0, <1>8, <1>9 DEF Woken
  <2>3. \A j \in A : pc'[j] = "turn" /\ ~cancel'[j] /\ requested'[j] = epoch
    BY <1>3, <1>4, <1>9
  <2> HIDE DEF A
  <2>4. \A j \in A :
          /\ pc[j] = "new"
          /\ entry'[j].state = "Queued"
          /\ tail <= entry'[j].place /\ entry'[j].place < tail'
          /\ DestinationFree(j)
    BY <1>3, <1>6, <1>7, <1>9
  <2>5. \A j, k \in A : j # k => DestOf[j] # DestOf[k] /\ entry'[j].place # entry'[k].place
    BY <1>5, <1>7, <1>9
  <2>6. \A k \in Job \ A : entry'[k] = Without(P)[k]
    BY <1>6, <1>9
  <2>7. Joins(A, P)
    BY <1>2, <1>3, <1>4, <1>7, <1>9, <2>1, <2>2, <2>3, <2>4, <2>5, <2>6 DEF Joins
  <2>q. QED
    BY <2>7
<1>10. CASE /\ SaveFails(queued(P))
           /\ cancel' = CancelUnfinished(entry, cancel)
           /\ pc' = Notified
           /\ tail' = tail + n
           /\ UNCHANGED <<entry, requested>>
  <2>1. ~storageError /\ storageError' /\ disk' \in {disk, queued(P)}
    BY <1>10 DEF SaveFails
  <2>2. \A k \in Job : Woken(k) /\ (cancel[k] => cancel'[k])
    BY <1>8, <1>10 DEF Woken, CancelUnfinished
  <2>3. entry' = Without({})
    BY <1>0, <1>10 DEF Without
  <2>4. \A k \in Job \ A : queued(P)[k] \in {entry'[k], NoEntry}
    BY <1>6, <1>10 DEF Without
  <2> HIDE DEF A
  <2>5. \A k \in Job : \/ disk'[k] \in {disk[k], entry'[k], NoEntry}
                       \/ /\ tail <= disk'[k].place /\ disk'[k].place < tail'
                          /\ disk'[k].state = "Queued"
    BY <1>6, <1>7, <1>10, <2>1, <2>4
  <2>6. JoinFails({})
    BY <1>3, <1>7, <1>10, <2>1, <2>2, <2>3, <2>5 DEF JoinFails
  <2>q. QED
    BY <2>6
<1>q. QED
  BY <1>1, <1>9, <1>10

(* A checked job is queued again, at the end. *)
LEMMA CommitResumeOutcome ==
  ASSUME TypeOK, ResumeChecked, NEW r \in ResumeCall, CommitResume(r)
  PROVE  \E A, P : Joins(A, P) \/ JoinFails(P)
<1>0. /\ entry \in [Job -> Snapshot] /\ pc \in [Job -> Stage] /\ tail \in Nat
      /\ cancel \in [Job -> BOOLEAN] /\ requested \in [Job -> Nat] /\ disk \in [Job -> Snapshot]
  BY DEF TypeOK
<1> DEFINE j == resume[r].job
           e == [entry EXCEPT ![j] = Requeued(entry[j])]
<1>1. \/ /\ Saved(e)
         /\ entry' = e
         /\ cancel' = [cancel EXCEPT ![j] = FALSE]
         /\ pc' = [Notified EXCEPT ![j] = "turn"]
         /\ tail' = tail + 1
         /\ requested' = [requested EXCEPT ![j] = resume[r].epoch]
      \/ /\ SaveFails(e)
         /\ cancel' = [CancelUnfinished(entry, cancel) EXCEPT ![j] = TRUE]
         /\ tail' = tail + 1
         /\ UNCHANGED <<entry, pc, requested>>
  BY DEF CommitResume
<1>2. /\ UNCHANGED <<paused, result, slot, shuttingDown, epoch, workspace, out, session>>
      /\ resume[r].epoch = epoch /\ Accepting /\ DestinationFree(j) /\ NoNewCall
  BY DEF CommitResume, SameEpoch, NoNewCall, TypeOK
<1>3. j \in Job /\ pc[j] = "done" /\ j \in Listed(entry)
  <2>1. resume[r] # NoResume /\ entry[j] = resume[r].snapshot
    BY DEF CommitResume, SameSnapshot
  <2>q. QED
    BY <2>1 DEF ResumeChecked, Listed
<1> HIDE DEF j
<1>4. /\ e[j].place = tail /\ e[j].state = "Queued" /\ e[j].saved = entry[j].saved
      /\ \A k \in Job : k # j => e[k] = entry[k]
  <2>1. entry[j] \in Snapshot
    BY <1>0, <1>3
  <2>q. QED
    BY <1>0, <1>3, <2>1 DEF Requeued, Snapshot
<1> HIDE DEF e
<1>5. entry = Without({})
  BY <1>0 DEF Without
<1>6. CASE /\ Saved(e)
           /\ entry' = e
           /\ cancel' = [cancel EXCEPT ![j] = FALSE]
           /\ pc' = [Notified EXCEPT ![j] = "turn"]
           /\ tail' = tail + 1
           /\ requested' = [requested EXCEPT ![j] = resume[r].epoch]
  <2>1. ~storageError /\ ~storageError' /\ disk' = entry'
    BY <1>6 DEF Saved
  <2>2. \A k \in Job \ {j} : Woken(k) /\ UNCHANGED <<cancel[k], requested[k]>>
    BY <1>0, <1>6 DEF Woken, Notified
  <2>3. /\ pc'[j] = "turn" /\ ~cancel'[j] /\ requested'[j] = epoch
        /\ tail' >= tail /\ tail < tail' /\ tail <= tail
    BY <1>0, <1>2, <1>3, <1>6 DEF Notified
  <2>4. \A k \in Job \ {j} : entry'[k] = Without({})[k]
    BY <1>4, <1>5, <1>6
  <2>5. Joins({j}, {})
    BY <1>2, <1>3, <1>4, <1>6, <2>1, <2>2, <2>3, <2>4 DEF Joins
  <2>q. QED
    BY <2>5
<1>7. CASE /\ SaveFails(e)
           /\ cancel' = [CancelUnfinished(entry, cancel) EXCEPT ![j] = TRUE]
           /\ tail' = tail + 1
           /\ UNCHANGED <<entry, pc, requested>>
  <2>1. ~storageError /\ storageError' /\ disk' \in {disk, e}
    BY <1>7 DEF SaveFails
  <2>2. \A k \in Job : Woken(k) /\ (cancel[k] => cancel'[k])
    BY <1>7 DEF Woken, CancelUnfinished
  <2>3. \A k \in Job : \/ disk'[k] \in {disk[k], entry'[k], NoEntry}
                       \/ /\ tail <= disk'[k].place /\ disk'[k].place < tail'
                          /\ disk'[k].state = "Queued"
    BY <1>0, <1>4, <1>7, <2>1
  <2>4. JoinFails({})
    BY <1>0, <1>2, <1>5, <1>7, <2>1, <2>2, <2>3 DEF JoinFails
  <2>q. QED
    BY <2>4
<1>q. QED
  BY <1>1, <1>6, <1>7

(* The classification of the requests. *)
LEMMA RequestOutcome ==
  ASSUME TypeOK, ResumeChecked, Request
  PROVE  RequestEffect \/ \E A, P : Joins(A, P) \/ JoinFails(P)
<1>1. ASSUME \/ \E b \in Batches : BeginBatch(b)
             \/ RejectBatch
             \/ \E r \in ResumeCall, j \in Job : BeginResume(r, j)
             \/ \E r \in ResumeCall : RejectResume(r)
      PROVE  RequestEffect
  BY <1>1, IdleRequest DEF BeginBatch, RejectBatch, BeginResume, RejectResume
<1>2. ASSUME NEW j \in Job, NEW allowQueue \in BOOLEAN, AdmitJob(j, allowQueue)
      PROVE  \E A, P : Joins(A, P) \/ JoinFails(P)
  BY <1>2, AdmitJobOutcome
<1>q. QED
  BY <1>1, <1>2, AdmitBatchOutcome, CommitResumeOutcome, CancelStep, PauseStep, ClosingStep,
     DiscardStep DEF Request

(* A call of resume_job begins by checking an ended job, and nothing but   *)
(* its end changes what it has checked.                                    *)
LEMMA ResumeCalls ==
  ASSUME TypeOK, Request
  PROVE  \A r \in ResumeCall :
           \/ resume'[r] \in {resume[r], NoResume}
           \/ \E j \in Job : /\ resume'[r].job = j /\ resume'[r].snapshot = entry[j]
                             /\ UNCHANGED <<entry, pc, tail>>
                             /\ Resumable(j)
<1>0. resume \in [ResumeCall -> [job : Job \cup {None}, snapshot : Snapshot, epoch : Nat]]
  BY DEF TypeOK
<1>1. ASSUME NEW r \in ResumeCall, NEW j \in Job, BeginResume(r, j)
      PROVE  /\ Resumable(j) /\ UNCHANGED <<entry, pc, tail>>
             /\ resume'[r].job = j /\ resume'[r].snapshot = entry[j]
             /\ \A q \in ResumeCall : q # r => resume'[q] = resume[q]
  BY <1>0, <1>1 DEF BeginResume, memory, workers
<1>2. \/ UNCHANGED resume
      \/ \E r \in ResumeCall : resume' = [resume EXCEPT ![r] = NoResume]
      \/ \E r \in ResumeCall, j \in Job : BeginResume(r, j)
  BY DEF Request, AdmitJob, BeginBatch, RejectBatch, AdmitBatch, CancelJob, StopJob,
     SetJobPaused, CancelAllJobs, RejectResume, CommitResume, DiscardRecovery,
     Shutdown, calls
<1>3. CASE \E r \in ResumeCall : resume' = [resume EXCEPT ![r] = NoResume]
  BY <1>0, <1>3
<1>q. QED
  BY <1>1, <1>2, <1>3

-----------------------------------------------------------------------------
(* What the steps of a worker do to its own job, in the order of its life. *)
Moves(j) ==
  \/ /\ pc[j] = "turn" /\ pc'[j] \in {"head", "wait"}
     /\ pc'[j] = "head" => FirstUnfinished(j)
     /\ UNCHANGED <<entry[j], result[j], slot, paused[j], workspace[j], out>>
  \/ /\ pc[j] = "head" /\ pc'[j] = "start"
     /\ slot = None /\ slot' = j
     /\ UNCHANGED <<entry[j], result[j], paused[j], workspace[j], out>>
  \/ /\ pc[j] \in Waiting \cup Attempt /\ pc'[j] = "report"
     /\ result'[j] \in {"failed", "canceled"}
     /\ result'[j] = "canceled" => cancel[j]
     /\ UNCHANGED <<entry[j], slot, paused[j], workspace[j], out>>
  \/ /\ pc[j] \in Attempt /\ pc'[j] \in Attempt
     /\ \/ entry'[j].state = entry[j].state
        \/ /\ entry[j].state \notin {"Canceling", "Stopping", "Paused"}
           /\ entry'[j].state \in Pausable
        \/ j \in ReviewedJobs /\ pc[j] = "prepare" /\ entry'[j].state = "Running"
     /\ entry'[j].saved = entry[j].saved
     /\ UNCHANGED <<result[j], slot, paused[j], workspace[j], out>>
  \/ /\ pc[j] = "run" /\ pc'[j] = "checkpoint"
     /\ UNCHANGED <<entry[j], result[j], slot, paused[j], out>>
  \/ /\ pc[j] = "checkpoint" /\ pc'[j] = "run"
     /\ entry'[j].state = entry[j].state /\ entry'[j].saved
     /\ UNCHANGED <<result[j], slot, paused[j], workspace[j], out>>
  \/ /\ pc[j] = "finalize" /\ pc'[j] \in {"published", "report"}
     /\ entry'[j].state = "Succeeded" /\ entry'[j].saved = entry[j].saved
     /\ result'[j] = "ok"
     /\ out[DestOf[j]] = None /\ out' = [out EXCEPT ![DestOf[j]] = j]
     /\ UNCHANGED <<slot, paused[j], workspace[j]>>
  \/ /\ pc[j] = "published" /\ pc'[j] = "forget"
     /\ ~workspace'[j]
     /\ UNCHANGED <<entry[j], result[j], slot, paused[j], out>>
  \/ /\ pc[j] = "published" /\ pc'[j] = "report"
     /\ result'[j] \in {result[j], "failed"}
     /\ UNCHANGED <<entry[j], slot, paused[j], workspace[j], out>>
  \/ /\ pc[j] = "forget" /\ pc'[j] = "report"
     /\ entry'[j].state = entry[j].state
     /\ UNCHANGED <<result[j], slot, paused[j], workspace[j], out>>
  \/ /\ pc[j] = "report" /\ pc'[j] = "settle"
     /\ result'[j] = Reported(result[j])
     /\ UNCHANGED <<entry[j], cancel, storageError, slot, paused[j], workspace[j], out>>
  \/ /\ pc[j] = "settle" /\ pc'[j] = "release"
     /\ \/ entry'[j].state = FinalState(j)
        \/ entry'[j].state = "Failed" /\ FinalState(j) # "Succeeded"
     /\ entry'[j].saved = entry[j].saved
     /\ UNCHANGED <<result[j], slot, paused[j], workspace[j], out>>
  \/ /\ pc[j] = "release" /\ pc'[j] = "done"
     /\ result'[j] = "none"
     /\ \/ slot = j /\ slot' = None /\ ~paused'[j]
        \/ slot # j /\ UNCHANGED <<slot, paused[j]>>
     /\ UNCHANGED <<entry[j], workspace[j], out>>

LEMMA WorkerMoves ==
  ASSUME TypeOK, NEW j \in Job, Worker(j)
  PROVE  Moves(j)
<1>0. /\ entry \in [Job -> Snapshot] /\ pc \in [Job -> Stage]
      /\ result \in [Job -> {"none", "ok", "failed", "canceled"}]
      /\ paused \in [Job -> BOOLEAN] /\ workspace \in [Job -> BOOLEAN]
      /\ cancel \in [Job -> BOOLEAN]
  BY DEF TypeOK
<1>1. CASE CheckTurn(j) \/ TakeSlot(j)
  BY <1>0, <1>1 DEF Moves, CheckTurn, TakeSlot, memory, durable
<1>2. CASE LeaveQueue(j) \/ Fail(j)
  BY <1>0, <1>2 DEF Moves, LeaveQueue, Fail, memory, durable
<1>3. ASSUME NEW s, NEW to, Change(j, s, to)
      PROVE  pc'[j] = to /\ entry'[j] = s
  BY <1>0, <1>3, ChangeEntry, ChangeStages
<1>a. ASSUME NEW v, NEW to, Change(j, [entry[j] EXCEPT !.state = v], to)
       PROVE  pc'[j] = to /\ entry'[j].state = v /\ entry'[j].saved = entry[j].saved
  <2> DEFINE s == [entry[j] EXCEPT !.state = v]
  <2>1. s.state = v /\ s.saved = entry[j].saved
    BY <1>0, FieldUpdates
  <2>2. Change(j, s, to)
    BY <1>a
  <2> HIDE DEF s
  <2>q. QED
    BY <1>3, <2>1, <2>2
<1>b. ASSUME NEW v, NEW to, Change(j, [entry[j] EXCEPT !.saved = v], to)
       PROVE  pc'[j] = to /\ entry'[j].saved = v /\ entry'[j].state = entry[j].state
  <2> DEFINE s == [entry[j] EXCEPT !.saved = v]
  <2>1. s.saved = v /\ s.state = entry[j].state
    BY <1>0, FieldUpdates
  <2>2. Change(j, s, to)
    BY <1>b
  <2> HIDE DEF s
  <2>q. QED
    BY <1>3, <2>1, <2>2
<1>4. ASSUME NEW from \in Attempt, NEW phase \in Pausable, NEW to \in Attempt,
             Phase(j, from, phase, to)
      PROVE  Moves(j)
  <2>1. /\ pc'[j] = to
        /\ entry'[j].state = PhaseState(entry[j].state, phase)
        /\ entry'[j].saved = entry[j].saved
    BY <1>4, <1>a DEF Phase
  <2>q. QED
    BY <1>4, <2>1 DEF Moves, Phase, PhaseState
<1>5. CASE Prepare(j) \/ Run(j) \/ Finalize(j)
  BY <1>4, <1>5 DEF Prepare, Run, Finalize, Attempt, Pausable
<1>c. CASE Confirm(j)
  <2>1. pc'[j] = "run" /\ entry'[j].state = "Running" /\ entry'[j].saved = entry[j].saved
    BY <1>a, <1>c DEF Confirm
  <2>q. QED
    BY <1>c, <2>1 DEF Moves, Confirm, Attempt
<1>6. CASE Checkpoint(j) \/ RemoveWorkspace(j)
  BY <1>0, <1>6 DEF Moves, Checkpoint, RemoveWorkspace, memory
<1>7. CASE RecordCheckpoint(j) \/ ForgetWorkspace(j)
  <2>1. CASE RecordCheckpoint(j)
    <3>1. pc'[j] = "run" /\ entry'[j].saved /\ entry'[j].state = entry[j].state
      BY <1>b, <2>1 DEF RecordCheckpoint
    <3>q. QED
      BY <2>1, <3>1 DEF Moves, RecordCheckpoint
  <2>2. CASE ForgetWorkspace(j)
    <3>1. pc'[j] = "report" /\ entry'[j].state = entry[j].state
      BY <1>b, <2>2 DEF ForgetWorkspace
    <3>q. QED
      BY <2>2, <3>1 DEF Moves, ForgetWorkspace
  <2>q. QED
    BY <1>7, <2>1, <2>2
<1>8. CASE Publish(j)
  <2>1. entry' = [entry EXCEPT ![j].state = "Succeeded"]
    BY <1>8 DEF Publish, Persist
  <2>2. entry'[j].state = "Succeeded" /\ entry'[j].saved = entry[j].saved
    BY <1>0, <2>1, FieldUpdates
  <2>q. QED
    BY <1>0, <1>8, <2>2 DEF Moves, Publish, MayPublish
<1>9. CASE KeepWorkspace(j)
  <2>1. CASE j \in EditedJobs
    BY <1>0, <1>9, <2>1 DEF Moves, KeepWorkspace
  <2>2. CASE j \notin EditedJobs
    BY <1>3, <1>9, <2>2 DEF Moves, KeepWorkspace
  <2>q. QED
    BY <2>1, <2>2
<1>10. CASE Report(j)
  BY <1>0, <1>10 DEF Moves, Report, memory, durable
<1>11. CASE Settle(j)
  <2>1. PICK state \in {FinalState(j)} \cup
                 (IF slot = j /\ FinalState(j) # "Succeeded" THEN {"Failed"} ELSE {}) :
          Change(j, [entry[j] EXCEPT !.state = state], "release")
    BY <1>11 DEF Settle
  <2>2. pc'[j] = "release" /\ entry'[j].state = state /\ entry'[j].saved = entry[j].saved
    BY <1>a, <2>1
  <2>q. QED
    BY <1>11, <2>1, <2>2 DEF Moves, Settle
<1>12. CASE Release(j)
  BY <1>0, <1>12 DEF Moves, Release, ScopeDropped, Notified, durable
<1>q. QED
  BY <1>1, <1>2, <1>5, <1>6, <1>7, <1>8, <1>9, <1>10, <1>11, <1>12, <1>c DEF Worker, Work

-----------------------------------------------------------------------------
(* The inductive invariant.  Each part relates a job's snapshot to where   *)
(* its worker stands.                                                      *)

(* Places are given once, in memory and in the file. *)
Placed ==
  /\ \A j \in Job : entry[j].place < tail /\ disk[j].place < tail
  /\ \A j \in Job : pc[j] = "new" => entry[j].place = 0
  /\ \A j \in Job : entry[j].place = 0 => entry[j].state \in Terminal

(* The slot is held from the start of an execution to its release. *)
SlotHeld ==
  /\ \A j \in Job : pc[j] \in Executing => slot = j
  /\ \A j \in Job : slot = j => pc[j] \in Executing \cup Closing

(* An unfinished job has a worker that has not published it. *)
Attended ==
  \A j \in Unfinished(entry) : pc[j] \in Live \cup {"report", "settle"}

(* What a result means at each stage. *)
Resulting ==
  \A j \in Job :
    /\ result[j] = "ok" => entry[j].state = "Succeeded"
    /\ pc[j] \in {"new", "done"} => result[j] = "none"
    /\ pc[j] \in Closing => result[j] # "none"
    /\ pc[j] \in {"published", "forget"} => result[j] = "ok"
    /\ pc[j] = "report" /\ result[j] = "canceled" => cancel[j]
    /\ /\ pc[j] = "settle" /\ result[j] = "canceled"
       /\ j \in Unfinished(entry) \ ReviewedJobs
       => entry[j].state \in {"Canceling", "Stopping"}

(* Only the job that holds the slot is shown as working, or is frozen. *)
Shown ==
  \A j \in Job :
    /\ paused[j] => slot = j
    /\ entry[j].state \in Pausable => slot = j

(* A cancellation nobody asked for comes from a failed write.  (A review   *)
(* that is confirmed forgets what was asked for.)                          *)
CancelShown ==
  \A j \in Unfinished(entry) \ ReviewedJobs :
    cancel[j] => storageError \/ entry[j].state \in {"Canceling", "Stopping"}

(* A job that is not reviewed is frozen only as FrozenOnlyIfPaused says. *)
FrozenShown ==
  \A j \in Job \ ReviewedJobs :
    paused[j] => entry[j].state \in {"Paused", "Canceling", "Stopping"} \cup Terminal

(* The file never runs ahead: it does not end what memory has not ended. *)
DiskBehind ==
  \A j \in Unfinished(entry) : disk[j].place = 0 \/ disk[j].state \notin Terminal

(* A manifest is unnamed only between its two writes. *)
CheckpointNamed ==
  \A j \in Job :
    /\ j \in Listed(entry) /\ workspace[j] /\ pc[j] # "checkpoint" => entry[j].saved
    /\ pc[j] \in {"new", "forget"} => ~workspace[j]

OrderInv ==
  /\ Placed /\ ResumeChecked
  /\ SlotHeld /\ ExecutionOrder /\ Attended
  /\ Resulting /\ CancelShown
  /\ Shown /\ FrozenShown
  /\ DiskBehind /\ CheckpointNamed
  /\ StopQueueHolds

(* Steps that admit nothing shorten the list of unfinished jobs. *)
LEMMA QueueShrinks ==
  ASSUME \A k \in Job : entry'[k].place = entry[k].place,
         \A k \in Job : Redirected(k) \/ entry'[k].state \in Terminal \/ k \in Unfinished(entry)
  PROVE  Listed(entry') = Listed(entry) /\ Unfinished(entry') \subseteq Unfinished(entry)
BY DEF Listed, Unfinished, Redirected, Pausable, Terminal

LEMMA WorkerKeepsOrder ==
  ASSUME SafetyInv, OrderInv, NEW j \in Job, Worker(j)
  PROVE  OrderInv'
<1>0. TypeOK /\ WorkersUnfinished /\ None \notin Job
  BY JobAssumption DEF SafetyInv
<1>1. WorkerEffect(j) /\ Moves(j)
  BY <1>0, WorkerShape, WorkerMoves
<1>2. /\ \A k \in Job : entry'[k].place = entry[k].place
      /\ UNCHANGED <<epoch, resume, tail, requested>>
      /\ Keeps
      /\ \A k \in Job : cancel'[k] => cancel[k] \/ storageError'
      /\ \A k \in Job \ {j} :
           /\ Woken(k)
           /\ UNCHANGED <<entry[k], result[k], paused[k], workspace[k]>>
  BY <1>1 DEF WorkerEffect, calls
<1>3. pc[j] \in Live => j \in Unfinished(entry)
  BY <1>0 DEF WorkersUnfinished, Live
<1>4. Listed(entry') = Listed(entry) /\ Unfinished(entry') \subseteq Unfinished(entry)
  <2>1. Unfinished(entry') \subseteq Unfinished(entry)
    BY <1>0, <1>2, WorkerContinues DEF Continues
  <2>q. QED
    BY <1>2, <2>1 DEF Listed
<1>5. Placed'
  <2>1. \A k \in Job : entry'[k].place < tail' /\ disk'[k].place < tail'
    BY <1>2 DEF OrderInv, Placed, Keeps
  <2>2. pc'[j] # "new"
    BY <1>1 DEF Moves, Attempt
  <2>3. entry'[j].place = 0 => entry'[j].state \in Terminal
    <3>1. entry[j].place = 0 => entry[j].state \in Terminal /\ pc[j] \notin Live
      BY <1>3 DEF OrderInv, Placed, Unfinished, Listed
    <3>q. QED
      BY <1>1, <1>2, <3>1 DEF Moves, Live, FinalState, Terminal
  <2>q. QED
    BY <1>2, <2>1, <2>2, <2>3 DEF OrderInv, Placed, Woken
<1>6. ResumeChecked'
  <2>1. pc[j] # "done"
    BY <1>1 DEF Moves, Waiting, Attempt
  <2>q. QED
    BY <1>2, <2>1 DEF OrderInv, ResumeChecked, Woken
<1>7. SlotHeld'
  BY <1>0, <1>1, <1>2 DEF OrderInv, SlotHeld, Moves, Executing, Closing, Attempt, Waiting, Woken
<1>8. Attended'
  <2>1. j \in Unfinished(entry') => pc'[j] \in Live \cup {"report", "settle"}
    <3>1. j \in Unfinished(entry') => j \in Unfinished(entry) /\ entry'[j].state \notin Terminal
      BY <1>4 DEF Unfinished
    <3>2. pc[j] = "settle" => FinalState(j) \in Terminal
      BY DEF OrderInv, Resulting, FinalState, Terminal
    <3>q. QED
      BY <1>1, <3>1, <3>2 DEF OrderInv, Attended, Moves, Live, Attempt, Waiting, Terminal
  <2>q. QED
    BY <1>2, <1>4, <2>1, UnfinishedJobs DEF OrderInv, Attended, Live, Waiting, Woken
<1>9. ExecutionOrder'
  <2>1. SUFFICES ASSUME NEW h \in Job, pc'[h] \in {"head"} \cup Executing,
                        NEW k \in Unfinished(entry'), k # h
                 PROVE  Before(entry', h, k)
    BY <1>7 DEF ExecutionOrder, SlotHeld, Executing, Attempt
  <2>2. k \in Unfinished(entry) /\ k \in Job
    BY <1>4, UnfinishedJobs
  <2>3. Before(entry, h, k)
    <3>1. CASE pc[h] \in {"head"} \cup Executing
      BY <2>1, <2>2, <3>1 DEF OrderInv, ExecutionOrder
    <3>2. CASE pc[h] \notin {"head"} \cup Executing
      <4>1. h = j
        BY <1>2, <2>1, <3>2 DEF Woken, Executing, Attempt
      <4>2. FirstUnfinished(j)
        BY <1>1, <2>1, <3>2, <4>1 DEF Moves, Executing, Attempt
      <4>q. QED
        BY <2>1, <2>2, <4>1, <4>2 DEF FirstUnfinished
    <3>q. QED
      BY <3>1, <3>2
  <2>q. QED
    BY <1>2, <2>2, <2>3 DEF Before
<1>10. CancelShown'
  <2>1. j \in Unfinished(entry') \ ReviewedJobs /\ entry[j].state \in {"Canceling", "Stopping"}
        => entry'[j].state = entry[j].state
    <3>1. j \in Unfinished(entry') => entry'[j].state \notin Terminal
      BY DEF Unfinished
    <3>2. pc[j] = "settle" => FinalState(j) \in Terminal
      BY DEF OrderInv, Resulting, FinalState, Terminal
    <3>q. QED
      BY <1>1, <3>1, <3>2 DEF Moves, Terminal
  <2>q. QED
    BY <1>2, <1>4, <2>1, UnfinishedJobs DEF OrderInv, CancelShown, Keeps
<1>11. Resulting'
  <2>1. result[j] = "ok" => pc[j] \notin Live /\ entry[j].state = "Succeeded"
    BY <1>3 DEF OrderInv, Resulting, Unfinished, Terminal
  <2>2. result'[j] = "ok" => entry'[j].state = "Succeeded"
    <3>1. pc[j] = "settle" /\ result[j] = "ok" => FinalState(j) = "Succeeded"
      BY <2>1 DEF FinalState
    <3>q. QED
      BY <1>1, <2>1, <3>1 DEF OrderInv, Resulting, Moves, Reported, Live
  <2>3. /\ pc'[j] \in {"new", "done"} => result'[j] = "none"
        /\ pc'[j] \in Closing => result'[j] # "none"
        /\ pc'[j] \in {"published", "forget"} => result'[j] = "ok"
    BY <1>1 DEF OrderInv, Resulting, Moves, Reported, Closing, Attempt, Waiting
  <2>4. pc'[j] = "report" /\ result'[j] = "canceled" => cancel'[j]
    BY <1>1, <1>2 DEF OrderInv, Resulting, Moves, Attempt, Keeps
  <2>5. pc'[j] = "settle" /\ result'[j] = "canceled" /\ j \in Unfinished(entry') \ ReviewedJobs
        => entry'[j].state \in {"Canceling", "Stopping"}
    BY <1>1, <1>4 DEF OrderInv, Resulting, CancelShown, Moves, Reported, Attempt
  <2>6. \A k \in Job \ {j} : k \in Unfinished(entry') => k \in Unfinished(entry)
    BY <1>4
  <2>q. QED
    BY <1>2, <2>2, <2>3, <2>4, <2>5, <2>6
    DEF OrderInv, Resulting, Keeps, Woken, Closing
<1>12. Shown'
  <2>1. pc[j] \in Attempt => slot = j
    BY DEF OrderInv, SlotHeld, Executing
  <2>2. pc[j] = "release" => entry[j].state \in Terminal
    <3>1. entry[j].place \in Nat
      BY <1>0 DEF TypeOK, Snapshot
    <3>2. pc[j] = "release" => j \notin Unfinished(entry)
      BY DEF OrderInv, Attended, Live, Waiting, Attempt
    <3>q. QED
      BY <3>1, <3>2 DEF OrderInv, Placed, Unfinished, Listed
  <2>q. QED
    BY <1>0, <1>1, <1>2, <2>1, <2>2
    DEF OrderInv, Shown, Moves, Pausable, Terminal, FinalState
<1>13. FrozenShown'
  <2>1. pc[j] \in Attempt => entry[j].state \notin Terminal
    BY <1>3 DEF Live, Unfinished
  <2>2. pc[j] = "settle" => FinalState(j) \in Terminal
    BY DEF OrderInv, Resulting, FinalState, Terminal
  <2>3. j \notin ReviewedJobs /\ paused'[j]
        => entry'[j].state \in {"Paused", "Canceling", "Stopping"} \cup Terminal
    BY <1>1, <2>1, <2>2 DEF OrderInv, FrozenShown, Moves, Terminal
  <2>q. QED
    BY <1>2, <2>3 DEF OrderInv, FrozenShown
<1>14. DiskBehind'
  BY <1>2, <1>4, UnfinishedJobs DEF OrderInv, DiskBehind, Keeps, Unfinished
<1>15. CheckpointNamed'
  BY <1>1, <1>2, <1>4 DEF OrderInv, CheckpointNamed, Moves, Woken, Waiting, Attempt
<1>16. StopQueueHolds'
  BY <1>2, <1>4, UnfinishedJobs DEF OrderInv, StopQueueHolds, Keeps
<1>q. QED
  BY <1>5, <1>6, <1>7, <1>8, <1>9, <1>10, <1>11, <1>12, <1>13, <1>14, <1>15, <1>16 DEF OrderInv

(* Requests that admit nothing. *)
LEMMA EffectKeepsOrder ==
  ASSUME SafetyInv, OrderInv, Request, RequestEffect
  PROVE  OrderInv'
<1>0. TypeOK /\ WorkersUnfinished /\ None \notin Job
  BY JobAssumption DEF SafetyInv
<1>1. /\ UNCHANGED <<result, slot, tail, requested>>
      /\ Keeps
      /\ epoch' = epoch \/ \A k \in Unfinished(entry') : cancel'[k]
      /\ \A k \in Job : RequestOn(k)
  BY DEF RequestEffect
<1>2. \A k \in Job : /\ Woken(k)
                     /\ entry'[k].place = entry[k].place
                     /\ Redirected(k)
  BY <1>1 DEF RequestOn
<1>3. Listed(entry') = Listed(entry) /\ Unfinished(entry') \subseteq Unfinished(entry)
  BY <1>2, QueueShrinks
<1>4. Placed'
  <2>1. \A k \in Job : entry'[k].place < tail' /\ disk'[k].place < tail'
    BY <1>1, <1>2 DEF OrderInv, Placed, Keeps
  <2>2. \A k \in Job : entry'[k].place = 0 => entry'[k].state \in Terminal
    BY <1>2 DEF OrderInv, Placed, Redirected, Unfinished, Listed, Pausable, Terminal
  <2>q. QED
    BY <1>2, <2>1, <2>2 DEF OrderInv, Placed, Woken
<1>5. ResumeChecked'
  <2> SUFFICES ASSUME NEW r \in ResumeCall, resume'[r] # NoResume
               PROVE  /\ resume'[r].job \in Job
                      /\ resume'[r].snapshot.place > 0 /\ resume'[r].snapshot.place < tail'
                      /\ resume'[r].snapshot.state \in Terminal
                      /\ entry'[resume'[r].job].place = resume'[r].snapshot.place
                         => pc'[resume'[r].job] = "done"
    BY DEF ResumeChecked
  <2>1. CASE resume'[r] = resume[r]
    BY <1>1, <1>2, <2>1 DEF OrderInv, ResumeChecked, Woken
  <2>2. ASSUME NEW j \in Job, resume'[r].job = j, resume'[r].snapshot = entry[j],
               UNCHANGED <<entry, pc, tail>>, Resumable(j)
        PROVE  /\ resume'[r].job \in Job
               /\ resume'[r].snapshot.place > 0 /\ resume'[r].snapshot.place < tail'
               /\ resume'[r].snapshot.state \in Terminal
               /\ entry'[resume'[r].job].place = resume'[r].snapshot.place
                  => pc'[resume'[r].job] = "done"
    BY <2>2 DEF OrderInv, Placed, Resumable, Listed
  <2>q. QED
    BY <1>0, <2>1, <2>2, ResumeCalls
<1>6. SlotHeld'
  BY <1>1, <1>2 DEF OrderInv, SlotHeld, Woken, Executing, Closing, Attempt
<1>7. Attended'
  BY <1>2, <1>3, UnfinishedJobs DEF OrderInv, Attended, Live, Waiting, Woken
<1>8. ExecutionOrder'
  <2>1. SUFFICES ASSUME NEW h \in Job, pc'[h] \in {"head"} \cup Executing,
                        NEW k \in Unfinished(entry'), k # h
                 PROVE  Before(entry', h, k)
    BY <1>6 DEF ExecutionOrder, SlotHeld, Executing, Attempt
  <2>2. k \in Unfinished(entry) /\ k \in Job
    BY <1>3, UnfinishedJobs
  <2>3. pc[h] \in {"head"} \cup Executing
    BY <1>2, <2>1 DEF Woken, Executing, Attempt
  <2>q. QED
    BY <1>2, <2>1, <2>2, <2>3 DEF OrderInv, ExecutionOrder, Before
<1>9. CancelShown'
  <2>1. \A k \in Job : entry[k].state \in {"Canceling", "Stopping"}
                        => entry'[k].state \in {"Canceling", "Stopping"}
    BY <1>2 DEF Redirected, Pausable
  <2>2. \A k \in Job :
          cancel'[k] => \/ cancel[k]
                        \/ storageError'
                        \/ entry'[k].state \in {"Canceling", "Stopping"}
                        \/ k \notin Unfinished(entry')
    BY <1>1 DEF RequestOn
  <2>q. QED
    BY <1>1, <1>3, <2>1, <2>2, UnfinishedJobs DEF OrderInv, CancelShown, Keeps
<1>10. Resulting'
  <2>1. \A k \in Job : entry[k].state = "Succeeded" => entry'[k].state = "Succeeded"
    BY <1>2 DEF Redirected, Pausable, Unfinished, Terminal
  <2>2. \A k \in Job : entry[k].state \in {"Canceling", "Stopping"}
                        => entry'[k].state \in {"Canceling", "Stopping"}
    BY <1>2 DEF Redirected, Pausable
  <2>q. QED
    BY <1>1, <1>2, <1>3, <2>1, <2>2 DEF OrderInv, Resulting, Keeps, Woken, Closing
<1>11. \A k \in Job :
         paused'[k] => \/ paused[k]
                       \/ entry[k].state \in Pausable /\ entry'[k].state = "Paused"
  BY <1>1 DEF RequestOn
<1>12. Shown'
  BY <1>1, <1>2, <1>11 DEF OrderInv, Shown, Redirected, Pausable
<1>13. FrozenShown'
  BY <1>2, <1>11 DEF OrderInv, FrozenShown, Redirected
<1>14. DiskBehind'
  BY <1>1, <1>3, UnfinishedJobs DEF OrderInv, DiskBehind, Keeps, Unfinished
<1>15. CheckpointNamed'
  <2>1. \A k \in Job : \/ workspace'[k] = workspace[k] /\ entry'[k].saved = entry[k].saved
                       \/ ~workspace'[k] /\ pc[k] = "done"
    BY <1>1 DEF RequestOn
  <2>q. QED
    BY <1>2, <1>3, <2>1 DEF OrderInv, CheckpointNamed, Woken
<1>16. StopQueueHolds'
  BY <1>1, <1>3, UnfinishedJobs DEF OrderInv, StopQueueHolds, Keeps
<1>q. QED
  BY <1>4, <1>5, <1>6, <1>7, <1>8, <1>9, <1>10, <1>12, <1>13, <1>14, <1>15, <1>16 DEF OrderInv

(* Requests that admit: the new jobs come last, and nothing runs them yet. *)
LEMMA JoinsKeepsOrder ==
  ASSUME SafetyInv, OrderInv, Request, NEW A, NEW P, Joins(A, P)
  PROVE  OrderInv'
<1>0. /\ TypeOK /\ WorkersUnfinished /\ None \notin Job
      /\ \A k \in Job : entry[k].place \in Nat
      /\ tail \in Nat /\ tail' \in Nat /\ epoch \in Nat
      /\ \A k \in Job : entry'[k].place \in Nat
  BY JobAssumption, TypeInductive DEF SafetyInv, TypeOK, Snapshot, Next
<1>1. /\ ~storageError'
      /\ UNCHANGED <<paused, result, slot, epoch, workspace>>
      /\ disk' = entry' /\ tail' >= tail
  BY DEF Joins
<1>a. A \subseteq Job /\ \A r \in ResumeCall : resume'[r] \in {resume[r], NoResume}
  BY DEF Joins, NoNewCall
<1>2. \A j \in A : /\ pc[j] \in {"new", "done"}
                   /\ pc'[j] = "turn" /\ ~cancel'[j] /\ requested'[j] = epoch
                   /\ entry'[j].state = "Queued"
                   /\ tail <= entry'[j].place /\ entry'[j].place < tail'
  BY DEF Joins
<1>3. \A k \in Job \ A : /\ Woken(k)
                         /\ UNCHANGED <<cancel[k], requested[k]>>
                         /\ \/ entry'[k] = entry[k]
                            \/ entry'[k] = NoEntry /\ pc[k] = "done"
  BY DEF Joins, Without, Prunable
<1>4. /\ NoEntry.place = 0 /\ NoEntry.state = "Canceled"
  BY DEF NoEntry
<1>5. \A k \in Unfinished(entry') : k \in Job /\ (k \in A \/ (k \in Unfinished(entry) /\ entry'[k] = entry[k]))
  BY <1>3, <1>4 DEF Unfinished, Listed, Terminal
<1>6. Placed'
  <2>1. \A k \in Job : entry'[k].place < tail'
    BY <1>0, <1>1, <1>2, <1>3, <1>4 DEF OrderInv, Placed
  <2>2. \A k \in Job : pc'[k] = "new" => entry'[k].place = 0
    BY <1>2, <1>3, <1>4 DEF OrderInv, Placed, Woken
  <2>3. \A k \in Job : entry'[k].place = 0 => entry'[k].state \in Terminal
    <3>1. tail > 0
      BY <1>0 DEF WorkersUnfinished
    <3>q. QED
      BY <1>0, <1>2, <1>3, <1>4, <3>1 DEF OrderInv, Placed, Terminal
  <2>q. QED
    BY <1>1, <2>1, <2>2, <2>3 DEF Placed
<1>7. ResumeChecked'
  <2> SUFFICES ASSUME NEW r \in ResumeCall, resume'[r] # NoResume
               PROVE  /\ resume'[r].job \in Job
                      /\ resume'[r].snapshot.place > 0 /\ resume'[r].snapshot.place < tail'
                      /\ resume'[r].snapshot.state \in Terminal
                      /\ entry'[resume'[r].job].place = resume'[r].snapshot.place
                         => pc'[resume'[r].job] = "done"
    BY DEF ResumeChecked
  <2>1. /\ resume'[r] = resume[r] /\ resume[r].job \in Job
        /\ resume[r].snapshot.place > 0 /\ resume[r].snapshot.place < tail
        /\ resume[r].snapshot.state \in Terminal
        /\ entry[resume[r].job].place = resume[r].snapshot.place => pc[resume[r].job] = "done"
    BY <1>a DEF OrderInv, ResumeChecked
  <2>2. resume[r].snapshot.place \in Nat
    BY <1>0 DEF TypeOK, Snapshot
  <2> DEFINE j == resume[r].job
             n == resume[r].snapshot.place
  <2>3. entry'[j].place = n => pc'[j] = "done"
    <3>1. n \in Nat /\ n > 0 /\ n < tail /\ j \in Job /\ (entry[j].place = n => pc[j] = "done")
      BY <2>1, <2>2
    <3> HIDE DEF j, n
    <3>q. QED
      BY <1>0, <1>2, <1>3, <1>4, <3>1 DEF Woken
  <2>q. QED
    BY <1>0, <1>1, <2>1, <2>2, <2>3
<1>8. \A k \in Job : pc'[k] \in {"head"} \cup Executing \cup Closing =>
        k \notin A /\ pc'[k] = pc[k] /\ entry'[k] = entry[k]
  BY <1>2, <1>3 DEF Woken, Executing, Closing, Attempt
<1>9. SlotHeld'
  BY <1>0, <1>1, <1>2, <1>3, <1>8 DEF OrderInv, SlotHeld, Executing, Closing, Attempt, Woken
<1>10. Attended'
  BY <1>2, <1>3, <1>5 DEF OrderInv, Attended, Live, Waiting, Woken
<1>11. ExecutionOrder'
  <2>1. SUFFICES ASSUME NEW h \in Job, pc'[h] \in {"head"} \cup Executing,
                        NEW k \in Unfinished(entry'), k # h
                 PROVE  Before(entry', h, k)
    BY <1>9 DEF ExecutionOrder, SlotHeld, Executing, Attempt
  <2>2. pc[h] \in {"head"} \cup Executing /\ entry'[h] = entry[h]
    BY <1>8, <2>1
  <2>3. CASE k \in A
    BY <1>0, <1>2, <1>a, <2>2, <2>3 DEF OrderInv, Placed, Before
  <2>4. CASE k \in Unfinished(entry) /\ entry'[k] = entry[k]
    BY <2>1, <2>2, <2>4 DEF OrderInv, ExecutionOrder, Before
  <2>q. QED
    BY <1>5, <2>3, <2>4
<1>12. CancelShown'
  BY <1>1, <1>2, <1>3, <1>5 DEF OrderInv, CancelShown, Joins
<1>13. Resulting'
  <2>1. \A k \in A : /\ result'[k] = "none"
                     /\ pc'[k] = "turn"
    BY <1>1, <1>2, <1>a DEF OrderInv, Resulting
  <2>2. \A k \in Job \ A : entry'[k] # entry[k] => result'[k] = "none"
    BY <1>1, <1>3 DEF OrderInv, Resulting
  <2>q. QED
    BY <1>1, <1>3, <1>5, <2>1, <2>2 DEF OrderInv, Resulting, Woken, Closing
<1>14. \A k \in Job : pc[k] \in {"new", "done"} => slot # k /\ ~paused[k]
  BY DEF OrderInv, SlotHeld, Shown, Executing, Closing, Attempt
<1>15. Shown'
  BY <1>0, <1>1, <1>2, <1>3, <1>4, <1>14 DEF OrderInv, Shown, Pausable
<1>16. FrozenShown'
  BY <1>0, <1>1, <1>2, <1>3, <1>4, <1>14 DEF OrderInv, FrozenShown, Terminal
<1>17. DiskBehind'
  BY <1>1 DEF DiskBehind, Unfinished
<1>18. CheckpointNamed'
  <2>1. ASSUME NEW j \in A
        PROVE  workspace'[j] => entry'[j].saved
    BY <1>1, <2>1 DEF OrderInv, CheckpointNamed, Joins
  <2>q. QED
    BY <1>1, <1>2, <1>3, <1>4, <2>1 DEF OrderInv, CheckpointNamed, Listed, Woken
<1>19. StopQueueHolds'
  BY <1>0, <1>1, <1>2, <1>3, <1>5 DEF OrderInv, StopQueueHolds
<1>q. QED
  BY <1>6, <1>7, <1>9, <1>10, <1>11, <1>12, <1>13, <1>15, <1>16, <1>17, <1>18, <1>19 DEF OrderInv

(* A failed admission leaves the queue shorter, or as it is. *)
LEMMA JoinFailsKeepsOrder ==
  ASSUME SafetyInv, OrderInv, Request, NEW P, JoinFails(P)
  PROVE  OrderInv'
<1>0. /\ TypeOK /\ None \notin Job
      /\ SafetyInv'
      /\ \A k \in Job : entry[k].place \in Nat
      /\ tail \in Nat /\ tail' \in Nat /\ epoch \in Nat
      /\ \A k \in Job : entry'[k].place \in Nat /\ disk[k].place \in Nat
  BY JobAssumption, SafetyInductive, TypeInductive DEF SafetyInv, TypeOK, Snapshot, Next
<1>1. /\ storageError'
      /\ UNCHANGED <<paused, result, slot, epoch, requested, workspace>>
      /\ tail' >= tail
      /\ \A r \in ResumeCall : resume'[r] \in {resume[r], NoResume}
  BY DEF JoinFails, NoNewCall
<1>2. \A k \in Job : /\ Woken(k)
                     /\ cancel[k] => cancel'[k]
  BY DEF JoinFails
<1>3. \A k \in Job : \/ entry'[k] = entry[k]
                     \/ entry'[k] = NoEntry /\ pc[k] = "done"
  BY DEF JoinFails, Without, Prunable
<1>4. /\ NoEntry.place = 0 /\ NoEntry.state = "Canceled"
  BY DEF NoEntry
<1>5. \A k \in Unfinished(entry') : k \in Job /\ k \in Unfinished(entry) /\ entry'[k] = entry[k]
  BY <1>3, <1>4 DEF Unfinished, Listed, Terminal
<1>6. \A k \in Job : \/ disk'[k] \in {disk[k], entry'[k], NoEntry}
                     \/ disk'[k].place < tail' /\ disk'[k].state = "Queued"
  BY DEF JoinFails
<1>7. Placed'
  <2>1. tail > 0
    BY DEF SafetyInv, WorkersUnfinished
  <2>2. \A k \in Job : entry'[k].place < tail'
    BY <1>0, <1>1, <1>3, <1>4, <2>1 DEF OrderInv, Placed
  <2>3. \A k \in Job : disk'[k].place < tail'
    BY <1>0, <1>1, <1>4, <1>6, <2>1, <2>2 DEF OrderInv, Placed
  <2>4. \A k \in Job : pc'[k] = "new" => entry'[k].place = 0
    BY <1>2, <1>3, <1>4 DEF OrderInv, Placed, Woken
  <2>5. \A k \in Job : entry'[k].place = 0 => entry'[k].state \in Terminal
    BY <1>3, <1>4 DEF OrderInv, Placed, Terminal
  <2>q. QED
    BY <2>2, <2>3, <2>4, <2>5 DEF Placed
<1>8. ResumeChecked'
  <2> SUFFICES ASSUME NEW r \in ResumeCall, resume'[r] # NoResume
               PROVE  /\ resume'[r].job \in Job
                      /\ resume'[r].snapshot.place > 0 /\ resume'[r].snapshot.place < tail'
                      /\ resume'[r].snapshot.state \in Terminal
                      /\ entry'[resume'[r].job].place = resume'[r].snapshot.place
                         => pc'[resume'[r].job] = "done"
    BY DEF ResumeChecked
  <2>1. /\ resume'[r] = resume[r] /\ resume[r].job \in Job
        /\ resume[r].snapshot.place > 0 /\ resume[r].snapshot.place < tail
        /\ resume[r].snapshot.state \in Terminal
        /\ entry[resume[r].job].place = resume[r].snapshot.place => pc[resume[r].job] = "done"
    BY <1>1 DEF OrderInv, ResumeChecked
  <2>2. resume[r].snapshot.place \in Nat
    BY <1>0 DEF TypeOK, Snapshot
  <2> DEFINE j == resume[r].job
             n == resume[r].snapshot.place
  <2>3. entry'[j].place = n => pc'[j] = "done"
    <3>1. n \in Nat /\ n > 0 /\ j \in Job /\ (entry[j].place = n => pc[j] = "done")
      BY <2>1, <2>2
    <3> HIDE DEF j, n
    <3>q. QED
      BY <1>0, <1>2, <1>3, <1>4, <3>1 DEF Woken
  <2>q. QED
    BY <1>0, <1>1, <2>1, <2>2, <2>3
<1>9. SlotHeld'
  BY <1>0, <1>1, <1>2 DEF OrderInv, SlotHeld, Executing, Closing, Attempt, Woken
<1>10. Attended'
  BY <1>2, <1>5 DEF OrderInv, Attended, Live, Waiting, Woken
<1>11. ExecutionOrder'
  <2>1. SUFFICES ASSUME NEW h \in Job, pc'[h] \in {"head"} \cup Executing,
                        NEW k \in Unfinished(entry'), k # h
                 PROVE  Before(entry', h, k)
    BY <1>9 DEF ExecutionOrder, SlotHeld, Executing, Attempt
  <2>2. pc[h] \in {"head"} \cup Executing /\ entry'[h] = entry[h]
    BY <1>2, <1>3, <2>1 DEF Woken, Executing, Attempt
  <2>q. QED
    BY <1>5, <2>1, <2>2 DEF OrderInv, ExecutionOrder, Before
<1>12. CancelShown'
  BY <1>1 DEF CancelShown
<1>13. Resulting'
  <2>1. \A k \in Job : entry'[k] # entry[k] => result'[k] = "none"
    BY <1>1, <1>3 DEF OrderInv, Resulting
  <2>q. QED
    BY <1>1, <1>2, <1>5, <2>1 DEF OrderInv, Resulting, Woken, Closing
<1>14. \A k \in Job : pc[k] \in {"new", "done"} => slot # k /\ ~paused[k]
  BY DEF OrderInv, SlotHeld, Shown, Executing, Closing, Attempt
<1>15. Shown'
  BY <1>1, <1>3, <1>4, <1>14 DEF OrderInv, Shown, Pausable
<1>16. FrozenShown'
  BY <1>1, <1>3, <1>4, <1>14 DEF OrderInv, FrozenShown, Terminal
<1>17. DiskBehind'
  <2>1. ASSUME NEW k \in Unfinished(entry')
        PROVE  disk'[k].place = 0 \/ disk'[k].state \notin Terminal
    BY <1>4, <1>5, <1>6 DEF OrderInv, DiskBehind, Unfinished, Terminal
  <2>q. QED
    BY <2>1 DEF DiskBehind
<1>18. CheckpointNamed'
  BY <1>1, <1>2, <1>3, <1>4 DEF OrderInv, CheckpointNamed, Listed, Woken
<1>19. StopQueueHolds'
  BY <1>0, <1>1 DEF SafetyInv, StorageFailureCancels, StopQueueHolds
<1>q. QED
  BY <1>7, <1>8, <1>9, <1>10, <1>11, <1>12, <1>13, <1>15, <1>16, <1>17, <1>18, <1>19 DEF OrderInv

(* A restart leaves nothing unfinished, no worker and no call. *)
LEMMA OpenKeepsOrder ==
  ASSUME SafetyInv, OrderInv, Open
  PROVE  OrderInv'
<1>0. /\ TypeOK /\ None \notin Job /\ tail \in Nat /\ tail > 0
      /\ disk \in [Job -> Snapshot]
  BY JobAssumption DEF SafetyInv, TypeOK, WorkersUnfinished
<1>1. Unfinished(entry') = {}
  BY OpenStep
<1>2. /\ UNCHANGED <<tail, workspace>> /\ slot' = None
      /\ paused' = [j \in Job |-> FALSE]
      /\ pc' = [j \in Job |-> IF pc[j] = "new" /\ disk[j].place = 0 THEN "new" ELSE "done"]
      /\ result' = [j \in Job |-> "none"]
      /\ resume' = [r \in ResumeCall |-> NoResume]
      /\ entry' = Reopened \/ entry' = [j \in Job |-> NoEntry]
      /\ disk' \in {disk, Reopened}
  BY DEF Open
<1>3. ASSUME NEW k \in Job
      PROVE  /\ Reopened[k].place = disk[k].place
             /\ Reopened[k].state \in Terminal
             /\ disk[k].place > 0 /\ workspace[k] => Reopened[k].saved
  <2>1. Reopened[k] = Restored(k)
    BY DEF Reopened
  <2>2. Restored(k).place = disk[k].place /\ Restored(k).state \in Terminal
    BY DEF Restored, NoEntry, Terminal
  <2>3. disk[k].place > 0 /\ workspace[k] => Restored(k).saved
    <3> DEFINE known == disk[k].saved \/ workspace[k]
               state == IF disk[k].state \in Terminal THEN disk[k].state ELSE "Interrupted"
    <3>1. CASE disk[k].place > 0 /\ workspace[k]
      <4>1. known
        BY <3>1
      <4>2. Restored(k) = [place |-> disk[k].place, state |-> state, saved |-> known]
        BY <3>1 DEF Restored
      <4> HIDE DEF known, state
      <4>3. Restored(k).saved = known
        BY <4>2
      <4>q. QED
        BY <4>1, <4>3
    <3>q. QED
      BY <3>1
  <2>q. QED
    BY <2>1, <2>2, <2>3
<1>4. NoEntry.place = 0 /\ NoEntry.state \in Terminal
  BY DEF NoEntry, Terminal
<1>5. Placed'
  <2>1. \A k \in Job : /\ entry'[k].place \in {0, disk[k].place}
                       /\ entry'[k].state \in Terminal
                       /\ disk'[k].place = disk[k].place
    BY <1>2, <1>3, <1>4
  <2>2. \A k \in Job : pc'[k] = "new" => disk[k].place = 0
    BY <1>2
  <2>q. QED
    BY <1>0, <1>2, <2>1, <2>2 DEF OrderInv, Placed
<1>6. ResumeChecked'
  BY <1>2 DEF ResumeChecked
<1>7. SlotHeld' /\ ExecutionOrder'
  BY <1>0, <1>2 DEF SlotHeld, ExecutionOrder, Executing, Attempt
<1>8. Attended' /\ CancelShown' /\ DiskBehind' /\ StopQueueHolds'
  BY <1>1 DEF Attended, CancelShown, DiskBehind, StopQueueHolds
<1>9. Resulting'
  BY <1>2 DEF Resulting, Closing
<1>10. Shown' /\ FrozenShown'
  <2>1. \A k \in Job : entry'[k].state \in Terminal /\ ~paused'[k]
    BY <1>2, <1>3, <1>4
  <2>q. QED
    BY <2>1 DEF Shown, FrozenShown, Pausable, Terminal
<1>11. CheckpointNamed'
  <2>1. \A k \in Job : entry'[k].place > 0 /\ workspace'[k] => entry'[k].saved
    BY <1>2, <1>3, <1>4
  <2>2. \A k \in Job : pc'[k] \in {"new", "forget"} => ~workspace'[k]
    BY <1>2 DEF OrderInv, CheckpointNamed
  <2>q. QED
    BY <2>1, <2>2 DEF CheckpointNamed, Listed
<1>q. QED
  BY <1>5, <1>6, <1>7, <1>8, <1>9, <1>10, <1>11 DEF OrderInv

LEMMA InitialOrder == Init => OrderInv
<1> SUFFICES ASSUME Init PROVE OrderInv
  OBVIOUS
<1>1. /\ \A k \in Job : /\ entry[k] = NoEntry /\ disk[k] = NoEntry
                       /\ ~paused[k] /\ pc[k] = "new" /\ result[k] = "none"
                       /\ ~workspace[k]
      /\ slot = None /\ tail = 1 /\ \A r \in ResumeCall : resume[r] = NoResume
  BY DEF Init
<1>2. Unfinished(entry) = {}
  BY DEF Init, Unfinished, Listed, NoEntry
<1>3. NoEntry.place = 0 /\ NoEntry.state \in Terminal
  BY DEF NoEntry, Terminal
<1>4. Placed /\ ResumeChecked
  BY <1>1, <1>3 DEF Placed, ResumeChecked
<1>5. SlotHeld /\ ExecutionOrder
  BY <1>1, JobAssumption DEF SlotHeld, ExecutionOrder, Executing, Attempt
<1>6. Attended /\ CancelShown /\ DiskBehind /\ StopQueueHolds
  BY <1>2 DEF Attended, CancelShown, DiskBehind, StopQueueHolds
<1>7. Resulting /\ Shown /\ FrozenShown /\ CheckpointNamed
  BY <1>1, <1>3 DEF Resulting, Shown, FrozenShown, CheckpointNamed, Closing, Pausable,
     Terminal
<1>q. QED
  BY <1>4, <1>5, <1>6, <1>7 DEF OrderInv

LEMMA OrderInductive == SafetyInv /\ OrderInv /\ [Next]_vars => OrderInv'
<1> SUFFICES ASSUME SafetyInv, OrderInv, [Next]_vars PROVE OrderInv'
  OBVIOUS
<1>1. CASE \E j \in Job : Worker(j)
  BY <1>1, WorkerKeepsOrder
<1>2. CASE Request
  <2>1. TypeOK /\ ResumeChecked
    BY DEF SafetyInv, OrderInv
  <2>2. RequestEffect \/ \E A, P : Joins(A, P) \/ JoinFails(P)
    BY <1>2, <2>1, RequestOutcome
  <2>q. QED
    BY <1>2, <2>2, EffectKeepsOrder, JoinsKeepsOrder, JoinFailsKeepsOrder
<1>3. CASE Open
  BY <1>3, OpenKeepsOrder
<1>4. CASE UNCHANGED vars
  <2>1. UNCHANGED <<entry, cancel, paused, pc, result, slot, storageError, epoch, resume, tail,
                    disk, workspace, requested>>
    BY <1>4 DEF vars, memory, workers, calls, durable
  <2>2. Placed' /\ ResumeChecked' /\ SlotHeld' /\ ExecutionOrder'
    BY <2>1 DEF OrderInv, Placed, ResumeChecked, SlotHeld, ExecutionOrder, Before, Unfinished,
       Listed
  <2>3. Attended' /\ CancelShown' /\ DiskBehind' /\ StopQueueHolds' /\ CheckpointNamed'
    BY <2>1 DEF OrderInv, Attended, CancelShown, DiskBehind, StopQueueHolds, CheckpointNamed,
       Unfinished, Listed
  <2>4. Resulting' /\ Shown' /\ FrozenShown'
    BY <2>1 DEF OrderInv, Resulting, Shown, FrozenShown, Unfinished, Listed
  <2>q. QED
    BY <2>2, <2>3, <2>4 DEF OrderInv
<1>q. QED
  BY <1>1, <1>2, <1>3, <1>4 DEF Next, Exited

THEOREM OrderCorrect == Spec => []OrderInv
BY InitialSafety, SafetyInductive, InitialOrder, OrderInductive, PTL DEF Spec

(* Whoever executes holds the slot, and nothing unfinished is listed       *)
(* before it: for any number of jobs admitted, resumed and pruned between  *)
(* its turn and its execution.                                             *)
THEOREM TurnsInOrder == Spec => []ExecutionOrder
<1>1. OrderInv => ExecutionOrder
  BY DEF OrderInv
<1>q. QED
  BY <1>1, OrderCorrect, PTL

(* No attempt inherits the pause of an earlier one, and no phase hides the *)
(* pause of its own.  A confirmed review does (Confirm), hence the         *)
(* assumption.                                                             *)
THEOREM FrozenIsShown ==
  ASSUME ReviewedJobs = {}
  PROVE  Spec => []FrozenOnlyIfPaused
<1>1. OrderInv => FrozenOnlyIfPaused
  BY DEF OrderInv, FrozenShown, FrozenOnlyIfPaused
<1>q. QED
  BY <1>1, OrderCorrect, PTL

(* Saved progress is named by the history once its worker has ended, even  *)
(* after a crash between the manifest and the snapshot that names it.      *)
THEOREM CheckpointsAreKnown == Spec => []CheckpointKnown
<1>1. OrderInv => CheckpointKnown
  BY DEF OrderInv, CheckpointNamed, CheckpointKnown, Listed
<1>q. QED
  BY <1>1, OrderCorrect, PTL

(* Stop Queue reaches every request that was made before it. *)
THEOREM StopQueueReaches == Spec => []StopQueueHolds
<1>1. OrderInv => StopQueueHolds
  BY DEF OrderInv
<1>q. QED
  BY <1>1, OrderCorrect, PTL

(* No step labels a job canceled or stopped that nobody asked to stop, as  *)
(* its snapshot shows.  A review confirmed as it is canceled shows Running *)
(* again (Confirm) and ends Canceled, hence the assumption.                *)
THEOREM CancellationsAreRequested ==
  ASSUME ReviewedJobs = {}
  PROVE  Spec => OnlyRequestedCancelIsCanceled
<1> DEFINE Labels ==
             \A j \in Job :
               /\ j \in Unfinished(entry) \cap Listed(entry')
               /\ entry[j].state \notin {"Canceling", "Stopping"}
               => entry'[j].state \notin {"Canceled", "Stopped"}
<1>1. ASSUME SafetyInv, OrderInv, [Next]_vars
      PROVE  [Labels]_vars
  <2> SUFFICES ASSUME NEW j \in Job, j \in Unfinished(entry), j \in Listed(entry'),
                      entry[j].state \notin {"Canceling", "Stopping"}
               PROVE  entry'[j].state \notin {"Canceled", "Stopped"}
    OBVIOUS
  <2>0. TypeOK /\ ResumeChecked
    BY <1>1 DEF SafetyInv, OrderInv
  <2>1. entry[j].state \notin Terminal
    BY DEF Unfinished
  <2>2. ASSUME NEW k \in Job, Worker(k)
        PROVE  entry'[j].state \notin {"Canceled", "Stopped"}
    <3>1. CASE k # j
      BY <2>0, <2>1, <2>2, <3>1, WorkerShape DEF WorkerEffect, Terminal
    <3>2. CASE k = j
      <4>1. Moves(j)
        BY <2>0, <2>2, <3>2, WorkerMoves
      <4>2. pc[j] = "settle" => FinalState(j) \notin {"Canceled", "Stopped"}
        <5>1. pc[j] = "settle" => result[j] \in {"ok", "failed"}
          BY <1>1, <2>0 DEF OrderInv, Resulting, Closing, TypeOK
        <5>2. result[j] = "ok" => entry[j].state = "Succeeded"
          BY <1>1 DEF OrderInv, Resulting
        <5>q. QED
          BY <5>1, <5>2 DEF FinalState
      <4>q. QED
        BY <2>1, <4>1, <4>2 DEF Moves, Pausable, Terminal
    <3>q. QED
      BY <3>1, <3>2
  <2>3. CASE Request
    <3>1. CASE RequestEffect
      BY <2>1, <3>1 DEF RequestEffect, RequestOn, Redirected, Terminal
    <3>2. ASSUME NEW A, NEW P, Joins(A, P) \/ JoinFails(P)
          PROVE  entry'[j].state \notin {"Canceled", "Stopped"}
      <4>1. CASE j \in A /\ Joins(A, P)
        BY <4>1 DEF Joins
      <4>2. CASE entry'[j] = Without(P)[j]
        <5>1. entry'[j] = entry[j] \/ entry'[j] = NoEntry
          BY <4>2 DEF Without
        <5>2. entry'[j].place > 0
          BY DEF Listed
        <5>3. entry'[j] # NoEntry
          BY <5>2 DEF NoEntry
        <5>q. QED
          BY <2>1, <5>1, <5>3 DEF Terminal
      <4>q. QED
        BY <3>2, <4>1, <4>2 DEF Joins, JoinFails
    <3>q. QED
      BY <2>0, <2>3, <3>1, <3>2, RequestOutcome
  <2>4. CASE Open
    <3>1. entry'[j].place > 0
      BY DEF Listed
    <3>2. entry' = Reopened
      <4>1. entry'[j] # NoEntry
        BY <3>1 DEF NoEntry
      <4>q. QED
        BY <2>4, <4>1 DEF Open
    <3>3. Restored(j).place > 0
      BY <3>1, <3>2 DEF Reopened
    <3>4. disk[j].place # 0 /\ disk[j].state \notin Terminal
      <4>1. disk[j].place # 0
        BY <3>3 DEF Restored, NoEntry
      <4>q. QED
        BY <1>1, <4>1 DEF OrderInv, DiskBehind
    <3>5. Restored(j).state = "Interrupted"
      BY <3>4 DEF Restored
    <3>q. QED
      BY <3>2, <3>5 DEF Reopened
  <2>5. CASE UNCHANGED vars
    BY <2>1, <2>5 DEF vars, memory, Terminal
  <2>q. QED
    BY <1>1, <2>2, <2>3, <2>4, <2>5 DEF Next, Exited
<1>q. QED
  BY <1>1, SafetyCorrect, OrderCorrect, PTL DEF Spec, OnlyRequestedCancelIsCanceled

-----------------------------------------------------------------------------
(* The length of the history. *)
Fits(e) == IsFiniteSet(Listed(e)) /\ Cardinality(Listed(e)) <= MaxHistory

HistoryInv == Fits(entry) /\ Fits(disk)

(* Pruning shortens the list, and makes room for n more jobs. *)
LEMMA EvictionRoom ==
  ASSUME Fits(entry), NEW n \in Nat, NEW P \in Evictions(n),
         NEW A, IsFiniteSet(A), Cardinality(A) <= n,
         NEW e, Listed(e) \subseteq (Listed(entry) \ P) \cup A
  PROVE  Fits(e)
<1> DEFINE L == Listed(entry)
<1>1. /\ P \subseteq L /\ IsFiniteSet(L)
      /\ Cardinality(P) = Max0(Cardinality(L) + n - MaxHistory)
      /\ Cardinality(L) <= MaxHistory
  BY DEF Evictions, Fits
<1>2. IsFiniteSet(P) /\ IsFiniteSet(L \ P)
  BY <1>1, FS_Subset, FS_Difference
<1>3. L \cap P = P
  BY <1>1
<1>4. /\ Cardinality(L) \in Nat /\ Cardinality(P) \in Nat /\ Cardinality(A) \in Nat
      /\ Cardinality(L \ P) = Cardinality(L) - Cardinality(P)
  <2>1. Cardinality(L) \in Nat /\ Cardinality(P) \in Nat /\ Cardinality(A) \in Nat
    BY <1>1, <1>2, FS_CardinalityType
  <2>2. Cardinality(L \ P) = Cardinality(L) - Cardinality(L \cap P)
    BY <1>1, <1>2, FS_Difference
  <2>q. QED
    BY <1>3, <2>1, <2>2
<1>5. /\ IsFiniteSet((L \ P) \cup A)
      /\ Cardinality((L \ P) \cup A) <= Cardinality(L \ P) + Cardinality(A)
  <2>1. IsFiniteSet((L \ P) \cup A) /\ IsFiniteSet((L \ P) \cap A)
    BY <1>2, FS_Union, FS_Intersection
  <2>2. /\ Cardinality((L \ P) \cup A) =
             Cardinality(L \ P) + Cardinality(A) - Cardinality((L \ P) \cap A)
        /\ Cardinality((L \ P) \cap A) \in Nat
        /\ Cardinality(L \ P) \in Nat
    BY <1>2, <2>1, FS_Union, FS_CardinalityType
  <2>q. QED
    BY <1>4, <2>1, <2>2
<1>6. IsFiniteSet(Listed(e)) /\ Cardinality(Listed(e)) <= Cardinality((L \ P) \cup A)
  BY <1>5, FS_Subset
<1>7. /\ Cardinality((L \ P) \cup A) \in Nat
      /\ Cardinality(Listed(e)) \in Nat
      /\ Cardinality(L \ P) \in Nat
      /\ MaxHistory \in Nat
  BY <1>2, <1>5, <1>6, FS_CardinalityType, BoundAssumption
<1>8. Cardinality(L \ P) + Cardinality(A) <= MaxHistory
  <2>1. Cardinality(P) >= Cardinality(L) + n - MaxHistory
    BY <1>1, <1>4, <1>7 DEF Max0
  <2>q. QED
    BY <1>4, <1>7, <2>1
<1> HIDE DEF L
<1>q. QED
  BY <1>4, <1>5, <1>6, <1>7, <1>8 DEF Fits

(* A shorter list fits. *)
LEMMA ShorterFits ==
  ASSUME NEW e, NEW f, Fits(e), Listed(f) \subseteq Listed(e)
  PROVE  Fits(f)
<1>1. /\ IsFiniteSet(Listed(f)) /\ Cardinality(Listed(f)) <= Cardinality(Listed(e))
      /\ Cardinality(Listed(f)) \in Nat /\ Cardinality(Listed(e)) \in Nat
  BY FS_Subset, FS_CardinalityType DEF Fits
<1>q. QED
  BY <1>1, BoundAssumption DEF Fits

(* The jobs of a batch are at most as many as its length. *)
LEMMA BatchSize ==
  ASSUME TypeOK
  PROVE  IsFiniteSet(Members(batch.jobs)) /\ Cardinality(Members(batch.jobs)) <= Len(batch.jobs)
<1> DEFINE b == batch.jobs
           f == [i \in 1 .. Len(b) |-> b[i]]
<1>1. Len(b) \in Nat /\ DOMAIN b = 1 .. Len(b)
  BY BatchJobs
<1>2. IsFiniteSet(1 .. Len(b)) /\ Cardinality(1 .. Len(b)) = Len(b)
  BY <1>1, FS_Interval
<1>3. f \in Surjection(1 .. Len(b), Members(b))
  BY <1>1 DEF Members, Surjection
<1>q. QED
  BY <1>2, <1>3, FS_Surjection

LEMMA HistoryStep == TypeOK /\ OrderInv /\ HistoryInv /\ [Next]_vars => HistoryInv'
<1> SUFFICES ASSUME TypeOK, OrderInv, HistoryInv, [Next]_vars PROVE HistoryInv'
  OBVIOUS
<1>0. \A k \in Job : entry[k].place \in Nat
  BY DEF TypeOK, Snapshot
<1>1. ASSUME Listed(entry') = Listed(entry), disk' = disk \/ disk' = entry'
      PROVE  HistoryInv'
  BY <1>1, ShorterFits DEF HistoryInv
<1>2. ASSUME NEW n \in Nat, NEW P \in Evictions(n), NEW A, IsFiniteSet(A), Cardinality(A) <= n,
             NEW e, Listed(e) \subseteq (Listed(entry) \ P) \cup A,
             disk' \in {disk, e},
             entry' = e \/ Listed(entry') \subseteq Listed(entry)
      PROVE  HistoryInv'
  BY <1>2, EvictionRoom, ShorterFits DEF HistoryInv
<1>3. CASE \E j \in Job : Worker(j)
  <2>1. (\A k \in Job : entry'[k].place = entry[k].place) /\ (disk' = disk \/ disk' = entry')
    BY <1>3, WorkerShape DEF WorkerEffect, Keeps
  <2>q. QED
    BY <1>1, <2>1 DEF Listed
<1>4. CASE RequestEffect
  <2>1. (\A k \in Job : entry'[k].place = entry[k].place) /\ (disk' = disk \/ disk' = entry')
    BY <1>4 DEF RequestEffect, RequestOn, Keeps
  <2>q. QED
    BY <1>1, <2>1 DEF Listed
<1>5. ASSUME NEW j \in Job, NEW allowQueue \in BOOLEAN, AdmitJob(j, allowQueue)
      PROVE  HistoryInv'
  <2>1. PICK P \in Evictions(1) :
          LET e == [Without(P) EXCEPT ![j] = QueuedAt(tail)] IN
          \/ Saved(e) /\ entry' = e
          \/ SaveFails(e) /\ entry' = Without(P)
    BY <1>5 DEF AdmitJob
  <2> DEFINE e == [Without(P) EXCEPT ![j] = QueuedAt(tail)]
  <2>2. Listed(e) \subseteq (Listed(entry) \ P) \cup {j} /\ Listed(Without(P)) \subseteq Listed(entry)
    BY DEF Listed, Without, NoEntry
  <2>3. IsFiniteSet({j}) /\ Cardinality({j}) <= 1 /\ 1 \in Nat
    <3>1. IsFiniteSet({j}) /\ Cardinality({j}) = 1
      BY FS_Singleton, Zenon
    <3>q. QED
      BY <3>1
  <2>4. disk' \in {disk, e} /\ (entry' = e \/ entry' = Without(P))
    BY <2>1 DEF Saved, SaveFails
  <2> HIDE DEF e
  <2>q. QED
    BY <1>2, <2>2, <2>3, <2>4
<1>6. CASE AdmitBatch
  <2> DEFINE A == Members(batch.jobs)
             at(j) == CHOOSE i \in DOMAIN batch.jobs : batch.jobs[i] = j
             queued(P) == [j \in Job |-> IF j \in A THEN QueuedAt(tail + at(j) - 1)
                                                    ELSE Without(P)[j]]
  <2>1. PICK P \in Evictions(Len(batch.jobs)) :
          \/ Saved(queued(P)) /\ entry' = queued(P)
          \/ SaveFails(queued(P)) /\ UNCHANGED entry
    BY <1>6 DEF AdmitBatch
  <2>2. Listed(queued(P)) \subseteq (Listed(entry) \ P) \cup A
    BY DEF Listed, Without, NoEntry
  <2>3. IsFiniteSet(A) /\ Cardinality(A) <= Len(batch.jobs) /\ Len(batch.jobs) \in Nat
    BY BatchSize, BatchJobs
  <2>4. disk' \in {disk, queued(P)} /\ (entry' = queued(P) \/ entry' = entry)
    BY <2>1 DEF Saved, SaveFails
  <2> HIDE DEF A, queued
  <2>q. QED
    BY <1>2, <2>2, <2>3, <2>4
<1>7. ASSUME NEW r \in ResumeCall, CommitResume(r)
      PROVE  HistoryInv'
  <2> DEFINE j == resume[r].job
             e == [entry EXCEPT ![j] = Requeued(entry[j])]
  <2>1. disk' \in {disk, e} /\ entry' \in {entry, e}
    BY <1>7 DEF CommitResume, Saved, SaveFails
  <2>2. j \in Listed(entry)
    <3>1. resume[r] # NoResume /\ entry[j] = resume[r].snapshot
      BY <1>7 DEF CommitResume, SameSnapshot
    <3>q. QED
      BY <3>1 DEF OrderInv, ResumeChecked, Listed
  <2> HIDE DEF j
  <2>3. Listed(e) \subseteq Listed(entry)
    BY <2>2 DEF Listed, TypeOK
  <2> HIDE DEF e
  <2>q. QED
    BY <2>1, <2>3, ShorterFits DEF HistoryInv
<1>8. CASE Request
  <2>1. CASE \/ \E b \in Batches : BeginBatch(b)
             \/ RejectBatch
             \/ \E r \in ResumeCall, j \in Job : BeginResume(r, j)
             \/ \E r \in ResumeCall : RejectResume(r)
    BY <1>4, <2>1, IdleRequest DEF BeginBatch, RejectBatch, BeginResume, RejectResume
  <2>q. QED
    BY <1>4, <1>5, <1>6, <1>7, <1>8, <2>1, CancelStep, PauseStep, ClosingStep, DiscardStep
    DEF Request
<1>9. CASE Open
  <2>1. Listed(Reopened) \subseteq Listed(disk) /\ Listed([j \in Job |-> NoEntry]) \subseteq Listed(disk)
    BY DEF Listed, Reopened, Restored, NoEntry
  <2>2. entry' \in {Reopened, [j \in Job |-> NoEntry]} /\ disk' \in {disk, Reopened}
    BY <1>9 DEF Open
  <2>q. QED
    BY <2>1, <2>2, ShorterFits DEF HistoryInv
<1>10. CASE UNCHANGED vars
  BY <1>10 DEF vars, memory, durable, HistoryInv, Fits, Listed
<1>q. QED
  BY <1>3, <1>8, <1>9, <1>10 DEF Next, Exited

(* The history never outgrows what the next start accepts, however jobs    *)
(* and batches are admitted while writes fail.                             *)
THEOREM HistoryStaysReadable == Spec => []HistoryReopens
<1>1. Init => HistoryInv
  <2> SUFFICES ASSUME Init PROVE HistoryInv
    OBVIOUS
  <2>1. Listed(entry) = {} /\ Listed(disk) = {}
    BY DEF Init, Listed, NoEntry
  <2>q. QED
    BY <2>1, FS_EmptySet, BoundAssumption DEF HistoryInv, Fits
<1>2. HistoryInv => HistoryReopens
  BY DEF HistoryInv, Fits, HistoryReopens
<1>q. QED
  BY <1>1, <1>2, HistoryStep, TypeCorrect, OrderCorrect, PTL DEF Spec

-----------------------------------------------------------------------------
(* The queue implements its abstract specification: unfinished jobs in     *)
(* order, one running, one output per destination.                         *)

(* The places of the abstract queue. *)
Places(e) == [j \in Job |-> IF j \in Unfinished(e) THEN e[j].place ELSE 0]

LEMMA PlacesQueued ==
  ASSUME entry \in [Job -> Snapshot]
  PROVE  /\ Queue!Queued = Unfinished(entry)
         /\ \A j \in Unfinished(entry) : Places(entry)[j] = entry[j].place
         /\ \A j \in Job : Places(entry)[j] > 0 => j \in Unfinished(entry)
BY DEF Queue!Queued, Places, Unfinished, Listed

LEMMA QueueInit == Init => Queue!Init
<1> SUFFICES ASSUME Init PROVE Queue!Init
  OBVIOUS
<1>1. Unfinished(entry) = {}
  BY DEF Init, Unfinished, Listed, NoEntry
<1>q. QED
  BY <1>1 DEF Init, Queue!Init

(* A step that leaves the unfinished jobs, their places, the slot and the  *)
(* outputs alone is none of the abstract queue.                            *)
LEMMA QueueStutters ==
  ASSUME \A k \in Job : k \in Unfinished(entry') <=> k \in Unfinished(entry),
         \A k \in Unfinished(entry) : entry'[k].place = entry[k].place,
         UNCHANGED <<slot, out>>
  PROVE  UNCHANGED Queue!vars
<1>1. Places(entry') = Places(entry)
  BY DEF Places
<1>q. QED
  BY <1>1 DEF Queue!vars, Places

LEMMA WorkerImplements ==
  ASSUME SafetyInv, OrderInv, NEW j \in Job, Worker(j)
  PROVE  Queue!Next \/ UNCHANGED Queue!vars
<1>0. /\ TypeOK /\ WorkersUnfinished /\ None \notin Job
      /\ entry \in [Job -> Snapshot] /\ \A k \in Job : entry[k].place \in Nat
  BY JobAssumption DEF SafetyInv, TypeOK, Snapshot
<1>1. WorkerEffect(j) /\ Moves(j)
  BY <1>0, WorkerShape, WorkerMoves
<1>2. \A k \in Job : entry'[k].place = entry[k].place /\ (k # j => entry'[k] = entry[k])
  BY <1>1 DEF WorkerEffect
<1>3. \A k \in Job : k # j => (k \in Unfinished(entry') <=> k \in Unfinished(entry))
  BY <1>2 DEF Unfinished, Listed
<1>4. j \in Unfinished(entry') => j \in Unfinished(entry)
  BY <1>0, WorkerContinues DEF Continues
<1>5. pc[j] \in Live => j \in Unfinished(entry)
  BY <1>0 DEF WorkersUnfinished, Live
<1>6. ASSUME j \in Unfinished(entry') <=> j \in Unfinished(entry), UNCHANGED <<slot, out>>
      PROVE  UNCHANGED Queue!vars
  BY <1>2, <1>3, <1>6, QueueStutters, UnfinishedJobs
<1>7. ASSUME j \in Unfinished(entry), j \notin Unfinished(entry')
      PROVE  Places(entry') = [Places(entry) EXCEPT ![j] = 0]
  BY <1>2, <1>3, <1>7 DEF Places
<1>8. CASE pc[j] = "head" /\ slot = None /\ slot' = j /\ UNCHANGED <<entry[j], out>>
  <2>1. j \in Unfinished(entry)
    BY <1>5, <1>8 DEF Live, Waiting
  <2>2. Places(entry') = Places(entry)
    BY <1>2, <1>3, <1>8 DEF Places, Unfinished, Listed
  <2>3. \A k \in Unfinished(entry) : entry[j].place <= entry[k].place
    BY <1>0, <1>8, UnfinishedJobs DEF OrderInv, ExecutionOrder, Before
  <2>4. \A k \in Queue!Queued : Places(entry)[j] <= Places(entry)[k]
    BY <1>0, <2>1, <2>3, PlacesQueued
  <2>5. Queue!Start(j)
    BY <1>0, <1>8, <2>1, <2>2, <2>4, PlacesQueued DEF Queue!Start, Places
  <2>q. QED
    BY <2>5 DEF Queue!Next
<1>9. CASE /\ pc[j] = "finalize" /\ entry'[j].state = "Succeeded" /\ UNCHANGED slot
           /\ out[DestOf[j]] = None /\ out' = [out EXCEPT ![DestOf[j]] = j]
  <2>1. j \in Unfinished(entry) /\ slot = j
    BY <1>5, <1>9 DEF Live, Attempt, OrderInv, SlotHeld, Executing
  <2>2. j \notin Unfinished(entry')
    BY <1>9 DEF Unfinished, Terminal
  <2>3. Queue!Publish(j)
    BY <1>0, <1>7, <1>9, <2>1, <2>2, PlacesQueued DEF Queue!Publish, Places
  <2>q. QED
    BY <2>3 DEF Queue!Next
<1>10. CASE /\ pc[j] = "settle" /\ UNCHANGED <<slot, out>>
  <2>1. CASE j \in Unfinished(entry) /\ j \notin Unfinished(entry')
    <3>1. Queue!GiveUp(j)
      BY <1>0, <1>7, <1>10, <2>1, PlacesQueued DEF Queue!GiveUp, Places
    <3>q. QED
      BY <3>1 DEF Queue!Next
  <2>2. CASE j \in Unfinished(entry) <=> j \in Unfinished(entry')
    BY <1>6, <1>10, <2>2
  <2>q. QED
    BY <1>4, <2>1, <2>2
<1>11. CASE pc[j] = "release" /\ slot = j /\ slot' = None /\ UNCHANGED <<entry[j], out>>
  <2>1. j \notin Unfinished(entry)
    BY <1>11 DEF OrderInv, Attended, Live, Waiting, Attempt
  <2>2. Places(entry') = Places(entry)
    BY <1>2, <1>3, <1>11 DEF Places, Unfinished, Listed
  <2>3. Queue!Yield
    BY <1>0, <1>11, <2>1, <2>2, PlacesQueued DEF Queue!Yield, Places
  <2>q. QED
    BY <2>3 DEF Queue!Next
<1>12. CASE UNCHANGED <<slot, out>> /\ (entry'[j].state = entry[j].state \/ entry'[j].state \notin Terminal)
  <2>1. CASE entry'[j].state = entry[j].state
    BY <1>2, <1>6, <1>12, <2>1 DEF Unfinished, Listed
  <2>2. CASE entry'[j].state \notin Terminal /\ entry'[j].state # entry[j].state
    <3>1. pc[j] \in Live \cup {"settle"}
      BY <1>1, <2>2 DEF Moves, Live, Attempt
    <3>2. pc[j] \in Live => j \in Unfinished(entry')
      BY <1>2, <1>5, <2>2 DEF Unfinished, Listed
    <3>3. pc[j] = "settle" => entry'[j].state \in Terminal
      <4>1. pc[j] = "settle" => FinalState(j) \in Terminal
        BY DEF OrderInv, Resulting, FinalState, Terminal
      <4>q. QED
        BY <1>1, <4>1 DEF Moves, Terminal, Attempt, Waiting
    <3>q. QED
      BY <1>5, <1>6, <1>12, <2>2, <3>1, <3>2, <3>3
  <2>q. QED
    BY <1>12, <2>1, <2>2
<1>q. QED
  BY <1>1, <1>8, <1>9, <1>10, <1>11, <1>12 DEF Moves, Pausable, Terminal

LEMMA RequestImplements ==
  ASSUME SafetyInv, OrderInv, Request
  PROVE  Queue!Next \/ UNCHANGED Queue!vars
<1>0. /\ TypeOK /\ None \notin Job /\ tail \in Nat
      /\ entry \in [Job -> Snapshot] /\ entry' \in [Job -> Snapshot]
      /\ \A k \in Job : entry[k].place \in Nat /\ entry'[k].place \in Nat
  BY JobAssumption, TypeInductive DEF SafetyInv, TypeOK, Snapshot, Next
<1>1. CASE RequestEffect
  <2>1. UNCHANGED <<slot, out>> /\ \A k \in Job : entry'[k].place = entry[k].place /\ Redirected(k)
    BY <1>1 DEF RequestEffect, RequestOn
  <2>2. \A k \in Job : k \in Unfinished(entry') <=> k \in Unfinished(entry)
    BY <2>1 DEF Redirected, Unfinished, Listed, Pausable, Terminal
  <2>q. QED
    BY <2>1, <2>2, QueueStutters, UnfinishedJobs
<1>2. ASSUME NEW k \in Job, NEW P, \A i \in P : Prunable(i), entry'[k] = Without(P)[k]
      PROVE  /\ k \in Unfinished(entry') <=> k \in Unfinished(entry)
             /\ k \in Unfinished(entry) => entry'[k] = entry[k]
  BY <1>2 DEF Without, Prunable, Unfinished, Listed, NoEntry, Terminal
<1>3. ASSUME NEW P, JoinFails(P)
      PROVE  UNCHANGED Queue!vars
  <2>1. \A k \in Job : entry'[k] = Without(P)[k]
    BY <1>3 DEF JoinFails
  <2>2. \A i \in P : Prunable(i)
    BY <1>3 DEF JoinFails
  <2>q. QED
    BY <1>2, <1>3, <2>1, <2>2, QueueStutters, UnfinishedJobs DEF JoinFails
<1>4. ASSUME NEW A, NEW P, Joins(A, P)
      PROVE  Queue!Next \/ UNCHANGED Queue!vars
  <2>1. /\ A \subseteq Job /\ UNCHANGED <<slot, out>> /\ tail > 0
        /\ \A i \in P : Prunable(i)
        /\ \A k \in Job \ A : entry'[k] = Without(P)[k]
        /\ \A j \in A : /\ pc[j] \in {"new", "done"}
                        /\ entry'[j].state = "Queued" /\ tail <= entry'[j].place
                        /\ DestinationFree(j)
        /\ \A j, k \in A : j # k => DestOf[j] # DestOf[k] /\ entry'[j].place # entry'[k].place
    BY <1>4 DEF Joins, SafetyInv, WorkersUnfinished
  <2>2. \A j \in A : j \notin Unfinished(entry) /\ j \in Unfinished(entry')
    <3>1. \A j \in A : j \notin Unfinished(entry)
      BY <2>1 DEF OrderInv, Attended, Live, Waiting, Attempt
    <3>2. \A j \in A : entry'[j].place > 0 /\ entry'[j].state \notin Terminal
      BY <1>0, <2>1 DEF Terminal
    <3>q. QED
      BY <2>1, <3>1, <3>2 DEF Unfinished, Listed
  <2>3. \A k \in Job \ A : /\ k \in Unfinished(entry') <=> k \in Unfinished(entry)
                           /\ k \in Unfinished(entry) => entry'[k] = entry[k]
    BY <1>2, <2>1
  <2>4. CASE A = {}
    BY <2>1, <2>3, <2>4, QueueStutters, UnfinishedJobs
  <2>5. CASE A # {}
    <3> DEFINE old == Places(entry)
               new == Places(entry')
    <3>1. /\ \A j \in A : old[j] = 0 /\ new[j] = entry'[j].place /\ new[j] > 0 /\ tail <= new[j]
          /\ \A k \in Job \ A : new[k] = old[k]
      BY <1>0, <2>1, <2>2, <2>3 DEF Places
    <3>2. new \in [Job -> Nat]
      BY <1>0 DEF Places
    <3>3. new # old
      BY <2>1, <2>5, <3>1
    <3>4. \A k \in Queue!Queued : k \in Job \ A /\ new[k] = old[k] /\ old[k] < tail
      BY <1>0, <2>2, <3>1, PlacesQueued, UnfinishedJobs DEF OrderInv, Placed
    <3>5. ASSUME NEW j \in Job, NEW k \in Job, old[j] = 0, new[j] > 0, k # j, new[k] > 0
          PROVE  /\ DestOf[k] # DestOf[j]
                 /\ new[k] # new[j]
                 /\ k \in Queue!Queued => old[k] < new[j]
      <4>1. j \in A
        BY <3>1, <3>5
      <4>2. tail <= new[j] /\ new[j] \in Nat
        BY <3>1, <3>2, <4>1
      <4>3. CASE k \in A
        BY <2>1, <3>1, <3>4, <3>5, <4>1, <4>3
      <4>4. CASE k \notin A
        <5>1. k \in Unfinished(entry)
          BY <1>0, <3>1, <3>5, <4>4, PlacesQueued
        <5>2. DestOf[k] # DestOf[j]
          BY <2>1, <4>1, <5>1 DEF DestinationFree
        <5>3. new[k] = old[k] /\ old[k] < tail
          BY <1>0, <3>4, <5>1, PlacesQueued
        <5>q. QED
          BY <1>0, <3>2, <4>2, <5>2, <5>3
      <4>q. QED
        BY <4>3, <4>4
    <3>6. UNCHANGED <<slot, out>>
      BY <2>1
    <3>7. Queue!Submit
      BY <3>2, <3>3, <3>4, <3>5, <3>6 DEF Queue!Submit, Places
    <3>q. QED
      BY <3>7 DEF Queue!Next
  <2>q. QED
    BY <2>4, <2>5
<1>q. QED
  BY <1>0, <1>1, <1>3, <1>4, RequestOutcome DEF OrderInv

LEMMA QueueNext == SafetyInv /\ OrderInv /\ [Next]_vars => [Queue!Next]_(Queue!vars)
<1> SUFFICES ASSUME SafetyInv, OrderInv, [Next]_vars
             PROVE  Queue!Next \/ UNCHANGED Queue!vars
  OBVIOUS
<1>1. CASE Open
  <2>1. Unfinished(entry') = {} /\ slot' = None /\ UNCHANGED out
    BY <1>1, OpenStep DEF Open
  <2>2. Queue!Restart
    BY <2>1 DEF Queue!Restart
  <2>q. QED
    BY <2>2 DEF Queue!Next
<1>2. CASE UNCHANGED vars
  BY <1>2, QueueStutters DEF vars, memory, workers, durable
<1>q. QED
  BY <1>1, <1>2, WorkerImplements, RequestImplements DEF Next, Exited

(* Admission, turns, publication, cancellation, failed writes, restarts    *)
(* and resumes together are a queue that keeps its promise.                *)
THEOREM QueueKeepsPromise == Spec => ImplementsQueue
BY QueueInit, QueueNext, SafetyCorrect, OrderCorrect, PTL DEF Spec, ImplementsQueue, Queue!Spec
=============================================================================
