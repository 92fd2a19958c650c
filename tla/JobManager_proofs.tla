-------------------------- MODULE JobManager_proofs --------------------------
(* Theorems about JobManager, for every set of jobs, destinations, batches *)
(* and every bound: the types, and what one classification of all steps    *)
(* gives at once.                                                          *)
EXTENDS JobManager, TLAPS

(* The stages of a worker are stages. *)
LEMMA StageType ==
  /\ Waiting \subseteq Stage
  /\ Attempt \subseteq Stage
  /\ Executing \subseteq Stage
  /\ "report" \in Stage /\ "settle" \in Stage /\ "release" \in Stage
  /\ "new" \in Stage /\ "done" \in Stage
  /\ "wait" \in Stage /\ "turn" \in Stage /\ "head" \in Stage
BY DEF Stage, Waiting, Attempt, Executing, Closing

(* Waking the waiting workers keeps every stage a stage. *)
LEMMA NotifiedType ==
  ASSUME pc \in [Job -> Stage]
  PROVE  Notified \in [Job -> Stage]
BY StageType DEF Notified

LEMMA NoEntryType == NoEntry \in Snapshot
BY DEF NoEntry, Snapshot, JobState, Terminal

(* A history write, whatever its outcome, leaves typed state. *)
LEMMA PersistType ==
  ASSUME NEW e \in [Job -> Snapshot], NEW c \in [Job -> BOOLEAN],
         storageError \in BOOLEAN, disk \in [Job -> Snapshot], Persist(e, c)
  PROVE  /\ entry' \in [Job -> Snapshot]
         /\ cancel' \in [Job -> BOOLEAN]
         /\ disk' \in [Job -> Snapshot]
         /\ storageError' \in BOOLEAN
<1>1. CancelUnfinished(e, c) \in [Job -> BOOLEAN]
  BY DEF CancelUnfinished
<1>2. CASE storageError /\ cancel' = c /\ UNCHANGED <<disk, storageError>>
  BY <1>2 DEF Persist
<1>3. CASE Saved(e) /\ cancel' = c
  BY <1>3 DEF Persist, Saved
<1>4. CASE SaveFails(e) /\ cancel' = CancelUnfinished(e, c)
  BY <1>1, <1>4 DEF Persist, SaveFails
<1>q. QED
  BY <1>2, <1>3, <1>4 DEF Persist

(* A worker's update of its own snapshot leaves typed state. *)
LEMMA ChangeType ==
  ASSUME TypeOK, NEW j \in Job, NEW s \in Snapshot, NEW to \in Stage,
         Change(j, s, to)
  PROVE  /\ entry' \in [Job -> Snapshot]
         /\ cancel' \in [Job -> BOOLEAN]
         /\ disk' \in [Job -> Snapshot]
         /\ storageError' \in BOOLEAN
         /\ pc' \in [Job -> Stage]
<1>1. CASE s = entry[j] /\ s.state \notin Terminal
  <2>1. pc' = [pc EXCEPT ![j] = to] /\ UNCHANGED <<entry, cancel, disk, storageError>>
    BY <1>1 DEF Change
  <2>q. QED
    BY <2>1 DEF TypeOK
<1>2. CASE ~(s = entry[j] /\ s.state \notin Terminal)
  <2>1. pc' = [Notified EXCEPT ![j] = to] /\ Persist([entry EXCEPT ![j] = s], cancel)
    BY <1>2 DEF Change
  <2>2. [entry EXCEPT ![j] = s] \in [Job -> Snapshot]
    BY DEF TypeOK
  <2>3. pc' \in [Job -> Stage]
    BY <2>1, NotifiedType DEF TypeOK
  <2>q. QED
    BY <2>1, <2>2, <2>3, PersistType DEF TypeOK
<1>q. QED
  BY <1>1, <1>2

LEMMA PhaseStateType ==
  ASSUME NEW s \in JobState, NEW phase \in JobState
  PROVE  PhaseState(s, phase) \in JobState
BY DEF PhaseState

LEMMA SnapshotUpdates ==
  ASSUME NEW s \in Snapshot
  PROVE  /\ s.state \in JobState
         /\ \A state \in JobState : [s EXCEPT !.state = state] \in Snapshot
         /\ \A saved \in BOOLEAN : [s EXCEPT !.saved = saved] \in Snapshot
BY DEF Snapshot

LEMMA RequestTypes ==
  /\ NoBatch \in [jobs : Batches \cup {<<>>}, epoch : Nat]
  /\ NoResume \in [job : Job \cup {None}, snapshot : Snapshot, epoch : Nat]
BY NoEntryType DEF NoBatch, NoResume

(* The queue after an eviction, and a newly queued entry, are typed. *)
LEMMA EvictionType ==
  ASSUME TypeOK, NEW P
  PROVE  Without(P) \in [Job -> Snapshot]
BY NoEntryType DEF TypeOK, Without

LEMMA QueuedAtType ==
  ASSUME NEW n \in Nat
  PROVE  QueuedAt(n) \in Snapshot
BY DEF QueuedAt, Snapshot, JobState

LEMMA CancelUnfinishedType ==
  ASSUME NEW e, NEW c
  PROVE  CancelUnfinished(e, c) \in [Job -> BOOLEAN]
BY DEF CancelUnfinished

LEMMA RestoredType ==
  ASSUME TypeOK
  PROVE  Reopened \in [Job -> Snapshot]
<1>1. ASSUME NEW j \in Job PROVE Restored(j) \in Snapshot
  BY NoEntryType DEF TypeOK, Restored, Snapshot, JobState, Terminal
<1>q. QED
  BY <1>1 DEF Reopened

(* A worker's update of its snapshot, and nothing else but a result, keeps *)
(* every type; so does a request that saves the history.                   *)
LEMMA ChangeKeepsTypes ==
  ASSUME TypeOK, NEW j \in Job, NEW s \in Snapshot, NEW to \in Stage,
         Change(j, s, to),
         result' \in [Job -> {"none", "ok", "failed", "canceled"}],
         UNCHANGED <<paused, shuttingDown, epoch, slot, calls, workspace, out, session>>
  PROVE  TypeOK'
<1>1. /\ entry' \in [Job -> Snapshot]
      /\ cancel' \in [Job -> BOOLEAN]
      /\ disk' \in [Job -> Snapshot]
      /\ storageError' \in BOOLEAN
      /\ pc' \in [Job -> Stage]
  BY ChangeType
<1>q. QED
  BY <1>1 DEF TypeOK, calls

-----------------------------------------------------------------------------
(* Every step of a worker keeps the types. *)
LEMMA WorkerType ==
  ASSUME TypeOK, NEW j \in Job, Worker(j)
  PROVE  TypeOK'
<1> USE StageType
<1>1. CASE CheckTurn(j)
  BY <1>1 DEF CheckTurn, TypeOK, memory, calls, durable
<1>2. CASE TakeSlot(j)
  BY <1>2 DEF TakeSlot, TypeOK, memory, calls, durable, Attempt
<1>3. CASE LeaveQueue(j)
  BY <1>3 DEF LeaveQueue, TypeOK, memory, calls, durable
<1>4. ASSUME NEW from, NEW phase \in JobState, NEW to \in Stage, Phase(j, from, phase, to)
      PROVE  TypeOK'
  <2> DEFINE s == [entry[j] EXCEPT !.state = PhaseState(@, phase)]
  <2>1. s \in Snapshot
    BY PhaseStateType, SnapshotUpdates, entry[j] \in Snapshot DEF TypeOK
  <2>2. Change(j, s, to)
    BY <1>4 DEF Phase
  <2>q. QED
    BY <1>4, <2>1, <2>2, ChangeKeepsTypes DEF Phase, TypeOK
<1>5. CASE Prepare(j) \/ Run(j) \/ Finalize(j)
  BY <1>4, <1>5 DEF Prepare, Run, Finalize, Attempt, JobState, Pausable
<1>c. CASE Confirm(j)
  <2> DEFINE s == [entry[j] EXCEPT !.state = "Running"]
  <2>1. s \in Snapshot
    BY SnapshotUpdates, entry[j] \in Snapshot DEF TypeOK, JobState, Pausable
  <2>2. Change(j, s, "run")
    BY <1>c DEF Confirm
  <2>q. QED
    BY <1>c, <2>1, <2>2, ChangeKeepsTypes DEF Confirm, TypeOK, Attempt
<1>6. CASE Fail(j)
  BY <1>6 DEF Fail, TypeOK, memory, calls, durable
<1>7. CASE Checkpoint(j)
  BY <1>7 DEF Checkpoint, TypeOK, memory, calls, Executing
<1>8. CASE RecordCheckpoint(j)
  <2> DEFINE s == [entry[j] EXCEPT !.saved = TRUE]
  <2>1. s \in Snapshot
    BY SnapshotUpdates, entry[j] \in Snapshot DEF TypeOK
  <2>2. Change(j, s, "run") /\ "run" \in Stage
    BY <1>8 DEF RecordCheckpoint, Attempt
  <2>q. QED
    BY <1>8, <2>1, <2>2, ChangeKeepsTypes DEF RecordCheckpoint, TypeOK
<1>9. CASE Publish(j)
  <2> DEFINE e == [entry EXCEPT ![j].state = "Succeeded"]
  <2>1. e \in [Job -> Snapshot]
    BY SnapshotUpdates, entry[j] \in Snapshot DEF TypeOK, JobState, Terminal
  <2>2. Persist(e, cancel)
    BY <1>9 DEF Publish
  <2>3. /\ entry' \in [Job -> Snapshot]
        /\ cancel' \in [Job -> BOOLEAN]
        /\ disk' \in [Job -> Snapshot]
        /\ storageError' \in BOOLEAN
    BY <2>1, <2>2, PersistType DEF TypeOK
  <2>4. pc' \in [Job -> Stage]
    BY <1>9 DEF Publish, TypeOK, Executing
  <2>q. QED
    BY <1>9, <2>3, <2>4 DEF Publish, TypeOK, calls
<1>10. CASE RemoveWorkspace(j)
  BY <1>10 DEF RemoveWorkspace, TypeOK, memory, calls, Executing
<1>11. CASE KeepWorkspace(j)
  <2>1. CASE j \in EditedJobs
    BY <1>11, <2>1 DEF KeepWorkspace, TypeOK, calls
  <2>2. CASE j \notin EditedJobs
    <3>1. Change(j, entry[j], "report") /\ UNCHANGED result
      BY <1>11, <2>2 DEF KeepWorkspace
    <3>2. entry[j] \in Snapshot
      BY DEF TypeOK
    <3>q. QED
      BY <1>11, <3>1, <3>2, ChangeKeepsTypes DEF KeepWorkspace, TypeOK
  <2>q. QED
    BY <2>1, <2>2
<1>12. CASE ForgetWorkspace(j)
  <2> DEFINE s == [entry[j] EXCEPT !.saved = FALSE]
  <2>1. s \in Snapshot
    BY SnapshotUpdates, entry[j] \in Snapshot DEF TypeOK
  <2>2. Change(j, s, "report")
    BY <1>12 DEF ForgetWorkspace
  <2>q. QED
    BY <1>12, <2>1, <2>2, ChangeKeepsTypes DEF ForgetWorkspace, TypeOK
<1>13. CASE Report(j)
  BY <1>13 DEF Report, Reported, TypeOK, memory, calls, durable
<1>14. CASE Settle(j)
  <2>1. PICK state \in {FinalState(j)} \cup
                 (IF slot = j /\ FinalState(j) # "Succeeded" THEN {"Failed"} ELSE {}) :
          Change(j, [entry[j] EXCEPT !.state = state], "release")
    BY <1>14 DEF Settle
  <2>2. state \in JobState
    BY <2>1, SnapshotUpdates, entry[j] \in Snapshot
    DEF FinalState, TypeOK, JobState, Terminal
  <2>3. [entry[j] EXCEPT !.state = state] \in Snapshot
    BY <2>2, SnapshotUpdates, entry[j] \in Snapshot DEF TypeOK
  <2>q. QED
    BY <1>14, <2>1, <2>3, ChangeKeepsTypes DEF Settle, TypeOK
<1>15. CASE Release(j)
  BY <1>15, NotifiedType DEF Release, ScopeDropped, TypeOK, calls, durable
<1>q. QED
  BY <1>1, <1>2, <1>3, <1>5, <1>6, <1>7, <1>8, <1>9, <1>10, <1>11, <1>12, <1>13,
     <1>14, <1>15, <1>c DEF Worker, Work

(* A request that saves the history and at most wakes workers keeps types. *)
LEMMA PersistKeepsTypes ==
  ASSUME TypeOK, NEW e \in [Job -> Snapshot], NEW c \in [Job -> BOOLEAN],
         Persist(e, c),
         pc' \in [Job -> Stage], paused' \in [Job -> BOOLEAN],
         shuttingDown' \in BOOLEAN, epoch' \in Nat, workspace' \in [Job -> BOOLEAN],
         UNCHANGED <<result, slot, calls, out, session>>
  PROVE  TypeOK'
<1>1. /\ entry' \in [Job -> Snapshot]
      /\ cancel' \in [Job -> BOOLEAN]
      /\ disk' \in [Job -> Snapshot]
      /\ storageError' \in BOOLEAN
  BY PersistType DEF TypeOK
<1>q. QED
  BY <1>1 DEF TypeOK, calls

LEMMA AdmissionType ==
  ASSUME TypeOK, NEW j \in Job, NEW allowQueue \in BOOLEAN, AdmitJob(j, allowQueue)
  PROVE  TypeOK'
<1>1. PICK P \in Evictions(1) :
        LET e == [Without(P) EXCEPT ![j] = QueuedAt(tail)] IN
        \/ /\ Saved(e)
           /\ entry' = e
           /\ cancel' = [cancel EXCEPT ![j] = FALSE]
           /\ pc' = [Notified EXCEPT ![j] = "turn"]
           /\ tail' = tail + 1
           /\ requested' = [requested EXCEPT ![j] = epoch]
        \/ /\ SaveFails(e)
           /\ entry' = Without(P)
           /\ cancel' = CancelUnfinished(Without(P), cancel)
           /\ tail' = tail + 1
           /\ UNCHANGED <<pc, requested>>
  BY DEF AdmitJob
<1> DEFINE e == [Without(P) EXCEPT ![j] = QueuedAt(tail)]
<1>2. UNCHANGED <<paused, result, slot, shuttingDown, epoch, batch, resume, workspace,
                  out, session>>
  BY DEF AdmitJob
<1>3. Without(P) \in [Job -> Snapshot] /\ e \in [Job -> Snapshot]
  BY EvictionType, QueuedAtType DEF TypeOK
<1>4. CASE Saved(e) /\ entry' = e /\ cancel' = [cancel EXCEPT ![j] = FALSE]
           /\ pc' = [Notified EXCEPT ![j] = "turn"] /\ tail' = tail + 1
           /\ requested' = [requested EXCEPT ![j] = epoch]
  <2>1. pc' \in [Job -> Stage]
    BY <1>4, NotifiedType, StageType DEF TypeOK
  <2>2. disk' \in [Job -> Snapshot] /\ storageError' \in BOOLEAN
    BY <1>3, <1>4 DEF Saved, TypeOK
  <2>q. QED
    BY <1>2, <1>3, <1>4, <2>1, <2>2 DEF TypeOK
<1>5. CASE SaveFails(e) /\ entry' = Without(P)
           /\ cancel' = CancelUnfinished(Without(P), cancel)
           /\ tail' = tail + 1
           /\ UNCHANGED <<pc, requested>>
  <2>1. disk' \in [Job -> Snapshot] /\ storageError' \in BOOLEAN
    BY <1>3, <1>5 DEF SaveFails, TypeOK
  <2>2. cancel' \in [Job -> BOOLEAN]
    BY <1>5, CancelUnfinishedType
  <2>q. QED
    BY <1>2, <1>3, <1>5, <2>1, <2>2 DEF TypeOK
<1>q. QED
  BY <1>1, <1>4, <1>5

LEMMA BatchType ==
  ASSUME TypeOK, AdmitBatch
  PROVE  TypeOK'
<1> DEFINE b == batch.jobs
           at(j) == CHOOSE i \in DOMAIN b : b[i] = j
           queued(P) == [j \in Job |-> IF j \in Members(b) THEN QueuedAt(tail + at(j) - 1)
                                                          ELSE Without(P)[j]]
<1>1. PICK P \in Evictions(Len(b)) :
        \/ /\ Saved(queued(P))
           /\ entry' = queued(P)
           /\ cancel' = [j \in Job |-> cancel[j] /\ j \notin Members(b)]
           /\ pc' = [j \in Job |-> IF j \in Members(b) THEN "turn" ELSE Notified[j]]
           /\ tail' = tail + Len(b)
           /\ requested' = [j \in Job |-> IF j \in Members(b) THEN batch.epoch
                                                              ELSE requested[j]]
        \/ /\ SaveFails(queued(P))
           /\ cancel' = CancelUnfinished(entry, cancel)
           /\ pc' = Notified
           /\ tail' = tail + Len(b)
           /\ UNCHANGED <<entry, requested>>
  BY DEF AdmitBatch
<1>2. /\ UNCHANGED <<paused, result, slot, shuttingDown, epoch, resume, workspace, out, session>>
      /\ batch' = NoBatch
  BY DEF AdmitBatch
<1>3. b \in Seq(Job) /\ batch.epoch \in Nat
  <2>1. batch.jobs \in Batches \cup {<<>>} /\ batch.epoch \in Nat
    BY DEF TypeOK
  <2>2. <<>> \in Seq(Job) /\ Batches \subseteq Seq(Job)
    BY JobAssumption
  <2>q. QED
    BY <2>1, <2>2
<1>4. Len(b) \in Nat /\ DOMAIN b = 1 .. Len(b)
  BY <1>3
<1>5. queued(P) \in [Job -> Snapshot]
  <2>1. ASSUME NEW j \in Members(b) PROVE tail + at(j) - 1 \in Nat
    <3>1. at(j) \in 1 .. Len(b)
      BY <1>4 DEF Members
    <3> HIDE DEF at
    <3>q. QED
      BY <3>1, <1>4 DEF TypeOK
  <2> HIDE DEF at
  <2>q. QED
    BY <2>1, QueuedAtType, EvictionType
<1>6. Notified \in [Job -> Stage]
  BY NotifiedType DEF TypeOK
<1>7. batch' \in [jobs : Batches \cup {<<>>}, epoch : Nat]
  BY <1>2, RequestTypes
<1> HIDE DEF queued
<1>8. CASE /\ Saved(queued(P))
           /\ entry' = queued(P)
           /\ cancel' = [j \in Job |-> cancel[j] /\ j \notin Members(b)]
           /\ pc' = [j \in Job |-> IF j \in Members(b) THEN "turn" ELSE Notified[j]]
           /\ tail' = tail + Len(b)
           /\ requested' = [j \in Job |-> IF j \in Members(b) THEN batch.epoch
                                                              ELSE requested[j]]
  <2>1. pc' \in [Job -> Stage] /\ requested' \in [Job -> Nat]
    BY <1>3, <1>6, <1>8, StageType DEF TypeOK
  <2>2. disk' \in [Job -> Snapshot] /\ storageError' \in BOOLEAN
    BY <1>5, <1>8 DEF Saved, TypeOK
  <2>3. cancel' \in [Job -> BOOLEAN] /\ tail' \in Nat /\ entry' \in [Job -> Snapshot]
    BY <1>4, <1>5, <1>8 DEF TypeOK
  <2>q. QED
    BY <1>2, <1>7, <2>1, <2>2, <2>3 DEF TypeOK
<1>9. CASE /\ SaveFails(queued(P))
           /\ cancel' = CancelUnfinished(entry, cancel)
           /\ pc' = Notified
           /\ tail' = tail + Len(b)
           /\ UNCHANGED <<entry, requested>>
  <2>1. disk' \in [Job -> Snapshot] /\ storageError' \in BOOLEAN
    BY <1>5, <1>9 DEF SaveFails, TypeOK
  <2>2. cancel' \in [Job -> BOOLEAN]
    BY <1>9, CancelUnfinishedType
  <2>q. QED
    BY <1>2, <1>6, <1>7, <1>9, <2>1, <2>2 DEF TypeOK
<1>q. QED
  BY <1>1, <1>8, <1>9

LEMMA ResumeType ==
  ASSUME TypeOK, NEW r \in ResumeCall, CommitResume(r)
  PROVE  TypeOK'
<1> DEFINE j == resume[r].job
           s == Requeued(entry[j])
           e == [entry EXCEPT ![j] = s]
<1>1. /\ UNCHANGED <<paused, shuttingDown, epoch, result, slot, batch, workspace, out, session>>
      /\ resume' = [resume EXCEPT ![r] = NoResume]
  BY DEF CommitResume
<1>2. resume' \in [ResumeCall -> [job : Job \cup {None}, snapshot : Snapshot, epoch : Nat]]
  BY <1>1, RequestTypes DEF TypeOK
<1>3. \/ /\ Saved(e)
         /\ entry' = e
         /\ cancel' = [cancel EXCEPT ![j] = FALSE]
         /\ pc' = [Notified EXCEPT ![j] = "turn"]
         /\ tail' = tail + 1
         /\ requested' = [requested EXCEPT ![j] = resume[r].epoch]
      \/ /\ SaveFails(e)
         /\ cancel' = [CancelUnfinished(entry, cancel) EXCEPT ![j] = TRUE]
         /\ tail' = tail + 1
         /\ UNCHANGED <<entry, pc, requested>>
  BY DEF CommitResume
<1>4. e \in [Job -> Snapshot]
  <2>1. CASE j \in Job
    BY <2>1, entry[j] \in Snapshot DEF TypeOK, Snapshot, JobState, Requeued
  <2>2. CASE j \notin Job
    BY <2>2 DEF TypeOK
  <2>q. QED
    BY <2>1, <2>2
<1> HIDE DEF s
<1>5. CASE /\ Saved(e)
           /\ entry' = e
           /\ cancel' = [cancel EXCEPT ![j] = FALSE]
           /\ pc' = [Notified EXCEPT ![j] = "turn"]
           /\ tail' = tail + 1
           /\ requested' = [requested EXCEPT ![j] = resume[r].epoch]
  <2>1. pc' \in [Job -> Stage]
    BY <1>5, NotifiedType, StageType DEF TypeOK
  <2>2. disk' \in [Job -> Snapshot] /\ storageError' \in BOOLEAN
    BY <1>4, <1>5 DEF Saved, TypeOK
  <2> HIDE DEF e, j
  <2>3. requested' \in [Job -> Nat]
    <3>1. requested \in [Job -> Nat] /\ resume[r].epoch \in Nat
      BY DEF TypeOK
    <3>q. QED
      BY <1>5, <3>1
  <2>4. tail' \in Nat /\ cancel' \in [Job -> BOOLEAN]
    <3>1. tail \in Nat /\ cancel \in [Job -> BOOLEAN]
      BY DEF TypeOK
    <3>2. tail' = tail + 1 /\ cancel' = [cancel EXCEPT ![j] = FALSE]
      BY <1>5
    <3>3. cancel' \in [Job -> BOOLEAN]
      BY <3>1, <3>2, Zenon
    <3>q. QED
      BY <3>1, <3>2, <3>3
  <2>q. QED
    BY <1>1, <1>2, <1>4, <1>5, <2>1, <2>2, <2>3, <2>4 DEF TypeOK
<1>6. CASE /\ SaveFails(e)
           /\ cancel' = [CancelUnfinished(entry, cancel) EXCEPT ![j] = TRUE]
           /\ tail' = tail + 1
           /\ UNCHANGED <<entry, pc, requested>>
  <2>1. disk' \in [Job -> Snapshot] /\ storageError' \in BOOLEAN
    BY <1>4, <1>6 DEF SaveFails, TypeOK
  <2>2. cancel' \in [Job -> BOOLEAN]
    BY <1>6, CancelUnfinishedType
  <2> HIDE DEF e, j
  <2>q. QED
    BY <1>1, <1>2, <1>6, <2>1, <2>2 DEF TypeOK
<1>q. QED
  BY <1>3, <1>5, <1>6

LEMMA RequestType ==
  ASSUME TypeOK, Request
  PROVE  TypeOK'
<1>0. Notified \in [Job -> Stage] /\ Announced \in [Job -> Stage]
  BY NotifiedType DEF TypeOK, Announced
<1>1. CASE \E j \in Job, allowQueue \in BOOLEAN : AdmitJob(j, allowQueue)
  BY <1>1, AdmissionType
<1>2. ASSUME NEW b \in Batches, BeginBatch(b) PROVE TypeOK'
  BY <1>2 DEF BeginBatch, TypeOK, memory, workers, durable
<1>3. CASE RejectBatch
  BY <1>3, RequestTypes DEF RejectBatch, TypeOK, memory, workers, durable
<1>4. CASE AdmitBatch
  BY <1>4, BatchType
<1>5. ASSUME NEW j \in Job, CancelJob(j) PROVE TypeOK'
  <2>1. [entry EXCEPT ![j].state = "Canceling"] \in [Job -> Snapshot]
    BY SnapshotUpdates, entry[j] \in Snapshot DEF TypeOK, JobState
  <2>2. [cancel EXCEPT ![j] = TRUE] \in [Job -> BOOLEAN]
    BY DEF TypeOK
  <2>q. QED
    BY <1>0, <1>5, <2>1, <2>2, PersistKeepsTypes DEF CancelJob, TypeOK
<1>6. ASSUME NEW j \in Job, StopJob(j) PROVE TypeOK'
  <2>1. [entry EXCEPT ![j].state = "Stopping"] \in [Job -> Snapshot]
    BY SnapshotUpdates, entry[j] \in Snapshot DEF TypeOK, JobState
  <2>2. [cancel EXCEPT ![j] = TRUE] \in [Job -> BOOLEAN]
    BY DEF TypeOK
  <2>q. QED
    BY <1>0, <1>6, <2>1, <2>2, PersistKeepsTypes DEF StopJob, TypeOK
<1>7. ASSUME NEW j \in Job, NEW pause \in BOOLEAN, SetJobPaused(j, pause) PROVE TypeOK'
  <2> DEFINE state == IF pause THEN "Paused" ELSE "Running"
  <2>1. [entry EXCEPT ![j].state = state] \in [Job -> Snapshot]
    BY SnapshotUpdates, entry[j] \in Snapshot DEF TypeOK, JobState, Pausable
  <2>q. QED
    BY <1>7, <2>1, PersistKeepsTypes DEF SetJobPaused, TypeOK, workers
<1>8. CASE CancelAllJobs
  <2>1. Canceling(entry) \in [Job -> Snapshot]
    BY SnapshotUpdates DEF TypeOK, JobState, Canceling
  <2>2. CancelUnfinished(entry, cancel) \in [Job -> BOOLEAN]
    BY CancelUnfinishedType
  <2>3. epoch' \in Nat /\ pc' \in [Job -> Stage]
    BY <1>0, <1>8 DEF CancelAllJobs, TypeOK
  <2>4. /\ paused' \in [Job -> BOOLEAN]
        /\ shuttingDown' \in BOOLEAN
        /\ workspace' \in [Job -> BOOLEAN]
    BY <1>8 DEF CancelAllJobs, TypeOK
  <2>q. QED
    BY <1>8, <2>1, <2>2, <2>3, <2>4, PersistKeepsTypes DEF CancelAllJobs
<1>9. ASSUME NEW r \in ResumeCall, NEW j \in Job, BeginResume(r, j) PROVE TypeOK'
  BY <1>9 DEF BeginResume, TypeOK, memory, workers, durable
<1>10. ASSUME NEW r \in ResumeCall, RejectResume(r) PROVE TypeOK'
  BY <1>10, RequestTypes DEF RejectResume, TypeOK, memory, workers, durable
<1>11. ASSUME NEW r \in ResumeCall, CommitResume(r) PROVE TypeOK'
  BY <1>11, ResumeType
<1>12. ASSUME NEW j \in Job, DiscardRecovery(j) PROVE TypeOK'
  <2>1. [entry EXCEPT ![j].saved = FALSE] \in [Job -> Snapshot]
    BY SnapshotUpdates, entry[j] \in Snapshot DEF TypeOK
  <2>q. QED
    BY <1>0, <1>12, <2>1, PersistKeepsTypes DEF DiscardRecovery, TypeOK
<1>13. CASE Shutdown
  <2>1. ShutdownStates \in [Job -> Snapshot]
    BY SnapshotUpdates DEF TypeOK, JobState, ShutdownStates
  <2>q. QED
    BY <1>0, <1>13, <2>1, CancelUnfinishedType, PersistKeepsTypes DEF Shutdown, TypeOK
<1>q. QED
  BY <1>1, <1>2, <1>3, <1>4, <1>5, <1>6, <1>7, <1>8, <1>9, <1>10, <1>11, <1>12, <1>13
  DEF Request

LEMMA OpenType ==
  ASSUME TypeOK, Open
  PROVE  TypeOK'
<1>1. Reopened \in [Job -> Snapshot] /\ [j \in Job |-> NoEntry] \in [Job -> Snapshot]
  BY RestoredType, NoEntryType
<1>2. \/ entry' = Reopened /\ disk' = Reopened /\ storageError' = FALSE
      \/ entry' = Reopened /\ disk' \in {disk, Reopened} /\ storageError' = TRUE
      \/ entry' = [j \in Job |-> NoEntry] /\ storageError' = TRUE /\ disk' = disk
  BY DEF Open
<1>3. disk \in [Job -> Snapshot]
  BY DEF TypeOK
<1>4. entry' \in [Job -> Snapshot] /\ disk' \in [Job -> Snapshot] /\ storageError' \in BOOLEAN
  BY <1>1, <1>2, <1>3
<1>5. pc' \in [Job -> Stage] /\ result' \in [Job -> {"none", "ok", "failed", "canceled"}]
  BY StageType DEF Open
<1>6. /\ cancel' \in [Job -> BOOLEAN] /\ paused' \in [Job -> BOOLEAN]
      /\ slot' \in Job \cup {None} /\ shuttingDown' \in BOOLEAN
      /\ epoch' \in Nat /\ requested' \in [Job -> Nat]
  BY DEF Open
<1>7. /\ batch' \in [jobs : Batches \cup {<<>>}, epoch : Nat]
      /\ resume' \in [ResumeCall -> [job : Job \cup {None}, snapshot : Snapshot, epoch : Nat]]
  <2>1. batch' = NoBatch /\ resume' = [r \in ResumeCall |-> NoResume]
    BY DEF Open
  <2>q. QED
    BY <2>1, RequestTypes
<1>8. /\ tail' \in Nat /\ workspace' \in [Job -> BOOLEAN]
      /\ out' \in [Dest -> Job \cup {None}] /\ session' \in Nat
  BY DEF Open, TypeOK
<1>q. QED
  BY <1>4, <1>5, <1>6, <1>7, <1>8 DEF TypeOK

LEMMA InitialTypes == Init => TypeOK
<1> SUFFICES ASSUME Init PROVE TypeOK
  OBVIOUS
<1>1. entry \in [Job -> Snapshot] /\ disk \in [Job -> Snapshot]
  BY NoEntryType DEF Init
<1>2. pc \in [Job -> Stage] /\ result \in [Job -> {"none", "ok", "failed", "canceled"}]
  BY StageType DEF Init
<1>3. /\ batch \in [jobs : Batches \cup {<<>>}, epoch : Nat]
      /\ resume \in [ResumeCall -> [job : Job \cup {None}, snapshot : Snapshot, epoch : Nat]]
  <2>1. batch = NoBatch /\ resume = [r \in ResumeCall |-> NoResume]
    BY DEF Init
  <2>q. QED
    BY <2>1, RequestTypes
<1>4. /\ cancel \in [Job -> BOOLEAN] /\ paused \in [Job -> BOOLEAN]
      /\ slot \in Job \cup {None} /\ shuttingDown \in BOOLEAN
      /\ storageError \in BOOLEAN
      /\ epoch \in Nat /\ requested \in [Job -> Nat]
      /\ tail \in Nat /\ workspace \in [Job -> BOOLEAN]
      /\ out \in [Dest -> Job \cup {None}] /\ session \in Nat
  BY DEF Init
<1>q. QED
  BY <1>1, <1>2, <1>3, <1>4 DEF TypeOK

(* The type invariant is inductive on its own. *)
LEMMA TypeInductive == TypeOK /\ [Next]_vars => TypeOK'
<1> SUFFICES ASSUME TypeOK, [Next]_vars PROVE TypeOK'
  OBVIOUS
<1>1. CASE \E j \in Job : Worker(j)
  BY <1>1, WorkerType
<1>2. CASE Request
  BY <1>2, RequestType
<1>3. CASE Open
  BY <1>3, OpenType
<1>4. CASE UNCHANGED vars
  BY <1>4 DEF vars, memory, workers, calls, durable, TypeOK
<1>q. QED
  BY <1>1, <1>2, <1>3, <1>4 DEF Next, Exited

(* Every variable keeps its type, for all jobs and bounds. *)
THEOREM TypeCorrect == Spec => []TypeOK
BY InitialTypes, TypeInductive, PTL DEF Spec

-----------------------------------------------------------------------------
(* Every step is classified by what it does to the set of unfinished jobs, *)
(* their cancellation and the history file; the properties below follow    *)
(* from the classification.                                                *)

(* A worker before its publication works for an unfinished, listed job. *)
WorkersUnfinished ==
  /\ tail > 0
  /\ \A j \in Job : pc[j] \in Waiting \cup Attempt \cup {"checkpoint"} => j \in Unfinished(entry)

(* A step that admits nothing, and leaves what is unfinished canceled if   *)
(* the history cannot be written.                                          *)
Continues ==
  /\ Unfinished(entry') \subseteq Unfinished(entry)
  /\ \/ ~storageError'
     \/ storageError /\ \A j \in Job : cancel[j] => cancel'[j]
     \/ \A j \in Unfinished(entry') : cancel'[j]

(* A step that admits the jobs of A. *)
Admits(A) ==
  /\ Accepting
  /\ ~storageError'
  /\ Unfinished(entry') \subseteq Unfinished(entry) \cup A
  /\ \A j \in A : DestinationFree(j)
  /\ \A j, k \in A : DestOf[j] = DestOf[k] => j = k

(* What the step leaves in memory is on disk, or a write has failed. *)
Recorded ==
  \/ storageError'
  \/ disk' = entry'
  \/ UNCHANGED <<entry, disk, storageError>>

-----------------------------------------------------------------------------
(* The members of a list are jobs of the entries. *)
LEMMA UnfinishedJobs ==
  ASSUME NEW e
  PROVE  Unfinished(e) \subseteq Job
BY DEF Unfinished, Listed

(* The new snapshot of a job leaves it unfinished only if it already was.  *)
AddsNothing(j, s) ==
  \/ s.state \in Terminal
  \/ j \in Unfinished(entry)
  \/ s.state = entry[j].state /\ s.place = entry[j].place

(* Replacing one snapshot adds nothing unfinished unless it was already. *)
LEMMA UpdateUnfinished ==
  ASSUME entry \in [Job -> Snapshot], NEW j \in Job, NEW s,
         AddsNothing(j, s)
  PROVE  Unfinished([entry EXCEPT ![j] = s]) \subseteq Unfinished(entry)
BY DEF Unfinished, Listed, AddsNothing

(* A replaced snapshot that stays listed and live keeps its job unfinished. *)
LEMMA UpdateKeepsUnfinished ==
  ASSUME entry \in [Job -> Snapshot], NEW j \in Job, NEW s, NEW k \in Unfinished(entry),
         k = j => s.place > 0 /\ s.state \notin Terminal
  PROVE  k \in Unfinished([entry EXCEPT ![j] = s])
BY DEF Unfinished, Listed

LEMMA PersistRecords ==
  ASSUME NEW e, NEW c, Persist(e, c)
  PROVE  Recorded /\ entry' = e
BY DEF Persist, Saved, SaveFails, Recorded

LEMMA PersistContinues ==
  ASSUME NEW e, NEW c, Persist(e, c),
         Unfinished(e) \subseteq Unfinished(entry),
         \A j \in Job : cancel[j] => c[j]
  PROVE  Continues
<1>1. entry' = e
  BY DEF Persist
<1>2. CASE storageError /\ cancel' = c
  BY <1>1, <1>2 DEF Continues
<1>3. CASE Saved(e)
  BY <1>1, <1>3 DEF Continues, Saved
<1>4. CASE cancel' = CancelUnfinished(e, c)
  BY <1>1, <1>4, UnfinishedJobs DEF Continues, CancelUnfinished
<1>q. QED
  BY <1>2, <1>3, <1>4 DEF Persist

LEMMA ChangeContinues ==
  ASSUME TypeOK, NEW j \in Job, NEW s, NEW to, Change(j, s, to),
         AddsNothing(j, s)
  PROVE  Continues /\ Recorded
<1>0. entry \in [Job -> Snapshot]
  BY DEF TypeOK
<1>1. CASE UNCHANGED <<entry, cancel, disk, storageError>>
  BY <1>1 DEF Continues, Recorded
<1>2. CASE Persist([entry EXCEPT ![j] = s], cancel)
  BY <1>0, <1>2, UpdateUnfinished, PersistContinues, PersistRecords
<1>q. QED
  BY <1>1, <1>2 DEF Change

(* The snapshot of a job after a step of its own worker. *)
LEMMA ChangeEntry ==
  ASSUME TypeOK, NEW j \in Job, NEW s, NEW to, Change(j, s, to)
  PROVE  entry' = [entry EXCEPT ![j] = s]
BY DEF Change, Persist, TypeOK

(* A worker moves only its own stage, except that waiting workers wake up. *)
Woken(k) == pc'[k] = pc[k] \/ (pc[k] = "wait" /\ pc'[k] = "turn")

LEMMA ChangeStages ==
  ASSUME TypeOK, NEW j \in Job, NEW s, NEW to, Change(j, s, to)
  PROVE  pc'[j] = to /\ \A k \in Job : k # j => Woken(k)
BY DEF Change, Notified, Woken, TypeOK
-----------------------------------------------------------------------------
(* A step that leaves the snapshots, their cancellation and the file alone. *)
LEMMA IdleStep ==
  ASSUME UNCHANGED <<entry, cancel, disk, storageError>>
  PROVE  Continues /\ Recorded
BY DEF Continues, Recorded

(* No step of a worker admits anything. *)
LEMMA WorkerContinues ==
  ASSUME TypeOK, WorkersUnfinished, NEW j \in Job, Worker(j)
  PROVE  Continues /\ Recorded
<1> USE IdleStep
<1>0. entry \in [Job -> Snapshot] /\ entry[j] \in Snapshot
  BY DEF TypeOK
<1>1. CASE CheckTurn(j) \/ TakeSlot(j) \/ LeaveQueue(j) \/ Fail(j) \/ Report(j)
  BY <1>1 DEF CheckTurn, TakeSlot, LeaveQueue, Fail, Report, memory, durable
<1>2. CASE Checkpoint(j) \/ RemoveWorkspace(j) \/ Release(j)
  BY <1>2 DEF Checkpoint, RemoveWorkspace, Release, memory, durable
<1>3. ASSUME NEW from \in Attempt, NEW phase, NEW to, Phase(j, from, phase, to)
      PROVE  Continues /\ Recorded
  <2>1. j \in Unfinished(entry)
    BY <1>3 DEF Phase, WorkersUnfinished
  <2>q. QED
    BY <1>3, <2>1, ChangeContinues DEF Phase, AddsNothing
<1>4. CASE Prepare(j) \/ Run(j) \/ Finalize(j)
  BY <1>3, <1>4 DEF Prepare, Run, Finalize, Attempt
<1>c. CASE Confirm(j)
  <2>1. j \in Unfinished(entry)
    BY <1>c DEF Confirm, WorkersUnfinished, Attempt
  <2>q. QED
    BY <1>c, <2>1, ChangeContinues DEF Confirm, AddsNothing
<1>5. CASE RecordCheckpoint(j)
  <2>1. AddsNothing(j, [entry[j] EXCEPT !.saved = TRUE])
    BY <1>0 DEF AddsNothing, Snapshot
  <2>q. QED
    BY <1>5, <2>1, ChangeContinues DEF RecordCheckpoint
<1>6. CASE Publish(j)
  <2> DEFINE s == [entry[j] EXCEPT !.state = "Succeeded"]
  <2>1. AddsNothing(j, s)
    BY <1>0 DEF AddsNothing, Snapshot, Terminal
  <2>2. Persist([entry EXCEPT ![j] = s], cancel)
    BY <1>6 DEF Publish
  <2>q. QED
    BY <1>0, <2>1, <2>2, UpdateUnfinished, PersistContinues, PersistRecords
<1>7. CASE KeepWorkspace(j)
  BY <1>7, ChangeContinues DEF KeepWorkspace, AddsNothing
<1>8. CASE ForgetWorkspace(j)
  <2>1. AddsNothing(j, [entry[j] EXCEPT !.saved = FALSE])
    BY <1>0 DEF AddsNothing, Snapshot
  <2>q. QED
    BY <1>8, <2>1, ChangeContinues DEF ForgetWorkspace
<1>9. CASE Settle(j)
  <2>1. PICK state \in {FinalState(j)} \cup
                 (IF slot = j /\ FinalState(j) # "Succeeded" THEN {"Failed"} ELSE {}) :
          Change(j, [entry[j] EXCEPT !.state = state], "release")
    BY <1>9 DEF Settle
  <2>2. state \in Terminal \/ state = entry[j].state
    BY <2>1 DEF FinalState, Terminal
  <2>3. AddsNothing(j, [entry[j] EXCEPT !.state = state])
    BY <1>0, <2>2 DEF AddsNothing, Snapshot
  <2>q. QED
    BY <2>1, <2>3, ChangeContinues
<1>q. QED
  BY <1>1, <1>2, <1>4, <1>5, <1>6, <1>7, <1>8, <1>9, <1>c DEF Worker, Work

(* A request either admits jobs whose destinations are free, or nothing. *)
LEMMA AdmitJobStep ==
  ASSUME TypeOK, NEW j \in Job, NEW allowQueue \in BOOLEAN, AdmitJob(j, allowQueue)
  PROVE  Recorded /\ (Continues \/ \E A \in SUBSET Job : Admits(A))
<1>1. PICK P \in Evictions(1) :
        LET e == [Without(P) EXCEPT ![j] = QueuedAt(tail)] IN
        \/ Saved(e) /\ entry' = e
        \/ /\ SaveFails(e)
           /\ entry' = Without(P)
           /\ cancel' = CancelUnfinished(Without(P), cancel)
  BY DEF AdmitJob
<1>2. Unfinished(Without(P)) \subseteq Unfinished(entry)
  BY DEF Unfinished, Listed, Without, NoEntry
<1>3. CASE Saved([Without(P) EXCEPT ![j] = QueuedAt(tail)])
           /\ entry' = [Without(P) EXCEPT ![j] = QueuedAt(tail)]
  <2>1. Unfinished(entry') \subseteq Unfinished(Without(P)) \cup {j}
    BY <1>3 DEF Unfinished, Listed, Without
  <2>2. Admits({j})
    BY <1>2, <1>3, <2>1 DEF Admits, AdmitJob, Saved
  <2>q. QED
    BY <1>3, <2>2 DEF Saved, Recorded
<1>4. CASE /\ SaveFails([Without(P) EXCEPT ![j] = QueuedAt(tail)])
           /\ entry' = Without(P)
           /\ cancel' = CancelUnfinished(Without(P), cancel)
  BY <1>2, <1>4, UnfinishedJobs DEF Continues, CancelUnfinished, SaveFails, Recorded
<1>q. QED
  BY <1>1, <1>3, <1>4

LEMMA AdmitBatchStep ==
  ASSUME TypeOK, AdmitBatch
  PROVE  Recorded /\ (Continues \/ \E A \in SUBSET Job : Admits(A))
<1> DEFINE A == Members(batch.jobs)
           at(j) == CHOOSE i \in DOMAIN batch.jobs : batch.jobs[i] = j
           queued(P) == [j \in Job |-> IF j \in A THEN QueuedAt(tail + at(j) - 1)
                                                  ELSE Without(P)[j]]
<1>1. PICK P \in Evictions(Len(batch.jobs)) :
        \/ Saved(queued(P)) /\ entry' = queued(P)
        \/ /\ SaveFails(queued(P))
           /\ cancel' = CancelUnfinished(entry, cancel)
           /\ UNCHANGED entry
  BY DEF AdmitBatch
<1>2. CASE Saved(queued(P)) /\ entry' = queued(P)
  <2>1. Unfinished(entry') \subseteq Unfinished(entry) \cup (A \cap Job)
    BY <1>2 DEF Unfinished, Listed, Without, NoEntry
  <2>2. \A j, k \in A : DestOf[j] = DestOf[k] => j = k
    BY DEF AdmitBatch, BatchDestinationsFree, Members
  <2>3. \A j \in A : DestinationFree(j)
    BY DEF AdmitBatch, BatchDestinationsFree
  <2>4. Admits(A \cap Job)
    BY <1>2, <2>1, <2>2, <2>3 DEF Admits, AdmitBatch, Saved
  <2>q. QED
    BY <1>2, <2>4 DEF Saved, Recorded
<1>3. CASE /\ SaveFails(queued(P))
           /\ cancel' = CancelUnfinished(entry, cancel)
           /\ UNCHANGED entry
  BY <1>3, UnfinishedJobs DEF Continues, CancelUnfinished, SaveFails, Recorded
<1>q. QED
  BY <1>1, <1>2, <1>3

LEMMA CommitResumeStep ==
  ASSUME TypeOK, NEW r \in ResumeCall, CommitResume(r)
  PROVE  Recorded /\ (Continues \/ \E A \in SUBSET Job : Admits(A))
<1> DEFINE j == resume[r].job
           e == [entry EXCEPT ![j] = Requeued(entry[j])]
<1>1. \/ Saved(e) /\ entry' = e
      \/ /\ SaveFails(e)
         /\ cancel' = [CancelUnfinished(entry, cancel) EXCEPT ![j] = TRUE]
         /\ UNCHANGED entry
  BY DEF CommitResume
<1>2. DestinationFree(j) /\ Accepting
  BY DEF CommitResume
<1>3. entry \in [Job -> Snapshot]
  BY DEF TypeOK
<1>4. CASE Saved(e) /\ entry' = e
  <2>1. Unfinished(entry') \subseteq Unfinished(entry) \cup ({j} \cap Job)
    <3> HIDE DEF j
    <3>q. QED
      BY <1>3, <1>4 DEF Unfinished, Listed
  <2>2. Admits({j} \cap Job)
    BY <1>2, <1>4, <2>1 DEF Admits, Saved
  <2>q. QED
    BY <1>4, <2>2 DEF Saved, Recorded
<1>5. CASE /\ SaveFails(e)
           /\ cancel' = [CancelUnfinished(entry, cancel) EXCEPT ![j] = TRUE]
           /\ UNCHANGED entry
  BY <1>5, UnfinishedJobs DEF Continues, CancelUnfinished, SaveFails, Recorded
<1>q. QED
  BY <1>1, <1>4, <1>5

LEMMA RequestStep ==
  ASSUME TypeOK, Request
  PROVE  Recorded /\ (Continues \/ \E A \in SUBSET Job : Admits(A))
<1> USE IdleStep
<1>0. entry \in [Job -> Snapshot] /\ cancel \in [Job -> BOOLEAN]
  BY DEF TypeOK
<1>1. ASSUME NEW e, NEW c, Persist(e, c),
             Unfinished(e) \subseteq Unfinished(entry),
             \A j \in Job : cancel[j] => c[j]
      PROVE  Recorded /\ Continues
  BY <1>1, PersistContinues, PersistRecords
<1>2. CASE \E j \in Job, allowQueue \in BOOLEAN : AdmitJob(j, allowQueue)
  BY <1>2, AdmitJobStep
<1>3. CASE AdmitBatch
  BY <1>3, AdmitBatchStep
<1>4. CASE \E r \in ResumeCall : CommitResume(r)
  BY <1>4, CommitResumeStep
<1>5. CASE \/ \E b \in Batches : BeginBatch(b)
           \/ RejectBatch
           \/ \E r \in ResumeCall, j \in Job : BeginResume(r, j)
           \/ \E r \in ResumeCall : RejectResume(r)
  BY <1>5 DEF BeginBatch, RejectBatch, BeginResume, RejectResume, memory, durable
<1>6. ASSUME NEW j \in Job, CancelJob(j) PROVE Recorded /\ Continues
  <2>1. CASE j \in Unfinished(entry)
    <3> DEFINE s == [entry[j] EXCEPT !.state = "Canceling"]
    <3>1. AddsNothing(j, s)
      BY <2>1 DEF AddsNothing
    <3>2. Persist([entry EXCEPT ![j] = s], [cancel EXCEPT ![j] = TRUE])
      BY <1>6, <2>1 DEF CancelJob
    <3>q. QED
      BY <1>0, <1>1, <3>1, <3>2, UpdateUnfinished
  <2>2. CASE j \notin Unfinished(entry)
    BY <1>1, <1>6, <2>2 DEF CancelJob
  <2>q. QED
    BY <2>1, <2>2
<1>7. ASSUME NEW j \in Job, StopJob(j) PROVE Recorded /\ Continues
  <2>1. CASE entry[j].state \in Terminal \cup {"Stopping", "Canceling"}
    BY <1>1, <1>7, <2>1 DEF StopJob
  <2>2. CASE entry[j].state \notin Terminal \cup {"Stopping", "Canceling"}
    <3> DEFINE s == [entry[j] EXCEPT !.state = "Stopping"]
    <3>1. AddsNothing(j, s)
      BY <1>7, <2>2 DEF AddsNothing, StopJob, Unfinished
    <3>2. Persist([entry EXCEPT ![j] = s], [cancel EXCEPT ![j] = TRUE])
      BY <1>7, <2>2 DEF StopJob
    <3>q. QED
      BY <1>0, <1>1, <3>1, <3>2, UpdateUnfinished
  <2>q. QED
    BY <2>1, <2>2
<1>8. ASSUME NEW j \in Job, NEW pause \in BOOLEAN, SetJobPaused(j, pause)
      PROVE  Recorded /\ Continues
  <2> DEFINE s == [entry[j] EXCEPT !.state = IF pause THEN "Paused" ELSE "Running"]
  <2>1. AddsNothing(j, s)
    BY <1>8 DEF SetJobPaused, AddsNothing, Unfinished, Pausable, Terminal
  <2>2. Persist([entry EXCEPT ![j] = s], cancel)
    BY <1>8 DEF SetJobPaused
  <2>q. QED
    BY <1>0, <1>1, <2>1, <2>2, UpdateUnfinished
<1>9. CASE CancelAllJobs
  <2>1. Unfinished(Canceling(entry)) \subseteq Unfinished(entry)
    BY DEF Unfinished, Listed, Canceling
  <2>q. QED
    BY <1>1, <1>9, <2>1 DEF CancelAllJobs, CancelUnfinished
<1>10. ASSUME NEW j \in Job, DiscardRecovery(j) PROVE Recorded /\ Continues
  <2> DEFINE s == [entry[j] EXCEPT !.saved = FALSE]
  <2>0. entry[j] \in Snapshot
    BY <1>0
  <2>1. AddsNothing(j, s)
    BY <2>0 DEF AddsNothing, Snapshot
  <2>2. Persist([entry EXCEPT ![j] = s], cancel)
    BY <1>10 DEF DiscardRecovery
  <2>q. QED
    BY <1>0, <1>1, <2>1, <2>2, UpdateUnfinished
<1>11. CASE Shutdown
  <2>1. Unfinished(ShutdownStates) \subseteq Unfinished(entry)
    BY DEF Unfinished, Listed, ShutdownStates
  <2>q. QED
    BY <1>1, <1>11, <2>1 DEF Shutdown, CancelUnfinished
<1>q. QED
  BY <1>2, <1>3, <1>4, <1>5, <1>6, <1>7, <1>8, <1>9, <1>10, <1>11 DEF Request

(* After a restart nothing is unfinished. *)
LEMMA OpenStep ==
  ASSUME Open
  PROVE  Unfinished(entry') = {} /\ Recorded
<1>1. Unfinished(Reopened) = {}
  BY DEF Unfinished, Listed, Reopened, Restored, NoEntry, Terminal
<1>2. Unfinished([j \in Job |-> NoEntry]) = {}
  BY DEF Unfinished, Listed, NoEntry
<1>q. QED
  BY <1>1, <1>2 DEF Open, Recorded

(* The classification of every step. *)
LEMMA StepEffect ==
  ASSUME TypeOK, WorkersUnfinished, [Next]_vars
  PROVE  /\ Recorded
         /\ Continues \/ \E A \in SUBSET Job : Admits(A)
<1>1. CASE \E j \in Job : Worker(j)
  BY <1>1, WorkerContinues
<1>2. CASE Request
  BY <1>2, RequestStep
<1>3. CASE Open
  BY <1>3, OpenStep DEF Continues
<1>4. CASE UNCHANGED vars
  BY <1>4, IdleStep DEF vars, memory, durable
<1>q. QED
  BY <1>1, <1>2, <1>3, <1>4 DEF Next, Exited
-----------------------------------------------------------------------------
(* Workers work for unfinished jobs: an inductive strengthening. *)
Live == Waiting \cup Attempt \cup {"checkpoint"}

LEMMA LiveStages ==
  /\ "wait" \in Live /\ "turn" \in Live /\ "run" \in Live /\ "prepare" \in Live
  /\ \A s \in {"new", "done", "report", "settle", "release", "published", "forget"} : s \notin Live
BY DEF Live, Waiting, Attempt

(* It is kept by a step that starts no worker and finishes no job of one. *)
LEMMA KeepsWorkers ==
  ASSUME WorkersUnfinished, UNCHANGED tail \/ tail' > 0,
         \A k \in Job : pc'[k] \in Live => pc[k] \in Live,
         \A k \in Job : pc'[k] \in Live /\ k \in Unfinished(entry) => k \in Unfinished(entry')
  PROVE  WorkersUnfinished'
BY DEF WorkersUnfinished, Live

LEMMA WokenLive ==
  ASSUME NEW k \in Job, Woken(k), pc'[k] \in Live
  PROVE  pc[k] \in Live
BY LiveStages DEF Woken

LEMMA NotifiedLive ==
  ASSUME NEW k \in Job, Notified[k] \in Live
  PROVE  pc[k] \in Live
BY LiveStages DEF Notified

(* A worker replaces its snapshot by one that is live if its stage is. *)
LEMMA ChangeKeepsWorkers ==
  ASSUME TypeOK, WorkersUnfinished, NEW j \in Job, NEW s, NEW to, Change(j, s, to),
         UNCHANGED tail, pc[j] \in Live \/ to \notin Live,
         to \in Live => s.place > 0 /\ s.state \notin Terminal
  PROVE  WorkersUnfinished'
<1>1. entry \in [Job -> Snapshot] /\ entry' = [entry EXCEPT ![j] = s]
  BY ChangeEntry DEF TypeOK
<1>2. pc'[j] = to /\ \A k \in Job : k # j => Woken(k)
  BY ChangeStages
<1>3. ASSUME NEW k \in Job, pc'[k] \in Live
      PROVE  pc[k] \in Live
  BY <1>2, <1>3, WokenLive
<1>4. ASSUME NEW k \in Job, pc'[k] \in Live, k \in Unfinished(entry)
      PROVE  k \in Unfinished(entry')
  BY <1>1, <1>2, <1>4, UpdateKeepsUnfinished
<1>q. QED
  BY <1>3, <1>4, KeepsWorkers

LEMMA WorkerKeepsWorkers ==
  ASSUME TypeOK, WorkersUnfinished, NEW j \in Job, Worker(j)
  PROVE  WorkersUnfinished'
<1>0. /\ entry \in [Job -> Snapshot] /\ entry[j] \in Snapshot
      /\ pc \in [Job -> Stage]
      /\ pc[j] \in Live => j \in Unfinished(entry)
  BY DEF TypeOK, WorkersUnfinished, Live
<1> USE LiveStages
<1>1. ASSUME UNCHANGED <<entry, tail>>, NEW to, pc' = [pc EXCEPT ![j] = to],
             pc[j] \in Live \/ to \notin Live
      PROVE  WorkersUnfinished'
  BY <1>0, <1>1, KeepsWorkers
<1>2. CASE CheckTurn(j)
  BY <1>1, <1>2 DEF CheckTurn, memory, calls
<1>3. CASE TakeSlot(j)
  <2>1. "head" \in Live
    BY DEF Live, Waiting
  <2>q. QED
    BY <1>1, <1>3, <2>1 DEF TakeSlot, memory, calls
<1>4. CASE LeaveQueue(j) \/ Fail(j) \/ Report(j)
  BY <1>1, <1>4 DEF LeaveQueue, Fail, Report, memory, calls
<1>5. CASE Checkpoint(j)
  BY <1>1, <1>5 DEF Checkpoint, memory, calls
<1>6. CASE RemoveWorkspace(j)
  BY <1>1, <1>6 DEF RemoveWorkspace, memory, calls
<1>7. CASE Release(j)
  <2>1. ASSUME NEW k \in Job, pc'[k] \in Live PROVE pc[k] \in Live
    BY <1>0, <1>7, <2>1, NotifiedLive DEF Release, Notified
  <2>q. QED
    BY <1>7, <2>1, KeepsWorkers DEF Release, calls
<1>8. ASSUME NEW from \in Attempt, NEW phase \in JobState \ Terminal, NEW to, Phase(j, from, phase, to)
      PROVE  WorkersUnfinished'
  <2> DEFINE s == [entry[j] EXCEPT !.state = PhaseState(@, phase)]
  <2>1. pc[j] \in Live
    BY <1>8 DEF Phase, Live
  <2>2. j \in Unfinished(entry)
    BY <1>0, <2>1
  <2>3. s.place > 0 /\ s.state \notin Terminal
    <3>1. entry[j].place > 0 /\ entry[j].state \notin Terminal /\ entry[j] \in Snapshot
      BY <1>0, <2>2 DEF Unfinished, Listed
    <3>2. s.place = entry[j].place /\ s.state = PhaseState(entry[j].state, phase)
      BY <3>1 DEF Snapshot
    <3>3. s.state \in {entry[j].state, phase}
      BY <3>2 DEF PhaseState
    <3>q. QED
      BY <3>1, <3>2, <3>3
  <2>q. QED
    BY <1>8, <2>1, <2>3, ChangeKeepsWorkers DEF Phase, calls
<1>9. CASE Prepare(j) \/ Run(j) \/ Finalize(j)
  BY <1>8, <1>9 DEF Prepare, Run, Finalize, Attempt, JobState, Pausable, Terminal
<1>c. CASE Confirm(j)
  <2> DEFINE s == [entry[j] EXCEPT !.state = "Running"]
  <2>1. pc[j] \in Live
    BY <1>c DEF Confirm, Live, Attempt
  <2>2. s.place > 0 /\ s.state \notin Terminal
    <3>1. entry[j].place > 0 /\ entry[j] \in Snapshot
      BY <1>0, <2>1 DEF Unfinished, Listed
    <3>2. s.place = entry[j].place /\ s.state = "Running"
      BY <3>1 DEF Snapshot
    <3>q. QED
      BY <3>1, <3>2 DEF Terminal
  <2>q. QED
    BY <1>c, <2>1, <2>2, ChangeKeepsWorkers DEF Confirm, calls
<1>10. CASE RecordCheckpoint(j)
  <2> DEFINE s == [entry[j] EXCEPT !.saved = TRUE]
  <2>1. pc[j] \in Live
    BY <1>10 DEF RecordCheckpoint, Live
  <2>2. s.place > 0 /\ s.state \notin Terminal
    <3>1. entry[j].place > 0 /\ entry[j].state \notin Terminal /\ entry[j] \in Snapshot
      BY <1>0, <2>1 DEF Unfinished, Listed
    <3>2. s.place = entry[j].place /\ s.state = entry[j].state
      BY <3>1 DEF Snapshot
    <3>q. QED
      BY <3>1, <3>2
  <2>q. QED
    BY <1>10, <2>1, <2>2, ChangeKeepsWorkers DEF RecordCheckpoint, calls
<1>11. CASE Publish(j)
  <2> DEFINE s == [entry[j] EXCEPT !.state = "Succeeded"]
  <2>1. entry' = [entry EXCEPT ![j] = s]
    BY <1>11 DEF Publish, Persist
  <2>2. \A k \in Job : k # j => pc'[k] = pc[k]
    BY <1>0, <1>11 DEF Publish
  <2>3. pc'[j] \notin Live
    <3>1. pc'[j] \in {"published", "report"}
      BY <1>0, <1>11 DEF Publish
    <3>q. QED
      BY <3>1
  <2>q. QED
    BY <1>0, <1>11, <2>1, <2>2, <2>3, UpdateKeepsUnfinished, KeepsWorkers DEF Publish, calls
<1>12. CASE KeepWorkspace(j)
  <2>1. CASE j \in EditedJobs
    BY <1>1, <1>12, <2>1 DEF KeepWorkspace, calls
  <2>2. CASE j \notin EditedJobs
    BY <1>12, <2>2, ChangeKeepsWorkers DEF KeepWorkspace, calls
  <2>q. QED
    BY <2>1, <2>2
<1>13. CASE ForgetWorkspace(j)
  BY <1>13, ChangeKeepsWorkers DEF ForgetWorkspace, calls
<1>14. CASE Settle(j)
  BY <1>14, ChangeKeepsWorkers DEF Settle, calls
<1>q. QED
  BY <1>2, <1>3, <1>4, <1>5, <1>6, <1>7, <1>9, <1>10, <1>11, <1>12, <1>13, <1>14, <1>c
  DEF Worker, Work
LEMMA RequestKeepsWorkers ==
  ASSUME TypeOK, WorkersUnfinished, Request
  PROVE  WorkersUnfinished'
<1> USE LiveStages
<1>0. entry \in [Job -> Snapshot] /\ pc \in [Job -> Stage] /\ tail \in Nat
  BY DEF TypeOK
<1>1. ASSUME NEW e, NEW c, Persist(e, c), UNCHANGED tail,
             pc' = pc \/ pc' = Notified,
             Unfinished(entry) \subseteq Unfinished(e)
      PROVE  WorkersUnfinished'
  <2>1. entry' = e
    BY <1>1, PersistRecords
  <2>q. QED
    BY <1>1, <2>1, NotifiedLive, KeepsWorkers
<1>2. ASSUME NEW j \in Job, NEW allowQueue \in BOOLEAN, AdmitJob(j, allowQueue)
      PROVE  WorkersUnfinished'
  <2>1. PICK P \in Evictions(1) :
          LET e == [Without(P) EXCEPT ![j] = QueuedAt(tail)] IN
          \/ entry' = e /\ pc' = [Notified EXCEPT ![j] = "turn"] /\ tail' = tail + 1
          \/ entry' = Without(P) /\ UNCHANGED pc /\ tail' = tail + 1
    BY <1>2 DEF AdmitJob
  <2>2. ASSUME NEW k \in Job, pc[k] \in Live, k \in Unfinished(entry)
        PROVE  k \in Unfinished(Without(P)) /\ k \notin P
    <3>1. k \notin P
      BY <2>2 DEF Evictions, Prunable
    <3>q. QED
      BY <2>2, <3>1 DEF Unfinished, Listed, Without
  <2>3. CASE entry' = Without(P) /\ UNCHANGED pc /\ tail' = tail + 1
    BY <1>0, <2>2, <2>3, KeepsWorkers DEF WorkersUnfinished, Live
  <2>4. CASE /\ entry' = [Without(P) EXCEPT ![j] = QueuedAt(tail)]
             /\ pc' = [Notified EXCEPT ![j] = "turn"] /\ tail' = tail + 1
    <3>1. tail' > 0
      BY <1>0, <2>4
    <3>2. j \in Unfinished(entry')
      BY <1>0, <2>4 DEF Unfinished, Listed, Without, QueuedAt, Terminal, WorkersUnfinished
    <3>3. ASSUME NEW k \in Job, k # j, pc'[k] \in Live
          PROVE  k \in Unfinished(entry')
      <4>1. pc[k] \in Live
        BY <2>4, <3>3, NotifiedLive DEF Notified
      <4>2. k \in Unfinished(Without(P))
        BY <2>2, <4>1 DEF WorkersUnfinished, Live
      <4>q. QED
        BY <2>4, <3>3, <4>2 DEF Unfinished, Listed, Without
    <3>q. QED
      BY <3>1, <3>2, <3>3 DEF WorkersUnfinished, Live
  <2>q. QED
    BY <2>1, <2>3, <2>4
<1>3. CASE \/ \E b \in Batches : BeginBatch(b)
           \/ RejectBatch
           \/ \E r \in ResumeCall, j \in Job : BeginResume(r, j)
           \/ \E r \in ResumeCall : RejectResume(r)
  BY <1>3, KeepsWorkers DEF BeginBatch, RejectBatch, BeginResume, RejectResume, memory, workers
<1>4. CASE AdmitBatch
  <2> DEFINE A == Members(batch.jobs)
             at(j) == CHOOSE i \in DOMAIN batch.jobs : batch.jobs[i] = j
             queued(P) == [j \in Job |-> IF j \in A THEN QueuedAt(tail + at(j) - 1)
                                                    ELSE Without(P)[j]]
  <2>1. PICK P \in Evictions(Len(batch.jobs)) :
          \/ /\ entry' = queued(P)
             /\ pc' = [j \in Job |-> IF j \in A THEN "turn" ELSE Notified[j]]
             /\ tail' = tail + Len(batch.jobs)
          \/ UNCHANGED entry /\ pc' = Notified /\ tail' = tail + Len(batch.jobs)
    BY <1>4 DEF AdmitBatch
  <2>4. batch.jobs \in Seq(Job)
    <3>1. batch.jobs \in Batches \cup {<<>>}
      BY DEF TypeOK
    <3>2. <<>> \in Seq(Job) /\ Batches \subseteq Seq(Job)
      BY JobAssumption
    <3>q. QED
      BY <3>1, <3>2
  <2>5. Len(batch.jobs) \in Nat /\ DOMAIN batch.jobs = 1 .. Len(batch.jobs)
    BY <2>4
  <2>2. CASE UNCHANGED entry /\ pc' = Notified /\ tail' = tail + Len(batch.jobs)
    BY <1>0, <2>2, <2>5, NotifiedLive, KeepsWorkers DEF WorkersUnfinished
  <2>3. CASE /\ entry' = queued(P)
             /\ pc' = [j \in Job |-> IF j \in A THEN "turn" ELSE Notified[j]]
             /\ tail' = tail + Len(batch.jobs)
    <3>3. tail > 0 /\ tail' > 0
      BY <1>0, <2>3, <2>5 DEF WorkersUnfinished
    <3>4. ASSUME NEW j \in Job, j \in A PROVE j \in Unfinished(entry')
      <4>1. at(j) \in 1 .. Len(batch.jobs)
        BY <2>5, <3>4 DEF Members
      <4>2. entry'[j] = QueuedAt(tail + at(j) - 1)
        BY <2>3, <3>4
      <4> HIDE DEF at
      <4>3. tail + at(j) - 1 > 0
        BY <1>0, <3>3, <4>1
      <4>q. QED
        BY <4>2, <4>3 DEF Unfinished, Listed, QueuedAt, Terminal
    <3>5. ASSUME NEW k \in Job, k \notin A, pc'[k] \in Live
          PROVE  k \in Unfinished(entry')
      <4>1. pc[k] \in Live
        BY <2>3, <3>5, NotifiedLive
      <4>2. k \in Unfinished(entry)
        BY <4>1 DEF WorkersUnfinished, Live
      <4>3. k \notin P
        BY <2>1, <4>2 DEF Evictions, Prunable, Unfinished
      <4>q. QED
        BY <2>3, <3>5, <4>2, <4>3 DEF Unfinished, Listed, Without
    <3>q. QED
      BY <3>3, <3>4, <3>5 DEF WorkersUnfinished, Live
  <2>q. QED
    BY <2>1, <2>2, <2>3
<1>5. ASSUME NEW r \in ResumeCall, CommitResume(r) PROVE WorkersUnfinished'
  <2> DEFINE j == resume[r].job
  <2>1. \/ /\ entry' = [entry EXCEPT ![j] = Requeued(entry[j])]
           /\ pc' = [Notified EXCEPT ![j] = "turn"]
           /\ tail' = tail + 1
        \/ UNCHANGED <<entry, pc>> /\ tail' = tail + 1
    BY <1>5 DEF CommitResume
  <2>2. CASE UNCHANGED <<entry, pc>> /\ tail' = tail + 1
    BY <1>0, <2>2, KeepsWorkers
  <2>3. CASE /\ entry' = [entry EXCEPT ![j] = Requeued(entry[j])]
             /\ pc' = [Notified EXCEPT ![j] = "turn"]
             /\ tail' = tail + 1
    <3> HIDE DEF j
    <3>1. tail > 0 /\ tail' > 0
      BY <1>0, <2>3 DEF WorkersUnfinished
    <3>2. j \in Job => j \in Unfinished(entry')
      <4>1. CASE j \in Job
        <5>1. entry[j] \in Snapshot /\ entry'[j] = Requeued(entry[j])
          BY <1>0, <2>3, <4>1
        <5>2. entry'[j].place = tail /\ entry'[j].state = "Queued"
          BY <5>1 DEF Requeued, Snapshot
        <5>q. QED
          BY <3>1, <4>1, <5>2 DEF Unfinished, Listed, Terminal
      <4>q. QED
        BY <4>1
    <3>3. ASSUME NEW k \in Job, k # j, pc'[k] \in Live
          PROVE  k \in Unfinished(entry')
      <4>1. pc[k] \in Live
        BY <2>3, <3>3, NotifiedLive DEF Notified
      <4>2. k \in Unfinished(entry)
        BY <4>1 DEF WorkersUnfinished, Live
      <4>3. entry'[k] = entry[k]
        BY <1>0, <2>3, <3>3
      <4>q. QED
        BY <4>2, <4>3 DEF Unfinished, Listed
    <3>q. QED
      BY <3>1, <3>2, <3>3 DEF WorkersUnfinished, Live
  <2>q. QED
    BY <2>1, <2>2, <2>3
<1>6. ASSUME NEW j \in Job, NEW s, NEW c, Persist([entry EXCEPT ![j] = s], c), UNCHANGED tail,
             pc' = pc \/ pc' = Notified,
             j \in Unfinished(entry) => s.place > 0 /\ s.state \notin Terminal
      PROVE  WorkersUnfinished'
  <2>1. Unfinished(entry) \subseteq Unfinished([entry EXCEPT ![j] = s])
    BY <1>0, <1>6, UpdateKeepsUnfinished, UnfinishedJobs
  <2>q. QED
    BY <1>1, <1>6, <2>1
<1>7. ASSUME NEW j \in Job, NEW state
      PROVE  entry[j].place = [entry[j] EXCEPT !.state = state].place
             /\ state = [entry[j] EXCEPT !.state = state].state
  <2>1. entry[j] \in Snapshot
    BY <1>0
  <2>q. QED
    BY <2>1 DEF Snapshot
<1>8. ASSUME NEW j \in Job, CancelJob(j) PROVE WorkersUnfinished'
  <2>1. UNCHANGED tail /\ (pc' = pc \/ pc' = Notified)
    BY <1>8 DEF CancelJob, Announced, calls
  <2>2. CASE j \in Unfinished(entry)
    BY <1>6, <1>7, <1>8, <2>1, <2>2 DEF CancelJob, Unfinished, Listed, Terminal
  <2>3. CASE j \notin Unfinished(entry)
    BY <1>1, <1>8, <2>1, <2>3 DEF CancelJob
  <2>q. QED
    BY <2>2, <2>3
<1>9. ASSUME NEW j \in Job, StopJob(j) PROVE WorkersUnfinished'
  <2>1. UNCHANGED tail /\ (pc' = pc \/ pc' = Notified)
    BY <1>9 DEF StopJob, Announced, calls
  <2>2. \/ Persist(entry, cancel)
        \/ Persist([entry EXCEPT ![j].state = "Stopping"], [cancel EXCEPT ![j] = TRUE])
    BY <1>9 DEF StopJob
  <2>3. CASE Persist(entry, cancel)
    BY <1>1, <2>1, <2>3
  <2>4. CASE Persist([entry EXCEPT ![j].state = "Stopping"], [cancel EXCEPT ![j] = TRUE])
    BY <1>6, <1>7, <2>1, <2>4 DEF Unfinished, Listed, Terminal
  <2>q. QED
    BY <2>2, <2>3, <2>4
<1>10. ASSUME NEW j \in Job, NEW pause \in BOOLEAN, SetJobPaused(j, pause)
       PROVE  WorkersUnfinished'
  <2> DEFINE state == IF pause THEN "Paused" ELSE "Running"
  <2>1. UNCHANGED <<tail, pc>> /\ state \notin Terminal
    BY <1>10 DEF SetJobPaused, calls, workers, Terminal
  <2>2. Persist([entry EXCEPT ![j] = [entry[j] EXCEPT !.state = state]], cancel)
    BY <1>10 DEF SetJobPaused
  <2> HIDE DEF state
  <2>q. QED
    BY <1>6, <1>7, <2>1, <2>2 DEF Unfinished, Listed
<1>11. CASE CancelAllJobs
  <2>1. \A k \in Unfinished(entry) : k \in Job /\ Canceling(entry)[k] = [entry[k] EXCEPT !.state = "Canceling"]
    BY UnfinishedJobs DEF Canceling
  <2>2. ASSUME NEW k \in Unfinished(entry) PROVE k \in Unfinished(Canceling(entry))
    <3>1. entry[k].place > 0 /\ entry[k].state \notin Terminal
      BY DEF Unfinished, Listed
    <3> DEFINE c == [entry[k] EXCEPT !.state = "Canceling"]
    <3>2. c.place = entry[k].place /\ c.state = "Canceling"
      BY <1>7, <2>1
    <3> HIDE DEF c
    <3>3. /\ Canceling(entry)[k].place = entry[k].place
          /\ Canceling(entry)[k].state \in {entry[k].state, "Canceling"}
      <4>1. Canceling(entry)[k] \in {entry[k], c}
        BY <2>1 DEF c
      <4>q. QED
        BY <3>2, <4>1
    <3>q. QED
      BY <2>1, <3>1, <3>2, <3>3 DEF Unfinished, Listed, Terminal
  <2>q. QED
    BY <1>1, <1>11, <2>2 DEF CancelAllJobs, calls
<1>12. ASSUME NEW j \in Job, DiscardRecovery(j) PROVE WorkersUnfinished'
  <2>1. j \notin Unfinished(entry)
    BY <1>12 DEF DiscardRecovery, Unfinished, Terminal
  <2>2. UNCHANGED tail /\ (pc' = pc \/ pc' = Notified)
    BY <1>12 DEF DiscardRecovery, Announced, calls
  <2>q. QED
    BY <1>6, <1>12, <2>1, <2>2 DEF DiscardRecovery
<1>13. CASE Shutdown
  <2>1. \A k \in Unfinished(entry) :
          k \in Job /\ ShutdownStates[k] \in {entry[k], [entry[k] EXCEPT !.state = "Canceling"]}
    BY UnfinishedJobs DEF ShutdownStates
  <2>2. ASSUME NEW k \in Unfinished(entry) PROVE k \in Unfinished(ShutdownStates)
    <3>1. entry[k].place > 0 /\ entry[k].state \notin Terminal
      BY DEF Unfinished, Listed
    <3> DEFINE c == [entry[k] EXCEPT !.state = "Canceling"]
    <3>2. c.place = entry[k].place /\ c.state = "Canceling"
      BY <1>7, <2>1
    <3> HIDE DEF c
    <3>3. /\ ShutdownStates[k].place = entry[k].place
          /\ ShutdownStates[k].state \in {entry[k].state, "Canceling"}
      <4>1. ShutdownStates[k] \in {entry[k], c}
        BY <2>1 DEF c
      <4>q. QED
        BY <3>2, <4>1
    <3>q. QED
      BY <2>1, <3>1, <3>2, <3>3 DEF Unfinished, Listed, Terminal
  <2>q. QED
    BY <1>1, <1>13, <2>2 DEF Shutdown, calls
<1>q. QED
  BY <1>2, <1>3, <1>4, <1>5, <1>8, <1>9, <1>10, <1>11, <1>12, <1>13 DEF Request

LEMMA StepKeepsWorkers ==
  ASSUME TypeOK, WorkersUnfinished, [Next]_vars
  PROVE  WorkersUnfinished'
<1>1. CASE \E j \in Job : Worker(j)
  BY <1>1, WorkerKeepsWorkers
<1>2. CASE Request
  BY <1>2, RequestKeepsWorkers
<1>3. CASE Open
  BY <1>3, LiveStages DEF Open, WorkersUnfinished, Live
<1>4. CASE UNCHANGED vars
  BY <1>4, KeepsWorkers DEF vars, memory, workers, calls
<1>q. QED
  BY <1>1, <1>2, <1>3, <1>4 DEF Next, Exited
-----------------------------------------------------------------------------
(* The invariant from which the theorems below follow. *)
SafetyInv ==
  /\ TypeOK
  /\ WorkersUnfinished
  /\ DiskMatchesMemory
  /\ StorageFailureCancels
  /\ DestinationsDistinct

LEMMA InitialSafety == Init => SafetyInv
<1> SUFFICES ASSUME Init PROVE SafetyInv
  OBVIOUS
<1>1. TypeOK
  BY InitialTypes
<1>2. Unfinished(entry) = {}
  BY DEF Init, Unfinished, Listed, NoEntry
<1>3. WorkersUnfinished
  BY DEF Init, WorkersUnfinished, Waiting, Attempt
<1>4. DiskMatchesMemory
  BY DEF Init, DiskMatchesMemory
<1>q. QED
  BY <1>1, <1>2, <1>3, <1>4 DEF SafetyInv, StorageFailureCancels, DestinationsDistinct

(* What was recorded stays recorded. *)
LEMMA RecordedMatches ==
  ASSUME DiskMatchesMemory, Recorded
  PROVE  DiskMatchesMemory'
BY DEF DiskMatchesMemory, Recorded

LEMMA EffectKeepsCanceled ==
  ASSUME StorageFailureCancels, Continues \/ \E A \in SUBSET Job : Admits(A)
  PROVE  StorageFailureCancels'
BY UnfinishedJobs DEF StorageFailureCancels, Continues, Admits

LEMMA EffectKeepsDestinations ==
  ASSUME DestinationsDistinct, Continues \/ \E A \in SUBSET Job : Admits(A)
  PROVE  DestinationsDistinct'
<1>1. CASE Continues
  BY <1>1 DEF Continues, DestinationsDistinct
<1>2. ASSUME NEW A \in SUBSET Job, Admits(A) PROVE DestinationsDistinct'
  <2> SUFFICES ASSUME NEW j \in Unfinished(entry'), NEW k \in Unfinished(entry'),
                      DestOf[j] = DestOf[k]
               PROVE  j = k
    BY DEF DestinationsDistinct
  <2>1. j \in Unfinished(entry) \cup A /\ k \in Unfinished(entry) \cup A
    BY <1>2 DEF Admits
  <2>2. CASE j \in Unfinished(entry) /\ k \in Unfinished(entry)
    BY <2>2 DEF DestinationsDistinct
  <2>3. CASE j \in A /\ k \in A
    BY <1>2, <2>3 DEF Admits
  <2>4. CASE j \in A /\ k \in Unfinished(entry)
    BY <1>2, <2>4 DEF Admits, DestinationFree
  <2>5. CASE j \in Unfinished(entry) /\ k \in A
    BY <1>2, <2>5 DEF Admits, DestinationFree
  <2>q. QED
    BY <2>1, <2>2, <2>3, <2>4, <2>5
<1>q. QED
  BY <1>1, <1>2

LEMMA SafetyInductive == SafetyInv /\ [Next]_vars => SafetyInv'
<1> SUFFICES ASSUME SafetyInv, [Next]_vars PROVE SafetyInv'
  OBVIOUS
<1>1. TypeOK /\ WorkersUnfinished
  BY DEF SafetyInv
<1>2. Recorded /\ (Continues \/ \E A \in SUBSET Job : Admits(A))
  BY <1>1, StepEffect
<1>3. TypeOK'
  BY <1>1, TypeInductive
<1>4. WorkersUnfinished'
  BY <1>1, StepKeepsWorkers
<1>q. QED
  BY <1>2, <1>3, <1>4, RecordedMatches, EffectKeepsCanceled, EffectKeepsDestinations
  DEF SafetyInv

THEOREM SafetyCorrect == Spec => []SafetyInv
BY InitialSafety, SafetyInductive, PTL DEF Spec

(* Unless a history write has failed, the file says what memory says.      *)
THEOREM HistoryFaithful == Spec => []DiskMatchesMemory
<1>1. SafetyInv => DiskMatchesMemory
  BY DEF SafetyInv
<1>q. QED
  BY <1>1, SafetyCorrect, PTL

(* A failed history write leaves nothing unfinished that is not canceled.  *)
THEOREM FailureCancels == Spec => []StorageFailureCancels
<1>1. SafetyInv => StorageFailureCancels
  BY DEF SafetyInv
<1>q. QED
  BY <1>1, SafetyCorrect, PTL

(* Admission, batches and resume together keep destinations apart, for any *)
(* number of jobs and concurrent calls.                                    *)
THEOREM DestinationsKeptApart == Spec => []DestinationsDistinct
<1>1. SafetyInv => DestinationsDistinct
  BY DEF SafetyInv
<1>q. QED
  BY <1>1, SafetyCorrect, PTL

(* A closing or failed queue starts nothing. *)
THEOREM ClosingStartsNothing == Spec => NothingStartsWhileClosing
<1>1. ASSUME SafetyInv, [Next]_vars
      PROVE  [(shuttingDown \/ storageError) /\ session' = session =>
                Unfinished(entry') \subseteq Unfinished(entry)]_vars
  <2>1. Continues \/ \E A \in SUBSET Job : Admits(A)
    BY <1>1, StepEffect DEF SafetyInv
  <2>2. CASE Continues
    BY <2>2 DEF Continues
  <2>3. CASE \E A \in SUBSET Job : Admits(A)
    BY <2>3 DEF Admits, Accepting
  <2>q. QED
    BY <2>1, <2>2, <2>3
<1>q. QED
  BY <1>1, SafetyCorrect, PTL DEF Spec, NothingStartsWhileClosing
=============================================================================
