------------------------ MODULE JobPublication_proofs ------------------------
(* Theorems about publication: who writes an output, what a success means, *)
(* and that it lasts.                                                      *)
EXTENDS JobManager_proofs

Successes(e) == {k \in Job : e[k].state = "Succeeded"}

(* Only publication makes a success, in memory or on disk. *)
NoNewSuccess ==
  Successes(entry') \cup Successes(disk') \subseteq Successes(entry) \cup Successes(disk)

(* Only publication touches an output, and no cancellation precedes it. *)
LEMMA OutputStep ==
  ASSUME [Next]_vars
  PROVE  UNCHANGED out \/ \E j \in Job : Publish(j)
<1>1. ASSUME NEW j \in Job, Worker(j) PROVE UNCHANGED out \/ Publish(j)
  BY <1>1 DEF Worker, Work, CheckTurn, TakeSlot, LeaveQueue, Prepare, Run, Confirm, Finalize,
     Phase, Fail, Checkpoint, RecordCheckpoint, RemoveWorkspace, KeepWorkspace, ForgetWorkspace,
     Report, Settle, Release, durable
<1>2. CASE Request
  BY <1>2 DEF Request, AdmitJob, BeginBatch, RejectBatch, AdmitBatch, CancelJob, StopJob,
     SetJobPaused, CancelAllJobs, BeginResume, RejectResume, CommitResume, DiscardRecovery,
     Shutdown, durable
<1>3. CASE Open
  BY <1>3 DEF Open
<1>4. CASE UNCHANGED vars
  BY <1>4 DEF vars, durable
<1>q. QED
  BY <1>1, <1>2, <1>3, <1>4 DEF Next, Exited

(* Cancellation and publication exclude each other: the channel is read in *)
(* the critical section that links the output.                             *)
THEOREM NoPublicationAfterCancel == Spec => CanceledNeverPublishes
<1>1. ASSUME TypeOK, [Next]_vars
      PROVE  [\A j \in Job : cancel[j] => (out'[DestOf[j]] = j => out[DestOf[j]] = j)]_vars
  <2>1. CASE UNCHANGED out
    BY <2>1
  <2>2. ASSUME NEW k \in Job, Publish(k),
               NEW j \in Job, cancel[j], out'[DestOf[j]] = j
        PROVE  out[DestOf[j]] = j
    <3>1. ~cancel[k] /\ out' = [out EXCEPT ![DestOf[k]] = k]
      BY <2>2 DEF Publish, MayPublish
    <3>2. out \in [Dest -> Job \cup {None}] /\ DestOf[j] \in Dest
      BY <1>1, JobAssumption DEF TypeOK
    <3>3. CASE DestOf[j] = DestOf[k]
      <4>1. j = k
        BY <2>2, <3>1, <3>2, <3>3
      <4>q. QED
        BY <2>2, <3>1, <4>1, Zenon
    <3>4. CASE DestOf[j] # DestOf[k]
      BY <2>2, <3>1, <3>2, <3>4
    <3>q. QED
      BY <3>3, <3>4
  <2>q. QED
    BY <1>1, <2>1, <2>2, OutputStep
<1>q. QED
  BY <1>1, TypeCorrect, PTL DEF Spec, CanceledNeverPublishes

-----------------------------------------------------------------------------
(* Updates of one snapshot that make no success. *)
LEMMA UpdateSuccesses ==
  ASSUME entry \in [Job -> Snapshot], NEW j \in Job, NEW s,
         s.state # "Succeeded" \/ entry[j].state = "Succeeded"
  PROVE  Successes([entry EXCEPT ![j] = s]) \subseteq Successes(entry)
BY DEF Successes

LEMMA PersistSuccesses ==
  ASSUME NEW e, NEW c, Persist(e, c), Successes(e) \subseteq Successes(entry)
  PROVE  NoNewSuccess
BY DEF Persist, Saved, SaveFails, NoNewSuccess, Successes

LEMMA ChangeSuccesses ==
  ASSUME TypeOK, NEW j \in Job, NEW s, NEW to, Change(j, s, to),
         s.state # "Succeeded" \/ entry[j].state = "Succeeded"
  PROVE  NoNewSuccess
<1>0. entry \in [Job -> Snapshot]
  BY DEF TypeOK
<1>1. CASE UNCHANGED <<entry, disk>>
  BY <1>1 DEF NoNewSuccess, Successes
<1>2. CASE Persist([entry EXCEPT ![j] = s], cancel)
  BY <1>0, <1>2, UpdateSuccesses, PersistSuccesses
<1>q. QED
  BY <1>1, <1>2 DEF Change

LEMMA WorkerSuccesses ==
  ASSUME TypeOK, WorkersUnfinished, NEW j \in Job, Worker(j), ~Publish(j)
  PROVE  NoNewSuccess
<1>0. entry \in [Job -> Snapshot] /\ entry[j] \in Snapshot
  BY DEF TypeOK
<1>1. CASE UNCHANGED <<entry, disk>>
  BY <1>1 DEF NoNewSuccess, Successes
<1>2. CASE CheckTurn(j) \/ TakeSlot(j) \/ LeaveQueue(j) \/ Fail(j) \/ Report(j)
  BY <1>1, <1>2 DEF CheckTurn, TakeSlot, LeaveQueue, Fail, Report, memory, durable
<1>3. CASE Checkpoint(j) \/ RemoveWorkspace(j) \/ Release(j)
  BY <1>1, <1>3 DEF Checkpoint, RemoveWorkspace, Release, memory, durable
<1>4. ASSUME NEW from, NEW phase, NEW to, phase # "Succeeded", Phase(j, from, phase, to)
      PROVE  NoNewSuccess
  <2> DEFINE s == [entry[j] EXCEPT !.state = PhaseState(@, phase)]
  <2>1. s.state # "Succeeded"
    <3>1. s.state = PhaseState(entry[j].state, phase)
      BY <1>0 DEF Snapshot
    <3>q. QED
      BY <1>4, <3>1 DEF PhaseState
  <2>q. QED
    BY <1>4, <2>1, ChangeSuccesses DEF Phase
<1>5. CASE Prepare(j) \/ Run(j) \/ Finalize(j)
  BY <1>4, <1>5 DEF Prepare, Run, Finalize
<1>c. CASE Confirm(j)
  <2> DEFINE s == [entry[j] EXCEPT !.state = "Running"]
  <2>1. s.state # "Succeeded"
    BY <1>0 DEF Snapshot
  <2>q. QED
    BY <1>c, <2>1, ChangeSuccesses DEF Confirm
<1>6. CASE RecordCheckpoint(j)
  <2> DEFINE s == [entry[j] EXCEPT !.saved = TRUE]
  <2>1. s.state = entry[j].state
    BY <1>0 DEF Snapshot
  <2>q. QED
    BY <1>6, <2>1, ChangeSuccesses DEF RecordCheckpoint
<1>7. CASE KeepWorkspace(j)
  BY <1>1, <1>7, ChangeSuccesses DEF KeepWorkspace
<1>8. CASE ForgetWorkspace(j)
  <2> DEFINE s == [entry[j] EXCEPT !.saved = FALSE]
  <2>1. s.state = entry[j].state
    BY <1>0 DEF Snapshot
  <2>q. QED
    BY <1>8, <2>1, ChangeSuccesses DEF ForgetWorkspace
<1>9. CASE Settle(j)
  <2>1. PICK state \in {FinalState(j)} \cup
                 (IF slot = j /\ FinalState(j) # "Succeeded" THEN {"Failed"} ELSE {}) :
          Change(j, [entry[j] EXCEPT !.state = state], "release")
    BY <1>9 DEF Settle
  <2>2. state # "Succeeded" \/ entry[j].state = "Succeeded"
    BY <2>1 DEF FinalState
  <2> DEFINE s == [entry[j] EXCEPT !.state = state]
  <2>3. s.state = state
    BY <1>0 DEF Snapshot
  <2>q. QED
    BY <2>1, <2>2, <2>3, ChangeSuccesses
<1>q. QED
  BY <1>2, <1>3, <1>5, <1>6, <1>7, <1>8, <1>9, <1>c DEF Worker, Work

LEMMA RequestSuccesses ==
  ASSUME TypeOK, Request
  PROVE  NoNewSuccess /\ Successes(entry') \subseteq Successes(entry)
<1>0. entry \in [Job -> Snapshot]
  BY DEF TypeOK
<1>1. ASSUME UNCHANGED <<entry, disk>>
      PROVE  NoNewSuccess /\ Successes(entry') \subseteq Successes(entry)
  BY <1>1 DEF NoNewSuccess, Successes
<1>2. ASSUME NEW e, Successes(e) \subseteq Successes(entry),
             Successes(entry') \subseteq Successes(entry), Saved(e) \/ SaveFails(e)
      PROVE  NoNewSuccess
  BY <1>2 DEF Saved, SaveFails, NoNewSuccess, Successes
<1>3. ASSUME NEW e, NEW c, Persist(e, c), Successes(e) \subseteq Successes(entry)
      PROVE  NoNewSuccess /\ Successes(entry') \subseteq Successes(entry)
  BY <1>3, PersistSuccesses, PersistRecords
<1>4. ASSUME NEW j \in Job, NEW state, NEW c, state # "Succeeded",
             Persist([entry EXCEPT ![j].state = state], c)
      PROVE  NoNewSuccess /\ Successes(entry') \subseteq Successes(entry)
  <2>1. entry[j] \in Snapshot
    BY <1>0
  <2>2. [entry[j] EXCEPT !.state = state].state = state
    BY <2>1 DEF Snapshot
  <2>q. QED
    BY <1>0, <1>3, <1>4, <2>2, UpdateSuccesses
<1>5. ASSUME NEW P PROVE Successes(Without(P)) \subseteq Successes(entry)
  BY DEF Successes, Without, NoEntry
<1>6. ASSUME NEW j \in Job, NEW allowQueue \in BOOLEAN, AdmitJob(j, allowQueue)
      PROVE  NoNewSuccess /\ Successes(entry') \subseteq Successes(entry)
  <2>1. PICK P \in Evictions(1) :
          LET e == [Without(P) EXCEPT ![j] = QueuedAt(tail)] IN
          (Saved(e) /\ entry' = e) \/ (SaveFails(e) /\ entry' = Without(P))
    BY <1>6 DEF AdmitJob
  <2>2. Successes([Without(P) EXCEPT ![j] = QueuedAt(tail)]) \subseteq Successes(Without(P))
    BY DEF Successes, Without, QueuedAt
  <2>q. QED
    BY <1>2, <1>5, <2>1, <2>2
<1>7. CASE AdmitBatch
  <2> DEFINE A == Members(batch.jobs)
             at(j) == CHOOSE i \in DOMAIN batch.jobs : batch.jobs[i] = j
             queued(P) == [j \in Job |-> IF j \in A THEN QueuedAt(tail + at(j) - 1)
                                                    ELSE Without(P)[j]]
  <2>1. PICK P \in Evictions(Len(batch.jobs)) :
          \/ Saved(queued(P)) /\ entry' = queued(P)
          \/ SaveFails(queued(P)) /\ entry' = entry
    BY <1>7 DEF AdmitBatch
  <2>2. Successes(queued(P)) \subseteq Successes(Without(P))
    BY DEF Successes, QueuedAt
  <2> HIDE DEF queued
  <2>q. QED
    BY <1>2, <1>5, <2>1, <2>2
<1>8. ASSUME NEW r \in ResumeCall, CommitResume(r)
      PROVE  NoNewSuccess /\ Successes(entry') \subseteq Successes(entry)
  <2> DEFINE j == resume[r].job
             e == [entry EXCEPT ![j] = Requeued(entry[j])]
  <2>1. (Saved(e) /\ entry' = e) \/ (SaveFails(e) /\ entry' = entry)
    BY <1>8 DEF CommitResume
  <2>2. Successes(e) \subseteq Successes(entry)
    <3> HIDE DEF j
    <3>1. CASE j \in Job
      <4>1. entry[j] \in Snapshot
        BY <1>0, <3>1
      <4>2. Requeued(entry[j]).state = "Queued"
        BY <4>1 DEF Requeued, Snapshot
      <4>q. QED
        BY <1>0, <3>1, <4>2, UpdateSuccesses
    <3>2. CASE j \notin Job
      BY <1>0, <3>2 DEF Successes
    <3>q. QED
      BY <3>1, <3>2
  <2> HIDE DEF e
  <2>q. QED
    BY <1>2, <2>1, <2>2
<1>9. CASE \/ \E b \in Batches : BeginBatch(b)
           \/ RejectBatch
           \/ \E r \in ResumeCall, j \in Job : BeginResume(r, j)
           \/ \E r \in ResumeCall : RejectResume(r)
  BY <1>1, <1>9 DEF BeginBatch, RejectBatch, BeginResume, RejectResume, memory, durable
<1>10. ASSUME NEW j \in Job, CancelJob(j) \/ StopJob(j)
       PROVE  NoNewSuccess /\ Successes(entry') \subseteq Successes(entry)
  <2>1. \/ Persist(entry, cancel)
        \/ Persist([entry EXCEPT ![j].state = "Canceling"], [cancel EXCEPT ![j] = TRUE])
        \/ Persist([entry EXCEPT ![j].state = "Stopping"], [cancel EXCEPT ![j] = TRUE])
    BY <1>10 DEF CancelJob, StopJob
  <2>q. QED
    BY <1>3, <1>4, <2>1
<1>11. ASSUME NEW j \in Job, NEW pause \in BOOLEAN, SetJobPaused(j, pause)
       PROVE  NoNewSuccess /\ Successes(entry') \subseteq Successes(entry)
  <2> DEFINE state == IF pause THEN "Paused" ELSE "Running"
  <2>1. state # "Succeeded" /\ Persist([entry EXCEPT ![j].state = state], cancel)
    BY <1>11 DEF SetJobPaused
  <2> HIDE DEF state
  <2>q. QED
    BY <1>4, <2>1
<1>12. Successes(Canceling(entry)) \subseteq Successes(entry)
  <2>1. ASSUME NEW k \in Job PROVE [entry[k] EXCEPT !.state = "Canceling"].state = "Canceling"
    BY <1>0, entry[k] \in Snapshot DEF Snapshot
  <2>q. QED
    BY <2>1 DEF Successes, Canceling
<1>13. Successes(ShutdownStates) \subseteq Successes(entry)
  <2>1. ASSUME NEW k \in Job PROVE [entry[k] EXCEPT !.state = "Canceling"].state = "Canceling"
    BY <1>0, entry[k] \in Snapshot DEF Snapshot
  <2>q. QED
    BY <2>1 DEF Successes, ShutdownStates
<1>14. CASE CancelAllJobs \/ Shutdown
  BY <1>3, <1>12, <1>13, <1>14 DEF CancelAllJobs, Shutdown
<1>15. ASSUME NEW j \in Job, DiscardRecovery(j)
       PROVE  NoNewSuccess /\ Successes(entry') \subseteq Successes(entry)
  <2> DEFINE s == [entry[j] EXCEPT !.saved = FALSE]
  <2>1. Persist([entry EXCEPT ![j] = s], cancel)
    BY <1>15 DEF DiscardRecovery
  <2>2. entry[j] \in Snapshot
    BY <1>0
  <2>3. s.state = entry[j].state
    BY <2>2 DEF Snapshot
  <2>q. QED
    BY <1>0, <1>3, <2>1, <2>3, UpdateSuccesses
<1>q. QED
  BY <1>6, <1>7, <1>8, <1>9, <1>10, <1>11, <1>14, <1>15 DEF Request

LEMMA OpenSuccesses ==
  ASSUME Open
  PROVE  NoNewSuccess
<1>1. Successes(Reopened) \subseteq Successes(disk)
  BY DEF Successes, Reopened, Restored, NoEntry
<1>2. Successes([j \in Job |-> NoEntry]) = {}
  BY DEF Successes, NoEntry
<1>q. QED
  BY <1>1, <1>2 DEF Open, NoNewSuccess

(* Only Publish(j) makes j a success. *)
LEMMA SuccessStep ==
  ASSUME TypeOK, WorkersUnfinished, [Next]_vars
  PROVE  NoNewSuccess \/ \E j \in Job : Publish(j)
<1>1. CASE UNCHANGED vars
  BY <1>1 DEF vars, memory, durable, NoNewSuccess, Successes
<1>q. QED
  BY <1>1, WorkerSuccesses, RequestSuccesses, OpenSuccesses DEF Next, Exited
-----------------------------------------------------------------------------
(* A success owns its output, in memory and on disk. *)
Owned(e) == \A j \in Successes(e) : out[DestOf[j]] = j

LEMMA OwnershipStep ==
  ASSUME TypeOK, WorkersUnfinished, Owned(entry), Owned(disk), [Next]_vars
  PROVE  (Owned(entry) /\ Owned(disk))'
<1>0. /\ entry \in [Job -> Snapshot]
      /\ out \in [Dest -> Job \cup {None}]
      /\ \A j \in Job : DestOf[j] \in Dest
  BY JobAssumption DEF TypeOK
<1>1. CASE NoNewSuccess /\ UNCHANGED out
  BY <1>1 DEF NoNewSuccess, Owned
<1>2. ASSUME NEW j \in Job, Publish(j)
      PROVE  (Owned(entry) /\ Owned(disk))'
  <2>1. out[DestOf[j]] = None /\ out' = [out EXCEPT ![DestOf[j]] = j]
    BY <1>2 DEF Publish, MayPublish
  <2> DEFINE e == [entry EXCEPT ![j].state = "Succeeded"]
  <2>2. Successes(e) \subseteq Successes(entry) \cup {j}
    BY <1>0 DEF Successes
  <2>3. entry' = e /\ disk' \in {disk, e}
    BY <1>2 DEF Publish, Persist, Saved, SaveFails
  <2>4. \A k \in Successes(entry) \cup Successes(disk) : out'[DestOf[k]] = k
    <3> SUFFICES ASSUME NEW k \in Successes(entry) \cup Successes(disk)
                 PROVE  out'[DestOf[k]] = k
      OBVIOUS
    <3>1. k \in Job /\ out[DestOf[k]] = k
      BY DEF Owned, Successes
    <3>2. DestOf[k] # DestOf[j]
      BY <2>1, <3>1, JobAssumption
    <3>q. QED
      BY <1>0, <2>1, <3>1, <3>2
  <2>5. out'[DestOf[j]] = j
    BY <1>0, <2>1
  <2> HIDE DEF e
  <2>q. QED
    BY <2>2, <2>3, <2>4, <2>5 DEF Owned
<1>q. QED
  BY <1>1, <1>2, OutputStep, SuccessStep

(* A job recorded as succeeded owns the file at its destination. *)
THEOREM SuccessMeansOutput == Spec => []SuccessOwnsOutput
<1> DEFINE Inv == Owned(entry) /\ Owned(disk)
<1>1. Init => Inv
  BY DEF Init, Owned, Successes, NoEntry
<1>2. SafetyInv /\ Inv /\ [Next]_vars => Inv'
  BY OwnershipStep DEF SafetyInv
<1>3. Inv => SuccessOwnsOutput
  BY DEF Owned, Successes, SuccessOwnsOutput
<1>q. QED
  BY <1>1, <1>2, <1>3, SafetyCorrect, PTL DEF Spec
-----------------------------------------------------------------------------
(* A success lasts: the worker that published remembers its result, and a  *)
(* resume call never holds the snapshot of a success.                      *)
Reporting == {"published", "forget", "report", "settle"}

Remembered ==
  /\ \A j \in Successes(entry) : pc[j] # "new" /\ (pc[j] \in Reporting => result[j] = "ok")
  /\ \A r \in ResumeCall : resume[r].snapshot.state # "Succeeded"

Lasts ==
  \A j \in Successes(entry) : entry'[j].state = "Succeeded" \/ entry'[j].place = 0

(* A step that leaves successes, or drops them, and reports nothing else. *)
LEMMA KeepsRemembered ==
  ASSUME Remembered, Successes(entry') \subseteq Successes(entry),
         \A k \in Successes(entry') :
            \/ pc'[k] = pc[k] /\ result'[k] = result[k]
            \/ pc'[k] \notin Reporting \cup {"new"},
         \A r \in ResumeCall : \/ resume'[r] = resume[r]
                              \/ resume'[r].snapshot.state # "Succeeded"
  PROVE  Remembered'
BY DEF Remembered

LEMMA LiveNotSuccess ==
  ASSUME WorkersUnfinished, NEW j \in Job, pc[j] \in Live
  PROVE  entry[j].state \notin Terminal
BY DEF WorkersUnfinished, Live, Unfinished
(* The result a worker reports for a success. *)
LEMMA FinalSuccess ==
  ASSUME Remembered, NEW j \in Job, entry[j].state = "Succeeded", pc[j] = "settle"
  PROVE  FinalState(j) = "Succeeded"
BY DEF Remembered, Successes, Reporting, FinalState

(* A worker's change of a snapshot with the state it had, or of one that   *)
(* is no success.                                                          *)
LEMMA ChangeLasts ==
  ASSUME TypeOK, Remembered, NEW j \in Job, NEW s, NEW to, Change(j, s, to),
         UNCHANGED <<result, resume>>,
         entry[j].state = "Succeeded" => s.state = "Succeeded",
         s.state = "Succeeded" => entry[j].state = "Succeeded",
         to # "new",
         to \in Reporting /\ s.state = "Succeeded" => pc[j] \in Reporting
  PROVE  Lasts /\ Remembered'
<1>1. entry \in [Job -> Snapshot] /\ entry' = [entry EXCEPT ![j] = s]
  BY ChangeEntry DEF TypeOK
<1>2. pc'[j] = to /\ \A k \in Job : k # j => Woken(k)
  BY ChangeStages
<1>3. Lasts
  BY <1>1 DEF Lasts, Successes
<1>4. \A k \in Job : k # j => pc'[k] = pc[k] \/ pc'[k] \notin Reporting \cup {"new"}
  BY <1>2 DEF Woken, Reporting
<1>5. Successes(entry') \subseteq Successes(entry)
  BY <1>1 DEF Successes
<1>6. CASE s.state # "Succeeded"
  <2>1. j \notin Successes(entry')
    BY <1>1, <1>6 DEF Successes
  <2>q. QED
    BY <1>3, <1>4, <1>5, <2>1, KeepsRemembered DEF Successes
<1>7. CASE s.state = "Succeeded"
  <2>1. j \in Successes(entry)
    BY <1>7 DEF Successes
  <2>2. pc'[j] # "new" /\ (pc'[j] \in Reporting => result'[j] = "ok")
    BY <1>2, <1>7, <2>1 DEF Remembered
  <2>3. \A k \in Successes(entry') : k # j =>
          pc'[k] # "new" /\ (pc'[k] \in Reporting => result'[k] = "ok")
    <3> SUFFICES ASSUME NEW k \in Successes(entry'), k # j
                 PROVE  pc'[k] # "new" /\ (pc'[k] \in Reporting => result'[k] = "ok")
      OBVIOUS
    <3>1. k \in Job /\ k \in Successes(entry)
      BY <1>5 DEF Successes
    <3>q. QED
      BY <1>4, <3>1 DEF Remembered
  <2>q. QED
    BY <1>3, <2>2, <2>3 DEF Remembered
<1>q. QED
  BY <1>6, <1>7
LEMMA WorkerLasts ==
  ASSUME EditedJobs = {}, TypeOK, WorkersUnfinished, Remembered,
         NEW j \in Job, Worker(j)
  PROVE  Lasts /\ Remembered'
<1> USE LiveStages
<1>0. /\ entry \in [Job -> Snapshot] /\ entry[j] \in Snapshot
      /\ pc \in [Job -> Stage]
      /\ result \in [Job -> {"none", "ok", "failed", "canceled"}]
  BY DEF TypeOK
<1>1. pc[j] \in Live => entry[j].state # "Succeeded"
  BY LiveNotSuccess DEF Terminal
<1>2. ASSUME UNCHANGED <<entry, resume>>, NEW to, pc' = [pc EXCEPT ![j] = to], to # "new",
             \A k \in Job : k # j => result'[k] = result[k],
             entry[j].state = "Succeeded" /\ to \in Reporting => result'[j] = "ok"
      PROVE  Lasts /\ Remembered'
  <2>1. Lasts
    BY <1>2 DEF Lasts, Successes
  <2>2. \A k \in Successes(entry') :
          pc'[k] # "new" /\ (pc'[k] \in Reporting => result'[k] = "ok")
    <3> SUFFICES ASSUME NEW k \in Successes(entry')
                 PROVE  pc'[k] # "new" /\ (pc'[k] \in Reporting => result'[k] = "ok")
      OBVIOUS
    <3>1. k \in Job /\ k \in Successes(entry)
      BY <1>2 DEF Successes
    <3>2. CASE k = j
      BY <1>0, <1>2, <3>1, <3>2 DEF Successes
    <3>3. CASE k # j
      BY <1>0, <1>2, <3>1, <3>3 DEF Remembered
    <3>q. QED
      BY <3>2, <3>3
  <2>q. QED
    BY <1>2, <2>1, <2>2 DEF Remembered
<1>3. CASE CheckTurn(j) \/ TakeSlot(j)
  <2>1. pc[j] \in Live
    BY <1>3 DEF CheckTurn, TakeSlot, Live, Waiting
  <2>q. QED
    BY <1>1, <1>2, <1>3, <2>1 DEF CheckTurn, TakeSlot, memory, calls
<1>4. CASE LeaveQueue(j) \/ Fail(j)
  <2>1. pc[j] \in Live
    BY <1>4 DEF LeaveQueue, Fail, Live
  <2>q. QED
    BY <1>0, <1>1, <1>2, <1>4, <2>1 DEF LeaveQueue, Fail, memory, calls
<1>5. CASE Checkpoint(j)
  <2>1. pc[j] \in Live
    BY <1>5 DEF Checkpoint
  <2>q. QED
    BY <1>1, <1>2, <1>5, <2>1 DEF Checkpoint, memory, calls
<1>6. CASE RemoveWorkspace(j)
  <2>1. entry[j].state = "Succeeded" => result[j] = "ok"
    BY <1>6 DEF RemoveWorkspace, Remembered, Successes, Reporting
  <2>q. QED
    BY <1>2, <1>6, <2>1 DEF RemoveWorkspace, memory, calls
<1>7. CASE Report(j)
  <2>1. entry[j].state = "Succeeded" => result[j] = "ok"
    BY <1>7 DEF Report, Remembered, Successes, Reporting
  <2>2. entry[j].state = "Succeeded" => result'[j] = "ok"
    BY <1>0, <1>7, <2>1 DEF Report, Reported
  <2>q. QED
    BY <1>0, <1>2, <1>7, <2>2 DEF Report, memory, calls
<1>8. ASSUME NEW from \in Attempt, NEW phase, NEW to, phase # "Succeeded", to # "new",
             Phase(j, from, phase, to)
      PROVE  Lasts /\ Remembered'
  <2> DEFINE s == [entry[j] EXCEPT !.state = PhaseState(@, phase)]
  <2>1. pc[j] \in Live
    BY <1>8 DEF Phase, Live
  <2>2. s.state # "Succeeded"
    <3>1. s.state = PhaseState(entry[j].state, phase)
      BY <1>0 DEF Snapshot
    <3>q. QED
      BY <1>8, <3>1 DEF PhaseState
  <2>q. QED
    BY <1>1, <1>8, <2>1, <2>2, ChangeLasts DEF Phase, calls
<1>9. CASE Prepare(j) \/ Run(j) \/ Finalize(j)
  BY <1>8, <1>9 DEF Prepare, Run, Finalize, Attempt
<1>c. CASE Confirm(j)
  <2> DEFINE s == [entry[j] EXCEPT !.state = "Running"]
  <2>1. pc[j] \in Live
    BY <1>c DEF Confirm, Live, Attempt
  <2>2. s.state # "Succeeded"
    BY <1>0 DEF Snapshot
  <2>q. QED
    BY <1>1, <1>c, <2>1, <2>2, ChangeLasts DEF Confirm, calls
<1>10. CASE RecordCheckpoint(j)
  <2> DEFINE s == [entry[j] EXCEPT !.saved = TRUE]
  <2>1. s.state = entry[j].state
    BY <1>0 DEF Snapshot
  <2>2. "run" \notin Reporting
    BY DEF Reporting
  <2>q. QED
    BY <1>10, <2>1, <2>2, ChangeLasts DEF RecordCheckpoint, calls
<1>11. CASE Publish(j)
  <2> DEFINE s == [entry[j] EXCEPT !.state = "Succeeded"]
  <2>1. entry' = [entry EXCEPT ![j] = s] /\ s.state = "Succeeded"
    BY <1>0, <1>11 DEF Publish, Persist, Snapshot
  <2>2. /\ pc'[j] \in {"published", "report"} /\ result'[j] = "ok"
        /\ \A k \in Job : k # j => pc'[k] = pc[k] /\ result'[k] = result[k]
        /\ resume' = resume
    BY <1>0, <1>11 DEF Publish, calls
  <2>3. Lasts
    BY <1>0, <2>1 DEF Lasts, Successes
  <2>4. \A k \in Successes(entry') :
          pc'[k] # "new" /\ (pc'[k] \in Reporting => result'[k] = "ok")
    BY <1>0, <2>1, <2>2 DEF Successes, Remembered
  <2>q. QED
    BY <2>2, <2>3, <2>4 DEF Remembered
<1>12. CASE KeepWorkspace(j)
  <2>1. Change(j, entry[j], "report") /\ UNCHANGED <<result, resume>> /\ pc[j] \in Reporting
    BY <1>12 DEF KeepWorkspace, calls, Reporting
  <2>q. QED
    BY <2>1, ChangeLasts
<1>13. CASE ForgetWorkspace(j)
  <2> DEFINE s == [entry[j] EXCEPT !.saved = FALSE]
  <2>1. s.state = entry[j].state
    BY <1>0 DEF Snapshot
  <2>2. Change(j, s, "report") /\ UNCHANGED <<result, resume>> /\ pc[j] \in Reporting
    BY <1>13 DEF ForgetWorkspace, calls, Reporting
  <2>q. QED
    BY <2>1, <2>2, ChangeLasts
<1>14. CASE Settle(j)
  <2>1. PICK state \in {FinalState(j)} \cup
                 (IF slot = j /\ FinalState(j) # "Succeeded" THEN {"Failed"} ELSE {}) :
          Change(j, [entry[j] EXCEPT !.state = state], "release")
    BY <1>14 DEF Settle
  <2> DEFINE s == [entry[j] EXCEPT !.state = state]
  <2>2. s.state = state
    BY <1>0 DEF Snapshot
  <2>3. state = "Succeeded" => entry[j].state = "Succeeded"
    BY <2>1 DEF FinalState
  <2>4. entry[j].state = "Succeeded" => state = "Succeeded"
    BY <1>14, <2>1, FinalSuccess DEF Settle
  <2>5. "release" \notin Reporting
    BY DEF Reporting
  <2>q. QED
    BY <1>14, <2>1, <2>2, <2>3, <2>4, <2>5, ChangeLasts DEF Settle, calls
<1>15. CASE Release(j)
  <2>1. UNCHANGED <<entry, resume>>
    BY <1>15 DEF Release, calls
  <2>2. \A k \in Job : k # j => result'[k] = result[k] /\ pc'[k] \in {pc[k], "turn"}
    BY <1>0, <1>15 DEF Release, Notified
  <2>3. pc'[j] = "done"
    BY <1>0, <1>15 DEF Release, Notified
  <2>4. Lasts /\ Successes(entry') = Successes(entry)
    BY <2>1 DEF Lasts, Successes
  <2>q. QED
    BY <2>1, <2>2, <2>3, <2>4, KeepsRemembered DEF Reporting, Successes
<1>q. QED
  BY <1>3, <1>4, <1>5, <1>6, <1>7, <1>9, <1>10, <1>11, <1>12, <1>13, <1>14, <1>15, <1>c
  DEF Worker, Work
(* Requests leave the results alone and at most wake workers. *)
LEMMA RequestStages ==
  ASSUME TypeOK, Request
  PROVE  UNCHANGED result /\ \A k \in Job : pc'[k] \in {pc[k], "turn"}
<1>0. /\ pc \in [Job -> Stage]
      /\ \A k \in Job : Notified[k] \in {pc[k], "turn"}
      /\ \A k \in Job : Announced[k] \in {pc[k], "turn"}
  BY DEF TypeOK, Notified, Announced
<1>1. UNCHANGED result
  BY DEF Request, AdmitJob, BeginBatch, RejectBatch, AdmitBatch, CancelJob, StopJob,
     SetJobPaused, CancelAllJobs, BeginResume, RejectResume, CommitResume, DiscardRecovery,
     Shutdown, workers
<1>2. \/ pc' \in {pc, Notified, Announced}
      \/ \E j \in Job : pc' = [Notified EXCEPT ![j] = "turn"]
      \/ \E r \in ResumeCall : pc' = [Notified EXCEPT ![resume[r].job] = "turn"]
      \/ pc' = [k \in Job |-> IF k \in Members(batch.jobs) THEN "turn" ELSE Notified[k]]
  BY DEF Request, AdmitJob, BeginBatch, RejectBatch, AdmitBatch, CancelJob, StopJob,
     SetJobPaused, CancelAllJobs, BeginResume, RejectResume, CommitResume, DiscardRecovery,
     Shutdown, workers
<1>3. \A x : \A k \in Job : [Notified EXCEPT ![x] = "turn"][k] \in {pc[k], "turn"}
  BY <1>0 DEF Notified
<1>q. QED
  BY <1>0, <1>1, <1>2, <1>3

LEMMA RequestResumes ==
  ASSUME TypeOK, Request
  PROVE  \A r \in ResumeCall : resume'[r] = resume[r] \/ resume'[r].snapshot.state # "Succeeded"
<1>0. resume \in [ResumeCall -> [job : Job \cup {None}, snapshot : Snapshot, epoch : Nat]]
  BY DEF TypeOK
<1>1. ASSUME NEW r \in ResumeCall, resume' = [resume EXCEPT ![r] = NoResume]
      PROVE  \A q \in ResumeCall : resume'[q] = resume[q] \/ resume'[q].snapshot.state # "Succeeded"
  <2>1. NoResume.snapshot.state # "Succeeded"
    BY DEF NoResume, NoEntry
  <2>q. QED
    BY <1>0, <1>1, <2>1
<1>2. ASSUME NEW r \in ResumeCall, NEW j \in Job, BeginResume(r, j)
      PROVE  \A q \in ResumeCall : resume'[q] = resume[q] \/ resume'[q].snapshot.state # "Succeeded"
  <2> DEFINE call == [job |-> j, snapshot |-> entry[j], epoch |-> epoch]
  <2>1. resume' = [resume EXCEPT ![r] = call] /\ entry[j].state # "Succeeded"
    BY <1>2 DEF BeginResume, Resumable
  <2>2. call.snapshot.state # "Succeeded"
    BY <2>1
  <2>q. QED
    BY <1>0, <2>1, <2>2
<1>3. \/ UNCHANGED resume
      \/ \E r \in ResumeCall : resume' = [resume EXCEPT ![r] = NoResume]
      \/ \E r \in ResumeCall, j \in Job : BeginResume(r, j)
  BY DEF Request, AdmitJob, BeginBatch, RejectBatch, AdmitBatch, CancelJob, StopJob,
     SetJobPaused, CancelAllJobs, RejectResume, CommitResume, DiscardRecovery,
     Shutdown, calls
<1>q. QED
  BY <1>1, <1>2, <1>3

LEMMA RequestLasts ==
  ASSUME TypeOK, Remembered, Request
  PROVE  Lasts
<1>0. entry \in [Job -> Snapshot]
  BY DEF TypeOK
<1>1. CASE UNCHANGED entry
  BY <1>1 DEF Lasts, Successes
<1>2. ASSUME NEW P PROVE \A k \in Successes(entry) : Without(P)[k] \in {entry[k], NoEntry}
  BY DEF Without, Successes
<1>3. ASSUME NEW j \in Job, NEW s, entry' = [entry EXCEPT ![j] = s],
             entry[j].state = "Succeeded" => s.state = "Succeeded"
      PROVE  Lasts
  BY <1>0, <1>3 DEF Lasts, Successes
<1>4. ASSUME NEW j \in Job, NEW allowQueue \in BOOLEAN, AdmitJob(j, allowQueue) PROVE Lasts
  <2>1. PICK P \in Evictions(1) :
          entry' \in {[Without(P) EXCEPT ![j] = QueuedAt(tail)], Without(P)}
    BY <1>4 DEF AdmitJob
  <2>2. j \notin Successes(entry)
    BY <1>4 DEF AdmitJob, Remembered
  <2>3. \A k \in Successes(entry) : entry'[k] \in {entry[k], NoEntry}
    BY <1>2, <2>1, <2>2 DEF Without, Successes
  <2>q. QED
    BY <2>3 DEF Lasts, NoEntry, Successes
<1>5. CASE AdmitBatch
  <2> DEFINE A == Members(batch.jobs)
             at(j) == CHOOSE i \in DOMAIN batch.jobs : batch.jobs[i] = j
             queued(P) == [j \in Job |-> IF j \in A THEN QueuedAt(tail + at(j) - 1)
                                                    ELSE Without(P)[j]]
  <2>1. PICK P \in Evictions(Len(batch.jobs)) : entry' \in {queued(P), entry}
    BY <1>5 DEF AdmitBatch
  <2>2. \A k \in Successes(entry) : k \in Job /\ k \notin A
    BY <1>5 DEF AdmitBatch, Remembered, Successes
  <2>3. \A k \in Successes(entry) : entry'[k] \in {entry[k], NoEntry}
    BY <1>2, <2>1, <2>2
  <2>q. QED
    BY <2>3 DEF Lasts, NoEntry, Successes
<1>6. ASSUME NEW r \in ResumeCall, CommitResume(r) PROVE Lasts
  <2> DEFINE j == resume[r].job
  <2>1. entry[j].state # "Succeeded" /\ entry' \in {entry, [entry EXCEPT ![j] = Requeued(entry[j])]}
    BY <1>6 DEF CommitResume, SameSnapshot, Remembered
  <2> HIDE DEF j
  <2>q. QED
    BY <1>0, <2>1 DEF Lasts, Successes
<1>7. CASE \/ \E b \in Batches : BeginBatch(b)
           \/ RejectBatch
           \/ \E r \in ResumeCall, j \in Job : BeginResume(r, j)
           \/ \E r \in ResumeCall : RejectResume(r)
  BY <1>1, <1>7 DEF BeginBatch, RejectBatch, BeginResume, RejectResume, memory
<1>8. ASSUME NEW j \in Job, CancelJob(j) PROVE Lasts
  <2>1. CASE j \in Unfinished(entry)
    <3>1. entry' = [entry EXCEPT ![j] = [entry[j] EXCEPT !.state = "Canceling"]]
      BY <1>8, <2>1 DEF CancelJob, Persist
    <3>q. QED
      BY <1>3, <2>1, <3>1 DEF Unfinished, Terminal
  <2>2. CASE j \notin Unfinished(entry)
    BY <1>1, <1>8, <2>2 DEF CancelJob, Persist
  <2>q. QED
    BY <2>1, <2>2
<1>9. ASSUME NEW j \in Job, StopJob(j) PROVE Lasts
  <2>1. CASE entry[j].state \in Terminal \cup {"Stopping", "Canceling"}
    BY <1>1, <1>9, <2>1 DEF StopJob, Persist
  <2>2. CASE entry[j].state \notin Terminal \cup {"Stopping", "Canceling"}
    <3>1. entry' = [entry EXCEPT ![j] = [entry[j] EXCEPT !.state = "Stopping"]]
      BY <1>9, <2>2 DEF StopJob, Persist
    <3>q. QED
      BY <1>3, <2>2, <3>1 DEF Terminal
  <2>q. QED
    BY <2>1, <2>2
<1>10. ASSUME NEW j \in Job, NEW pause \in BOOLEAN, SetJobPaused(j, pause) PROVE Lasts
  <2> DEFINE s == [entry[j] EXCEPT !.state = IF pause THEN "Paused" ELSE "Running"]
  <2>1. entry' = [entry EXCEPT ![j] = s] /\ entry[j].state # "Succeeded"
    BY <1>10 DEF SetJobPaused, Persist, Pausable
  <2>q. QED
    BY <1>3, <2>1
<1>11. CASE CancelAllJobs
  <2>1. \A k \in Successes(entry) : entry'[k] = entry[k]
    BY <1>11 DEF CancelAllJobs, Persist, Canceling, Unfinished, Successes, Terminal
  <2>q. QED
    BY <2>1 DEF Lasts, Successes
<1>12. CASE Shutdown
  <2>1. \A k \in Successes(entry) : entry'[k] = entry[k]
    BY <1>12 DEF Shutdown, Persist, ShutdownStates, Unfinished, Successes, Terminal
  <2>q. QED
    BY <2>1 DEF Lasts, Successes
<1>13. ASSUME NEW j \in Job, DiscardRecovery(j) PROVE Lasts
  <2>1. entry' = [entry EXCEPT ![j] = [entry[j] EXCEPT !.saved = FALSE]]
        /\ entry[j].state # "Succeeded"
    BY <1>13 DEF DiscardRecovery, Persist
  <2>q. QED
    BY <1>3, <2>1
<1>q. QED
  BY <1>4, <1>5, <1>6, <1>7, <1>8, <1>9, <1>10, <1>11, <1>12, <1>13 DEF Request

LEMMA OpenRemembers ==
  ASSUME Open
  PROVE  Remembered'
<1>1. \A r \in ResumeCall : resume'[r].snapshot.state # "Succeeded"
  BY DEF Open, NoResume, NoEntry
<1>2. \A j \in Successes(entry') : pc'[j] = "done"
  <2>1. ASSUME NEW j \in Job, disk[j].place = 0
        PROVE  Reopened[j].state # "Succeeded"
    BY <2>1 DEF Reopened, Restored, NoEntry
  <2>2. entry' = Reopened \/ entry' = [j \in Job |-> NoEntry]
    BY DEF Open
  <2>q. QED
    BY <2>1, <2>2 DEF Open, Successes, NoEntry
<1>q. QED
  BY <1>1, <1>2 DEF Remembered, Reporting

(* Without reviewed commands, whose cleanup errors relabel a published job *)
(* (see the run job_edited_cleanup), a success lasts for the session.      *)
THEOREM SuccessLasts ==
  ASSUME EditedJobs = {}
  PROVE  Spec => PublishedStaysSucceeded
<1>1. Init => Remembered
  BY DEF Init, Remembered, Successes, NoEntry, NoResume
<1>2. ASSUME SafetyInv, Remembered, [Next]_vars
      PROVE  Remembered' /\ (Lasts \/ session' # session)
  <2>1. TypeOK /\ WorkersUnfinished
    BY <1>2 DEF SafetyInv
  <2>2. CASE \E j \in Job : Worker(j)
    BY <1>2, <2>1, <2>2, WorkerLasts
  <2>3. CASE Request
    <3>1. Successes(entry') \subseteq Successes(entry) /\ Lasts
      BY <1>2, <2>1, <2>3, RequestSuccesses, RequestLasts
    <3>2. UNCHANGED result /\ \A k \in Job : pc'[k] \in {pc[k], "turn"}
      BY <2>1, <2>3, RequestStages
    <3>3. \A r \in ResumeCall : resume'[r] = resume[r] \/ resume'[r].snapshot.state # "Succeeded"
      BY <2>1, <2>3, RequestResumes
    <3>q. QED
      BY <1>2, <3>1, <3>2, <3>3, KeepsRemembered DEF Reporting, Successes
  <2>4. CASE Open
    <3>1. session' # session
      BY <2>1, <2>4 DEF Open, TypeOK
    <3>q. QED
      BY <2>4, <3>1, OpenRemembers
  <2>5. CASE UNCHANGED vars
    <3>1. UNCHANGED <<entry, pc, result, resume>>
      BY <2>5 DEF vars, memory, workers, calls
    <3>q. QED
      BY <1>2, <3>1 DEF Remembered, Lasts, Successes
  <2>q. QED
    BY <1>2, <2>2, <2>3, <2>4, <2>5 DEF Next, Exited
<1>3. ASSUME SafetyInv, Remembered, [Next]_vars
      PROVE  [session' = session =>
                \A j \in Job : entry[j].state = "Succeeded" =>
                  entry'[j].state = "Succeeded" \/ entry'[j].place = 0]_vars
  BY <1>2, <1>3 DEF Lasts, Successes
<1>q. QED
  BY <1>1, <1>2, <1>3, SafetyCorrect, PTL DEF Spec, PublishedStaysSucceeded
=============================================================================
