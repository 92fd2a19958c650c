----------------------------- MODULE HistoryFile -----------------------------
(***************************************************************************)
(* jobs.json and jobs.lock (crates/media-runtime/src/jobs/history.rs).     *)
(* A save is written beside the old record, synced, renamed over it and    *)
(* made durable, on a blocking thread that may outlive its manager.  The   *)
(* lock belongs to the manager and to its writes.  The machine may stop at *)
(* any step.                                                               *)
(*                                                                         *)
(* The content of a record is the number of its save.  A record that is    *)
(* read is one that write has produced: other programs stay away, and no   *)
(* record is too long.                                                     *)
(***************************************************************************)
EXTENDS Naturals, FiniteSets

CONSTANTS
  Manager,  \* job managers, of one process or of several
  MaxSave   \* bound: saves

VARIABLES
  managing,  \* the managers that have the history open
  writer,    \* the save of each manager: its number, its step, its bytes on disk
  record,    \* jobs.json as programs see it
  outcomes,  \* what jobs.json may be after the machine stops
  saves,     \* saves so far
  reported   \* ghost: the last save that was reported as done

vars == <<managing, writer, record, outcomes, saves, reported>>

Idle == [save |-> 0, step |-> "idle", flushed |-> FALSE]

Writing(m) == writer[m] # Idle

(* Seeded fault: the lock is dropped with the manager. *)
HeldByManager(m) == m \in managing

(* HistoryLock: the manager and its writes share it. *)
Held(m) == m \in managing \/ Writing(m)

-----------------------------------------------------------------------------
Open(m) ==
  /\ \A other \in Manager : ~Held(other)
  /\ record.whole
  /\ managing' = managing \cup {m}
  /\ UNCHANGED <<writer, record, outcomes, saves, reported>>

(* The manager is dropped; its write goes on. *)
Close(m) ==
  /\ m \in managing
  /\ managing' = managing \ {m}
  /\ UNCHANGED <<writer, record, outcomes, saves, reported>>

(* Saves are serialized by the state lock of the manager. *)
BeginSave(m) ==
  /\ m \in managing /\ ~Writing(m)
  /\ saves < MaxSave
  /\ saves' = saves + 1
  /\ writer' = [writer EXCEPT ![m] = [save |-> saves + 1, step |-> "written",
                                           flushed |-> FALSE]]
  /\ UNCHANGED <<managing, record, outcomes, reported>>

Sync(m) ==
  /\ writer[m].step = "written"
  /\ writer' = [writer EXCEPT ![m].step = "synced", ![m].flushed = TRUE]
  /\ UNCHANGED <<managing, record, outcomes, saves, reported>>

(* On disk it is what has been synced of it. *)
Rename(m) ==
  /\ writer[m].step = "synced"
  /\ record' = [save |-> writer[m].save, whole |-> TRUE]
  /\ outcomes' = outcomes \cup
       {[save |-> writer[m].save, whole |-> writer[m].flushed]}
  /\ writer' = [writer EXCEPT ![m].step = "renamed"]
  /\ UNCHANGED <<managing, saves, reported>>

SyncDirectory(m) ==
  /\ writer[m].step = "renamed"
  /\ outcomes' = {record}
  /\ reported' = writer[m].save
  /\ writer' = [writer EXCEPT ![m] = Idle]
  /\ UNCHANGED <<managing, record, saves>>

(* An error before the rename, or after it. *)
Fail(m) ==
  /\ Writing(m)
  /\ writer' = [writer EXCEPT ![m] = Idle]
  /\ UNCHANGED <<managing, record, outcomes, saves, reported>>

Stop ==
  /\ record' \in outcomes
  /\ outcomes' = {record'}
  /\ managing' = {}
  /\ writer' = [m \in Manager |-> Idle]
  /\ UNCHANGED <<saves, reported>>

-----------------------------------------------------------------------------
(* A missing file is read as an empty history. *)
Empty == [save |-> 0, whole |-> TRUE]

Init ==
  /\ managing = {}
  /\ writer = [m \in Manager |-> Idle]
  /\ record = Empty
  /\ outcomes = {Empty}
  /\ saves = 0
  /\ reported = 0

Saving(m) == BeginSave(m) \/ Sync(m) \/ Rename(m) \/ SyncDirectory(m) \/ Fail(m)

Next ==
  \/ \E m \in Manager : Open(m) \/ Close(m) \/ Saving(m)
  \/ Stop

Spec == Init /\ [][Next]_vars

-----------------------------------------------------------------------------
(* "Never truncate the last successful save", and "an older snapshot       *)
(* cannot win a race": the record is whole and at least as new as the last *)
(* save that was reported, now and after the machine stops, whichever      *)
(* manager wrote it and however long its write took.                       *)
LastSaveKept ==
  \A r \in {record} \cup outcomes : r.whole /\ r.save >= reported
=============================================================================
