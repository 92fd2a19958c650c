--------------------------- MODULE PauseControl ---------------------------
(* The live pause of an operation: supervisor/pause.rs, with the owned     *)
(* process trees of supervisor.rs and supervisor/unix.rs it signals.       *)
(*                                                                         *)
(* An operation (a worker task, an inspection) runs its tools one run      *)
(* after the other; the two stages of a pipeline are one run.  A pause     *)
(* request walks over the attached trees on a blocking thread and holds    *)
(* the control's mutex all the way, while the trees it signals go on       *)
(* exiting and being reaped.  A tree is one value; what a tool computes    *)
(* and prints is left out.                                                 *)
EXTENDS Integers, Sequences, FiniteSets, SequencesExt

CONSTANTS
  Runs,          \* the runs, in order: each the sequence of trees it attaches
  Limit,         \* the time limit of a run
  MaxTime,       \* bound: the clock
  StopFaults     \* bound: live trees that cannot be confirmed stopped

Tool == UNION {ToSet(Runs[r]) : r \in DOMAIN Runs}

ASSUME PauseAssumption ==
  /\ \A r \in DOMAIN Runs : Runs[r] \in Seq(Tool) /\ Runs[r] # <<>> /\ IsInjective(Runs[r])
  /\ \A r, s \in DOMAIN Runs : r # s => ToSet(Runs[r]) \cap ToSet(Runs[s]) = {}
  /\ {Limit, MaxTime, StopFaults} \subseteq Nat

VARIABLES
  tree,     \* every tool's process tree
  targets,  \* State.targets, in the order of their sequence numbers
  scopes,   \* State.scopes
  clock,    \* now, since State.origin
  pausedAt, \* State.paused_at, or -1
  pausedFor,\* State.paused_for
  setter,   \* the pause request that holds the mutex
  at,       \* where the operation is
  next,     \* its next run
  start,    \* the running clock when the current run began
  canceled, \* the operation's cancel flag
  faults,   \* confirmations that have failed
  ran       \* ghost: the time the control was not paused

vars == <<tree, targets, scopes, clock, pausedAt, pausedFor, setter, at, next,
          start, canceled, faults, ran>>

operation == <<at, next, start, canceled>>
clocks    == <<clock, pausedAt, pausedFor, ran>>

Paused == pausedAt >= 0
Unlocked == setter.at = "free"
Current == ToSet(Runs[next])

(* PauseControl::running_clock. *)
RunningClock == clock - (pausedFor + IF Paused THEN clock - pausedAt ELSE 0)

(* The pause ends with the last target outside every scope.                *)
(* Seeded fault: the time spent in that pause is forgotten. *)
ForgetPause ==
  /\ pausedAt' = -1
  /\ UNCHANGED pausedFor

ClearPause ==
  /\ pausedAt' = -1
  /\ pausedFor' = IF Paused THEN pausedFor + (clock - pausedAt) ELSE pausedFor

(* Seeded fault: the pause outlives the operation. *)
KeepPause(free) == UNCHANGED <<pausedAt, pausedFor>>

Unheld(free) == IF free THEN ClearPause ELSE UNCHANGED <<pausedAt, pausedFor>>

-----------------------------------------------------------------------------
(* PauseControl::set_paused. *)

Free == [at |-> "free", wanted |-> FALSE, todo |-> <<>>, done |-> <<>>, answer |-> "none"]

(* The operation is over, the state is the wanted one, or the walk begins. *)
SetPaused(wanted) ==
  /\ Unlocked
  /\ IF targets = <<>> /\ scopes = 0
     THEN setter' = [Free EXCEPT !.wanted = wanted, !.answer = "ended"]
     ELSE IF wanted = Paused
     THEN setter' = [Free EXCEPT !.wanted = wanted, !.answer = "done"]
     ELSE setter' = [Free EXCEPT !.at = "signal", !.wanted = wanted, !.todo = targets]
  /\ UNCHANGED <<tree, targets, scopes, clocks, operation, faults>>

(* PauseTarget::set_paused and confirm_stopped.  A tree that has been      *)
(* reaped is not found.  One whose leader has exited takes SIGCONT but     *)
(* cannot be confirmed stopped; a live one may miss the confirmation, and  *)
(* is continued.                                                           *)
Signaled(t, wanted) == [tree EXCEPT ![t] = IF wanted THEN "stopped" ELSE "running"]

Reached(t, wanted) ==
  \/ tree[t] \in {"running", "stopped"} /\ tree' = Signaled(t, wanted)
  \/ tree[t] = "exited" /\ ~wanted /\ UNCHANGED tree

Missed(t, wanted) ==
  \/ tree[t] = "exited" /\ wanted /\ UNCHANGED <<tree, faults>>
  \/ tree[t] = "reaped" /\ UNCHANGED <<tree, faults>>
  \/ /\ tree[t] \in {"running", "stopped"} /\ wanted
     /\ faults < StopFaults
     /\ faults' = faults + 1
     /\ tree' = Signaled(t, FALSE)

Signal ==
  LET t == Head(setter.todo) IN
  /\ setter.at = "signal"
  /\ setter.todo # <<>>
  /\ \/ /\ Reached(t, setter.wanted)
        /\ setter' = [setter EXCEPT !.todo = Tail(@), !.done = Append(@, t)]
        /\ UNCHANGED faults
     \/ /\ Missed(t, setter.wanted)
        /\ setter' = [setter EXCEPT !.at = "rollback"]
  /\ UNCHANGED <<targets, scopes, clocks, operation>>

(* Seeded fault: the trees that were signaled stay as they are. *)
RolledBackNothing(t) == UNCHANGED <<tree, faults>>

RolledBack(t) ==
  \/ Reached(t, ~setter.wanted) /\ UNCHANGED faults
  \/ Missed(t, ~setter.wanted)

Rollback ==
  /\ setter.at = "rollback"
  /\ setter.done # <<>>
  /\ RolledBack(Head(setter.done))
  /\ setter' = [setter EXCEPT !.done = Tail(@)]
  /\ UNCHANGED <<targets, scopes, clocks, operation>>

Answer ==
  \/ /\ setter.at = "signal" /\ setter.todo = <<>>
     /\ IF setter.wanted THEN pausedAt' = clock /\ UNCHANGED pausedFor ELSE ClearPause
     /\ setter' = [Free EXCEPT !.wanted = setter.wanted, !.answer = "done"]
     /\ UNCHANGED <<tree, targets, scopes, clock, ran, operation, faults>>
  \/ /\ setter.at = "rollback" /\ setter.done = <<>>
     /\ setter' = [Free EXCEPT !.wanted = setter.wanted, !.answer = "refused"]
     /\ UNCHANGED <<tree, targets, scopes, clocks, operation, faults>>

-----------------------------------------------------------------------------
(* The operation. *)

(* with_pause; a resumed job enters again with the same control. *)
EnterScope ==
  /\ at = "outside" /\ next \in DOMAIN Runs
  /\ Unlocked
  /\ scopes' = scopes + 1
  /\ at' = "native"
  /\ UNCHANGED <<tree, targets, clocks, setter, next, start, canceled, faults>>

(* The operation ends, done or not, also because a tool cannot be started: *)
(* the scope is dropped.                                                   *)
LeaveScope ==
  /\ at = "native"
  /\ Unlocked
  /\ scopes' = scopes - 1
  /\ Unheld(scopes = 1 /\ targets = <<>>)
  /\ at' = "outside"
  /\ canceled' = FALSE
  /\ UNCHANGED <<tree, targets, clock, ran, setter, next, start, faults>>

(* run, run_capture, run_streaming_stdout, run_pipeline: spawn, then attach. *)
Spawn ==
  /\ at = "native" /\ next \in DOMAIN Runs /\ ~canceled
  /\ tree' = [t \in Tool |-> IF t \in Current THEN "running" ELSE tree[t]]
  /\ at' = "attaching"
  /\ UNCHANGED <<targets, scopes, clocks, setter, next, start, canceled, faults>>

(* The trees of a run are attached in their order. *)
Unattached == SubSeq(Runs[next], Len(targets) + 1, Len(Runs[next]))

AttachedAs(t) == IF Paused THEN Reached(t, TRUE) /\ UNCHANGED faults ELSE UNCHANGED <<tree, faults>>

(* PauseControl::attach; when it fails the run is abandoned. *)
Attach ==
  LET t == Head(Unattached) IN
  /\ at = "attaching" /\ Unattached # <<>>
  /\ Unlocked
  /\ \/ AttachedAs(t) /\ targets' = Append(targets, t) /\ UNCHANGED at
     \/ Paused /\ Missed(t, TRUE) /\ at' = "abandoned" /\ UNCHANGED targets
  /\ UNCHANGED <<scopes, clocks, setter, next, start, canceled>>

Watch ==
  /\ at = "attaching" /\ Unattached = <<>>
  /\ at' = "running"
  /\ start' = RunningClock
  /\ UNCHANGED <<tree, targets, scopes, clocks, setter, next, canceled, faults>>

(* A tool exits by itself only while it runs. *)
Exit(t) ==
  /\ tree[t] = "running"
  /\ tree' = [tree EXCEPT ![t] = "exited"]
  /\ UNCHANGED <<targets, scopes, clocks, setter, operation, faults>>

(* wait_and_terminate_descendants; a failed stage ends the run, the last   *)
(* successful one as well.                                                 *)
Reap(t) ==
  /\ at = "running" /\ t \in Current
  /\ tree[t] = "exited"
  /\ tree' = [tree EXCEPT ![t] = "reaped"]
  /\ \/ at' = "cleanup"
     \/ \E u \in Current \ {t} : tree[u] # "reaped" /\ UNCHANGED at
  /\ UNCHANGED <<targets, scopes, clocks, setter, next, start, canceled, faults>>

Cancel ==
  /\ at # "outside"
  /\ ~canceled
  /\ canceled' = TRUE
  /\ UNCHANGED <<tree, targets, scopes, clocks, setter, at, next, start, faults>>

(* Seeded fault: a paused run does not look at its cancellation. *)
HeededUnlessPaused == canceled /\ ~Paused

Heeded == canceled

HeedCancel ==
  /\ at = "running" /\ Heeded
  /\ at' = "cleanup"
  /\ UNCHANGED <<tree, targets, scopes, clocks, setter, next, start, canceled, faults>>

(* PauseControl::timeout reads the clock under the mutex. *)
Expired == ~Paused /\ RunningClock - start >= Limit

TimeOut ==
  /\ at = "running" /\ ~canceled
  /\ Unlocked
  /\ Expired
  /\ at' = "cleanup"
  /\ UNCHANGED <<tree, targets, scopes, clocks, setter, next, start, canceled, faults>>

(* terminate_and_wait, stopped trees included; an abandoned run drops its  *)
(* attachments first and its trees after them.                             *)
Terminate(t) ==
  /\ at = "cleanup" \/ (at = "abandoned" /\ targets = <<>>)
  /\ t \in Current
  /\ tree[t] # "reaped"
  /\ tree' = [tree EXCEPT ![t] = "reaped"]
  /\ UNCHANGED <<targets, scopes, clocks, setter, operation, faults>>

CleanedUp == at = "cleanup" /\ \A t \in Current : tree[t] = "reaped"

(* The attachments are dropped, the last one first. *)
Detach ==
  /\ CleanedUp \/ at = "abandoned"
  /\ targets # <<>>
  /\ Unlocked
  /\ targets' = Front(targets)
  /\ Unheld(scopes = 0 /\ Front(targets) = <<>>)
  /\ UNCHANGED <<tree, scopes, clock, ran, setter, operation, faults>>

EndRun ==
  /\ at \in {"cleanup", "abandoned"}
  /\ \A t \in Current : tree[t] = "reaped"
  /\ targets = <<>>
  /\ at' = "native"
  /\ next' = next + 1
  /\ UNCHANGED <<tree, targets, scopes, clocks, setter, start, canceled, faults>>

TimePasses ==
  /\ clock < MaxTime
  /\ clock' = clock + 1
  /\ ran' = IF Paused THEN ran ELSE ran + 1
  /\ UNCHANGED <<tree, targets, scopes, pausedAt, pausedFor, setter, operation, faults>>

-----------------------------------------------------------------------------
Init ==
  /\ tree = [t \in Tool |-> "unstarted"]
  /\ targets = <<>>
  /\ scopes = 0
  /\ clock = 0
  /\ pausedAt = -1
  /\ pausedFor = 0
  /\ setter = Free
  /\ at = "outside"
  /\ next = 1
  /\ start = 0
  /\ canceled = FALSE
  /\ faults = 0
  /\ ran = 0

Supervising ==
  \/ Spawn \/ Attach \/ Watch \/ HeedCancel \/ TimeOut \/ Detach \/ EndRun
  \/ \E t \in Tool : Reap(t) \/ Terminate(t)

Setting == Signal \/ Rollback \/ Answer

Next ==
  \/ \E wanted \in BOOLEAN : SetPaused(wanted)
  \/ Setting
  \/ EnterScope \/ LeaveScope \/ Cancel
  \/ Supervising
  \/ \E t \in Tool : Exit(t)
  \/ TimePasses

Spec == Init /\ [][Next]_vars

(* Tokio runs the supervising task, the blocking thread ends its walk, and *)
(* the dropped attachments get the mutex although requests go on.          *)
FairSpec == Spec /\ WF_vars(Supervising) /\ WF_vars(Setting) /\ SF_vars(Detach)

-----------------------------------------------------------------------------
(* While the control is paused none of its tools works, whether it was     *)
(* attached before the pause or started during it, even when a signal      *)
(* fails and the walk is undone.  While it is not, no tool is left         *)
(* stopped, except in a run that is being abandoned: a refused or half     *)
(* done pause leaves nobody frozen.                                        *)
ToolsFollowPause ==
  Unlocked =>
    /\ Paused /\ at # "cleanup" => \A t \in ToSet(targets) : tree[t] # "running"
    /\ ~Paused /\ at # "abandoned" => \A t \in Tool : tree[t] # "stopped"

(* The clock of timeouts and progress is the time the operation was not    *)
(* paused, over every way in which a pause ends.                           *)
ClockExcludesPauses == RunningClock = ran

(* A pause does not outlive the operation: the next attempt with the same  *)
(* control starts thawed.                                                  *)
PauseEndsWithOperation == at = "outside" => ~Paused

(* Cancellation ends the run, paused or not: stopped trees are terminated  *)
(* as well.                                                                *)
CanceledRunEnds == at = "running" /\ canceled ~> at = "native"

(* Pause halts every process tree of one operation, both pipe stages: it   *)
(* is not refused while a tool works and none is about to be reaped.       *)
PauseReachesOperation ==
  [][Answer /\ setter.at = "rollback" /\ setter.wanted /\ faults = 0
       /\ (\A t \in Tool : tree[t] # "exited")
       => \A t \in Tool : tree[t] # "running"]_vars
=============================================================================
