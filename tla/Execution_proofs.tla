-------------------------- MODULE Execution_proofs --------------------------
(* Proofs about the three sides of Execution, for all runs, pipes, reviews *)
(* and bounds.  The sides share no state, so each has an inductive         *)
(* invariant of its own: PauseInv and WalkInv, PipeInv, ReviewInv.         *)
EXTENDS Execution, TLAPS

-----------------------------------------------------------------------------
(* The inductive invariant. *)

ClockType ==
  /\ clock \in Nat /\ pausedFor \in Nat /\ ran \in Nat
  /\ pausedAt \in Int /\ pausedAt <= clock

(* The request that holds the mutex is a record, and wants what is not:    *)
(* nobody else touches the pause while it walks.                           *)
Walking ==
  /\ setter = [at |-> setter.at, wanted |-> setter.wanted, todo |-> setter.todo,
               done |-> setter.done, answer |-> setter.answer]
  /\ ~Unlocked => setter.wanted = ~Paused

(* The scope is entered while the operation runs; nothing stays attached   *)
(* between runs, and no request walks outside.                             *)
Scoped ==
  /\ scopes = IF at = "outside" THEN 0 ELSE 1
  /\ at \in {"outside", "native"} => targets = <<>>
  /\ ~Unlocked => at # "outside"

PauseInv ==
  /\ ClockType
  /\ ClockExcludesPauses
  /\ Walking
  /\ Scoped
  /\ PauseEndsWithOperation

LEMMA PauseInit == Init => PauseInv
BY DEF Init, PauseInv, ClockType, ClockExcludesPauses, RunningClock, Paused, Walking,
       Unlocked, Free, Scoped, PauseEndsWithOperation

(* Clearing a pause counts it up to now. *)
LEMMA ClearedClock ==
  ASSUME ClockType, ClockExcludesPauses, ClearPause, UNCHANGED <<clock, ran>>
  PROVE  ClockType' /\ ClockExcludesPauses' /\ ~Paused'
BY DEF ClockType, ClockExcludesPauses, ClearPause, RunningClock, Paused

(* A pause starts with an empty share of paused time. *)
LEMMA StartedClock ==
  ASSUME ClockType, ClockExcludesPauses, ~Paused,
         pausedAt' = clock, UNCHANGED <<clock, pausedFor, ran>>
  PROVE  ClockType' /\ ClockExcludesPauses' /\ Paused'
BY DEF ClockType, ClockExcludesPauses, RunningClock, Paused

(* Time counts as active exactly outside pauses. *)
LEMMA PassedClock ==
  ASSUME ClockType, ClockExcludesPauses, TimePasses
  PROVE  ClockType' /\ ClockExcludesPauses' /\ Paused' = Paused
BY DEF ClockType, ClockExcludesPauses, TimePasses, RunningClock, Paused

LEMMA SameClock ==
  ASSUME ClockType, ClockExcludesPauses, UNCHANGED clocks
  PROVE  ClockType' /\ ClockExcludesPauses' /\ Paused' = Paused
BY DEF ClockType, ClockExcludesPauses, RunningClock, Paused, clocks

(* Steps of the request, of the operation, and of the tools. *)
LEMMA SetPausedStep ==
  ASSUME PauseInv, NEW wanted \in BOOLEAN, SetPaused(wanted)
  PROVE  PauseInv'
<1>1. ClockType' /\ ClockExcludesPauses' /\ Paused' = Paused
  BY SameClock DEF PauseInv, SetPaused
<1>2. UNCHANGED <<scopes, at, targets, pausedAt>>
  BY DEF SetPaused, operation, clocks
<1>3. CASE targets = <<>> /\ scopes = 0
  BY <1>1, <1>2, <1>3 DEF PauseInv, SetPaused, Walking, Scoped, Unlocked, Free,
     PauseEndsWithOperation
<1>4. CASE ~(targets = <<>> /\ scopes = 0) /\ wanted = Paused
  BY <1>1, <1>2, <1>4 DEF PauseInv, SetPaused, Walking, Scoped, Unlocked, Free,
     PauseEndsWithOperation
<1>5. CASE ~(targets = <<>> /\ scopes = 0) /\ wanted # Paused
  <2>1. setter' = [Free EXCEPT !.at = "signal", !.wanted = wanted, !.todo = targets]
    BY <1>5 DEF SetPaused
  <2>2. at # "outside"
    BY <1>5 DEF PauseInv, Scoped
  <2>3. Walking'
    <3>1. setter'.wanted = wanted
      BY <2>1 DEF Free
    <3>2. wanted = ~Paused
      <4>1. Paused \in BOOLEAN
        BY DEF Paused
      <4>2. wanted # Paused
        BY <1>5
      <4> QED
        BY <4>1, <4>2, Zenon
    <3>3. setter' = [at |-> "signal", wanted |-> wanted, todo |-> targets,
                     done |-> <<>>, answer |-> "none"]
      BY <2>1 DEF Free
    <3>4. setter'.wanted = ~Paused'
      BY <1>1, <3>1, <3>2, Zenon
    <3> QED
      BY <3>3, <3>4 DEF Walking
  <2> QED
    BY <1>1, <1>2, <2>2, <2>3 DEF PauseInv, Scoped, PauseEndsWithOperation
<1> QED
  BY <1>3, <1>4, <1>5

LEMMA SettingStep ==
  ASSUME PauseInv, Setting
  PROVE  PauseInv'
<1>1. UNCHANGED <<scopes, at, targets>> /\ ~Unlocked
  BY DEF Setting, Signal, Rollback, Answer, operation, Unlocked
<1>2. at # "outside"
  BY <1>1 DEF PauseInv, Scoped
<1>3. CASE Signal
  <2>1. ClockType' /\ ClockExcludesPauses' /\ Paused' = Paused
    BY <1>3, SameClock DEF PauseInv, Signal
  <2>2. Walking'
    BY <1>1, <1>3, <2>1 DEF PauseInv, Walking, Signal, Unlocked
  <2> QED
    BY <1>1, <1>2, <2>1, <2>2 DEF PauseInv, Scoped, PauseEndsWithOperation
<1>4. CASE Rollback
  <2>1. ClockType' /\ ClockExcludesPauses' /\ Paused' = Paused
    BY <1>4, SameClock DEF PauseInv, Rollback
  <2>2. Walking'
    BY <1>1, <1>4, <2>1 DEF PauseInv, Walking, Rollback, Unlocked
  <2> QED
    BY <1>1, <1>2, <2>1, <2>2 DEF PauseInv, Scoped, PauseEndsWithOperation
<1>5. CASE Answer
  <2>1. Walking'
    BY <1>5 DEF Answer, Walking, Unlocked, Free
  <2>2. ClockType' /\ ClockExcludesPauses'
    <3>1. CASE setter.at = "signal" /\ setter.wanted
      BY <1>1, <1>5, <3>1, StartedClock DEF PauseInv, Walking, Answer
    <3>2. CASE setter.at = "signal" /\ ~setter.wanted
      BY <1>5, <3>2, ClearedClock DEF PauseInv, Answer
    <3>3. CASE setter.at # "signal"
      BY <1>5, <3>3, SameClock DEF PauseInv, Answer
    <3> QED
      BY <3>1, <3>2, <3>3
  <2> QED
    BY <1>1, <1>2, <2>1, <2>2 DEF PauseInv, Scoped, PauseEndsWithOperation
<1> QED
  BY <1>3, <1>4, <1>5 DEF Setting

LEMMA ScopeStep ==
  ASSUME PauseInv, EnterScope \/ LeaveScope
  PROVE  PauseInv'
<1>1. CASE EnterScope
  <2>1. ClockType' /\ ClockExcludesPauses' /\ Paused' = Paused
    BY <1>1, SameClock DEF PauseInv, EnterScope
  <2> QED
    BY <1>1, <2>1 DEF PauseInv, EnterScope, Walking, Scoped, Unlocked, PauseEndsWithOperation
<1>2. CASE LeaveScope
  <2>1. scopes = 1 /\ targets = <<>>
    BY <1>2 DEF PauseInv, Scoped, LeaveScope
  <2>2. ClearPause
    BY <1>2, <2>1 DEF LeaveScope, Unheld
  <2>3. ClockType' /\ ClockExcludesPauses' /\ ~Paused'
    BY <1>2, <2>2, ClearedClock DEF PauseInv, LeaveScope
  <2> QED
    BY <1>2, <2>1, <2>3 DEF PauseInv, LeaveScope, Walking, Scoped, Unlocked,
       PauseEndsWithOperation
<1> QED
  BY <1>1, <1>2

(* Dropping an attachment clears nothing: the scope is still entered. *)
LEMMA DetachStep ==
  ASSUME PauseInv, Detach
  PROVE  PauseInv'
<1>1. scopes = 1 /\ at \in {"cleanup", "abandoned"}
  BY DEF PauseInv, Scoped, Detach, CleanedUp
<1>2. UNCHANGED clocks
  BY <1>1 DEF Detach, Unheld, clocks
<1>3. ClockType' /\ ClockExcludesPauses' /\ Paused' = Paused
  BY <1>2, SameClock DEF PauseInv
<1>4. UNCHANGED <<scopes, at, setter>>
  BY DEF Detach, operation
<1> QED
  BY <1>1, <1>3, <1>4 DEF PauseInv, Walking, Scoped, Unlocked, PauseEndsWithOperation

(* The other steps leave clocks, request and scope alone, and attach only  *)
(* between native work and native work.                                    *)
LEMMA SupervisingStep ==
  ASSUME PauseInv, Supervising, ~Detach
  PROVE  PauseInv'
<1>1. UNCHANGED <<clocks, setter, scopes>>
  BY DEF Supervising, Spawn, Attach, Watch, HeedCancel, TimeOut, EndRun, Reap, Terminate
<1>2. ClockType' /\ ClockExcludesPauses' /\ Paused' = Paused
  BY <1>1, SameClock DEF PauseInv
<1>3. /\ at # "outside" /\ at' # "outside"
      /\ at' = "native" => targets' = <<>>
  BY DEF PauseInv, Scoped, Supervising, Spawn, Attach, Watch, HeedCancel, TimeOut, EndRun,
         Reap, Terminate, operation
<1> QED
  BY <1>1, <1>2, <1>3 DEF PauseInv, Walking, Scoped, Unlocked, PauseEndsWithOperation

LEMMA QuietStep ==
  ASSUME PauseInv, Cancel \/ (\E t \in Tool : Exit(t)) \/ UNCHANGED vars
  PROVE  PauseInv'
<1>1. UNCHANGED <<clocks, setter, scopes, at, targets>>
  BY DEF Cancel, Exit, vars, operation, clocks
<1>2. ClockType' /\ ClockExcludesPauses' /\ Paused' = Paused
  BY <1>1, SameClock DEF PauseInv
<1> QED
  BY <1>1, <1>2 DEF PauseInv, Walking, Scoped, Unlocked, PauseEndsWithOperation

LEMMA TimeStep ==
  ASSUME PauseInv, TimePasses
  PROVE  PauseInv'
<1>1. ClockType' /\ ClockExcludesPauses' /\ Paused' = Paused
  BY PassedClock DEF PauseInv
<1>2. UNCHANGED <<setter, scopes, at, targets>>
  BY DEF TimePasses, operation
<1> QED
  BY <1>1, <1>2 DEF PauseInv, Walking, Scoped, Unlocked, PauseEndsWithOperation

LEMMA PauseInductive == PauseInv /\ [Next]_vars => PauseInv'
BY SetPausedStep, SettingStep, ScopeStep, DetachStep, SupervisingStep, QuietStep, TimeStep
   DEF Next

LEMMA PauseAlways == Spec => []PauseInv
BY PauseInit, PauseInductive, PTL DEF Spec

(* The clock of timeouts and progress never counts a pause, whatever way   *)
(* the pause ends: continued, detached or dropped with its scope.          *)
THEOREM ClockCorrect == Spec => []ClockExcludesPauses
<1>1. PauseInv => ClockExcludesPauses
  BY DEF PauseInv
<1> QED
  BY <1>1, PauseAlways, PTL

(* No pause outlives its operation, also when a request was walking as the *)
(* operation came to its end.                                              *)
THEOREM PauseEnds == Spec => []PauseEndsWithOperation
<1>1. PauseInv => PauseEndsWithOperation
  BY DEF PauseInv
<1> QED
  BY <1>1, PauseAlways, PTL

-----------------------------------------------------------------------------
(* The walk of a request.                                                  *)

TreeStates == {"unstarted", "running", "stopped", "exited", "reaped"}
Halted(t) == tree[t] = "stopped"

PauseTypes ==
  /\ tree \in [Tool -> TreeStates]
  /\ targets \in Seq(Tool) /\ setter.todo \in Seq(Tool) /\ setter.done \in Seq(Tool)
  /\ setter.at \in {"free", "signal", "rollback"}
  /\ setter.wanted \in BOOLEAN
  /\ at \in {"outside", "native", "attaching", "running", "abandoned", "cleanup"}

(* Only the trees of the run under way live, and those of them that are    *)
(* attached are its first.                                                 *)
Running ==
  IF at \in {"outside", "native"}
  THEN \A t \in Tool : tree[t] \in {"unstarted", "reaped"}
  ELSE /\ next \in DOMAIN Runs
       /\ \A t \in Tool \ Current : tree[t] \in {"unstarted", "reaped"}
       /\ Len(targets) <= Len(Runs[next])
       /\ \A i \in 1..Len(targets) : targets[i] = Runs[next][i]

(* The walk has every target before it or behind it, once.                 *)
Walked ==
  /\ setter.at = "signal" =>
       /\ ToSet(targets) = ToSet(setter.done) \cup ToSet(setter.todo)
       /\ ToSet(setter.done) \cap ToSet(setter.todo) = {}
       /\ IsInjective(setter.todo)
  /\ setter.at = "rollback" => ToSet(setter.done) \subseteq ToSet(targets)

(* Between requests: the targets of a paused control are halted, and       *)
(* nothing is halted otherwise.                                            *)
Settled ==
  Unlocked =>
    /\ Paused /\ at # "cleanup" => \A t \in ToSet(targets) : Halted(t)
    /\ ~Paused /\ at # "abandoned" => \A t \in Tool : ~Halted(t)

(* A request to pause has halted what is behind it, and nothing else.      *)
Halting ==
  ~Unlocked /\ setter.wanted =>
    /\ setter.at = "signal" /\ at # "cleanup" => \A t \in ToSet(setter.done) : Halted(t)
    /\ at # "abandoned" => \A t \in Tool : Halted(t) => t \in ToSet(setter.done)

(* A request to continue has halted trees before it and none behind it,    *)
(* and fails only at the end of a run, which it cannot outlast.            *)
Continuing ==
  ~Unlocked /\ ~setter.wanted =>
    /\ setter.at = "signal" => \A t \in ToSet(setter.done) : ~Halted(t)
    /\ setter.at = "signal" /\ at # "cleanup" => \A t \in ToSet(setter.todo) : Halted(t)
    /\ setter.at = "rollback" => at = "cleanup" /\ targets # <<>>

(* A tree that is not attached is not halted, unless its run is given up.  *)
Detached == at # "abandoned" => \A t \in Tool \ ToSet(targets) : ~Halted(t)

WalkInv ==
  /\ PauseTypes /\ Running /\ Walked
  /\ Settled /\ Halting /\ Continuing /\ Detached

(* Sequences as sets. *)
LEMMA EmptySet == ToSet(<<>>) = {}
BY DEF ToSet

LEMMA Elements ==
  ASSUME NEW S, NEW s \in Seq(S)
  PROVE  ToSet(s) \subseteq S /\ (s # <<>> => ToSet(s) # {})
BY DEF ToSet

LEMMA AppendSet ==
  ASSUME NEW S, NEW s \in Seq(S), NEW e \in S
  PROVE  Append(s, e) \in Seq(S) /\ ToSet(Append(s, e)) = ToSet(s) \cup {e}
<1>1. Append(s, e) \in Seq(S) /\ DOMAIN Append(s, e) = 1..(Len(s) + 1)
  OBVIOUS
<1>2. \A i \in 1..Len(s) : Append(s, e)[i] = s[i]
  OBVIOUS
<1>3. Append(s, e)[Len(s) + 1] = e
  OBVIOUS
<1>4. DOMAIN s = 1..Len(s) /\ Len(s) \in Nat
  OBVIOUS
<1>5. ToSet(Append(s, e)) \subseteq ToSet(s) \cup {e}
  <2>1. ASSUME NEW i \in 1..(Len(s) + 1)
        PROVE  Append(s, e)[i] \in ToSet(s) \cup {e}
    BY <1>2, <1>3, <1>4 DEF ToSet
  <2> QED
    BY <1>1, <2>1 DEF ToSet
<1>6. ToSet(s) \cup {e} \subseteq ToSet(Append(s, e))
  <2>1. ASSUME NEW i \in 1..Len(s)
        PROVE  s[i] \in ToSet(Append(s, e))
    BY <1>1, <1>2, <1>4 DEF ToSet
  <2>2. e \in ToSet(Append(s, e))
    BY <1>1, <1>3, <1>4 DEF ToSet
  <2> QED
    BY <1>4, <2>1, <2>2 DEF ToSet
<1> QED
  BY <1>1, <1>5, <1>6

LEMMA HeadTailSet ==
  ASSUME NEW S, NEW s \in Seq(S), s # <<>>
  PROVE  /\ Head(s) \in ToSet(s) /\ Tail(s) \in Seq(S)
         /\ ToSet(s) = {Head(s)} \cup ToSet(Tail(s))
         /\ IsInjective(s) => IsInjective(Tail(s)) /\ Head(s) \notin ToSet(Tail(s))
<1>1. Len(s) \in Nat \ {0} /\ DOMAIN s = 1..Len(s) /\ Head(s) = s[1]
  OBVIOUS
<1>2. /\ Tail(s) \in Seq(S) /\ DOMAIN Tail(s) = 1..(Len(s) - 1)
      /\ \A i \in 1..(Len(s) - 1) : Tail(s)[i] = s[i + 1]
  OBVIOUS
<1>3. Head(s) \in ToSet(s)
  BY <1>1 DEF ToSet
<1>4. ToSet(Tail(s)) \subseteq ToSet(s)
  <2>1. ASSUME NEW i \in 1..(Len(s) - 1)
        PROVE  Tail(s)[i] \in ToSet(s)
    BY <1>1, <1>2 DEF ToSet
  <2> QED
    BY <1>2, <2>1 DEF ToSet
<1>5. ToSet(s) \subseteq {Head(s)} \cup ToSet(Tail(s))
  <2>1. ASSUME NEW i \in 1..Len(s), i # 1
        PROVE  s[i] \in ToSet(Tail(s))
    <3>1. i - 1 \in 1..(Len(s) - 1) /\ s[i] = Tail(s)[i - 1]
      BY <1>1, <1>2, <2>1
    <3> QED
      BY <1>2, <3>1 DEF ToSet
  <2> QED
    BY <1>1, <2>1 DEF ToSet
<1>6. ASSUME IsInjective(s)
      PROVE  IsInjective(Tail(s)) /\ Head(s) \notin ToSet(Tail(s))
  <2>1. ASSUME NEW i \in 1..(Len(s) - 1), NEW j \in 1..(Len(s) - 1), Tail(s)[i] = Tail(s)[j]
        PROVE  i = j
    <3>1. i + 1 \in DOMAIN s /\ j + 1 \in DOMAIN s /\ s[i + 1] = s[j + 1]
      BY <1>1, <1>2, <2>1
    <3>2. i + 1 = j + 1
      BY <1>6, <3>1 DEF IsInjective
    <3> QED
      BY <3>2
  <2>2. ASSUME NEW i \in 1..(Len(s) - 1)
        PROVE  Tail(s)[i] # Head(s)
    <3>1. i + 1 \in DOMAIN s /\ 1 \in DOMAIN s /\ i + 1 # 1 /\ Tail(s)[i] = s[i + 1]
      BY <1>1, <1>2
    <3> QED
      BY <1>1, <1>6, <3>1 DEF IsInjective
  <2> QED
    BY <1>2, <2>1, <2>2 DEF IsInjective, ToSet
<1> QED
  BY <1>2, <1>3, <1>4, <1>5, <1>6

LEMMA FrontSet ==
  ASSUME NEW S, NEW s \in Seq(S), s # <<>>
  PROVE  /\ Front(s) \in Seq(S) /\ Len(Front(s)) = Len(s) - 1
         /\ \A i \in 1..(Len(s) - 1) : Front(s)[i] = s[i]
         /\ ToSet(Front(s)) \subseteq ToSet(s)
<1>1. Len(s) \in Nat \ {0} /\ DOMAIN s = 1..Len(s)
  OBVIOUS
<1>2. /\ Front(s) \in Seq(S) /\ DOMAIN Front(s) = 1..(Len(s) - 1) /\ Len(Front(s)) = Len(s) - 1
      /\ \A i \in 1..(Len(s) - 1) : Front(s)[i] = s[i]
  BY <1>1 DEF Front
<1>3. ASSUME NEW i \in 1..(Len(s) - 1)
      PROVE  Front(s)[i] \in ToSet(s)
  BY <1>1, <1>2 DEF ToSet
<1> QED
  BY <1>2, <1>3 DEF ToSet

(* A run's trees, and its targets among them, each attached once. *)
LEMMA RunTrees ==
  ASSUME next \in DOMAIN Runs
  PROVE  /\ Runs[next] \in Seq(Tool) /\ Runs[next] # <<>> /\ IsInjective(Runs[next])
         /\ Current \subseteq Tool
BY PauseAssumption, Elements DEF Current

LEMMA Attached ==
  ASSUME PauseTypes, Running, Scoped
  PROVE  /\ IsInjective(targets)
         /\ ToSet(targets) \subseteq Tool
         /\ targets # <<>> => /\ at \notin {"outside", "native"} /\ next \in DOMAIN Runs
                              /\ ToSet(targets) \subseteq Current
<1>1. Len(targets) \in Nat /\ DOMAIN targets = 1..Len(targets) /\ ToSet(targets) \subseteq Tool
  BY Elements DEF PauseTypes
<1>2. CASE targets = <<>>
  BY <1>1, <1>2 DEF IsInjective
<1>3. CASE targets # <<>>
  <2>1. at \notin {"outside", "native"} /\ next \in DOMAIN Runs
    BY <1>3 DEF Scoped, Running
  <2>2. /\ Len(targets) <= Len(Runs[next])
        /\ \A i \in 1..Len(targets) : targets[i] = Runs[next][i]
    BY <2>1 DEF Running
  <2>3. Len(Runs[next]) \in Nat /\ DOMAIN Runs[next] = 1..Len(Runs[next])
    BY <2>1, RunTrees
  <2>4. \A i \in 1..Len(targets) : i \in DOMAIN Runs[next]
    BY <1>1, <2>2, <2>3
  <2>5. IsInjective(targets)
    BY <1>1, <2>1, <2>2, <2>4, RunTrees DEF IsInjective
  <2>6. ToSet(targets) \subseteq Current
    BY <1>1, <2>2, <2>4 DEF ToSet, Current
  <2> QED
    BY <1>1, <2>1, <2>5, <2>6
<1> QED
  BY <1>2, <1>3

LEMMA WalkInit == Init => WalkInv
<1> SUFFICES ASSUME Init PROVE WalkInv
  OBVIOUS
<1>1. PauseTypes
  BY DEF Init, PauseTypes, TreeStates, Free
<1>2. Running
  BY DEF Init, Running
<1>3. Walked /\ Halting /\ Continuing
  BY DEF Init, Walked, Halting, Continuing, Unlocked, Free
<1>4. Settled /\ Detached
  BY EmptySet DEF Init, Settled, Detached, Halted, Paused
<1> QED
  BY <1>1, <1>2, <1>3, <1>4 DEF WalkInv

(* A request that finds nothing to change answers at once; another starts  *)
(* with every target before it.                                            *)
LEMMA SetPausedWalk ==
  ASSUME PauseInv, WalkInv, NEW wanted \in BOOLEAN, SetPaused(wanted)
  PROVE  WalkInv'
<1>1. /\ Unlocked
      /\ UNCHANGED <<tree, targets, at, next, pausedAt>>
  BY DEF SetPaused, operation, clocks
<1>2. (Paused' <=> Paused) /\ Running' /\ Detached'
  <2>1. Paused' <=> Paused
    BY <1>1 DEF Paused
  <2>2. Running'
    BY <1>1 DEF WalkInv, Running, Current
  <2>3. Detached'
    BY <1>1 DEF WalkInv, Detached, Halted
  <2> QED
    BY <2>1, <2>2, <2>3
<1>3. CASE setter'.at = "free"
  <2>1. /\ setter'.at = "free" /\ setter'.todo = <<>> /\ setter'.done = <<>>
        /\ setter'.wanted = wanted
    BY <1>3 DEF SetPaused, Free
  <2>2. PauseTypes'
    BY <1>1, <2>1 DEF WalkInv, PauseTypes
  <2>3. Walked' /\ Halting' /\ Continuing'
    BY <2>1 DEF Walked, Halting, Continuing, Unlocked
  <2>4. Settled'
    BY <1>1, <1>2 DEF WalkInv, Settled, Unlocked, Halted
  <2> QED
    BY <1>2, <2>2, <2>3, <2>4 DEF WalkInv
<1>4. CASE setter'.at # "free"
  <2>1. /\ setter'.at = "signal" /\ setter'.todo = targets /\ setter'.done = <<>>
        /\ setter'.wanted = wanted
    BY <1>4 DEF SetPaused, Free
  <2>2. wanted # Paused
    BY <1>4 DEF SetPaused, Free
  <2>3. PauseTypes'
    BY <1>1, <2>1 DEF WalkInv, PauseTypes
  <2>4. Walked'
    BY <1>1, <2>1, EmptySet, Attached DEF WalkInv, PauseInv, Walked
  <2>5. Settled'
    BY <2>1 DEF Settled, Unlocked
  <2>6. Halting'
    <3>1. wanted => ~Paused
      BY <2>2 DEF Paused
    <3> QED
      BY <1>1, <2>1, <3>1, EmptySet DEF WalkInv, Settled, Halting, Halted
  <2>7. Continuing'
    <3>1. ~wanted => Paused
      BY <2>2 DEF Paused
    <3> QED
      BY <1>1, <2>1, <3>1, EmptySet DEF WalkInv, Settled, Continuing, Halted
  <2> QED
    BY <1>2, <2>3, <2>4, <2>5, <2>6, <2>7 DEF WalkInv
<1> QED
  BY <1>3, <1>4

(* What a signal does to its tree: it ends up halted or not, as wanted.    *)
LEMMA ReachedTree ==
  ASSUME PauseTypes, NEW t \in Tool, NEW wanted \in BOOLEAN, Reached(t, wanted)
  PROVE  /\ tree' \in [Tool -> TreeStates]
         /\ \A u \in Tool \ {t} : tree'[u] = tree[u]
         /\ wanted = TRUE => tree'[t] = "stopped"
         /\ wanted = FALSE => tree'[t] # "stopped"
<1>1. CASE tree[t] \in {"running", "stopped"} /\ tree' = Signaled(t, wanted)
  <2>1. CASE wanted = TRUE
    BY <1>1, <2>1 DEF PauseTypes, TreeStates, Signaled, Halted
  <2>2. CASE wanted = FALSE
    BY <1>1, <2>2 DEF PauseTypes, TreeStates, Signaled, Halted
  <2> QED
    BY <2>1, <2>2
<1>2. CASE tree[t] = "exited" /\ ~wanted /\ UNCHANGED tree
  BY <1>2 DEF PauseTypes, Halted
<1> QED
  BY <1>1, <1>2 DEF Reached

LEMMA MissedTree ==
  ASSUME PauseTypes, NEW t \in Tool, NEW wanted \in BOOLEAN, Missed(t, wanted)
  PROVE  /\ tree' \in [Tool -> TreeStates]
         /\ \A u \in Tool \ {t} : tree'[u] = tree[u]
         /\ tree'[t] # "stopped"
         /\ wanted = FALSE => tree[t] = "reaped"
<1>1. CASE tree[t] = "exited" /\ wanted /\ UNCHANGED <<tree, faults>>
  BY <1>1 DEF PauseTypes, Halted
<1>2. CASE tree[t] = "reaped" /\ UNCHANGED <<tree, faults>>
  BY <1>2 DEF PauseTypes, Halted
<1>3. CASE /\ tree[t] \in {"running", "stopped"} /\ wanted
           /\ faults < StopFaults
           /\ faults' = faults + 1
           /\ tree' = Signaled(t, FALSE)
  BY <1>3 DEF PauseTypes, TreeStates, Signaled, Halted
<1> QED
  BY <1>1, <1>2, <1>3 DEF Missed

(* A change to one attached tree leaves the other runs as they are.        *)
LEMMA TargetChanges ==
  ASSUME PauseInv, WalkInv, NEW t \in ToSet(targets),
         \A u \in Tool \ {t} : tree'[u] = tree[u],
         UNCHANGED <<targets, at, next>>
  PROVE  /\ t \in Tool /\ targets # <<>> /\ t \in Current
         /\ Running' /\ Detached'
<1>1. targets # <<>>
  BY EmptySet
<1>2. /\ at \notin {"outside", "native"} /\ next \in DOMAIN Runs
      /\ t \in Current /\ t \in Tool
  BY <1>1, Attached DEF WalkInv, PauseInv
<1>3. Current' = Current
  BY DEF Current
<1>4. Running'
  BY <1>2, <1>3 DEF WalkInv, Running
<1>5. Detached'
  BY DEF WalkInv, Detached, Halted
<1> QED
  BY <1>1, <1>2, <1>4, <1>5

LEMMA SignalWalk ==
  ASSUME PauseInv, WalkInv, Signal
  PROVE  WalkInv'
<1> DEFINE t == Head(setter.todo)
<1>1. /\ setter.at = "signal" /\ setter.todo # <<>>
      /\ UNCHANGED <<targets, at, next, pausedAt>>
  BY DEF Signal, operation, clocks
<1>2. /\ setter.todo \in Seq(Tool) /\ setter.done \in Seq(Tool) /\ setter.wanted \in BOOLEAN
      /\ PauseTypes
  BY DEF WalkInv, PauseTypes
<1>3. /\ t \in ToSet(setter.todo) /\ Tail(setter.todo) \in Seq(Tool)
      /\ ToSet(setter.todo) = {t} \cup ToSet(Tail(setter.todo))
      /\ IsInjective(Tail(setter.todo)) /\ t \notin ToSet(Tail(setter.todo))
  BY <1>1, <1>2, HeadTailSet DEF WalkInv, Walked
<1>4. t \in ToSet(targets) /\ t \notin ToSet(setter.done) /\ ToSet(setter.done) \subseteq ToSet(targets)
  BY <1>1, <1>3 DEF WalkInv, Walked
<1>5. t \in Tool /\ ToSet(targets) \subseteq Tool
  BY <1>4, Attached DEF WalkInv, PauseInv
<1>6. setter = [at |-> setter.at, wanted |-> setter.wanted, todo |-> setter.todo,
                done |-> setter.done, answer |-> setter.answer]
  BY DEF PauseInv, Walking
<1> HIDE DEF t
<1>7. CASE Reached(t, setter.wanted)
           /\ setter' = [setter EXCEPT !.todo = Tail(@), !.done = Append(@, t)]
  <2>1. /\ setter'.at = "signal" /\ setter'.wanted = setter.wanted
        /\ setter'.todo = Tail(setter.todo) /\ setter'.done = Append(setter.done, t)
    BY <1>1, <1>6, <1>7
  <2>2. /\ tree' \in [Tool -> TreeStates] /\ \A u \in Tool \ {t} : tree'[u] = tree[u]
        /\ (setter.wanted = TRUE => tree'[t] = "stopped") /\ (setter.wanted = FALSE => tree'[t] # "stopped")
    <3>1. Reached(t, setter.wanted)
      BY <1>7
    <3> QED
      BY <1>2, <1>5, <3>1, ReachedTree
  <2>3. Append(setter.done, t) \in Seq(Tool) /\ ToSet(setter'.done) = ToSet(setter.done) \cup {t}
    BY <1>2, <1>5, <2>1, AppendSet
  <2>4. PauseTypes'
    BY <1>1, <1>2, <1>3, <2>1, <2>2, <2>3 DEF PauseTypes
  <2>5. Running' /\ Detached'
    BY <1>1, <1>4, <2>2, TargetChanges
  <2>6. Walked'
    BY <1>1, <1>3, <1>4, <2>1, <2>3 DEF WalkInv, Walked
  <2>7. Settled'
    BY <2>1 DEF Settled, Unlocked
  <2>8. Halting'
    <3>1. ASSUME setter.wanted, at # "cleanup"
          PROVE  \A u \in ToSet(setter'.done) : Halted(u)'
      <4>1. \A u \in ToSet(setter.done) : u \in Tool \ {t} /\ Halted(u)
        BY <1>1, <1>4, <1>5, <3>1 DEF WalkInv, Halting, Unlocked
      <4> QED
        BY <2>2, <2>3, <3>1, <4>1 DEF Halted
    <3>2. ASSUME setter.wanted, at # "abandoned"
          PROVE  \A u \in Tool : Halted(u)' => u \in ToSet(setter'.done)
      <4>1. \A u \in Tool : Halted(u) => u \in ToSet(setter.done)
        BY <1>1, <3>2 DEF WalkInv, Halting, Unlocked
      <4> QED
        BY <2>2, <2>3, <4>1 DEF Halted
    <3> QED
      BY <1>1, <2>1, <3>1, <3>2 DEF Halting
  <2>9. Continuing'
    <3>1. ASSUME ~setter.wanted
          PROVE  \A u \in ToSet(setter'.done) : ~Halted(u)'
      <4>1. \A u \in ToSet(setter.done) : u \in Tool \ {t} /\ ~Halted(u)
        BY <1>1, <1>4, <1>5, <3>1 DEF WalkInv, Continuing, Unlocked
      <4> QED
        BY <2>2, <2>3, <3>1, <4>1 DEF Halted
    <3>2. ASSUME ~setter.wanted, at # "cleanup"
          PROVE  \A u \in ToSet(setter'.todo) : Halted(u)'
      <4>1. \A u \in ToSet(Tail(setter.todo)) : u \in Tool \ {t} /\ Halted(u)
        BY <1>1, <1>2, <1>3, <3>2, Elements DEF WalkInv, Continuing, Unlocked
      <4> QED
        BY <2>1, <2>2, <4>1 DEF Halted
    <3> QED
      BY <1>1, <2>1, <3>1, <3>2 DEF Continuing
  <2> QED
    BY <2>4, <2>5, <2>6, <2>7, <2>8, <2>9 DEF WalkInv
<1>8. CASE Missed(t, setter.wanted) /\ setter' = [setter EXCEPT !.at = "rollback"]
  <2>1. /\ setter'.at = "rollback" /\ setter'.wanted = setter.wanted
        /\ setter'.todo = setter.todo /\ setter'.done = setter.done
    BY <1>1, <1>6, <1>8
  <2>2. /\ tree' \in [Tool -> TreeStates] /\ \A u \in Tool \ {t} : tree'[u] = tree[u]
        /\ tree'[t] # "stopped" /\ (setter.wanted = FALSE => tree[t] = "reaped")
    <3>1. Missed(t, setter.wanted)
      BY <1>8
    <3> QED
      BY <1>2, <1>5, <3>1, MissedTree
  <2>3. PauseTypes'
    BY <1>1, <1>2, <2>1, <2>2 DEF PauseTypes
  <2>4. Running' /\ Detached' /\ targets # <<>>
    BY <1>1, <1>4, <2>2, TargetChanges
  <2>5. Walked'
    BY <1>1, <1>4, <2>1 DEF Walked
  <2>6. Settled'
    BY <2>1 DEF Settled, Unlocked
  <2>7. Halting'
    <3>1. ASSUME setter.wanted, at # "abandoned"
          PROVE  \A u \in Tool : Halted(u)' => u \in ToSet(setter.done)
      <4>1. \A u \in Tool : Halted(u) => u \in ToSet(setter.done)
        BY <1>1, <3>1 DEF WalkInv, Halting, Unlocked
      <4> QED
        BY <2>2, <4>1 DEF Halted
    <3> QED
      BY <1>1, <2>1, <3>1 DEF Halting
  <2>8. Continuing'
    <3>1. ASSUME ~setter.wanted
          PROVE  at = "cleanup"
      <4>1. ~Halted(t)
        BY <2>2, <3>1 DEF Halted
      <4> QED
        BY <1>1, <1>3, <3>1, <4>1 DEF WalkInv, Continuing, Unlocked
    <3> QED
      BY <1>1, <2>1, <2>4, <3>1 DEF Continuing
  <2> QED
    BY <2>3, <2>4, <2>5, <2>6, <2>7, <2>8 DEF WalkInv
<1> QED
  BY <1>7, <1>8 DEF Signal, t

LEMMA RollbackWalk ==
  ASSUME PauseInv, WalkInv, Rollback
  PROVE  WalkInv'
<1> DEFINE t == Head(setter.done)
<1>1. /\ setter.at = "rollback" /\ setter.done # <<>>
      /\ UNCHANGED <<targets, at, next, pausedAt>>
      /\ setter' = [setter EXCEPT !.done = Tail(@)]
  BY DEF Rollback, operation, clocks
<1>2. /\ setter.todo \in Seq(Tool) /\ setter.done \in Seq(Tool) /\ setter.wanted \in BOOLEAN
      /\ PauseTypes
  BY DEF WalkInv, PauseTypes
<1>3. /\ t \in ToSet(setter.done) /\ Tail(setter.done) \in Seq(Tool)
      /\ ToSet(setter.done) = {t} \cup ToSet(Tail(setter.done))
  BY <1>1, <1>2, HeadTailSet
<1>4. t \in ToSet(targets) /\ t \in Tool /\ ToSet(setter.done) \subseteq ToSet(targets)
  BY <1>1, <1>3, Attached DEF WalkInv, PauseInv, Walked
<1>5. setter = [at |-> setter.at, wanted |-> setter.wanted, todo |-> setter.todo,
                done |-> setter.done, answer |-> setter.answer]
  BY DEF PauseInv, Walking
<1>6. Reached(t, ~setter.wanted) \/ Missed(t, ~setter.wanted)
  BY DEF Rollback, RolledBack
<1> HIDE DEF t
<1>7. /\ setter'.at = "rollback" /\ setter'.wanted = setter.wanted
      /\ setter'.todo = setter.todo /\ setter'.done = Tail(setter.done)
  BY <1>1, <1>5
<1>8. /\ tree' \in [Tool -> TreeStates] /\ \A u \in Tool \ {t} : tree'[u] = tree[u]
      /\ setter.wanted => tree'[t] # "stopped"
  <2>1. CASE Reached(t, ~setter.wanted)
    BY <1>2, <1>4, <2>1, ReachedTree
  <2>2. CASE Missed(t, ~setter.wanted)
    BY <1>2, <1>4, <2>2, MissedTree
  <2> QED
    BY <1>6, <2>1, <2>2
<1>9. PauseTypes'
  BY <1>1, <1>2, <1>3, <1>7, <1>8 DEF PauseTypes
<1>10. Running' /\ Detached' /\ targets # <<>>
  BY <1>1, <1>4, <1>8, TargetChanges
<1>11. Walked'
  BY <1>1, <1>3, <1>4, <1>7 DEF Walked
<1>12. Settled'
  BY <1>7 DEF Settled, Unlocked
<1>13. Halting'
  <2>1. ASSUME setter.wanted, at # "abandoned"
        PROVE  \A u \in Tool : Halted(u)' => u \in ToSet(setter'.done)
    <3>1. \A u \in Tool : Halted(u) => u \in ToSet(setter.done)
      BY <1>1, <2>1 DEF WalkInv, Halting, Unlocked
    <3> QED
      BY <1>3, <1>7, <1>8, <2>1, <3>1 DEF Halted
  <2> QED
    BY <1>1, <1>7, <2>1 DEF Halting
<1>14. Continuing'
  BY <1>1, <1>7, <1>10 DEF WalkInv, Continuing, Unlocked
<1> QED
  BY <1>9, <1>10, <1>11, <1>12, <1>13, <1>14 DEF WalkInv

(* The walk is over: the control is paused with every target halted, or    *)
(* not paused with none.                                                   *)
LEMMA AnswerWalk ==
  ASSUME PauseInv, WalkInv, Answer
  PROVE  WalkInv'
<1>1. /\ setter'.at = "free" /\ setter'.todo = <<>> /\ setter'.done = <<>>
      /\ setter'.wanted = setter.wanted
      /\ UNCHANGED <<tree, targets, at, next>>
  BY DEF Answer, Free, operation
<1>2. PauseTypes'
  BY <1>1 DEF WalkInv, PauseTypes
<1>3. Running' /\ Detached'
  BY <1>1 DEF WalkInv, Running, Current, Detached, Halted
<1>4. Walked' /\ Halting' /\ Continuing'
  BY <1>1 DEF Walked, Halting, Continuing, Unlocked
<1>5. ToSet(targets) \subseteq Tool /\ ~Unlocked /\ setter.wanted \in BOOLEAN
  BY Attached DEF WalkInv, PauseInv, PauseTypes, Answer, Unlocked
<1>6. CASE setter.at = "signal" /\ setter.wanted
  <2>1. setter.todo = <<>> /\ Paused'
    BY <1>6 DEF Answer, PauseInv, ClockType, Paused
  <2>2. ToSet(targets) = ToSet(setter.done)
    BY <1>6, <2>1, EmptySet DEF WalkInv, Walked
  <2> QED
    BY <1>1, <1>2, <1>3, <1>4, <1>5, <1>6, <2>1, <2>2 DEF WalkInv, Settled, Halting, Halted
<1>7. CASE setter.at = "signal" /\ ~setter.wanted
  <2>1. setter.todo = <<>> /\ ~Paused'
    BY <1>7 DEF Answer, ClearPause, Paused
  <2>2. ToSet(targets) = ToSet(setter.done)
    BY <1>7, <2>1, EmptySet DEF WalkInv, Walked
  <2>3. \A u \in ToSet(targets) : ~Halted(u)
    BY <1>5, <1>7, <2>2 DEF WalkInv, Continuing
  <2>4. at # "abandoned" => \A u \in Tool : ~Halted(u)
    BY <2>3 DEF WalkInv, Detached
  <2> QED
    BY <1>1, <1>2, <1>3, <1>4, <2>1, <2>4 DEF WalkInv, Settled, Halted
<1>8. CASE setter.at = "rollback"
  <2>1. setter.done = <<>> /\ UNCHANGED pausedAt
    BY <1>8 DEF Answer, clocks
  <2>2. Paused' = Paused /\ setter.wanted = ~Paused
    BY <1>5, <2>1 DEF Paused, PauseInv, Walking
  <2>3. CASE setter.wanted
    <3>1. ~Paused' /\ (at # "abandoned" => \A u \in Tool : ~Halted(u))
      BY <1>5, <2>1, <2>2, <2>3, EmptySet DEF WalkInv, Halting, Paused
    <3> QED
      BY <1>1, <1>2, <1>3, <1>4, <3>1 DEF WalkInv, Settled, Halted
  <2>4. CASE ~setter.wanted
    <3>1. Paused' /\ at = "cleanup"
      BY <1>5, <1>8, <2>2, <2>4 DEF WalkInv, Continuing, Paused
    <3> QED
      BY <1>1, <1>2, <1>3, <1>4, <3>1 DEF WalkInv, Settled
  <2> QED
    BY <2>3, <2>4
<1> QED
  BY <1>6, <1>7, <1>8 DEF Answer

(* Outside the walk.  What stays as it is while nobody signals:            *)
LEMMA SameSetter ==
  ASSUME WalkInv, UNCHANGED <<setter, targets>>
  PROVE  Walked'
BY DEF WalkInv, Walked

LEMMA ScopeWalk ==
  ASSUME PauseInv, WalkInv, EnterScope \/ LeaveScope
  PROVE  WalkInv'
<1>1. /\ at \in {"outside", "native"} /\ at' \in {"outside", "native"} /\ Unlocked
      /\ UNCHANGED <<tree, targets, setter, next>>
  BY DEF EnterScope, LeaveScope
<1>2. targets = <<>>
  BY <1>1 DEF PauseInv, Scoped
<1>3. PauseTypes' /\ Running'
  BY <1>1 DEF WalkInv, PauseTypes, Running
<1>4. \A u \in Tool : ~Halted(u)
  BY <1>1 DEF WalkInv, Running, Halted
<1>5. Settled' /\ Detached'
  BY <1>1, <1>2, <1>4, EmptySet DEF Settled, Detached, Halted
<1>6. Halting' /\ Continuing'
  BY <1>1 DEF Halting, Continuing, Unlocked
<1> QED
  BY <1>1, <1>3, <1>5, <1>6, SameSetter DEF WalkInv

LEMMA SpawnWalk ==
  ASSUME PauseInv, WalkInv, Spawn
  PROVE  WalkInv'
<1>1. /\ at = "native" /\ next \in DOMAIN Runs /\ at' = "attaching"
      /\ tree' = [t \in Tool |-> IF t \in Current THEN "running" ELSE tree[t]]
      /\ UNCHANGED <<targets, setter, next, pausedAt>>
  BY DEF Spawn, clocks
<1>2. targets = <<>> /\ ToSet(targets) = {}
  BY <1>1, EmptySet DEF PauseInv, Scoped
<1>3. \A u \in Tool : tree'[u] = "running" \/ (u \notin Current /\ tree'[u] \in {"unstarted", "reaped"})
  BY <1>1 DEF WalkInv, Running
<1>4. PauseTypes'
  <2>1. tree' \in [Tool -> TreeStates]
    BY <1>1 DEF WalkInv, PauseTypes, TreeStates
  <2> QED
    BY <1>1, <2>1 DEF WalkInv, PauseTypes
<1>5. Running'
  <2>1. Current' = Current
    BY <1>1 DEF Current
  <2>2. Runs[next] \in Seq(Tool)
    BY <1>1, RunTrees
  <2>3. \A u \in Tool \ Current : tree'[u] \in {"unstarted", "reaped"}
    BY <1>1 DEF WalkInv, Running
  <2> QED
    BY <1>1, <1>2, <2>1, <2>2, <2>3 DEF Running
<1>6. \A u \in Tool : ~Halted(u)'
  BY <1>3 DEF Halted
<1>7. Settled' /\ Detached'
  BY <1>1, <1>2, <1>6 DEF Settled, Detached
<1>8. Halting'
  <2>1. setter.at = "signal" => ToSet(setter.done) = {}
    BY <1>2 DEF WalkInv, Walked
  <2> QED
    BY <1>1, <1>6, <2>1 DEF Halting
<1>9. Continuing'
  <2>1. setter.at = "signal" => ToSet(setter.done) = {} /\ ToSet(setter.todo) = {}
    BY <1>2 DEF WalkInv, Walked
  <2>2. ~(~Unlocked /\ ~setter.wanted /\ setter.at = "rollback")
    BY <1>1 DEF WalkInv, Continuing
  <2> QED
    BY <1>1, <2>1, <2>2 DEF Continuing, Unlocked
<1> QED
  BY <1>1, <1>4, <1>5, <1>7, <1>8, <1>9, SameSetter DEF WalkInv

(* The next tree of the run is attached, halted if the control is paused;  *)
(* or the run is given up.                                                 *)
LEMMA AttachWalk ==
  ASSUME PauseInv, WalkInv, Attach
  PROVE  WalkInv'
<1> DEFINE t == Head(Unattached)
<1>1. /\ at = "attaching" /\ Unattached # <<>> /\ Unlocked
      /\ UNCHANGED <<setter, next, pausedAt>>
  BY DEF Attach, clocks
<1>2. /\ next \in DOMAIN Runs /\ Runs[next] \in Seq(Tool) /\ IsInjective(Runs[next])
      /\ PauseTypes /\ targets \in Seq(Tool) /\ Len(targets) \in Nat
  <2>1. next \in DOMAIN Runs
    BY <1>1 DEF WalkInv, Running
  <2> QED
    BY <2>1, RunTrees DEF WalkInv, PauseTypes
<1>3. Len(targets) < Len(Runs[next]) /\ t = Runs[next][Len(targets) + 1]
  <2>1. Len(targets) <= Len(Runs[next]) /\ Len(Runs[next]) \in Nat
    BY <1>1, <1>2 DEF WalkInv, Running
  <2>2. CASE Len(targets) = Len(Runs[next])
    BY <1>1, <1>2, <2>1, <2>2 DEF Unattached
  <2>3. CASE Len(targets) < Len(Runs[next])
    BY <1>1, <1>2, <2>1, <2>3 DEF Unattached
  <2> QED
    BY <1>2, <2>1, <2>2, <2>3
<1> HIDE DEF t
<1>4. Len(targets) + 1 \in DOMAIN Runs[next] /\ t \in Current /\ t \in Tool
  BY <1>2, <1>3, RunTrees DEF Current, ToSet
<1>5. t \notin ToSet(targets) /\ ToSet(targets) \subseteq Tool /\ ToSet(targets) \subseteq Current
  <2>1. \A i \in 1..Len(targets) : targets[i] = Runs[next][i] /\ i \in DOMAIN Runs[next]
    BY <1>1, <1>2, <1>3 DEF WalkInv, Running
  <2>2. \A i \in 1..Len(targets) : targets[i] # t
    BY <1>2, <1>3, <1>4, <2>1 DEF IsInjective
  <2>3. ToSet(targets) \subseteq Tool
    BY <1>2, Elements
  <2>4. DOMAIN targets = 1..Len(targets)
    BY <1>2
  <2> QED
    BY <2>1, <2>2, <2>3, <2>4 DEF ToSet, Current
<1>6. Halting' /\ Continuing' /\ Walked'
  BY <1>1 DEF Halting, Continuing, Walked, Unlocked
<1>7. Current' = Current /\ Paused' = Paused
  BY <1>1 DEF Current, Paused
<1>8. CASE AttachedAs(t) /\ targets' = Append(targets, t) /\ UNCHANGED at
  <2>1. targets' \in Seq(Tool) /\ ToSet(targets') = ToSet(targets) \cup {t}
    BY <1>2, <1>4, <1>8, AppendSet
  <2>2. /\ tree' \in [Tool -> TreeStates] /\ \A u \in Tool \ {t} : tree'[u] = tree[u]
        /\ Paused => tree'[t] = "stopped"
        /\ ~Paused => UNCHANGED tree
    <3>1. CASE Paused
      <4>1. Reached(t, TRUE)
        BY <1>8, <3>1 DEF AttachedAs
      <4> QED
        BY <1>2, <1>4, <4>1, <3>1, ReachedTree
    <3>2. CASE ~Paused
      <4>1. UNCHANGED tree
        BY <1>8, <3>2 DEF AttachedAs
      <4> QED
        BY <1>2, <3>2, <4>1 DEF PauseTypes
    <3> QED
      BY <3>1, <3>2
  <2>3. PauseTypes'
    BY <1>1, <1>2, <1>8, <2>1, <2>2 DEF PauseTypes
  <2>4. Running'
    <3>1. Len(targets') = Len(targets) + 1 /\ \A i \in 1..Len(targets') : targets'[i] = Runs[next][i]
      BY <1>1, <1>2, <1>3, <1>8 DEF WalkInv, Running
    <3>2. \A u \in Tool \ Current : tree'[u] \in {"unstarted", "reaped"}
      BY <1>1, <1>4, <2>2 DEF WalkInv, Running
    <3>3. Len(targets') <= Len(Runs[next])
      BY <1>2, <1>3, <3>1
    <3> QED
      BY <1>1, <1>2, <1>7, <1>8, <3>1, <3>2, <3>3 DEF Running
  <2>5. Detached'
    BY <1>1, <2>1, <2>2 DEF WalkInv, Detached, Halted
  <2>6. Settled'
    <3>1. CASE Paused
      <4>1. \A u \in ToSet(targets) : u \in Tool \ {t} /\ Halted(u)
        BY <1>1, <1>5, <3>1 DEF WalkInv, Settled
      <4>2. \A u \in ToSet(targets') : Halted(u)'
        BY <2>1, <2>2, <3>1, <4>1 DEF Halted
      <4> QED
        BY <1>7, <3>1, <4>2 DEF Settled
    <3>2. CASE ~Paused
      <4>1. \A u \in Tool : ~Halted(u)'
        BY <1>1, <2>2, <3>2 DEF WalkInv, Settled, Halted
      <4> QED
        BY <1>7, <3>2, <4>1 DEF Settled
    <3> QED
      BY <3>1, <3>2
  <2> QED
    BY <1>6, <2>3, <2>4, <2>5, <2>6 DEF WalkInv
<1>9. CASE Paused /\ Missed(t, TRUE) /\ at' = "abandoned" /\ UNCHANGED targets
  <2>1. /\ tree' \in [Tool -> TreeStates] /\ \A u \in Tool \ {t} : tree'[u] = tree[u]
    BY <1>2, <1>4, <1>9, MissedTree
  <2>2. PauseTypes'
    BY <1>1, <1>2, <1>9, <2>1 DEF PauseTypes
  <2>3. Running'
    BY <1>1, <1>4, <1>7, <1>9, <2>1 DEF WalkInv, Running
  <2>4. Detached'
    BY <1>9 DEF Detached
  <2>5. Settled'
    BY <1>1, <1>5, <1>7, <1>9, <2>1 DEF WalkInv, Settled, Halted
  <2> QED
    BY <1>6, <2>2, <2>3, <2>4, <2>5 DEF WalkInv
<1> QED
  BY <1>8, <1>9 DEF Attach, t

(* The tools exit, are reaped and are terminated, and the run goes on to   *)
(* its end, all of which halts nothing.                                    *)
LEMMA EndingWalk ==
  ASSUME PauseInv, WalkInv,
         NEW t \in Tool,
         Exit(t) \/ Reap(t) \/ Terminate(t)
  PROVE  WalkInv'
<1>1. /\ UNCHANGED <<targets, setter, next, pausedAt>>
      /\ at \notin {"outside", "native"} \/ Exit(t)
      /\ at' = at \/ (at = "running" /\ at' = "cleanup")
  BY DEF Exit, Reap, Terminate, clocks, operation
<1>2. /\ tree' \in [Tool -> TreeStates] /\ \A u \in Tool \ {t} : tree'[u] = tree[u]
      /\ tree'[t] # "stopped"
  <2>1. \E to \in {"exited", "reaped"} : tree' = [tree EXCEPT ![t] = to]
    BY DEF Exit, Reap, Terminate
  <2> QED
    BY <2>1 DEF WalkInv, PauseTypes, TreeStates, Halted
<1>3. Halted(t) => at = "cleanup" \/ targets = <<>>
  BY DEF Exit, Reap, Terminate, Halted
<1>4. at \notin {"outside", "native"} /\ t \in Current
  <2>1. CASE Exit(t)
    BY <2>1 DEF Exit, WalkInv, Running
  <2>2. CASE ~Exit(t)
    BY <2>2 DEF Reap, Terminate
  <2> QED
    BY <2>1, <2>2
<1>5. Paused' = Paused /\ Current' = Current
  BY <1>1 DEF Paused, Current
<1>6. PauseTypes'
  BY <1>1, <1>2 DEF WalkInv, PauseTypes
<1>7. Running'
  BY <1>1, <1>2, <1>4, <1>5 DEF WalkInv, Running
<1>8. \A u \in Tool : /\ Halted(u)' => Halted(u)
                      /\ Halted(u) => Halted(u)' \/ at = "cleanup" \/ targets = <<>>
  BY <1>2, <1>3 DEF Halted
<1>9. ToSet(targets) \subseteq Tool /\ (targets = <<>> => ToSet(targets) = {})
  BY EmptySet, Attached DEF WalkInv, PauseInv
<1>10. setter.at = "signal" => ToSet(setter.done) \subseteq ToSet(targets)
                               /\ ToSet(setter.todo) \subseteq ToSet(targets)
  BY DEF WalkInv, Walked
<1>11. Settled'
  <2>1. ASSUME Unlocked, Paused, at' # "cleanup"
        PROVE  \A u \in ToSet(targets) : Halted(u)'
    BY <1>1, <1>8, <1>9, <2>1 DEF WalkInv, Settled
  <2>2. ASSUME Unlocked, ~Paused, at' # "abandoned"
        PROVE  \A u \in Tool : ~Halted(u)'
    BY <1>1, <1>8, <2>2 DEF WalkInv, Settled
  <2> QED
    BY <1>1, <1>5, <2>1, <2>2 DEF Settled, Unlocked
<1>12. Halting'
  <2>1. ASSUME ~Unlocked, setter.wanted, setter.at = "signal", at' # "cleanup"
        PROVE  \A u \in ToSet(setter.done) : Halted(u)'
    BY <1>1, <1>8, <1>9, <1>10, <2>1 DEF WalkInv, Halting
  <2>2. ASSUME ~Unlocked, setter.wanted, at' # "abandoned"
        PROVE  \A u \in Tool : Halted(u)' => u \in ToSet(setter.done)
    BY <1>1, <1>8, <2>2 DEF WalkInv, Halting
  <2> QED
    BY <1>1, <2>1, <2>2 DEF Halting, Unlocked
<1>13. Continuing'
  <2>1. ASSUME ~Unlocked, ~setter.wanted, setter.at = "signal"
        PROVE  \A u \in ToSet(setter.done) : ~Halted(u)'
    BY <1>8, <1>9, <1>10, <2>1 DEF WalkInv, Continuing
  <2>2. ASSUME ~Unlocked, ~setter.wanted, setter.at = "signal", at' # "cleanup"
        PROVE  \A u \in ToSet(setter.todo) : Halted(u)'
    BY <1>1, <1>8, <1>9, <1>10, <2>2 DEF WalkInv, Continuing
  <2>3. ASSUME ~Unlocked, ~setter.wanted, setter.at = "rollback"
        PROVE  at' = "cleanup" /\ targets # <<>>
    BY <1>1, <2>3 DEF WalkInv, Continuing
  <2> QED
    BY <1>1, <2>1, <2>2, <2>3 DEF Continuing, Unlocked
<1>14. Detached'
  BY <1>1, <1>8 DEF WalkInv, Detached
<1> QED
  BY <1>1, <1>6, <1>7, <1>11, <1>12, <1>13, <1>14, SameSetter DEF WalkInv

LEMMA ProgressWalk ==
  ASSUME PauseInv, WalkInv, Watch \/ HeedCancel \/ TimeOut
  PROVE  WalkInv'
<1>1. /\ UNCHANGED <<tree, targets, setter, next, pausedAt>>
      /\ (at = "attaching" /\ at' = "running") \/ (at = "running" /\ at' = "cleanup")
  BY DEF Watch, HeedCancel, TimeOut, clocks
<1>2. Paused' = Paused /\ Current' = Current
  BY <1>1 DEF Paused, Current
<1>3. PauseTypes' /\ Running'
  BY <1>1, <1>2 DEF WalkInv, PauseTypes, Running
<1>4. Settled' /\ Detached'
  BY <1>1, <1>2 DEF WalkInv, Settled, Detached, Unlocked, Halted
<1>5. Halting' /\ Continuing'
  BY <1>1 DEF WalkInv, Halting, Continuing, Unlocked, Halted
<1> QED
  BY <1>1, <1>3, <1>4, <1>5, SameSetter DEF WalkInv

LEMMA DetachWalk ==
  ASSUME PauseInv, WalkInv, Detach
  PROVE  WalkInv'
<1>1. /\ at \in {"cleanup", "abandoned"} /\ targets # <<>> /\ Unlocked
      /\ targets' = Front(targets) /\ UNCHANGED <<tree, setter, at, next>>
  BY DEF Detach, CleanedUp, operation
<1>2. UNCHANGED pausedAt
  BY <1>1 DEF Detach, Unheld, PauseInv, Scoped
<1>3. targets \in Seq(Tool) /\ ToSet(targets) \subseteq Current /\ next \in DOMAIN Runs
  BY <1>1, Attached DEF WalkInv, PauseInv, PauseTypes
<1>4. /\ targets' \in Seq(Tool) /\ Len(targets') = Len(targets) - 1
      /\ \A i \in 1..(Len(targets) - 1) : targets'[i] = targets[i]
      /\ ToSet(targets') \subseteq ToSet(targets)
  BY <1>1, <1>3, FrontSet
<1>5. PauseTypes'
  BY <1>1, <1>4 DEF WalkInv, PauseTypes
<1>6. Running'
  <2>1. /\ Len(targets) <= Len(Runs[next])
        /\ \A i \in 1..Len(targets) : targets[i] = Runs[next][i]
    BY <1>1 DEF WalkInv, Running
  <2>2. Len(targets) \in Nat /\ Len(Runs[next]) \in Nat
    BY <1>3, RunTrees
  <2>3. /\ Len(targets') <= Len(Runs[next])
        /\ \A i \in 1..Len(targets') : targets'[i] = Runs[next][i]
    BY <1>4, <2>1, <2>2
  <2>4. Current' = Current
    BY <1>1 DEF Current
  <2> QED
    BY <1>1, <2>3, <2>4 DEF WalkInv, Running
<1>7. Walked' /\ Halting' /\ Continuing'
  BY <1>1 DEF Walked, Halting, Continuing, Unlocked
<1>8. Settled'
  BY <1>1, <1>2, <1>4 DEF WalkInv, Settled, Paused, Halted
<1>9. Detached'
  <2>1. at = "cleanup" => \A u \in Current : ~Halted(u)
    BY <1>1 DEF Detach, CleanedUp, Halted
  <2>2. at = "cleanup" => \A u \in Tool : ~Halted(u)
    BY <1>1, <1>3, <2>1 DEF WalkInv, Detached
  <2> QED
    BY <1>1, <2>2 DEF Detached, Halted
<1> QED
  BY <1>5, <1>6, <1>7, <1>8, <1>9 DEF WalkInv

LEMMA EndRunWalk ==
  ASSUME PauseInv, WalkInv, EndRun
  PROVE  WalkInv'
<1>1. /\ at \in {"cleanup", "abandoned"} /\ at' = "native" /\ targets = <<>>
      /\ \A u \in Current : tree[u] = "reaped"
      /\ UNCHANGED <<tree, targets, setter, pausedAt>>
  BY DEF EndRun, clocks
<1>2. \A u \in Tool : tree[u] \in {"unstarted", "reaped"}
  BY <1>1 DEF WalkInv, Running
<1>3. \A u \in Tool : ~Halted(u)
  BY <1>2 DEF Halted
<1>4. PauseTypes' /\ Running'
  BY <1>1, <1>2 DEF WalkInv, PauseTypes, Running
<1>5. ToSet(targets) = {}
  BY <1>1, EmptySet
<1>6. Settled' /\ Detached'
  BY <1>1, <1>3, <1>5 DEF Settled, Detached, Halted
<1>7. Halting' /\ Continuing'
  <2>1. setter.at = "signal" => ToSet(setter.done) = {} /\ ToSet(setter.todo) = {}
    BY <1>5 DEF WalkInv, Walked
  <2>2. ~(~Unlocked /\ ~setter.wanted /\ setter.at = "rollback")
    BY <1>1 DEF WalkInv, Continuing
  <2> QED
    BY <1>1, <1>3, <2>1, <2>2 DEF Halting, Continuing, Unlocked, Halted
<1> QED
  BY <1>1, <1>4, <1>6, <1>7, SameSetter DEF WalkInv

LEMMA QuietWalk ==
  ASSUME WalkInv, Cancel \/ TimePasses \/ UNCHANGED vars
  PROVE  WalkInv'
<1>1. UNCHANGED <<tree, targets, setter, at, next, pausedAt>>
  BY DEF Cancel, TimePasses, vars, operation, clocks
<1> QED
  BY <1>1 DEF WalkInv, PauseTypes, Running, Current, Walked, Settled, Halting, Continuing,
     Detached, Unlocked, Paused, Halted

LEMMA WalkInductive == PauseInv /\ WalkInv /\ [Next]_vars => WalkInv'
BY SetPausedWalk, SignalWalk, RollbackWalk, AnswerWalk, ScopeWalk, SpawnWalk, AttachWalk,
   EndingWalk, ProgressWalk, DetachWalk, EndRunWalk, QuietWalk
   DEF Next, Setting, Supervising

(* A paused control has no working tool and any other control no halted    *)
(* one, whatever signals failed, whatever exited under the walk, and       *)
(* whichever run was given up: Settled says it of the targets themselves.  *)
THEOREM ToolsFollow == Spec => []ToolsFollowPause
<1>1. Spec => []WalkInv
  BY WalkInit, WalkInductive, PauseAlways, PTL DEF Spec
<1>2. WalkInv => ToolsFollowPause
  BY DEF WalkInv, Settled, Halted, ToolsFollowPause
<1> QED
  BY <1>1, <1>2, PTL

(* The sides of an execution share nothing: what holds of every pause      *)
(* holds of the pause of an execution.                                     *)
THEOREM ExecutionPauses == ExecutionSpec => Spec
<1>1. ExecutionInit => Init
  BY DEF ExecutionInit
<1>2. [ExecutionNext]_all => [Next]_vars
  BY DEF ExecutionNext, all
<1> QED
  BY <1>1, <1>2, PTL DEF ExecutionSpec, Spec

(* The pause of an execution, whatever its commands and pipelines do: its  *)
(* tools follow it, its clock leaves it out, and it ends with the          *)
(* operation (supervisor/pause.rs).                                        *)
THEOREM ExecutionPausesRight ==
  ExecutionSpec => [](ToolsFollowPause /\ ClockExcludesPauses /\ PauseEndsWithOperation)
BY ExecutionPauses, ToolsFollow, ClockCorrect, PauseEnds, PTL

-----------------------------------------------------------------------------
(* Reviewed commands.                                                      *)

Early == {"none", "queued", "preparing", "hold"}
Late  == {"decided", "ready", "launching", "running", "succeeded"}

ReviewTypes ==
  /\ held \subseteq Review /\ told \subseteq Review
  /\ withdrawn \in [Review -> BOOLEAN]
  /\ decision \in [Review -> {"open", "sent", "dropped"}]
  /\ review \in [Review -> {"open", "sent", "failed"}]
  /\ answer \in [Review -> {"open", "ok", "failed"}]
  /\ confirmed \in [Review -> BOOLEAN]
  /\ prepare \in [Review -> {"idle", "admitting", "resuming", "waiting", "offered", "refused"}]
  /\ confirm \in [Review -> {"idle", "waiting", "result", "done", "refused"}]
  /\ ticket \in [Review -> BOOLEAN] /\ undo \in [Review -> BOOLEAN]
  /\ worker \in [Review -> Early \cup Late \cup {"failed", "done"}]
  /\ signal \in [Review -> BOOLEAN] /\ workspace \in [Review -> BOOLEAN]

(* The worker of a review comes after its admission, and behind the hold   *)
(* only with a decision.                                                   *)
Begun(r) ==
  /\ prepare[r] \in {"idle", "admitting", "resuming"} => worker[r] = "none"
  /\ worker[r] \in Late => decision[r] = "sent" /\ confirmed[r]
  /\ decision[r] = "sent" => confirm[r] # "idle"

(* Whoever waits for a worker is told of its end by it.                    *)
Told(r) ==
  /\ review[r] = "failed" \/ answer[r] = "failed" => worker[r] = "done"
  /\ undo[r] => withdrawn[r]
  /\ prepare[r] \in {"admitting", "resuming", "waiting", "offered"} /\ confirm[r] = "idle"
       => r \in held \/ r \in told

(* The worker of a review that is refused or canceled cannot pass its hold,*)
(* or has the cancellation to read before its program and its success.     *)
Doomed(r) ==
  \/ Reviewed!Signaled(r)
  \/ worker[r] \in {"failed", "done"}
  \/ worker[r] = "none" /\ prepare[r] = "refused"
  \/ worker[r] \in Early /\ (withdrawn[r] \/ decision[r] = "dropped")

(* A fresh encode has progress only while it may still be discarded, or    *)
(* its command is confirmed.                                               *)
Discardable(r) ==
  task[r] = "fresh" =>
    /\ worker[r] \in {"none", "queued"} => ~workspace[r]
    /\ worker[r] = "done" /\ ~confirmed[r] => ~workspace[r]

ReviewInv ==
  /\ ReviewTypes
  /\ \A r \in Review : Begun(r) /\ Told(r) /\ Discardable(r) /\ (r \in told => Doomed(r))

LEMMA ReviewInit == Reviewed!Init => ReviewInv
<1> SUFFICES ASSUME Reviewed!Init PROVE ReviewInv
  OBVIOUS
<1>1. ReviewTypes
  BY DEF Reviewed!Init, ReviewTypes, Early, Late
<1>2. ASSUME NEW r \in Review
      PROVE  Begun(r) /\ Told(r) /\ Discardable(r) /\ r \notin told
  BY DEF Reviewed!Init, Begun, Told, Discardable, Early, Late
<1> QED
  BY <1>1, <1>2 DEF ReviewInv

(* Admission and the calls of the client.                                  *)
LEMMA PrepareStep ==
  ASSUME ReviewInv, NEW r \in Review,
         Reviewed!Prepare(r) \/ Reviewed!NewSettings(r) \/ Reviewed!Admit(r)
  PROVE  ReviewInv'
<1> USE DEF Reviewed!session, Reviewed!calls, Reviewed!jobs, Reviewed!saved
<1>1. CASE Reviewed!Prepare(r)
  BY <1>1 DEF Reviewed!Prepare, ReviewInv, ReviewTypes, Begun, Told, Doomed, Discardable,
     Early, Late, Reviewed!Signaled, Reviewed!Image
<1>2. CASE Reviewed!NewSettings(r)
  BY <1>2 DEF Reviewed!NewSettings, ReviewInv, ReviewTypes, Begun, Told, Doomed,
     Discardable, Early, Late, Reviewed!Signaled, Reviewed!Image
<1>3. CASE Reviewed!Admit(r)
  BY <1>3 DEF Reviewed!Admit, Reviewed!Admissible, ReviewInv, ReviewTypes, Begun, Told,
     Doomed, Discardable, Early, Late, Reviewed!Signaled, Reviewed!Image
<1> QED
  BY <1>1, <1>2, <1>3
(* A call that ends by canceling withdraws the review if it is still held. *)
LEMMA BegunCancel ==
  ASSUME ReviewTypes, NEW r \in Review, Reviewed!BeginCancel(r)
  PROVE  /\ withdrawn' \in [Review -> BOOLEAN]
         /\ decision' \in [Review -> {"open", "sent", "dropped"}]
         /\ undo' \in [Review -> BOOLEAN]
         /\ \A q \in Review :
              /\ withdrawn'[q] <=> withdrawn[q] \/ (q = r /\ r \in held)
              /\ decision'[q] = decision[q] \/ (decision[q] = "open" /\ decision'[q] = "dropped")
              /\ undo'[q] <=> undo[q] \/ (q = r /\ r \in held)
         /\ UNCHANGED <<review, answer, confirmed>>
<1>1. CASE r \in held
  <2>1. Reviewed!Canceled({r}) /\ undo' = [undo EXCEPT ![r] = TRUE]
    BY <1>1 DEF Reviewed!BeginCancel
  <2>2. /\ withdrawn' \in [Review -> BOOLEAN]
        /\ \A q \in Review : withdrawn'[q] <=> withdrawn[q] \/ q = r
    BY <2>1 DEF Reviewed!Canceled, ReviewTypes
  <2>3. /\ decision' \in [Review -> {"open", "sent", "dropped"}]
        /\ \A q \in Review : \/ decision'[q] = decision[q]
                             \/ decision[q] = "open" /\ decision'[q] = "dropped"
    BY <2>1 DEF Reviewed!Canceled, ReviewTypes
  <2>4. undo' \in [Review -> BOOLEAN] /\ \A q \in Review : undo'[q] <=> undo[q] \/ q = r
    BY <2>1 DEF ReviewTypes
  <2> QED
    BY <1>1, <2>1, <2>2, <2>3, <2>4 DEF Reviewed!Canceled
<1>2. CASE r \notin held
  <2>1. UNCHANGED <<withdrawn, decision, review, answer, confirmed, undo>>
    BY <1>2 DEF Reviewed!BeginCancel, Reviewed!session
  <2> QED
    BY <1>2, <2>1 DEF ReviewTypes
<1> QED
  BY <1>1, <1>2

LEMMA EndPrepareStep ==
  ASSUME ReviewInv, NEW r \in Review, Reviewed!EndPrepare(r) \/ Reviewed!Refuse(r)
  PROVE  ReviewInv'
<1> USE DEF Reviewed!session, Reviewed!calls, Reviewed!jobs, Reviewed!saved
<1>1. CASE Reviewed!EndPrepare(r)
  <2>1. CASE ticket[r]
    <3>1. Reviewed!BeginCancel(r)
      BY <1>1, <2>1 DEF Reviewed!EndPrepare, ReviewInv, ReviewTypes
    <3> QED
      BY <1>1, <2>1, <3>1, BegunCancel DEF Reviewed!EndPrepare, ReviewInv, ReviewTypes, Begun,
         Told, Doomed, Discardable, Early, Late, Reviewed!Signaled, Reviewed!Image
  <2>2. CASE ~ticket[r]
    BY <1>1, <2>2 DEF Reviewed!EndPrepare, ReviewInv, ReviewTypes, Begun, Told, Doomed,
       Discardable, Early, Late, Reviewed!Signaled, Reviewed!Image
  <2> QED
    BY <2>1, <2>2
<1>2. CASE Reviewed!Refuse(r)
  BY <1>2 DEF Reviewed!Refuse, Reviewed!Admissible, ReviewInv, ReviewTypes, Begun, Told,
     Doomed, Discardable, Early, Late, Reviewed!Signaled, Reviewed!Image
<1> QED
  BY <1>1, <1>2

LEMMA ConfirmStep ==
  ASSUME ReviewInv, NEW r \in Review,
         \/ Reviewed!Clear(r) \/ Reviewed!Confirm(r) \/ Reviewed!EndConfirm(r)
         \/ Reviewed!CancelResult(r) \/ Reviewed!EndResult(r)
  PROVE  ReviewInv'
<1> USE DEF Reviewed!session, Reviewed!calls, Reviewed!jobs, Reviewed!saved
<1>1. CASE Reviewed!Clear(r)
  BY <1>1, BegunCancel
     DEF Reviewed!Clear, ReviewInv, ReviewTypes, Begun, Told, Doomed, Discardable, Early, Late,
         Reviewed!Signaled, Reviewed!Image
<1>2. CASE Reviewed!Confirm(r)
  BY <1>2 DEF Reviewed!Confirm, ReviewInv, ReviewTypes, Begun, Told, Doomed, Discardable,
     Early, Late, Reviewed!Signaled, Reviewed!Image
<1>3. CASE Reviewed!EndConfirm(r)
  <2>1. CASE ticket[r]
    <3>1. Reviewed!BeginCancel(r)
      BY <1>3, <2>1 DEF Reviewed!EndConfirm, ReviewInv, ReviewTypes
    <3> QED
      BY <1>3, <2>1, <3>1, BegunCancel DEF Reviewed!EndConfirm, ReviewInv, ReviewTypes, Begun,
         Told, Doomed, Discardable, Early, Late, Reviewed!Signaled, Reviewed!Image
  <2>2. CASE ~ticket[r]
    BY <1>3, <2>2 DEF Reviewed!EndConfirm, ReviewInv, ReviewTypes, Begun, Told, Doomed,
       Discardable, Early, Late, Reviewed!Signaled, Reviewed!Image
  <2> QED
    BY <2>1, <2>2
<1>4. CASE Reviewed!CancelResult(r)
  BY <1>4 DEF Reviewed!CancelResult, Reviewed!Canceled, ReviewInv, ReviewTypes, Begun, Told,
     Doomed, Discardable, Early, Late, Reviewed!Signaled, Reviewed!Image
<1>5. CASE Reviewed!EndResult(r)
  BY <1>5 DEF Reviewed!EndResult, ReviewInv, ReviewTypes, Begun, Told, Doomed, Discardable,
     Early, Late, Reviewed!Signaled, Reviewed!Image
<1> QED
  BY <1>1, <1>2, <1>3, <1>4, <1>5

(* Whoever cancels a review, or its job.                                   *)
LEMMA CancelStep ==
  ASSUME ReviewInv, NEW r \in Review,
         \/ Reviewed!CancelCommandEdit(r) \/ Reviewed!CancelTicket(r)
         \/ Reviewed!EndCancel(r) \/ Reviewed!CancelJob(r) \/ Reviewed!CancelAllJobs
  PROVE  ReviewInv'
<1> USE DEF Reviewed!session, Reviewed!calls, Reviewed!jobs, Reviewed!saved
<1>1. CASE Reviewed!CancelCommandEdit(r)
  BY <1>1, BegunCancel
     DEF Reviewed!CancelCommandEdit, ReviewInv, ReviewTypes, Begun, Told, Doomed, Discardable,
         Early, Late, Reviewed!Signaled,
     Reviewed!Image
<1>2. CASE Reviewed!CancelTicket(r)
  BY <1>2 DEF Reviewed!CancelTicket, ReviewInv, ReviewTypes, Begun, Told, Doomed,
     Discardable, Early, Late, Reviewed!Signaled, Reviewed!Image
<1>3. CASE Reviewed!EndCancel(r)
  BY <1>3 DEF Reviewed!EndCancel, Reviewed!Unfinished, ReviewInv, ReviewTypes, Begun, Told,
     Doomed, Discardable, Early, Late, Reviewed!Signaled, Reviewed!Image
<1>4. CASE Reviewed!CancelJob(r)
  BY <1>4 DEF Reviewed!CancelJob, Reviewed!Unfinished, ReviewInv, ReviewTypes, Begun, Told,
     Doomed, Discardable, Early, Late, Reviewed!Signaled, Reviewed!Image
<1>5. CASE Reviewed!CancelAllJobs
  BY <1>5 DEF Reviewed!CancelAllJobs, Reviewed!Canceled, Reviewed!Unfinished, ReviewInv,
     ReviewTypes, Begun, Told, Doomed, Discardable, Early, Late, Reviewed!Signaled,
     Reviewed!Image
<1> QED
  BY <1>1, <1>2, <1>3, <1>4, <1>5

(* The worker, up to the program.                                          *)
LEMMA HoldStep ==
  ASSUME ReviewInv, NEW r \in Review,
         \/ Reviewed!Start(r) \/ Reviewed!SaveProgress(r) \/ Reviewed!Ask(r)
         \/ Reviewed!TakeDecision(r) \/ Reviewed!Acknowledge(r) \/ Reviewed!Launch(r)
         \/ Reviewed!Spawn(r)
  PROVE  ReviewInv'
<1> USE DEF Reviewed!session, Reviewed!calls, Reviewed!jobs, Reviewed!saved,
            Reviewed!Advance
<1>1. CASE Reviewed!Start(r)
  BY <1>1 DEF Reviewed!Start, ReviewInv, ReviewTypes, Begun, Told, Doomed, Discardable,
     Early, Late, Reviewed!Signaled, Reviewed!Image
<1>2. CASE Reviewed!SaveProgress(r)
  BY <1>2 DEF Reviewed!SaveProgress, ReviewInv, ReviewTypes, Begun, Told, Doomed,
     Discardable, Early, Late, Reviewed!Signaled, Reviewed!Image
<1>3. CASE Reviewed!Ask(r)
  BY <1>3 DEF Reviewed!Ask, ReviewInv, ReviewTypes, Begun, Told, Doomed, Discardable, Early,
     Late, Reviewed!Signaled, Reviewed!Image
<1>4. CASE Reviewed!TakeDecision(r)
  BY <1>4 DEF Reviewed!TakeDecision, ReviewInv, ReviewTypes, Begun, Told, Doomed,
     Discardable, Early, Late, Reviewed!Signaled, Reviewed!Image
<1>5. CASE Reviewed!Acknowledge(r)
  BY <1>5 DEF Reviewed!Acknowledge, ReviewInv, ReviewTypes, Begun, Told, Doomed,
     Discardable, Early, Late, Reviewed!Signaled, Reviewed!Image
<1>6. CASE Reviewed!Launch(r)
  BY <1>6 DEF Reviewed!Launch, Reviewed!MayLaunch, ReviewInv, ReviewTypes, Begun, Told,
     Doomed, Discardable, Early, Late, Reviewed!Signaled, Reviewed!Image
<1>7. CASE Reviewed!Spawn(r)
  BY <1>7 DEF Reviewed!Spawn, ReviewInv, ReviewTypes, Begun, Told, Doomed, Discardable,
     Early, Late, Reviewed!Signaled, Reviewed!Image
<1> QED
  BY <1>1, <1>2, <1>3, <1>4, <1>5, <1>6, <1>7

(* The worker's end.                                                       *)
LEMMA WorkerEndStep ==
  ASSUME ReviewInv, NEW r \in Review,
         \/ Reviewed!Succeed(r) \/ Reviewed!Fail(r)
         \/ Reviewed!Finish(r) \/ Reviewed!LeaveQueue(r)
  PROVE  ReviewInv'
<1> USE DEF Reviewed!session, Reviewed!calls, Reviewed!jobs, Reviewed!saved,
            Reviewed!Advance
<1>1. CASE Reviewed!Succeed(r)
  BY <1>1 DEF Reviewed!Succeed, ReviewInv, ReviewTypes, Begun, Told, Doomed, Discardable,
     Early, Late, Reviewed!Signaled, Reviewed!Image
<1>2. CASE Reviewed!Fail(r)
  BY <1>2 DEF Reviewed!Fail, Reviewed!Executing, ReviewInv, ReviewTypes, Begun, Told, Doomed,
     Discardable, Early, Late, Reviewed!Signaled, Reviewed!Image
<1>3. CASE Reviewed!Finish(r)
  BY <1>3 DEF Reviewed!Finish, Reviewed!Finished, Reviewed!Unconfirmed, ReviewInv,
     ReviewTypes, Begun, Told, Doomed, Discardable, Early, Late, Reviewed!Signaled,
     Reviewed!Image
<1>4. CASE Reviewed!LeaveQueue(r)
  BY <1>4 DEF Reviewed!LeaveQueue, Reviewed!Finished, ReviewInv, ReviewTypes, Begun, Told,
     Doomed, Discardable, Early, Late, Reviewed!Signaled, Reviewed!Image
<1> QED
  BY <1>1, <1>2, <1>3, <1>4

LEMMA ReviewInductive == ReviewInv /\ [Reviewed!Next]_reviewing => ReviewInv'
<1>1. ASSUME ReviewInv, Reviewed!EndOrdinary \/ Reviewed!Over \/ UNCHANGED reviewing
      PROVE  ReviewInv'
  BY <1>1 DEF Reviewed!EndOrdinary, Reviewed!Over, reviewing, Reviewed!vars,
     Reviewed!session, Reviewed!calls, Reviewed!jobs, Reviewed!saved, ReviewInv, ReviewTypes,
     Begun, Told, Doomed, Discardable, Reviewed!Signaled, Reviewed!Image
<1>2. ASSUME ReviewInv, Reviewed!CancelAllJobs
      PROVE  ReviewInv'
  <2>1. PICK r \in Review : TRUE
    BY <1>2 DEF Reviewed!CancelAllJobs, ReviewInv, ReviewTypes
  <2> QED
    BY <1>2, <2>1, CancelStep
<1> QED
  BY <1>1, <1>2, PrepareStep, EndPrepareStep, ConfirmStep, CancelStep, HoldStep, WorkerEndStep
     DEF Reviewed!Next, Reviewed!User, Reviewed!Calling, Reviewed!Stepping

LEMMA ReviewAlways == ExecutionSpec => []ReviewInv
<1>1. ExecutionInit => ReviewInv
  BY ReviewInit DEF ExecutionInit
<1>2. ReviewInv /\ [ExecutionNext]_all => ReviewInv'
  BY ReviewInductive DEF ExecutionNext, all
<1> QED
  BY <1>1, <1>2, PTL DEF ExecutionSpec

(* No progress of a fresh encode outlives a review that nobody confirmed.  *)
THEOREM NothingLeftUnconfirmed == ExecutionSpec => []UnconfirmedLeavesNothing
<1>1. ReviewInv => UnconfirmedLeavesNothing
  BY DEF ReviewInv, Discardable, UnconfirmedLeavesNothing, Reviewed!UnconfirmedLeavesNothing
<1> QED
  BY <1>1, ReviewAlways, PTL

(* A review that was refused or canceled, whichever of its calls, tickets  *)
(* and jobs that went through, neither passes the last look before its     *)
(* program nor, past it, ends in success.                                  *)
THEOREM CanceledStaysStopped == ExecutionSpec => CanceledNeverCompletes
<1>1. ASSUME ReviewInv, [ExecutionNext]_all, NEW r \in told,
             worker'[r] \in {"launching", "succeeded"}
      PROVE  worker'[r] = worker[r]
  <2>1. r \in Review /\ Doomed(r) /\ (worker[r] \in Late => decision[r] = "sent")
    BY <1>1 DEF ReviewInv, ReviewTypes, Begun
  <2>2. CASE UNCHANGED worker
    BY <1>1, <2>2
  <2>3. CASE \E q \in Review : Reviewed!Stepping(q) \/ Reviewed!Admit(q)
    <3>1. PICK q \in Review : Reviewed!Stepping(q) \/ Reviewed!Admit(q)
      BY <2>3
    <3>2. worker \in [Review -> Early \cup Late \cup {"failed", "done"}]
      BY <1>1 DEF ReviewInv, ReviewTypes
    <3>3. worker'[r] = worker[r] \/ Reviewed!Launch(r) \/ Reviewed!Succeed(r)
      BY <1>1, <2>1, <3>1, <3>2 DEF Reviewed!Stepping, Reviewed!Advance, Reviewed!Start,
         Reviewed!LeaveQueue, Reviewed!Ask, Reviewed!TakeDecision, Reviewed!Acknowledge,
         Reviewed!Launch, Reviewed!Spawn, Reviewed!Succeed, Reviewed!Fail, Reviewed!Finish,
         Reviewed!Admit
    <3>4. ~Reviewed!Launch(r) /\ ~Reviewed!Succeed(r)
      BY <2>1 DEF Reviewed!Launch, Reviewed!Succeed, Reviewed!Advance, Reviewed!MayLaunch,
         Doomed, Early
    <3> QED
      BY <1>1, <3>3, <3>4
  <2>4. UNCHANGED worker \/ \E q \in Review : Reviewed!Stepping(q) \/ Reviewed!Admit(q)
    <3>1. CASE Reviewed!Next
      BY <3>1 DEF Reviewed!Next, Reviewed!User, Reviewed!Calling, Reviewed!Prepare,
         Reviewed!NewSettings, Reviewed!Refuse, Reviewed!EndPrepare, Reviewed!Clear,
         Reviewed!Confirm, Reviewed!EndConfirm, Reviewed!CancelResult, Reviewed!EndResult,
         Reviewed!CancelCommandEdit, Reviewed!CancelTicket, Reviewed!EndCancel,
         Reviewed!CancelJob, Reviewed!CancelAllJobs, Reviewed!EndOrdinary, Reviewed!Over,
         Reviewed!SaveProgress, Reviewed!jobs, Reviewed!vars
    <3>2. CASE UNCHANGED reviewing
      BY <3>2 DEF reviewing
    <3> QED
      BY <1>1, <3>1, <3>2 DEF ExecutionNext, all
  <2> QED
    BY <2>2, <2>3, <2>4
<1>2. ReviewInv /\ [ExecutionNext]_all
        => [\A r \in told : worker'[r] \in {"launching", "succeeded"} => worker'[r] = worker[r]]_(Reviewed!vars)
  BY <1>1
<1> QED
  BY <1>2, ReviewAlways, PTL DEF ExecutionSpec, CanceledNeverCompletes,
     Reviewed!CanceledNeverCompletes
-----------------------------------------------------------------------------
(* The run of two tools.                                                   *)

RunTypes ==
  /\ toFile \in BOOLEAN /\ delivered \in BOOLEAN
  /\ tool \in [Piped!Stage -> {"unstarted", "running", "succeeded", "failed", "reaped"}]
  /\ heirs \in [Piped!Stage -> BOOLEAN]
  /\ wish \in [Piped!Stage -> Piped!Stream \cup {"none"}]
  /\ noted \subseteq Piped!Stage /\ drained \subseteq Piped!Logged
  /\ run \in {"starting", "running", "cleanup", "draining", "returned"}
  /\ verdict \in {"none", "ok", "error"}

RecordTypes ==
  /\ said \in [Piped!Stream -> Nat] /\ pipe \in [Piped!Stream -> Nat]
  /\ logged \in [Piped!Logged -> Nat]
  /\ taken \in Nat /\ hand \in {0, 1}

(* Nothing is lost on the way: a record is in its pipe or logged, and one   *)
(* of the producer's stdout may be in a hand, passed on or read.           *)
LoggedKept == \A p \in Piped!Logged : said[p] = logged[p] + pipe[p]

CarriedKept == said["stdout"] = pipe["stdout"] + hand + pipe["stdin"] + taken

Gone(s) == tool[s] \notin {"unstarted", "running"} /\ ~heirs[s]

(* A stage that has not ended has left nobody behind, and all stages have  *)
(* been started in a run that came so far.                                 *)
Staged ==
  /\ \A s \in Piped!Stage : heirs[s] => tool[s] \notin {"unstarted", "running"}
  /\ run \in {"running", "cleanup", "draining"} =>
       \A s \in Piped!Stage : tool[s] # "unstarted"
  /\ run = "starting" => tool["producer"] = "unstarted"
  /\ run \in {"draining", "returned"} => \A s \in Piped!Stage : ~Piped!Alive(s)
  /\ \A s \in Piped!Stage : wish[s] \in Piped!Stream => tool[s] # "unstarted"

(* The consumer's stdout is no pipe when it is a file.                     *)
FileOutput ==
  toFile => /\ pipe["consumer stdout"] = 0
            /\ \A s \in Piped!Stage : wish[s] # "consumer stdout"

(* What was read to its end has no writer left and nothing in it.          *)
Drained ==
  \A p \in drained :
    pipe[p] = 0 /\ (Gone(Piped!Writer(p)) \/ (toFile /\ p = "consumer stdout"))

Carried == delivered => Gone("producer") /\ pipe["stdout"] = 0 /\ hand = 0

(* Success is reported of everything, and a run that started both tools    *)
(* returns only with the consumer's output.                                *)
Reported ==
  /\ verdict = "ok" => /\ run \in {"cleanup", "draining", "returned"}
                       /\ delivered /\ drained = Piped!Logged
  /\ run = "returned" /\ tool["producer"] # "unstarted" => "consumer stdout" \in drained

PipeInv ==
  /\ RunTypes /\ RecordTypes /\ LoggedKept /\ CarriedKept
  /\ Staged /\ FileOutput /\ Drained /\ Carried /\ Reported

(* The names of stages and streams. *)
LEMMA StageNames == Piped!Stage = {"producer", "consumer"}
BY DEF Piped!Stage

LEMMA LoggedStreams ==
  \A p \in Piped!Logged : p \in Piped!Stream /\ p # "stdout" /\ p # "stdin"
BY DEF Piped!Logged, Piped!Stream

LEMMA ConsumerOutput == "consumer stdout" \in Piped!Logged
BY DEF Piped!Logged

LEMMA StreamNames ==
  "stdout" \in Piped!Stream /\ "stdin" \in Piped!Stream /\ "stdout" # "stdin"
BY DEF Piped!Stream

LEMMA Outputs ==
  ASSUME NEW s \in Piped!Stage, NEW p \in Piped!Written(s)
  PROVE  p = "stdout" \/ p \in Piped!Logged
BY DEF Piped!Logged, Piped!Stage, Piped!Written

(* Each stream has one writer. *)
LEMMA Writers ==
  /\ \A s \in Piped!Stage : \A p \in Piped!Written(s) : Piped!Writer(p) = s
  /\ Piped!Writer("stdout") = "producer"
  /\ Piped!Writer("consumer stdout") = "consumer"
  /\ \A p \in Piped!Logged : Piped!Writer(p) \in Piped!Stage
<1>1. ASSUME NEW p \in Piped!Logged \cup {"stdout"}
      PROVE  /\ Piped!Writer(p) \in Piped!Stage
             /\ \A s \in Piped!Stage : p \in Piped!Written(s) => Piped!Writer(p) = s
  <2>1. PICK s \in Piped!Stage :
          /\ p \in Piped!Written(s)
          /\ \A q \in Piped!Stage : p \in Piped!Written(q) => q = s
    BY DEF Piped!Stage, Piped!Written, Piped!Logged
  <2>2. Piped!Writer(p) \in Piped!Stage /\ p \in Piped!Written(Piped!Writer(p))
    BY <2>1, Zenon DEF Piped!Writer
  <2> QED
    BY <2>1, <2>2
<1>2. "stdout" \in Piped!Written("producer") /\ "consumer stdout" \in Piped!Written("consumer")
  BY DEF Piped!Written
<1>3. \A s \in Piped!Stage : \A p \in Piped!Written(s) : Piped!Writer(p) = s
  <2>1. ASSUME NEW s \in Piped!Stage, NEW p \in Piped!Written(s)
        PROVE  Piped!Writer(p) = s
    <3>1. p \in Piped!Logged \cup {"stdout"}
      BY <2>1, Outputs
    <3> QED
      BY <1>1, <3>1
  <2> QED
    BY <2>1
<1>4. "producer" \in Piped!Stage /\ "consumer" \in Piped!Stage
  BY DEF Piped!Stage
<1> QED
  BY <1>1, <1>2, <1>3, <1>4

(* A pipe or a count that goes up, or down, by one record. *)
LEMMA OneMore ==
  ASSUME NEW S, NEW f \in [S -> Nat], NEW p \in S, NEW g, g = [f EXCEPT ![p] = @ + 1]
  PROVE  g \in [S -> Nat] /\ \A q \in S : g[q] = IF q = p THEN f[q] + 1 ELSE f[q]
<1>1. f[p] + 1 \in Nat
  OBVIOUS
<1> QED
  BY <1>1

LEMMA OneLess ==
  ASSUME NEW S, NEW f \in [S -> Nat], NEW p \in S, NEW g, g = [f EXCEPT ![p] = @ - 1],
         f[p] > 0
  PROVE  g \in [S -> Nat] /\ \A q \in S : g[q] = IF q = p THEN f[q] - 1 ELSE f[q]
<1>1. f[p] - 1 \in Nat
  OBVIOUS
<1> QED
  BY <1>1

LEMMA PipeInit == Piped!Init => PipeInv
<1> SUFFICES ASSUME Piped!Init PROVE PipeInv
  OBVIOUS
<1>1. RunTypes /\ RecordTypes
  BY ConsumerOutput DEF Piped!Init, RunTypes, RecordTypes
<1>2. LoggedKept /\ CarriedKept
  <2>1. /\ \A p \in Piped!Stream : said[p] = 0 /\ pipe[p] = 0
        /\ \A p \in Piped!Logged : logged[p] = 0
        /\ hand = 0 /\ taken = 0
    BY DEF Piped!Init
  <2>2. LoggedKept
    BY <2>1, LoggedStreams DEF LoggedKept
  <2>3. CarriedKept
    BY <2>1, StreamNames DEF CarriedKept
  <2> QED
    BY <2>2, <2>3
<1>3. Staged
  BY StageNames DEF Piped!Init, Staged, Piped!Alive, Piped!Stream, Piped!Logged
<1>4. FileOutput
  BY LoggedStreams, ConsumerOutput DEF Piped!Init, FileOutput
<1>5. Drained /\ Carried /\ Reported
  BY LoggedStreams, ConsumerOutput DEF Piped!Init, Drained, Carried, Reported
<1> QED
  BY <1>1, <1>2, <1>3, <1>4, <1>5 DEF PipeInv

(* The tools. *)
LEMMA EndWriteStep ==
  ASSUME PipeInv, NEW s \in Piped!Stage, Piped!EndWrite(s)
  PROVE  PipeInv'
<1>1. tool[s] = "running" /\ UNCHANGED <<toFile, tool, heirs, logged, taken,
        hand, delivered, noted, drained, run, verdict>>
  BY DEF Piped!EndWrite, Piped!supervisor
<1>2. wish[s] \in Piped!Stream /\ wish[s] # "stdin" /\ Piped!Writer(wish[s]) = s
      /\ (wish[s] = "stdout" \/ wish[s] \in Piped!Logged)
  BY Outputs, Writers, StreamNames, LoggedStreams DEF Piped!EndWrite
<1>3. /\ pipe' \in [Piped!Stream -> Nat]
      /\ \A q \in Piped!Stream : pipe'[q] = IF q = wish[s] THEN pipe[q] + 1 ELSE pipe[q]
  BY <1>2, OneMore DEF Piped!EndWrite, PipeInv, RecordTypes
<1>4. /\ said' \in [Piped!Stream -> Nat]
      /\ \A q \in Piped!Stream : said'[q] = IF q = wish[s] THEN said[q] + 1 ELSE said[q]
  BY <1>2, OneMore DEF Piped!EndWrite, PipeInv, RecordTypes
<1>5. wish' = [wish EXCEPT ![s] = "none"]
  BY DEF Piped!EndWrite
<1>6. \A w \in Piped!Stage : Gone(w) => Gone(w)'
  BY <1>1, <1>2, <1>3, <1>4, <1>5, StageNames DEF PipeInv, RunTypes, Gone
<1>7. RunTypes'
  BY <1>1, <1>2, <1>3, <1>4, <1>5, StageNames DEF PipeInv, RunTypes
<1>8. RecordTypes'
  BY <1>1, <1>2, <1>3, <1>4, <1>5 DEF PipeInv, RecordTypes
<1>9. LoggedKept'
  BY <1>1, <1>2, <1>3, <1>4, <1>5, LoggedStreams DEF PipeInv, RecordTypes, LoggedKept
<1>10. CarriedKept'
  BY <1>1, <1>2, <1>3, <1>4, <1>5, StreamNames DEF PipeInv, RecordTypes, CarriedKept
<1>11. Staged'
  BY <1>1, <1>2, <1>3, <1>4, <1>5, StageNames DEF PipeInv, RunTypes, Staged, Piped!Alive
<1>12. FileOutput'
  BY <1>1, <1>2, <1>3, <1>4, <1>5, ConsumerOutput, LoggedStreams DEF PipeInv, RunTypes, FileOutput
<1>13. Drained'
  <2>1. ~Gone(s) /\ (toFile => wish[s] # "consumer stdout")
    BY <1>1 DEF Gone, PipeInv, FileOutput
  <2>2. wish[s] \notin drained
    BY <1>2, <2>1 DEF PipeInv, Drained
  <2>3. \A p \in drained : p \in Piped!Stream /\ p # wish[s] /\ pipe'[p] = pipe[p]
    BY <1>3, <2>2, LoggedStreams DEF PipeInv, RunTypes
  <2> QED
    BY <1>1, <1>6, <2>3, Writers DEF PipeInv, RunTypes, Drained
<1>14. Carried'
  <2>1. delivered => wish[s] # "stdout"
    BY <1>1, <1>2, Writers DEF PipeInv, Carried, Gone
  <2> QED
    BY <1>1, <1>3, <1>6, <2>1, StreamNames, StageNames DEF PipeInv, Carried
<1>15. Reported'
  BY <1>1, <1>2, <1>3, <1>4, <1>5, StageNames, ConsumerOutput
     DEF PipeInv, RunTypes, Staged, Reported
<1> QED
  BY <1>7, <1>8, <1>9, <1>10, <1>11, <1>12, <1>13, <1>14, <1>15 DEF PipeInv

LEMMA QuitStep ==
  ASSUME PipeInv, NEW s \in Piped!Stage, Piped!Quit(s)
  PROVE  PipeInv'
<1>1. /\ tool[s] = "running" /\ wish[s] = "none"
      /\ UNCHANGED <<toFile, wish, said, pipe, logged, taken, hand, delivered, noted, drained,
                     run, verdict>>
  BY DEF Piped!Quit, Piped!Idle, Piped!supervisor
<1>2. \E status \in {"succeeded", "failed"} : tool' = [tool EXCEPT ![s] = status]
  BY DEF Piped!Quit
<1>3. \E left \in BOOLEAN : heirs' = [heirs EXCEPT ![s] = left]
  BY DEF Piped!Quit
<1>4. /\ tool'[s] \in {"succeeded", "failed"}
      /\ \A q \in Piped!Stage \ {s} : tool'[q] = tool[q] /\ heirs'[q] = heirs[q]
  BY <1>2, <1>3 DEF PipeInv, RunTypes, RecordTypes
<1>5. ~Gone(s) /\ s \in {"producer", "consumer"}
  BY <1>1, StageNames DEF Gone
<1>6. \A w \in Piped!Stage : Gone(w) => Gone(w)'
  BY <1>1, <1>2, <1>3, <1>4, <1>5, StageNames DEF PipeInv, RunTypes, Gone
<1>7. RunTypes'
  BY <1>1, <1>2, <1>3, <1>4, <1>5, StageNames DEF PipeInv, RunTypes
<1>8. RecordTypes'
  BY <1>1, <1>2, <1>3, <1>4, <1>5 DEF PipeInv, RecordTypes
<1>9. LoggedKept'
  BY <1>1, <1>2, <1>3, <1>4, <1>5, LoggedStreams DEF PipeInv, RecordTypes, LoggedKept
<1>10. CarriedKept'
  BY <1>1, <1>2, <1>3, <1>4, <1>5, StreamNames DEF PipeInv, RecordTypes, CarriedKept
<1>11. Staged'
  BY <1>1, <1>2, <1>3, <1>4, <1>5, StageNames DEF PipeInv, RunTypes, Staged, Piped!Alive
<1>12. FileOutput'
  BY <1>1, <1>2, <1>3, <1>4, <1>5, ConsumerOutput, LoggedStreams DEF PipeInv, RunTypes, FileOutput
<1>13. Drained'
  BY <1>1, <1>2, <1>3, <1>4, <1>5, <1>6, LoggedStreams, Writers, ConsumerOutput
     DEF PipeInv, RunTypes, Drained
<1>14. Carried'
  BY <1>1, <1>2, <1>3, <1>4, <1>5, <1>6, StreamNames, StageNames DEF PipeInv, RecordTypes, Carried
<1>15. Reported'
  BY <1>1, <1>2, <1>3, <1>4, <1>5, StageNames, ConsumerOutput
     DEF PipeInv, RunTypes, Staged, Reported
<1> QED
  BY <1>7, <1>8, <1>9, <1>10, <1>11, <1>12, <1>13, <1>14, <1>15 DEF PipeInv

LEMMA BeginReadStep ==
  ASSUME PipeInv, Piped!BeginRead
  PROVE  PipeInv'
<1>1. tool["consumer"] = "running" /\ UNCHANGED <<toFile, tool, heirs, said, pipe, logged, taken,
        hand, delivered, noted, drained, run, verdict>>
  BY DEF Piped!BeginRead, Piped!Idle, Piped!supervisor
<1>2. wish' = [wish EXCEPT !["consumer"] = "stdin"]
  BY DEF Piped!BeginRead
<1>3. \A w \in Piped!Stage : Gone(w) => Gone(w)'
  BY <1>1, <1>2, StageNames DEF PipeInv, RunTypes, Gone
<1>4. RunTypes'
  BY <1>1, <1>2, StageNames, StreamNames DEF PipeInv, RunTypes
<1>5. RecordTypes'
  BY <1>1, <1>2 DEF PipeInv, RecordTypes
<1>6. LoggedKept'
  BY <1>1, <1>2, LoggedStreams DEF PipeInv, RecordTypes, LoggedKept
<1>7. CarriedKept'
  BY <1>1, <1>2, StreamNames DEF PipeInv, RecordTypes, CarriedKept
<1>8. Staged'
  BY <1>1, <1>2, StageNames DEF PipeInv, RunTypes, Staged, Piped!Alive
<1>9. FileOutput'
  BY <1>1, <1>2, ConsumerOutput, LoggedStreams DEF PipeInv, RunTypes, FileOutput
<1>10. Drained'
  BY <1>1, <1>2, <1>3, LoggedStreams, Writers, ConsumerOutput DEF PipeInv, RunTypes, Drained
<1>11. Carried'
  BY <1>1, <1>2, <1>3, StreamNames, StageNames DEF PipeInv, RecordTypes, Carried
<1>12. Reported'
  BY <1>1, <1>2, StageNames, ConsumerOutput DEF PipeInv, RunTypes, Staged, Reported
<1> QED
  BY <1>4, <1>5, <1>6, <1>7, <1>8, <1>9, <1>10, <1>11, <1>12 DEF PipeInv

LEMMA EndReadStep ==
  ASSUME PipeInv, Piped!EndRead
  PROVE  PipeInv'
<1>1. tool["consumer"] = "running" /\ UNCHANGED <<toFile, tool, heirs, said, logged,
        hand, delivered, noted, drained, run, verdict>>
  BY DEF Piped!EndRead, Piped!supervisor
<1>2. wish' = [wish EXCEPT !["consumer"] = "none"]
  BY DEF Piped!EndRead
<1>3. \/ pipe["stdin"] > 0 /\ taken' = taken + 1 /\ pipe' = [pipe EXCEPT !["stdin"] = @ - 1]
      \/ UNCHANGED <<taken, pipe>>
  BY DEF Piped!EndRead
<1>4. \/ /\ pipe["stdin"] > 0 /\ taken' = taken + 1 /\ pipe' \in [Piped!Stream -> Nat]
         /\ \A q \in Piped!Stream : pipe'[q] = IF q = "stdin" THEN pipe[q] - 1 ELSE pipe[q]
      \/ UNCHANGED <<taken, pipe>>
  BY <1>3, OneLess, StreamNames DEF PipeInv, RecordTypes
<1>5. \A w \in Piped!Stage : Gone(w) => Gone(w)'
  BY <1>1, <1>2, <1>3, <1>4, StageNames DEF PipeInv, RunTypes, Gone
<1>6. RunTypes'
  BY <1>1, <1>2, <1>3, <1>4, StageNames DEF PipeInv, RunTypes
<1>7. RecordTypes'
  BY <1>1, <1>2, <1>3, <1>4 DEF PipeInv, RecordTypes
<1>8. LoggedKept'
  BY <1>1, <1>2, <1>3, <1>4, LoggedStreams DEF PipeInv, RecordTypes, LoggedKept
<1>9. CarriedKept'
  BY <1>1, <1>2, <1>3, <1>4, StreamNames DEF PipeInv, RecordTypes, CarriedKept
<1>10. Staged'
  BY <1>1, <1>2, <1>3, <1>4, StageNames DEF PipeInv, RunTypes, Staged, Piped!Alive
<1>11. FileOutput'
  BY <1>1, <1>2, <1>3, <1>4, ConsumerOutput, LoggedStreams DEF PipeInv, RunTypes, FileOutput
<1>12. Drained'
  BY <1>1, <1>2, <1>3, <1>4, <1>5, LoggedStreams, Writers, ConsumerOutput
     DEF PipeInv, RunTypes, Drained
<1>13. Carried'
  BY <1>1, <1>2, <1>3, <1>4, <1>5, StreamNames, StageNames DEF PipeInv, RecordTypes, Carried
<1>14. Reported'
  BY <1>1, <1>2, <1>3, <1>4, StageNames, ConsumerOutput DEF PipeInv, RunTypes, Staged, Reported
<1> QED
  BY <1>6, <1>7, <1>8, <1>9, <1>10, <1>11, <1>12, <1>13, <1>14 DEF PipeInv

LEMMA BeginWriteStep ==
  ASSUME PipeInv, NEW s \in Piped!Stage, NEW p \in Piped!Written(s), Piped!BeginWrite(s, p)
  PROVE  PipeInv'
<1>1. tool[s] = "running" /\ (toFile => p # "consumer stdout") /\
      UNCHANGED <<toFile, tool, heirs, said, pipe, logged, taken,
        hand, delivered, noted, drained, run, verdict>>
  BY DEF Piped!BeginWrite, Piped!Idle, Piped!supervisor
<1>2. p \in Piped!Stream /\ wish' = [wish EXCEPT ![s] = p]
  BY Outputs, StreamNames, LoggedStreams DEF Piped!BeginWrite
<1>3. \A w \in Piped!Stage : Gone(w) => Gone(w)'
  BY <1>1, <1>2, StageNames DEF PipeInv, RunTypes, Gone
<1>4. RunTypes'
  BY <1>1, <1>2, StageNames DEF PipeInv, RunTypes
<1>5. RecordTypes'
  BY <1>1, <1>2 DEF PipeInv, RecordTypes
<1>6. LoggedKept'
  BY <1>1, <1>2, LoggedStreams DEF PipeInv, RecordTypes, LoggedKept
<1>7. CarriedKept'
  BY <1>1, <1>2, StreamNames DEF PipeInv, RecordTypes, CarriedKept
<1>8. Staged'
  BY <1>1, <1>2, StageNames DEF PipeInv, RunTypes, Staged, Piped!Alive
<1>9. FileOutput'
  BY <1>1, <1>2, ConsumerOutput, LoggedStreams DEF PipeInv, RunTypes, FileOutput
<1>10. Drained'
  BY <1>1, <1>2, <1>3, LoggedStreams, Writers, ConsumerOutput DEF PipeInv, RunTypes, Drained
<1>11. Carried'
  BY <1>1, <1>2, <1>3, StreamNames, StageNames DEF PipeInv, RecordTypes, Carried
<1>12. Reported'
  BY <1>1, <1>2, StageNames, ConsumerOutput DEF PipeInv, RunTypes, Staged, Reported
<1> QED
  BY <1>4, <1>5, <1>6, <1>7, <1>8, <1>9, <1>10, <1>11, <1>12 DEF PipeInv

(* The supervisor. *)
LEMMA SpawnConsumerStep ==
  ASSUME PipeInv, Piped!SpawnConsumer
  PROVE  PipeInv'
<1>1. /\ run = "starting" /\ tool["consumer"] = "unstarted"
      /\ UNCHANGED <<toFile, heirs, wish, said, pipe, logged, taken, hand, delivered, noted,
                     drained>>
  BY DEF Piped!SpawnConsumer
<1>2. \/ tool' = [tool EXCEPT !["consumer"] = "running"] /\ UNCHANGED <<verdict, run>>
      \/ verdict' = "error" /\ run' = "returned" /\ UNCHANGED tool
  BY DEF Piped!SpawnConsumer
<1>3. \A w \in Piped!Stage : Gone(w) => Gone(w)'
  BY <1>1, <1>2, StageNames DEF PipeInv, RunTypes, Gone
<1>4. RunTypes'
  BY <1>1, <1>2, StageNames DEF PipeInv, RunTypes
<1>5. RecordTypes'
  BY <1>1, <1>2 DEF PipeInv, RecordTypes
<1>6. LoggedKept'
  BY <1>1, <1>2, LoggedStreams DEF PipeInv, RecordTypes, LoggedKept
<1>7. CarriedKept'
  BY <1>1, <1>2, StreamNames DEF PipeInv, RecordTypes, CarriedKept
<1>8. Staged'
  BY <1>1, <1>2, StageNames DEF PipeInv, RunTypes, Staged, Piped!Alive
<1>9. FileOutput'
  BY <1>1, <1>2, ConsumerOutput, LoggedStreams DEF PipeInv, RunTypes, FileOutput
<1>10. Drained'
  BY <1>1, <1>2, <1>3, LoggedStreams, Writers, ConsumerOutput DEF PipeInv, RunTypes, Drained
<1>11. Carried'
  BY <1>1, <1>2, <1>3, StreamNames, StageNames DEF PipeInv, RecordTypes, Carried
<1>12. Reported'
  BY <1>1, <1>2, StageNames, ConsumerOutput DEF PipeInv, RunTypes, Staged, Reported
<1> QED
  BY <1>4, <1>5, <1>6, <1>7, <1>8, <1>9, <1>10, <1>11, <1>12 DEF PipeInv

LEMMA SpawnProducerStep ==
  ASSUME PipeInv, Piped!SpawnProducer
  PROVE  PipeInv'
<1>1. run = "starting" /\ tool["consumer"] # "unstarted" /\ UNCHANGED <<toFile, wish, said, pipe,
        logged, taken, hand, delivered, noted, drained>>
  BY DEF Piped!SpawnProducer
<1>2. \/ /\ tool' = [tool EXCEPT !["producer"] = "running"] /\ run' = "running"
         /\ UNCHANGED <<heirs, verdict>>
      \/ /\ tool' = [tool EXCEPT !["consumer"] = "reaped"]
         /\ heirs' = [heirs EXCEPT !["consumer"] = FALSE]
         /\ verdict' = "error" /\ run' = "returned"
  BY DEF Piped!SpawnProducer
<1>3. \A w \in Piped!Stage : Gone(w) => Gone(w)'
  BY <1>1, <1>2, StageNames DEF PipeInv, RunTypes, Staged, Gone
<1>4. RunTypes'
  BY <1>1, <1>2, StageNames DEF PipeInv, RunTypes
<1>5. RecordTypes'
  BY <1>1, <1>2 DEF PipeInv, RecordTypes
<1>6. LoggedKept'
  BY <1>1, <1>2, LoggedStreams DEF PipeInv, RecordTypes, LoggedKept
<1>7. CarriedKept'
  BY <1>1, <1>2, StreamNames DEF PipeInv, RecordTypes, CarriedKept
<1>8. Staged'
  BY <1>1, <1>2, StageNames DEF PipeInv, RunTypes, Staged, Piped!Alive
<1>9. FileOutput'
  BY <1>1, <1>2, ConsumerOutput, LoggedStreams DEF PipeInv, RunTypes, FileOutput
<1>10. Drained'
  BY <1>1, <1>2, <1>3, LoggedStreams, Writers, ConsumerOutput DEF PipeInv, RunTypes, Drained
<1>11. Carried'
  BY <1>1, <1>2, <1>3, StreamNames, StageNames DEF PipeInv, RecordTypes, Carried
<1>12. Reported'
  BY <1>1, <1>2, StageNames, ConsumerOutput DEF PipeInv, RunTypes, Staged, Reported
<1> QED
  BY <1>4, <1>5, <1>6, <1>7, <1>8, <1>9, <1>10, <1>11, <1>12 DEF PipeInv

LEMMA ReceiveStep ==
  ASSUME PipeInv, Piped!Receive
  PROVE  PipeInv'
<1>1. run = "running" /\ hand = 0 /\ hand' = 1 /\ pipe["stdout"] > 0
  BY DEF Piped!Receive
<1>2. UNCHANGED <<toFile, tool, heirs, wish, said, logged, taken, delivered, noted, drained, run,
                  verdict>>
  BY DEF Piped!Receive, Piped!tools
<1>3. /\ pipe' \in [Piped!Stream -> Nat]
      /\ \A q \in Piped!Stream : pipe'[q] = IF q = "stdout" THEN pipe[q] - 1 ELSE pipe[q]
  BY StreamNames, OneLess DEF Piped!Receive, PipeInv, RecordTypes
<1>4. \A w \in Piped!Stage : Gone(w) => Gone(w)'
  BY <1>1, <1>2, <1>3, StageNames DEF PipeInv, RunTypes, Gone
<1>5. RunTypes'
  BY <1>1, <1>2, <1>3, StageNames DEF PipeInv, RunTypes
<1>6. RecordTypes'
  BY <1>1, <1>2, <1>3 DEF PipeInv, RecordTypes
<1>7. LoggedKept'
  BY <1>1, <1>2, <1>3, LoggedStreams DEF PipeInv, RecordTypes, LoggedKept
<1>8. CarriedKept'
  BY <1>1, <1>2, <1>3, StreamNames DEF PipeInv, RecordTypes, CarriedKept
<1>9. Staged'
  BY <1>1, <1>2, <1>3, StageNames DEF PipeInv, RunTypes, Staged, Piped!Alive
<1>10. FileOutput'
  BY <1>1, <1>2, <1>3, ConsumerOutput, LoggedStreams DEF PipeInv, RunTypes, FileOutput
<1>11. Drained'
  BY <1>1, <1>2, <1>3, <1>4, LoggedStreams, Writers, ConsumerOutput DEF PipeInv, RunTypes, Drained
<1>12. Carried'
  BY <1>1, <1>2, <1>3, <1>4, StreamNames, StageNames DEF PipeInv, RecordTypes, Carried
<1>13. Reported'
  BY <1>1, <1>2, <1>3, StageNames, ConsumerOutput DEF PipeInv, RunTypes, Staged, Reported
<1> QED
  BY <1>5, <1>6, <1>7, <1>8, <1>9, <1>10, <1>11, <1>12, <1>13 DEF PipeInv

LEMMA ForwardStep ==
  ASSUME PipeInv, Piped!Forward
  PROVE  PipeInv'
<1>1. run = "running" /\ hand = 1 /\
      UNCHANGED <<toFile, tool, heirs, wish, said, logged, taken, delivered, noted, drained>>
  BY DEF Piped!Forward, Piped!tools
<1>2. \/ /\ pipe' = [pipe EXCEPT !["stdin"] = @ + 1] /\ hand' = 0
         /\ UNCHANGED <<run, verdict>>
      \/ run' = "cleanup" /\ verdict' = "error" /\ UNCHANGED <<hand, pipe>>
  BY DEF Piped!Forward, Piped!Conclude
<1>3. \/ /\ hand' = 0 /\ pipe' \in [Piped!Stream -> Nat] /\ UNCHANGED <<run, verdict>>
         /\ \A q \in Piped!Stream : pipe'[q] = IF q = "stdin" THEN pipe[q] + 1 ELSE pipe[q]
      \/ run' = "cleanup" /\ verdict' = "error" /\ UNCHANGED <<hand, pipe>>
  BY <1>2, OneMore, StreamNames DEF PipeInv, RecordTypes
<1>4. \A w \in Piped!Stage : Gone(w) => Gone(w)'
  BY <1>1, <1>2, <1>3, StageNames DEF PipeInv, RunTypes, Gone
<1>5. RunTypes'
  BY <1>1, <1>2, <1>3, StageNames DEF PipeInv, RunTypes
<1>6. RecordTypes'
  BY <1>1, <1>2, <1>3 DEF PipeInv, RecordTypes
<1>7. LoggedKept'
  BY <1>1, <1>2, <1>3, LoggedStreams DEF PipeInv, RecordTypes, LoggedKept
<1>8. CarriedKept'
  BY <1>1, <1>2, <1>3, StreamNames DEF PipeInv, RecordTypes, CarriedKept
<1>9. Staged'
  BY <1>1, <1>2, <1>3, StageNames DEF PipeInv, RunTypes, Staged, Piped!Alive
<1>10. FileOutput'
  BY <1>1, <1>2, <1>3, ConsumerOutput, LoggedStreams DEF PipeInv, RunTypes, FileOutput
<1>11. Drained'
  BY <1>1, <1>2, <1>3, <1>4, LoggedStreams, Writers, ConsumerOutput DEF PipeInv, RunTypes, Drained
<1>12. Carried'
  BY <1>1, <1>2, <1>3, <1>4, StreamNames, StageNames DEF PipeInv, RecordTypes, Carried
<1>13. Reported'
  BY <1>1, <1>2, <1>3, StageNames, ConsumerOutput DEF PipeInv, RunTypes, Staged, Reported
<1> QED
  BY <1>5, <1>6, <1>7, <1>8, <1>9, <1>10, <1>11, <1>12, <1>13 DEF PipeInv

LEMMA DeliverStep ==
  ASSUME PipeInv, Piped!Deliver
  PROVE  PipeInv'
<1>1. run = "running" /\ hand = 0 /\ delivered' = TRUE
  BY DEF Piped!Deliver
<1>2. UNCHANGED <<toFile, tool, heirs, wish, said, pipe, logged, taken, hand, noted, drained, run,
                  verdict>>
  BY DEF Piped!Deliver, Piped!tools
<1>3. pipe["stdout"] = 0 /\ Gone("producer")
  BY StageNames, StreamNames, Writers
     DEF Piped!Deliver, Piped!Ended, Piped!Alive, Gone, PipeInv, Staged
<1>4. \A w \in Piped!Stage : Gone(w) => Gone(w)'
  BY <1>1, <1>2, <1>3, StageNames DEF PipeInv, RunTypes, Gone
<1>5. RunTypes'
  BY <1>1, <1>2, <1>3, StageNames DEF PipeInv, RunTypes
<1>6. RecordTypes'
  BY <1>1, <1>2, <1>3 DEF PipeInv, RecordTypes
<1>7. LoggedKept'
  BY <1>1, <1>2, <1>3, LoggedStreams DEF PipeInv, RecordTypes, LoggedKept
<1>8. CarriedKept'
  BY <1>1, <1>2, <1>3, StreamNames DEF PipeInv, RecordTypes, CarriedKept
<1>9. Staged'
  BY <1>1, <1>2, <1>3, StageNames DEF PipeInv, RunTypes, Staged, Piped!Alive
<1>10. FileOutput'
  BY <1>1, <1>2, <1>3, ConsumerOutput, LoggedStreams DEF PipeInv, RunTypes, FileOutput
<1>11. Drained'
  BY <1>1, <1>2, <1>3, <1>4, LoggedStreams, Writers, ConsumerOutput DEF PipeInv, RunTypes, Drained
<1>12. Carried'
  BY <1>1, <1>2, <1>3, <1>4, StreamNames, StageNames DEF PipeInv, RecordTypes, Carried
<1>13. Reported'
  BY <1>1, <1>2, <1>3, StageNames, ConsumerOutput DEF PipeInv, RunTypes, Staged, Reported
<1> QED
  BY <1>5, <1>6, <1>7, <1>8, <1>9, <1>10, <1>11, <1>12, <1>13 DEF PipeInv

LEMMA DrainStep ==
  ASSUME PipeInv, NEW p \in Piped!Logged, Piped!Drain(p)
  PROVE  PipeInv'
<1>1. p \notin drained /\ pipe[p] > 0 /\
      UNCHANGED <<toFile, tool, heirs, wish, said, taken, hand, delivered, noted, drained, run,
                  verdict>>
  BY DEF Piped!Drain, Piped!tools
<1>2. /\ pipe' \in [Piped!Stream -> Nat]
      /\ \A q \in Piped!Stream : pipe'[q] = IF q = p THEN pipe[q] - 1 ELSE pipe[q]
  BY LoggedStreams, OneLess DEF Piped!Drain, PipeInv, RecordTypes
<1>3. /\ logged' \in [Piped!Logged -> Nat]
      /\ \A q \in Piped!Logged : logged'[q] = IF q = p THEN logged[q] + 1 ELSE logged[q]
  BY OneMore DEF Piped!Drain, PipeInv, RecordTypes
<1>4. \A w \in Piped!Stage : Gone(w) => Gone(w)'
  BY <1>1, <1>2, <1>3, StageNames DEF PipeInv, RunTypes, Gone
<1>5. RunTypes'
  BY <1>1, <1>2, <1>3, StageNames DEF PipeInv, RunTypes
<1>6. RecordTypes'
  BY <1>1, <1>2, <1>3 DEF PipeInv, RecordTypes
<1>7. LoggedKept'
  BY <1>1, <1>2, <1>3, LoggedStreams DEF PipeInv, RecordTypes, LoggedKept
<1>8. CarriedKept'
  BY <1>1, <1>2, StreamNames, LoggedStreams DEF PipeInv, RecordTypes, CarriedKept
<1>9. Staged'
  BY <1>1, <1>2, <1>3, StageNames DEF PipeInv, RunTypes, Staged, Piped!Alive
<1>10. FileOutput'
  <2>1. toFile => pipe["consumer stdout"] = 0
    BY DEF PipeInv, FileOutput
  <2>2. pipe'["consumer stdout"] = pipe["consumer stdout"] \/ p = "consumer stdout"
    BY <1>2, ConsumerOutput, LoggedStreams
  <2>3. toFile => p # "consumer stdout"
    <3>1. pipe[p] # 0
      BY <1>1, LoggedStreams DEF PipeInv, RecordTypes
    <3> QED
      BY <2>1, <3>1, Zenon
  <2> QED
    BY <1>1, <2>1, <2>2, <2>3 DEF PipeInv, FileOutput
<1>11. Drained'
  BY <1>1, <1>2, <1>3, <1>4, LoggedStreams, Writers, ConsumerOutput DEF PipeInv, RunTypes, Drained
<1>12. Carried'
  BY <1>1, <1>2, <1>3, <1>4, StreamNames, StageNames DEF PipeInv, RecordTypes, Carried
<1>13. Reported'
  BY <1>1, <1>2, <1>3, StageNames, ConsumerOutput DEF PipeInv, RunTypes, Staged, Reported
<1> QED
  BY <1>5, <1>6, <1>7, <1>8, <1>9, <1>10, <1>11, <1>12, <1>13 DEF PipeInv

LEMMA EndDrainStep ==
  ASSUME PipeInv, NEW p \in Piped!Logged, Piped!EndDrain(p)
  PROVE  PipeInv'
<1>1. drained' = drained \cup {p} /\ run \in {"running", "draining"} /\ pipe[p] = 0
  BY DEF Piped!EndDrain, Piped!Reading, Piped!Ended
<1>2. UNCHANGED <<toFile, tool, heirs, wish, said, pipe, logged, taken, hand, delivered, noted,
                  run, verdict>>
  BY DEF Piped!EndDrain, Piped!tools
<1>3. Gone(Piped!Writer(p))
  BY <1>1, Writers DEF Piped!EndDrain, Piped!Ended, Piped!Alive, Gone, PipeInv, Staged
<1>4. \A w \in Piped!Stage : Gone(w) => Gone(w)'
  BY <1>1, <1>2, <1>3, StageNames DEF PipeInv, RunTypes, Gone
<1>5. RunTypes'
  BY <1>1, <1>2, <1>3, StageNames DEF PipeInv, RunTypes
<1>6. RecordTypes'
  BY <1>1, <1>2, <1>3 DEF PipeInv, RecordTypes
<1>7. LoggedKept'
  BY <1>1, <1>2, <1>3, LoggedStreams DEF PipeInv, RecordTypes, LoggedKept
<1>8. CarriedKept'
  BY <1>1, <1>2, <1>3, StreamNames DEF PipeInv, RecordTypes, CarriedKept
<1>9. Staged'
  BY <1>1, <1>2, <1>3, StageNames DEF PipeInv, RunTypes, Staged, Piped!Alive
<1>10. FileOutput'
  BY <1>1, <1>2, <1>3, ConsumerOutput, LoggedStreams DEF PipeInv, RunTypes, FileOutput
<1>11. Drained'
  BY <1>1, <1>2, <1>3, <1>4, LoggedStreams, Writers, ConsumerOutput DEF PipeInv, RunTypes, Drained
<1>12. Carried'
  BY <1>1, <1>2, <1>3, <1>4, StreamNames, StageNames DEF PipeInv, RecordTypes, Carried
<1>13. Reported'
  BY <1>1, <1>2, <1>3, StageNames, ConsumerOutput DEF PipeInv, RunTypes, Staged, Reported
<1> QED
  BY <1>5, <1>6, <1>7, <1>8, <1>9, <1>10, <1>11, <1>12, <1>13 DEF PipeInv

LEMMA NoteExitStep ==
  ASSUME PipeInv, NEW s \in Piped!Stage, Piped!NoteExit(s)
  PROVE  PipeInv'
<1>1. run = "running" /\ heirs' = [heirs EXCEPT ![s] = FALSE] /\
      UNCHANGED <<toFile, tool, wish, said, pipe, logged, taken, hand, delivered, drained>>
  BY DEF Piped!NoteExit, Piped!Terminated
<1>2. \/ run' = "cleanup" /\ verdict' = "error" /\ UNCHANGED noted
      \/ noted' = noted \cup {s} /\ UNCHANGED <<verdict, run>>
  BY DEF Piped!NoteExit, Piped!Conclude
<1>3. \A w \in Piped!Stage : Gone(w) => Gone(w)'
  BY <1>1, <1>2, StageNames DEF PipeInv, RunTypes, Gone
<1>4. RunTypes'
  BY <1>1, <1>2, StageNames DEF PipeInv, RunTypes
<1>5. RecordTypes'
  BY <1>1, <1>2 DEF PipeInv, RecordTypes
<1>6. LoggedKept'
  BY <1>1, <1>2, LoggedStreams DEF PipeInv, RecordTypes, LoggedKept
<1>7. CarriedKept'
  BY <1>1, <1>2, StreamNames DEF PipeInv, RecordTypes, CarriedKept
<1>8. Staged'
  BY <1>1, <1>2, StageNames DEF PipeInv, RunTypes, Staged, Piped!Alive
<1>9. FileOutput'
  BY <1>1, <1>2, ConsumerOutput, LoggedStreams DEF PipeInv, RunTypes, FileOutput
<1>10. Drained'
  BY <1>1, <1>2, <1>3, LoggedStreams, Writers, ConsumerOutput DEF PipeInv, RunTypes, Drained
<1>11. Carried'
  BY <1>1, <1>2, <1>3, StreamNames, StageNames DEF PipeInv, RecordTypes, Carried
<1>12. Reported'
  BY <1>1, <1>2, StageNames, ConsumerOutput DEF PipeInv, RunTypes, Staged, Reported
<1> QED
  BY <1>4, <1>5, <1>6, <1>7, <1>8, <1>9, <1>10, <1>11, <1>12 DEF PipeInv

LEMMA ConcludeStep ==
  ASSUME PipeInv, Piped!Complete \/ Piped!Interrupt
  PROVE  PipeInv'
<1>1. run = "running" /\ run' = "cleanup" /\
      UNCHANGED <<toFile, tool, heirs, wish, said, pipe, logged, taken, hand, delivered, noted,
                  drained>>
  BY DEF Piped!Complete, Piped!Interrupt, Piped!Conclude, Piped!tools
<1>2. \/ verdict' = "error"
      \/ verdict' = "ok" /\ delivered /\ drained = Piped!Logged
  BY DEF Piped!Complete, Piped!Everything, Piped!Interrupt, Piped!Conclude
<1>3. \A w \in Piped!Stage : Gone(w) => Gone(w)'
  BY <1>1, <1>2, StageNames DEF PipeInv, RunTypes, Gone
<1>4. RunTypes'
  BY <1>1, <1>2, StageNames DEF PipeInv, RunTypes
<1>5. RecordTypes'
  BY <1>1, <1>2 DEF PipeInv, RecordTypes
<1>6. LoggedKept'
  BY <1>1, <1>2, LoggedStreams DEF PipeInv, RecordTypes, LoggedKept
<1>7. CarriedKept'
  BY <1>1, <1>2, StreamNames DEF PipeInv, RecordTypes, CarriedKept
<1>8. Staged'
  BY <1>1, <1>2, StageNames DEF PipeInv, RunTypes, Staged, Piped!Alive
<1>9. FileOutput'
  BY <1>1, <1>2, ConsumerOutput, LoggedStreams DEF PipeInv, RunTypes, FileOutput
<1>10. Drained'
  BY <1>1, <1>2, <1>3, LoggedStreams, Writers, ConsumerOutput DEF PipeInv, RunTypes, Drained
<1>11. Carried'
  BY <1>1, <1>2, <1>3, StreamNames, StageNames DEF PipeInv, RecordTypes, Carried
<1>12. Reported'
  BY <1>1, <1>2, StageNames, ConsumerOutput DEF PipeInv, RunTypes, Staged, Reported
<1> QED
  BY <1>4, <1>5, <1>6, <1>7, <1>8, <1>9, <1>10, <1>11, <1>12 DEF PipeInv

LEMMA TerminateBothStep ==
  ASSUME PipeInv, Piped!TerminateBoth
  PROVE  PipeInv'
<1>1. run = "cleanup" /\ run' = "draining" /\
      UNCHANGED <<toFile, said, pipe, logged, taken, hand, delivered, noted, drained, verdict>>
  BY DEF Piped!TerminateBoth
<1>2. /\ tool' = [s \in Piped!Stage |-> "reaped"] /\ heirs' = [s \in Piped!Stage |-> FALSE]
      /\ wish' = [s \in Piped!Stage |-> "none"]
  BY DEF Piped!TerminateBoth
<1>3. \A w \in Piped!Stage : Gone(w) => Gone(w)'
  BY <1>1, <1>2, StageNames DEF PipeInv, RunTypes, Gone
<1>4. RunTypes'
  BY <1>1, <1>2, StageNames DEF PipeInv, RunTypes
<1>5. RecordTypes'
  BY <1>1, <1>2 DEF PipeInv, RecordTypes
<1>6. LoggedKept'
  BY <1>1, <1>2, LoggedStreams DEF PipeInv, RecordTypes, LoggedKept
<1>7. CarriedKept'
  BY <1>1, <1>2, StreamNames DEF PipeInv, RecordTypes, CarriedKept
<1>8. Staged'
  BY <1>1, <1>2, StageNames DEF PipeInv, RunTypes, Staged, Piped!Alive
<1>9. FileOutput'
  BY <1>1, <1>2, ConsumerOutput, LoggedStreams DEF PipeInv, RunTypes, FileOutput
<1>10. Drained'
  BY <1>1, <1>2, <1>3, LoggedStreams, Writers, ConsumerOutput DEF PipeInv, RunTypes, Drained
<1>11. Carried'
  BY <1>1, <1>2, <1>3, StreamNames, StageNames DEF PipeInv, RecordTypes, Carried
<1>12. Reported'
  BY <1>1, <1>2, StageNames, ConsumerOutput DEF PipeInv, RunTypes, Staged, Reported
<1> QED
  BY <1>4, <1>5, <1>6, <1>7, <1>8, <1>9, <1>10, <1>11, <1>12 DEF PipeInv

LEMMA ReturnStep ==
  ASSUME PipeInv, Piped!Return
  PROVE  PipeInv'
<1>1. run = "draining" /\ run' = "returned" /\ "consumer stdout" \in drained
  BY DEF Piped!Return
<1>2. UNCHANGED <<toFile, tool, heirs, wish, said, pipe, logged, taken, hand, delivered, noted,
                  drained, verdict>>
  BY DEF Piped!Return, Piped!tools
<1>3. \A w \in Piped!Stage : Gone(w) => Gone(w)'
  BY <1>1, <1>2, StageNames DEF PipeInv, RunTypes, Gone
<1>4. RunTypes'
  BY <1>1, <1>2, StageNames DEF PipeInv, RunTypes
<1>5. RecordTypes'
  BY <1>1, <1>2 DEF PipeInv, RecordTypes
<1>6. LoggedKept'
  BY <1>1, <1>2, LoggedStreams DEF PipeInv, RecordTypes, LoggedKept
<1>7. CarriedKept'
  BY <1>1, <1>2, StreamNames DEF PipeInv, RecordTypes, CarriedKept
<1>8. Staged'
  BY <1>1, <1>2, StageNames DEF PipeInv, RunTypes, Staged, Piped!Alive
<1>9. FileOutput'
  BY <1>1, <1>2, ConsumerOutput, LoggedStreams DEF PipeInv, RunTypes, FileOutput
<1>10. Drained'
  BY <1>1, <1>2, <1>3, LoggedStreams, Writers, ConsumerOutput DEF PipeInv, RunTypes, Drained
<1>11. Carried'
  BY <1>1, <1>2, <1>3, StreamNames, StageNames DEF PipeInv, RecordTypes, Carried
<1>12. Reported'
  BY <1>1, <1>2, StageNames, ConsumerOutput DEF PipeInv, RunTypes, Staged, Reported
<1> QED
  BY <1>4, <1>5, <1>6, <1>7, <1>8, <1>9, <1>10, <1>11, <1>12 DEF PipeInv

LEMMA PipeInductive == PipeInv /\ [Piped!Next]_piping => PipeInv'
<1>1. ASSUME PipeInv, UNCHANGED piping
      PROVE  PipeInv'
  <2>1. UNCHANGED <<toFile, tool, heirs, wish, said, pipe, logged, taken,
          hand, delivered, noted, drained, run, verdict>>
    BY <1>1 DEF piping
  <2> QED
    BY <1>1, <2>1 DEF PipeInv, RunTypes, RecordTypes, LoggedKept, CarriedKept, Staged, FileOutput,
       Drained, Carried, Reported,
       Gone, Piped!Alive
<1>2. Piped!Over => UNCHANGED piping
  BY DEF Piped!Over, Piped!vars, piping
<1> QED
  BY <1>1, <1>2, EndWriteStep, QuitStep, BeginReadStep, EndReadStep, BeginWriteStep,
     SpawnConsumerStep, SpawnProducerStep, ReceiveStep, ForwardStep, DeliverStep, DrainStep,
     EndDrainStep, NoteExitStep, ConcludeStep, TerminateBothStep, ReturnStep
     DEF Piped!Next, Piped!Supervise

LEMMA PipeAlways == ExecutionSpec => []PipeInv
<1>1. ExecutionInit => PipeInv
  BY PipeInit DEF ExecutionInit
<1>2. PipeInv /\ [ExecutionNext]_all => PipeInv'
  BY PipeInductive DEF ExecutionNext, all
<1> QED
  BY <1>1, <1>2, PTL DEF ExecutionSpec

(* A run of two tools that returns has ended both, and whatever it reports *)
(* success of has been delivered and logged to the last record.            *)
THEOREM ReturnsComplete == ExecutionSpec => []ReturnedComplete
<1>1. ASSUME PipeInv, run = "returned"
      PROVE  Piped!ReturnedComplete
  <2>1. \A s \in Piped!Stage : ~Piped!Alive(s)
    BY <1>1 DEF PipeInv, Staged
  <2>2. \A p \in drained : logged[p] = said[p]
    <3>1. ASSUME NEW p \in drained
          PROVE  logged[p] = said[p]
      <4>1. p \in Piped!Logged /\ pipe[p] = 0
        BY <1>1, <3>1 DEF PipeInv, RunTypes, Drained
      <4>2. logged[p] \in Nat /\ said[p] = logged[p] + pipe[p]
        BY <1>1, <4>1 DEF PipeInv, RecordTypes, LoggedKept
      <4> QED
        BY <4>1, <4>2
    <3> QED
      BY <3>1
  <2>3. tool["producer"] # "unstarted" => logged["consumer stdout"] = said["consumer stdout"]
    BY <1>1, <2>2 DEF PipeInv, Reported
  <2>4. verdict = "ok" => /\ taken + pipe["stdin"] = said["stdout"]
                          /\ \A p \in Piped!Logged : logged[p] = said[p]
    <3>1. verdict = "ok" => delivered /\ drained = Piped!Logged
      BY <1>1 DEF PipeInv, Reported
    <3>2. delivered => taken + pipe["stdin"] = said["stdout"]
      BY <1>1, StreamNames DEF PipeInv, RecordTypes, Carried, CarriedKept
    <3> QED
      BY <2>2, <3>1, <3>2
  <2> QED
    BY <2>1, <2>3, <2>4 DEF Piped!ReturnedComplete
<1>2. PipeInv => ReturnedComplete
  BY <1>1 DEF ReturnedComplete, Piped!ReturnedComplete
<1> QED
  BY <1>2, PipeAlways, PTL
=============================================================================
