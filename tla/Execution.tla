----------------------------- MODULE Execution ------------------------------
(***************************************************************************)
(* What holds, feeds and stops the tools of one operation, seen from three *)
(* sides which share no state: its live pause (PauseControl), the pipes of *)
(* a run of two tools (Pipeline) and the review that holds its program     *)
(* until the user confirms it (CommandEdit).                               *)
(***************************************************************************)
EXTENDS PauseControl

CONSTANTS
  Room,      \* records a pipe holds
  Amount,    \* bound: records a tool writes
  Review,    \* reviewed commands
  Ordinary,  \* jobs that may be in front of them
  Tasks      \* bound: what is reviewed

VARIABLES
  side,      \* the side this behaviour is about
  toFile, tool, heirs, wish, said, pipe, logged, taken, hand, delivered, noted, drained,
  run, verdict,
  task, held, withdrawn, decision, review, answer, confirmed, prepare, confirm, ticket,
  undo, order, worker, signal, workspace, recipe, told

Piped    == INSTANCE Pipeline
Reviewed == INSTANCE CommandEdit

ASSUME ExecutionAssumption == Piped!Capacities /\ Reviewed!Requests

ExecutionInit ==
  /\ side \in {"pause", "pipeline", "review"}
  /\ Init /\ Piped!Init /\ Reviewed!Init
  /\ side # "pipeline" => toFile
  /\ side # "review" => task = [r \in Review |-> CHOOSE t \in Tasks : TRUE]

piping    == <<toFile, tool, heirs, wish, said, pipe, logged, taken, hand, delivered, noted,
               drained, run, verdict>>
reviewing == <<task, held, withdrawn, decision, review, answer, confirmed, prepare, confirm,
               ticket, undo, order, worker, signal, workspace, recipe, told>>
all == <<side, vars, piping, reviewing>>

ExecutionNext ==
  /\ UNCHANGED side
  /\ \/ side = "pause" /\ Next /\ UNCHANGED <<piping, reviewing>>
     \/ side = "pipeline" /\ Piped!Next /\ UNCHANGED <<vars, reviewing>>
     \/ side = "review" /\ Reviewed!Next /\ UNCHANGED <<vars, piping>>

ExecutionSpec == ExecutionInit /\ [][ExecutionNext]_all

(* A pause: the supervising task and the walk go on, and a detachment gets *)
(* the mutex although requests go on.  A pipeline: the loop polls every    *)
(* future, and a tool that is not blocked goes on and ends by itself; no   *)
(* time limit need come.  A review: calls, cancellations and workers go    *)
(* on; the user need not.                                                  *)
Fairness ==
  /\ WF_vars(side = "pause" /\ Supervising)
  /\ WF_vars(side = "pause" /\ Setting)
  /\ SF_vars(side = "pause" /\ Detach)
  /\ WF_piping(side = "pipeline" /\ Piped!Supervise)
  /\ \A s \in Piped!Stage : WF_piping(side = "pipeline" /\ Piped!Work(s))
  /\ \A r \in Review :
       /\ WF_reviewing(side = "review" /\ Reviewed!Proceed(r))
       /\ WF_reviewing(side = "review" /\ Reviewed!Stepping(r))
  /\ WF_reviewing(side = "review" /\ Reviewed!EndOrdinary)

ExecutionFairSpec == ExecutionSpec /\ Fairness

-----------------------------------------------------------------------------
(* A run of two tools that returns has ended them and lost nothing it      *)
(* reports (Pipeline).                                                     *)
ReturnedComplete == Piped!ReturnedComplete

(* No pipe stalls a run of two tools (Pipeline).                           *)
PipelineEnds == side = "pipeline" => Piped!PipelineEnds

(* What was refused or canceled is not gone through with (CommandEdit).    *)
CanceledNeverCompletes == Reviewed!CanceledNeverCompletes

(* An unconfirmed fresh encode leaves no progress (CommandEdit).           *)
UnconfirmedLeavesNothing == Reviewed!UnconfirmedLeavesNothing

(* Confirmations are answered and withdrawn reviews end (CommandEdit).     *)
ReviewSettles == Reviewed!ReviewSettles

(* Backing out restores the confirmed recipe (CommandEdit).                *)
BackingOutRestores == Reviewed!BackingOutRestores
=============================================================================
