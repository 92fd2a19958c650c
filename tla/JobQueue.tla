------------------------------ MODULE JobQueue ------------------------------
(***************************************************************************)
(* What the job queue promises, without workers, history or recovery: jobs *)
(* with distinct destinations wait in order, the first of them may start   *)
(* when nothing else runs, and a job leaves the queue by publishing to a   *)
(* free destination or by giving up.                                       *)
(***************************************************************************)
EXTENDS Naturals

CONSTANTS Job, Dest, DestOf, None

VARIABLES
  place,    \* position of each queued job, 0 for the others
  running,  \* the job that may use the machine
  output    \* whose output stands at each destination

vars == <<place, running, output>>

Queued == {j \in Job : place[j] > 0}

Init ==
  /\ place = [j \in Job |-> 0]
  /\ running = None
  /\ output = [d \in Dest |-> None]

(* Jobs join at the end, in any number, each with a destination of its own. *)
Submit ==
  /\ place' \in [Job -> Nat]
  /\ place' # place
  /\ \A j \in Queued : place'[j] = place[j]
  /\ \A j, k \in Job :
       /\ place[j] = 0 /\ place'[j] > 0 /\ k # j /\ place'[k] > 0
       => /\ DestOf[k] # DestOf[j]
          /\ place'[k] # place'[j]
          /\ k \in Queued => place[k] < place'[j]
  /\ UNCHANGED <<running, output>>

Start(j) ==
  /\ running = None
  /\ j \in Queued
  /\ \A k \in Queued : place[j] <= place[k]
  /\ running' = j
  /\ UNCHANGED <<place, output>>

Publish(j) ==
  /\ running = j
  /\ j \in Queued
  /\ output[DestOf[j]] = None
  /\ output' = [output EXCEPT ![DestOf[j]] = j]
  /\ place' = [place EXCEPT ![j] = 0]
  /\ UNCHANGED running

GiveUp(j) ==
  /\ j \in Queued
  /\ place' = [place EXCEPT ![j] = 0]
  /\ UNCHANGED <<running, output>>

Yield ==
  /\ running # None
  /\ running \notin Queued
  /\ running' = None
  /\ UNCHANGED <<place, output>>

(* The process ends: nothing waits or runs any more, outputs stay. *)
Restart ==
  /\ place' = [j \in Job |-> 0]
  /\ running' = None
  /\ UNCHANGED output

Next ==
  \/ Submit
  \/ \E j \in Job : Start(j) \/ Publish(j) \/ GiveUp(j)
  \/ Yield
  \/ Restart

Spec == Init /\ [][Next]_vars
=============================================================================
