------------------------ MODULE MCCompletionMonitor ------------------------
(* Instances of CompletionMonitor for TLC.  Jobs are interchangeable, and  *)
(* so are tickets; symmetry is used by the run that checks no liveness.    *)
EXTENDS CompletionMonitor, TLC

Symmetry == Permutations(Job) \cup Permutations(Ticket)
=============================================================================
