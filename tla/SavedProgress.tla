--------------------------- MODULE SavedProgress ---------------------------
(***************************************************************************)
(* What a job's saved progress promises, without files or crashes: the     *)
(* phase kept on disk only grows until the job is published or its         *)
(* progress is discarded, and the history never names a phase that is not  *)
(* kept.                                                                   *)
(***************************************************************************)
EXTENDS Naturals

VARIABLES
  kept,   \* rank of the phase a restart would find, 0 for none
  known,  \* rank of the phase the history names
  ended   \* the output stands, or a discard has removed something

vars == <<kept, known, ended>>

Init == kept = 0 /\ known = 0 /\ ended = FALSE

Keep ==
  /\ ~ended
  /\ kept' \in Nat /\ kept' > kept
  /\ UNCHANGED <<known, ended>>

Learn ==
  /\ kept > known
  /\ known' = kept
  /\ UNCHANGED <<kept, ended>>

End == ended' = TRUE /\ UNCHANGED <<kept, known>>

Drop ==
  /\ ended
  /\ kept' = 0
  /\ UNCHANGED <<known, ended>>

Forget ==
  /\ ended
  /\ kept = 0
  /\ known' = 0
  /\ UNCHANGED <<kept, ended>>

Next == Keep \/ Learn \/ End \/ Drop \/ Forget

Spec == Init /\ [][Next]_vars
=============================================================================
