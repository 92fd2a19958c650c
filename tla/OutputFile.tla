----------------------------- MODULE OutputFile -----------------------------
(***************************************************************************)
(* What becomes of the verified file of an operation                       *)
(* (crates/media-runtime/src/jobs/files.rs, files/replace.rs): it is       *)
(* linked to a destination that has to be free, or, by the in-place        *)
(* metadata transfer of utilities/color_transfer.rs, exchanged with the    *)
(* file of the user it replaces.  Other programs move files to and from    *)
(* that path at any time, and the machine may stop at any step.            *)
(*                                                                         *)
(* The steps are those of Unix.  Nobody else knows the hidden name of the  *)
(* temporary file.  Changes of names reach the disk in their order.        *)
(***************************************************************************)
EXTENDS Naturals, FiniteSets

CONSTANT Others  \* files of other programs

(* What the name of a file may not be; assumed where it is instantiated. *)
Foreign == Others \cap {"none", "made", "original"} = {}

VARIABLES
  inPlace,   \* request.in_place
  names,     \* the files at the destination, at the hidden name, and elsewhere
  survivors, \* what names may be after the machine stops
  flushed,   \* the bytes of the made file are on disk
  whole,     \* the made file is complete
  edited,    \* the fingerprint of the original has changed
  canceled,  \* the cancel channel
  step       \* where the operation stands

vars == <<inPlace, names, survivors, flushed, whole, edited, canceled, step>>

Files(n) == {n.target, n.temporary} \cup n.elsewhere

(* A change of names is seen at once and reaches the disk later. *)
Rename(n) == names' = n /\ survivors' = survivors \cup {n}

(* Source::verify, of the original as it was opened. *)
Agrees == ~edited /\ (inPlace => names.target = "original")

(* Seeded fault: what is at the hidden name is taken for the made file. *)
AnyTemporary == names.temporary # "none"

(* Temporary::verify_identity, at the hidden name. *)
OwnTemporary == names.temporary = "made"

-----------------------------------------------------------------------------
(* The operation.                                                          *)

(* Who publishes has looked at the cancellation before (JobManager). *)
Flush ==
  /\ step = "start"
  /\ inPlace => ~canceled
  /\ Agrees /\ OwnTemporary
  /\ flushed' = TRUE
  /\ step' = "flushed"
  /\ UNCHANGED <<inPlace, names, survivors, whole, edited, canceled>>

(* Temporary::publish: a link never replaces. *)
Publish ==
  /\ step = "flushed" /\ ~inPlace
  /\ OwnTemporary
  /\ names.target = "none"
  /\ Rename([names EXCEPT !.target = "made"])
  /\ step' = "published"
  /\ UNCHANGED <<inPlace, flushed, whole, edited, canceled>>

Cleanup ==
  /\ step = "published"
  /\ OwnTemporary
  /\ Rename([names EXCEPT !.temporary = "none"])
  /\ step' = "done"
  /\ UNCHANGED <<inPlace, flushed, whole, edited, canceled>>

(* The last look at the cancellation and the original. *)
Recheck ==
  /\ step = "flushed" /\ inPlace
  /\ ~canceled /\ Agrees
  /\ step' = "ready"
  /\ UNCHANGED <<inPlace, names, survivors, flushed, whole, edited, canceled>>

Swapped == [names EXCEPT !.target = names.temporary, !.temporary = names.target]

Exchange ==
  /\ step = "ready"
  /\ names.target # "none"
  /\ Rename(Swapped)
  /\ step' = "exchanged"
  /\ UNCHANGED <<inPlace, flushed, whole, edited, canceled>>

(* verify_identity at the target, source_at the hidden name. *)
Replaced == names.target = "made" /\ names.temporary = "original" /\ ~edited

Inspect ==
  /\ step = "exchanged"
  /\ step' = IF Replaced THEN "inspected" ELSE "doubted"
  /\ UNCHANGED <<inPlace, names, survivors, flushed, whole, edited, canceled>>

(* Seeded fault: the directory is not synced. *)
Anything == survivors

OnlyThis == {names}

SyncDirectory ==
  /\ step = "inspected"
  /\ \/ survivors' = OnlyThis /\ step' = "synced"
     \/ step' = "doubted" /\ UNCHANGED survivors
  /\ UNCHANGED <<inPlace, names, flushed, whole, edited, canceled>>

(* The displaced file goes back only while the made one is at the target.  *)
Reexamine ==
  /\ step = "doubted"
  /\ step' = IF names.target = "made" THEN "restoring" ELSE "retained"
  /\ UNCHANGED <<inPlace, names, survivors, flushed, whole, edited, canceled>>

RollBack ==
  /\ step = "restoring"
  /\ names.target # "none"
  /\ Rename(Swapped)
  /\ step' = "restored"
  /\ UNCHANGED <<inPlace, flushed, whole, edited, canceled>>

RemoveMade ==
  /\ step = "restored"
  /\ OwnTemporary
  /\ Rename([names EXCEPT !.temporary = "none"])
  /\ step' = "refused"
  /\ UNCHANGED <<inPlace, flushed, whole, edited, canceled>>

(* The second source_at. *)
Approve ==
  /\ step = "synced"
  /\ names.temporary = "original" /\ ~edited
  /\ step' = "approved"
  /\ UNCHANGED <<inPlace, names, survivors, flushed, whole, edited, canceled>>

RemoveBackup ==
  /\ step = "approved"
  /\ Rename([names EXCEPT !.temporary = "none"])
  /\ step' = "done"
  /\ UNCHANGED <<inPlace, flushed, whole, edited, canceled>>

(* An error before the commit: the drop of the temporary file removes it.  *)
Abandon ==
  /\ step \in {"start", "flushed", "ready"}
  /\ IF OwnTemporary THEN Rename([names EXCEPT !.temporary = "none"])
                     ELSE UNCHANGED <<names, survivors>>
  /\ step' = "refused"
  /\ UNCHANGED <<inPlace, flushed, whole, edited, canceled>>

(* An error after it: everything stays where it is. *)
Retain ==
  /\ step \in {"published", "restoring", "restored", "synced", "approved"}
  /\ step' = "retained"
  /\ UNCHANGED <<inPlace, names, survivors, flushed, whole, edited, canceled>>

-----------------------------------------------------------------------------
(* Other programs, the user, and the machine.                              *)

Cancel ==
  /\ canceled' = TRUE
  /\ UNCHANGED <<inPlace, names, survivors, flushed, whole, edited, step>>

MoveAway ==
  /\ names.target # "none"
  /\ Rename([names EXCEPT !.target = "none", !.elsewhere = @ \cup {names.target}])
  /\ UNCHANGED <<inPlace, flushed, whole, edited, canceled, step>>

(* What it replaces is theirs to keep. *)
Place(f) ==
  /\ f \in names.elsewhere
  /\ Rename([names EXCEPT !.target = f,
                          !.elsewhere = (@ \ {f}) \cup ({names.target} \ {"none"})])
  /\ UNCHANGED <<inPlace, flushed, whole, edited, canceled, step>>

EditOriginal ==
  /\ edited' = TRUE
  /\ UNCHANGED <<inPlace, names, survivors, flushed, whole, canceled, step>>

Stop ==
  /\ step # "down"
  /\ names' \in survivors
  /\ survivors' = {names'}
  /\ whole' = flushed
  /\ step' = "down"
  /\ UNCHANGED <<inPlace, flushed, edited, canceled>>

-----------------------------------------------------------------------------
Init ==
  /\ inPlace \in BOOLEAN
  /\ names = IF inPlace
             THEN [target |-> "original", temporary |-> "made", elsewhere |-> Others]
             ELSE [target |-> "none", temporary |-> "made", elsewhere |-> Others \cup {"original"}]
  /\ survivors = {names}
  /\ flushed = FALSE
  /\ whole = TRUE
  /\ edited = FALSE
  /\ canceled = FALSE
  /\ step = "start"

Committing ==
  \/ Flush \/ Publish \/ Cleanup
  \/ Recheck \/ Exchange \/ Inspect \/ SyncDirectory \/ Approve \/ RemoveBackup
  \/ Reexamine \/ RollBack \/ RemoveMade
  \/ Abandon \/ Retain

Next ==
  \/ Committing
  \/ Cancel \/ MoveAway \/ EditOriginal \/ Stop
  \/ \E f \in names.elsewhere : Place(f)

Spec == Init /\ [][Next]_vars

-----------------------------------------------------------------------------
(* Properties.                                                             *)

(* "A competing path replacement is never authority to delete its          *)
(* displaced file": no file of another program is removed, whatever it     *)
(* was moved over.  The original is removed only when a complete new file  *)
(* has its place, and nothing incomplete is ever seen there, also when     *)
(* the machine stops.                                                      *)
NothingLost ==
  /\ Others \subseteq Files(names)
  /\ "original" \in Files(names) \/ "made" \in Files(names)
  /\ names.target = "made" => whole

(* An answer stays true.  A refusal means that the made file is gone, and  *)
(* with it the replacement.  After a reported replacement the machine may  *)
(* stop: the original does not come back to its place.                     *)
AnswersHold ==
  [][/\ step' = "refused" => "made" \notin Files(names')
     /\ step = "done" /\ inPlace => names'.target # "original"]_vars
=============================================================================
