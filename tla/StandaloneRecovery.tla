------------------------- MODULE StandaloneRecovery -------------------------
(***************************************************************************)
(* The recovery workspace of one standalone encoder job                    *)
(* (crates/media-runtime/src/jobs/standalone_recovery.rs) with the attempt *)
(* of encode.rs that fills it, the locator the history keeps, failures and *)
(* cancellations at every step, the end of the process with a restart, and *)
(* other programs that change the source or the workspace between two      *)
(* attempts.                                                               *)
(*                                                                         *)
(* A copied artifact is a numbered file; its content is the version of the *)
(* source it was made from.  A fingerprint matches while nobody edits the  *)
(* file.  The source stands for everything the manifest binds (settings,   *)
(* tools, plan, frame count).  The receipts of pass one are one file in a  *)
(* directory of its own; workspace.lock goes with the directory.  A file   *)
(* that was synced keeps its name over a crash.                            *)
(***************************************************************************)
EXTENDS Naturals, FiniteSets

CONSTANTS
  Encoders,   \* the encoders a job may use
  Source,     \* versions of the source's content
  MaxWrite,   \* bound: copies into the workspace (WRITE_ID)
  MaxRestart  \* bound: restarts

ASSUME RecoveryAssumption ==
  /\ Encoders \subseteq {"svtAv1", "x265", "vpx", "aom", "aomHdr10"}
  /\ Source \cap {"absent", "partial", "emptied", "edited"} = {}
  /\ MaxWrite \in Nat
  /\ MaxRestart \in Nat

VARIABLES
  job,        \* encoder and pass mode
  source,     \* the present version of the source
  root,       \* the workspace directory exists
  manifest,   \* manifest.json
  content,    \* what each copied file holds
  leftover,   \* a manifest.next-* of an interrupted save is left
  foreign,    \* an entry of another program is in the workspace
  at,         \* where the job's attempt, discard or cleanup stands
  mem,        \* Recovery.manifest of the attempt
  seed,       \* Recovery.seed.source of the attempt
  part,       \* the phase being checkpointed
  file,       \* the copy being written
  locator,    \* the phase JobSnapshot.standalone_recovery names
  published,  \* the job has succeeded
  output,     \* ghost: what the published output was made of
  released,   \* ghost: something with a receipt has been removed
  writes,     \* copies so far
  restarts    \* restarts so far

disk    == <<root, manifest, content, leftover, foreign>>
attempt == <<mem, seed, part, file, writes>>
history == <<locator, published, output>>
vars == <<job, source, disk, at, attempt, history, released, restarts>>

-----------------------------------------------------------------------------
(* Phases and manifests. *)

Part == {"stats", "video", "timed", "final"}
Phase == Part \cup {"none"}
File == 1 .. MaxWrite

Rank(p) == CASE p = "none"  -> 0
             [] p = "stats" -> 1
             [] p = "video" -> 2
             [] p = "timed" -> 3
             [] p = "final" -> 4

AtLeast(p, q) == Rank(p) >= Rank(q)

NeedsTimingWrapper == job.encoder \in {"x265", "vpx"} \/ job.encoder = "aomHdr10"

(* The parts an attempt makes, one after the other. *)
Parts == {p \in Part : /\ p = "stats" => job.twoPass
                       /\ p = "timed" => NeedsTimingWrapper}

NoReceipt == [p \in Part |-> 0]
NoManifest == [phase |-> "none", receipt |-> NoReceipt, source |-> "none"]

Receipts(m) == {m.receipt[p] : p \in Part} \ {0}
Present == {f \in File : content[f] # "absent"}
Intact(m) == \A f \in Receipts(m) : content[f] \in Source

Missing(m) == {p \in Parts : ~AtLeast(m.phase, p)}
Due(m, p) == p \in Missing(m) /\ \A q \in Missing(m) : AtLeast(q, p)

-----------------------------------------------------------------------------
(* What the code checks before it trusts or removes a workspace.           *)

(* validate_layout: the receipts fit the phase, nothing foreign is there.  *)
(* A copy or a manifest without receipt is an interrupted write.           *)
ValidLayout(m) ==
  /\ ~foreign
  /\ (m.receipt["stats"] # 0) <=> job.twoPass
  /\ (m.receipt["video"] # 0) <=> AtLeast(m.phase, "video")
  /\ (m.receipt["timed"] # 0) <=> job.encoder \in {"x265", "vpx"} /\ AtLeast(m.phase, "timed")
  /\ (m.receipt["final"] # 0) <=> AtLeast(m.phase, "final")
  /\ job.twoPass => content[m.receipt["stats"]] # "absent"

(* discover_locator, validate_locator. *)
Admitted ==
  /\ manifest.phase # "none"
  /\ AtLeast(manifest.phase, locator)
  /\ ValidLayout(manifest)
  /\ manifest.receipt[manifest.phase] # 0

(* Seeded fault: a changed source is not noticed. *)
SameSourceAssumed == TRUE

SameSource == manifest.source = source

(* Recovery::prepare with a locator. *)
Verified == Admitted /\ SameSource /\ Intact(manifest)

(* Seeded fault: what has no receipt is not looked for. *)
OwnedByReceipt(m) == Intact(m)

(* remove_owned_contents: the workspace holds exactly what the manifest     *)
(* lists, unchanged.                                                       *)
Owned(m) ==
  /\ Intact(m)
  /\ Present = Receipts(m)
  /\ ~leftover
  /\ ~foreign

-----------------------------------------------------------------------------
(* An attempt.                                                             *)

Prepare ==
  /\ at = "new"
  /\ at' = "work"
  /\ seed' = source
  /\ UNCHANGED <<job, source, disk, mem, part, file, writes, history, released, restarts>>

(* resume_job: validated now, executed when its turn comes. *)
Resume ==
  /\ at = "idle" /\ ~published /\ locator # "none"
  /\ Admitted
  /\ at' = "queued"
  /\ UNCHANGED <<job, source, disk, attempt, history, released, restarts>>

Adopt ==
  /\ at = "queued"
  /\ Verified
  /\ at' = "work"
  /\ mem' = manifest
  /\ seed' = source
  /\ locator' = manifest.phase
  /\ UNCHANGED <<job, source, disk, part, file, writes, published, output, released, restarts>>

Refuse ==
  /\ at = "queued"
  /\ ~Verified
  /\ at' = "idle"
  /\ UNCHANGED <<job, source, disk, attempt, history, released, restarts>>

(* The tools have made the next part; ensure_workspace. *)
EnsureWorkspace(p) ==
  /\ at = "work"
  /\ Due(mem, p)
  /\ IF mem.phase = "none"
     THEN /\ ~root
          /\ root' = TRUE
          /\ mem' = [NoManifest EXCEPT !.phase = p, !.source = seed]
     ELSE UNCHANGED <<root, mem>>
  /\ part' = p
  /\ at' = "copy"
  /\ UNCHANGED <<job, source, manifest, content, leftover, foreign, seed, file, writes,
                 history, released, restarts>>

CreateCopy ==
  /\ at = "copy"
  /\ writes < MaxWrite
  /\ writes' = writes + 1
  /\ file' = writes + 1
  /\ content' = [content EXCEPT ![writes + 1] = "partial"]
  /\ at' = "copying"
  /\ UNCHANGED <<job, source, root, manifest, leftover, foreign, mem, seed, part,
                 history, released, restarts>>

(* Synced, and digested again. *)
VerifyCopy ==
  /\ at = "copying"
  /\ content' = [content EXCEPT ![file] = seed]
  /\ at' = "copied"
  /\ UNCHANGED <<job, source, root, manifest, leftover, foreign, attempt, history,
                 released, restarts>>

(* Seeded fault: the receipt is written before the copy is complete. *)
CopyBegun == at \in {"copying", "copied"}

CopyDone == at = "copied"

(* save: the new manifest is written beside the old one. *)
StageManifest ==
  /\ CopyDone
  /\ mem' = [mem EXCEPT !.phase = part, !.receipt[part] = file]
  /\ at' = "staged"
  /\ UNCHANGED <<job, source, disk, seed, part, file, writes, history, released, restarts>>

RenameManifest ==
  /\ at = "staged"
  /\ manifest' = mem
  /\ at' = "saved"
  /\ UNCHANGED <<job, source, root, content, leftover, foreign, attempt, history,
                 released, restarts>>

(* Seeded fault: the snapshot names the phase before the manifest is in place. *)
ManifestStaged == at \in {"staged", "saved"}

ManifestSaved == at = "saved"

(* JobManager::change saves the summary in the history. *)
RecordLocator ==
  /\ ManifestSaved
  /\ locator' = mem.phase
  /\ at' = "work"
  /\ UNCHANGED <<job, source, disk, attempt, published, output, released, restarts>>

Publish ==
  /\ at = "work"
  /\ mem.phase # "none" /\ Missing(mem) = {}
  /\ published' = TRUE
  /\ output' = {content[mem.receipt[p]] : p \in Parts} \cup {seed}
  /\ at' = "cleanup"
  /\ UNCHANGED <<job, source, disk, attempt, locator, released, restarts>>

-----------------------------------------------------------------------------
(* Removal, after publication or on the user's request.                    *)

Cleanup ==
  /\ at = "cleanup"
  /\ Owned(mem)
  /\ at' = "removing"
  /\ UNCHANGED <<job, source, disk, attempt, history, released, restarts>>

Discard ==
  /\ at = "idle" /\ ~published /\ locator # "none"
  /\ Admitted
  /\ Owned(manifest)
  /\ mem' = manifest
  /\ at' = "removing"
  /\ UNCHANGED <<job, source, disk, seed, part, file, writes, history, released, restarts>>

(* The directory of the statistics stays until every file is gone. *)
RemoveArtifact ==
  /\ at = "removing"
  /\ \E f \in File :
       /\ content[f] \notin {"absent", "emptied"}
       /\ content' = [content EXCEPT ![f] = IF f = mem.receipt["stats"] THEN "emptied"
                                                                        ELSE "absent"]
  /\ released' = TRUE
  /\ UNCHANGED <<job, source, root, manifest, leftover, foreign, at, attempt, history,
                 restarts>>

RemoveDirectory ==
  /\ at = "removing"
  /\ \A f \in File : content[f] \in {"absent", "emptied"}
  /\ content' = [f \in File |-> "absent"]
  /\ content' # content
  /\ UNCHANGED <<job, source, root, manifest, leftover, foreign, at, attempt, history,
                 released, restarts>>

(* Seeded fault: the manifest goes first. *)
AnyTime == at = "removing"

ArtifactsGone == at = "removing" /\ Present = {}

ManifestRemoved == NoManifest

RemoveManifest ==
  /\ ArtifactsGone
  /\ manifest' = ManifestRemoved
  /\ at' = "empty"
  /\ UNCHANGED <<job, source, root, content, leftover, foreign, attempt, history,
                 released, restarts>>

RemoveRoot ==
  /\ at = "empty"
  /\ root' = FALSE
  /\ at' = "removed"
  /\ UNCHANGED <<job, source, manifest, content, leftover, foreign, attempt, history,
                 released, restarts>>

ForgetLocator ==
  /\ at = "removed"
  /\ locator' = "none"
  /\ mem' = NoManifest
  /\ at' = "idle"
  /\ UNCHANGED <<job, source, disk, seed, part, file, writes, published, output, released,
                 restarts>>

-----------------------------------------------------------------------------
(* Errors, cancellation and the end of the process.                        *)

Removing == {"removing", "empty", "removed"}
Working  == {"work", "copy", "copying", "copied", "staged", "saved", "cleanup"} \cup Removing

(* A save that was interrupted is there or not, flushed or not. *)
Interrupted ==
  \/ /\ leftover' = (leftover \/ at = "staged")
     /\ UNCHANGED manifest
  \/ /\ at = "staged"
     /\ manifest' = mem
     /\ UNCHANGED leftover

(* A failed step, or the cancellation of the job, ends the attempt; what   *)
(* it was writing stays.  Also a workspace that exists already, and a      *)
(* cleanup that finds more than it owns.                                   *)
GiveUp ==
  /\ at \in Working
  /\ Interrupted
  /\ mem' = NoManifest
  /\ at' = "idle"
  /\ UNCHANGED <<job, source, root, content, foreign, seed, part, file, writes, history,
                 released, restarts>>

Crash ==
  /\ restarts < MaxRestart
  /\ restarts' = restarts + 1
  /\ at # "down"
  /\ Interrupted
  /\ mem' = NoManifest
  /\ at' = "down"
  /\ UNCHANGED <<job, source, root, content, foreign, seed, part, file, writes, history,
                 released>>

(* JobManager::open adopts the phase of a workspace it admits. *)
Restart ==
  /\ at = "down"
  /\ locator' = IF root /\ Admitted THEN manifest.phase ELSE locator
  /\ at' = "idle"
  /\ UNCHANGED <<job, source, disk, attempt, published, output, released, restarts>>

-----------------------------------------------------------------------------
(* Other programs, while no attempt holds its files open.                  *)

Unattended == at \in {"idle", "down", "queued"}

ChangeSource ==
  /\ Unattended
  /\ source' \in Source \ {source}
  /\ UNCHANGED <<job, disk, at, attempt, history, released, restarts>>

EditArtifact ==
  /\ Unattended
  /\ \E f \in File : /\ content[f] \in Source
                     /\ content' = [content EXCEPT ![f] = "edited"]
  /\ UNCHANGED <<job, source, root, manifest, leftover, foreign, at, attempt, history,
                 released, restarts>>

ForeignEntry ==
  /\ Unattended
  /\ root
  /\ foreign' = ~foreign
  /\ UNCHANGED <<job, source, root, manifest, content, leftover, at, attempt, history,
                 released, restarts>>

-----------------------------------------------------------------------------
Init ==
  /\ job \in [encoder : Encoders, twoPass : BOOLEAN]
  /\ source \in Source
  /\ root = FALSE
  /\ manifest = NoManifest
  /\ content = [f \in File |-> "absent"]
  /\ leftover = FALSE
  /\ foreign = FALSE
  /\ at = "new"
  /\ mem = NoManifest
  /\ seed = source
  /\ part = "none"
  /\ file = 0
  /\ locator = "none"
  /\ published = FALSE
  /\ output = {}
  /\ released = FALSE
  /\ writes = 0
  /\ restarts = 0

Attempting ==
  \/ Prepare \/ Resume \/ Adopt \/ Refuse
  \/ \E p \in Part : EnsureWorkspace(p)
  \/ CreateCopy \/ VerifyCopy \/ StageManifest \/ RenameManifest \/ RecordLocator
  \/ Publish

Clearing ==
  \/ Cleanup \/ Discard
  \/ RemoveArtifact \/ RemoveDirectory \/ RemoveManifest \/ RemoveRoot \/ ForgetLocator

Next ==
  \/ Attempting
  \/ Clearing
  \/ GiveUp \/ Crash \/ Restart
  \/ ChangeSource \/ EditArtifact \/ ForeignEntry

Spec == Init /\ [][Next]_vars

-----------------------------------------------------------------------------
(* Properties.                                                             *)

Manifest == [phase : Phase, receipt : [Part -> 0 .. MaxWrite], source : Source \cup {"none"}]

(* Every variable has its type, and only an existing directory holds       *)
(* anything.                                                               *)
TypeOK ==
  /\ job \in [encoder : Encoders, twoPass : BOOLEAN]
  /\ source \in Source /\ seed \in Source
  /\ manifest \in Manifest /\ mem \in Manifest
  /\ content \in [File -> {"absent", "partial", "emptied", "edited"} \cup Source]
  /\ {root, leftover, foreign, published, released} \subseteq BOOLEAN
  /\ at \in {"new", "idle", "down", "queued"} \cup Working
  /\ part \in Phase /\ locator \in Phase
  /\ file \in 0 .. MaxWrite /\ writes \in 0 .. MaxWrite
  /\ output \subseteq Source \cup {"edited"}
  /\ restarts \in 0 .. MaxRestart
  /\ ~root => manifest.phase = "none" /\ Present = {}

(* Nobody else has touched the workspace, and nothing has been removed. *)
Untouched ==
  /\ ~released /\ ~foreign
  /\ "edited" \notin {content[f] : f \in File}

(* "Stop and keep progress": the phase the history names can be resumed    *)
(* from, whatever step an error, a cancellation or a crash interrupted.    *)
SavedProgressUsable ==
  at = "idle" /\ locator # "none" /\ Untouched => Admitted /\ Intact(manifest)

(* What is published was made from one version of the source, in however   *)
(* many attempts, and from nothing another program wrote.                  *)
OutputOfOneSource ==
  published => \E s \in Source : output = {s}

(* A workspace is emptied only if every entry in it has a receipt: what    *)
(* other programs, or interrupted writes, left there is preserved.         *)
NothingElseRemoved ==
  [][(\E f \in Present : content'[f] = "absent") \/ (root /\ ~root')
     => Present \subseteq Receipts(mem) /\ ~leftover /\ ~foreign]_vars

(* A removal that fails leaves the receipt as long as anything it lists:   *)
(* never a partial tree without its manifest.                              *)
ManifestRemovedLast ==
  released /\ manifest.phase = "none" => Present = {}

Promise == INSTANCE SavedProgress WITH
  kept  <- Rank(manifest.phase),
  known <- Rank(locator),
  ended <- published \/ released

(* The workspace and the locator keep the promise of SavedProgress. *)
ImplementsSavedProgress == Promise!Spec
=============================================================================
