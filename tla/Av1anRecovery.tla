--------------------------- MODULE Av1anRecovery ---------------------------
(***************************************************************************)
(* The workspace of one chunked av1an encode                               *)
(* (crates/media-runtime/src/jobs/av1an/recovery.rs): the attempt that     *)
(* fills it while the engine runs beside it (av1an.rs), the checkpoints    *)
(* that seal completed chunks, the actions on an inactive workspace        *)
(* (recovery_actions.rs: delete chunks, new settings, delete encode), and  *)
(* the end of the process at any step.                                     *)
(*                                                                         *)
(* A file's content is the recipe, source version and settings, it was     *)
(* encoded with; a stamp is the content at the time it was taken.  The     *)
(* queue stands for chunks.json and scenes.json.  The source stands for    *)
(* the tools, external sources and prepared source the manifest binds.     *)
(* New settings follow the rebuild policy (sourceWorkflow = false), and no *)
(* command is edited.  The engine does not outlive the application, and    *)
(* the history is saved with the publication.                              *)
(***************************************************************************)
EXTENDS Naturals, FiniteSets

CONSTANTS
  Chunk,      \* the chunks the engine splits the source into
  Source,     \* versions of the source's content
  Settings,   \* settings a user may ask for
  MaxReset,   \* bound: chunk deletions and new settings
  MaxRestart  \* bound: restarts

(* No setting and no version has the name of a mark. *)
Names ==
  /\ Settings \cap {"none", "keep"} = {}
  /\ Source \cap {"none", "absent", "partial", "edited"} = {}
  /\ Chunk # {}

VARIABLES
  source,     \* the present version of the source
  settings,   \* JobSnapshot.encode_settings in the history
  known,      \* JobSnapshot.recovery names the workspace
  delivered,  \* the job has succeeded
  product,    \* ghost: what the published output was made of
  saved,      \* manifest.json
  chunk,      \* the files of chunks/encode
  queue,      \* chunks.json and scenes.json: the settings they encode with
  done,       \* done.json: the chunks the engine holds for completed
  video,      \* the joined intermediate: the recipes in it, {} while empty
  stage,      \* where the attempt or the action stands
  work,       \* Workspace.manifest of the attempt or action
  draft,      \* the manifest being saved; work when nothing is
  next,       \* the settings a user's reset installs
  stray,      \* a *.next-* file of an interrupted write is left
  lost,       \* ghost: something with a stamp is gone, the manifest still lists it
  resets,     \* resets so far
  restarts    \* restarts so far

engine  == <<chunk, queue, done, video>>
memory  == <<work, draft>>
history == <<settings, known, delivered, product>>
marks   == <<stray, lost>>
bounds  == <<resets, restarts>>
vars == <<source, history, saved, engine, stage, memory, next, marks, bounds>>

-----------------------------------------------------------------------------
(* Files and manifests.                                                    *)

Absent  == [src |-> "absent",  set |-> "absent"]
Partial == [src |-> "partial", set |-> "partial"]
Edited  == [src |-> "edited",  set |-> "edited"]

NoChunks == [c \in Chunk |-> Absent]

NoManifest == [phase |-> "none", settings |-> "none", previous |-> "none", source |-> "none",
               queue |-> "none", completed |-> NoChunks, final |-> {}]

Stamped(m) == {c \in Chunk : m.completed[c] # Absent}

(* load: the manifest is of these settings, or a reset to others had not   *)
(* reached the history.                                                    *)
Loads == saved.phase # "none" /\ settings \in {saved.settings, saved.previous}

(* verify_saved. *)
Unchanged(m) ==
  /\ m.queue # "none" => queue = m.queue
  /\ \A c \in Stamped(m) : chunk[c] = m.completed[c]
  /\ m.final # {} => video = m.final

(* verify_action_tree: a chunk file is known by its number in the sealed   *)
(* queue, and foreign without one; an interrupted write is always foreign. *)
OwnTree(m) == ~stray /\ (m.queue = "none" => chunk = NoChunks)

(* Ghost: a removal of ours took what the manifest lists. *)
Losing == lost' = (lost \/ ~Unchanged(saved)')
Saved == lost' = (lost /\ saved' = saved)

(* OwnedRecovery::open without the source. *)
Opens == Loads /\ Unchanged(saved) /\ OwnTree(saved)

-----------------------------------------------------------------------------
(* An attempt.                                                             *)

(* Recovery::prepare without a locator. *)
Prepare ==
  /\ stage = "new"
  /\ draft' = [NoManifest EXCEPT !.phase = "encoding", !.settings = settings,
                                 !.source = source]
  /\ stage' = "preparing"
  /\ UNCHANGED <<source, history, saved, engine, work, next, marks, bounds>>

(* resume_job: validate_recovery now, prepare when the turn comes. *)
Resume ==
  /\ stage = "idle" /\ known /\ ~delivered
  /\ Opens /\ saved.source = source
  /\ stage' = "queued"
  /\ UNCHANGED <<source, history, saved, engine, memory, next, marks, bounds>>

(* A pending reset is completed for the settings of the history. *)
Adopted == IF saved.previous = "none" THEN saved
           ELSE [saved EXCEPT !.settings = settings, !.previous = "none"]

Adoptable == Opens /\ saved.source = source

(* Recovery::prepare with a locator. *)
Adopt ==
  /\ stage = "queued"
  /\ Adoptable
  /\ work' = saved
  /\ draft' = Adopted
  /\ stage' = "preparing"
  /\ UNCHANGED <<source, history, saved, engine, next, marks, bounds>>

Refuse ==
  /\ stage = "queued"
  /\ ~Adoptable
  /\ stage' = "idle"
  /\ UNCHANGED <<source, history, saved, engine, memory, next, marks, bounds>>

(* Seeded fault: what the engine had noted in an earlier attempt is kept. *)
AllNoted(m) == done

(* sanitize_done: only what the manifest seals is completed. *)
Noted(m) == Stamped(m)

(* The leftovers of the last attempt go before the engine starts again. *)
Sanitize ==
  /\ stage = "preparing"
  /\ IF draft.phase = "finalizing" THEN UNCHANGED engine
     ELSE /\ video' = {}
          /\ IF draft.queue = "none"
             THEN chunk' = NoChunks /\ queue' = "none" /\ done' = {}
             ELSE done' = Noted(draft) /\ UNCHANGED <<chunk, queue>>
  /\ stage' = "sanitized"
  /\ UNCHANGED <<source, history, saved, memory, next, marks, bounds>>

SavePrepared ==
  /\ stage = "sanitized"
  /\ saved' = draft
  /\ work' = draft
  /\ stage' = "prepared"
  /\ UNCHANGED <<source, history, engine, draft, next, marks, bounds>>

(* encode: the snapshot names the workspace. *)
RecordPrepared ==
  /\ stage = "prepared"
  /\ known' = TRUE
  /\ stage' = IF work.phase = "finalizing" THEN "final" ELSE "launching"
  /\ UNCHANGED <<source, settings, delivered, product, saved, engine, memory, next, marks,
                 bounds>>

-----------------------------------------------------------------------------
(* The engine (external): it plans the queue unless it resumes one, writes *)
(* each chunk that is not noted, notes it, and joins them.                 *)

Launch ==
  /\ stage = "launching"
  /\ IF work.queue = "none" THEN queue' = work.settings /\ done' = {}
                            ELSE UNCHANGED <<queue, done>>
  /\ stage' = "running"
  /\ UNCHANGED <<source, history, saved, chunk, video, memory, next, marks, bounds>>

StartChunk(c) ==
  /\ stage = "running"
  /\ c \notin done /\ chunk[c] # Partial
  /\ chunk' = [chunk EXCEPT ![c] = Partial]
  /\ UNCHANGED <<source, history, saved, queue, done, video, stage, memory, next, marks,
                 bounds>>

FinishChunk(c) ==
  /\ stage = "running"
  /\ chunk[c] = Partial
  /\ chunk' = [chunk EXCEPT ![c] = [src |-> source, set |-> queue]]
  /\ done' = done \cup {c}
  /\ UNCHANGED <<source, history, saved, queue, video, stage, memory, next, marks, bounds>>

Join ==
  /\ stage = "running"
  /\ done = Chunk
  /\ video' = {chunk[c] : c \in Chunk}
  /\ stage' = "joined"
  /\ UNCHANGED <<source, history, saved, chunk, queue, done, memory, next, marks, bounds>>

(* It fails, or is stopped with the job. *)
StopEngine ==
  /\ stage = "running"
  /\ stage' = "stopped"
  /\ UNCHANGED <<source, history, saved, engine, memory, next, marks, bounds>>

-----------------------------------------------------------------------------
(* Checkpoints: every second beside the engine, and once after its end.    *)

(* Seeded fault: a chunk is sealed when its file is there. *)
Written == {c \in Chunk : chunk[c] # Absent}

Completed == done

(* checkpoint_candidate. *)
Candidate ==
  [work EXCEPT !.queue = queue,
               !.completed = [c \in Chunk |->
                  IF c \in Completed \ Stamped(work) THEN chunk[c] ELSE work.completed[c]]]

Checkpoint ==
  /\ stage \in {"running", "joined", "stopped"}
  /\ draft = work
  /\ draft' = Candidate /\ draft' # work
  /\ UNCHANGED <<source, history, saved, engine, stage, work, next, marks, bounds>>

(* transaction: the manifest is renamed into place. *)
Commit ==
  /\ stage \in {"running", "joined", "stopped", "finishing"}
  /\ draft # work
  /\ saved' = draft
  /\ work' = draft
  /\ stage' = IF stage = "finishing" THEN "final" ELSE stage
  /\ UNCHANGED <<source, history, engine, draft, next, marks, bounds>>

(* A save that fails, before or after the rename, never advances the       *)
(* memory.  The periodic checkpoint goes on without it.                    *)
FailCheckpoint ==
  /\ stage = "running"
  /\ draft # work
  /\ saved' \in {saved, draft}
  /\ draft' = work
  /\ UNCHANGED <<source, history, engine, stage, work, next, marks, bounds>>

(* Recovery::finalizing, once everything is sealed. *)
Finalize ==
  /\ stage = "joined"
  /\ draft = work /\ Candidate = work
  /\ draft' = [work EXCEPT !.phase = "finalizing", !.final = video]
  /\ stage' = "finishing"
  /\ UNCHANGED <<source, history, saved, engine, work, next, marks, bounds>>

Publish ==
  /\ stage = "final"
  /\ delivered' = TRUE
  /\ product' = video
  /\ stage' = "removing"
  /\ UNCHANGED <<source, settings, known, saved, engine, memory, next, marks, bounds>>

-----------------------------------------------------------------------------
(* Actions on an inactive workspace.                                       *)

(* Delete Encode and Discard; also the cleanup after Publish. *)
DeleteEncode ==
  /\ stage = "idle" /\ known /\ ~delivered
  /\ Opens
  /\ work' = saved
  /\ draft' = saved
  /\ stage' = "removing"
  /\ UNCHANGED <<source, history, saved, engine, next, marks, bounds>>

(* remove_workspace_tree: the manifest goes last. *)
RemoveEntry ==
  /\ stage = "removing"
  /\ \/ \E c \in Chunk : /\ chunk[c] # Absent
                         /\ chunk' = [chunk EXCEPT ![c] = Absent]
                         /\ UNCHANGED <<queue, done, video>>
     \/ queue # "none" /\ queue' = "none" /\ done' = {} /\ UNCHANGED <<chunk, video>>
     \/ video # {} /\ video' = {} /\ UNCHANGED <<chunk, queue, done>>
  /\ UNCHANGED saved /\ Losing
  /\ UNCHANGED <<source, history, stage, memory, next, stray, bounds>>

RemoveManifest ==
  /\ stage = "removing"
  /\ chunk = NoChunks /\ queue = "none" /\ video = {}
  /\ saved' = NoManifest
  /\ stage' = "removed"
  /\ UNCHANGED <<source, history, engine, memory, next, marks, bounds>>

ForgetWorkspace ==
  /\ stage = "removed"
  /\ known' = FALSE
  /\ work' = NoManifest
  /\ draft' = NoManifest
  /\ stage' = "idle"
  /\ UNCHANGED <<source, settings, delivered, product, saved, engine, next, marks, bounds>>

(* Delete Chunks (s = "keep") and New Settings, which needs the source. *)
BeginReset(s) ==
  /\ stage = "idle" /\ known /\ ~delivered
  /\ resets < MaxReset
  /\ Opens /\ (s # "keep" => saved.source = source)
  /\ resets' = resets + 1
  /\ next' = s
  /\ work' = saved
  /\ draft' = saved
  /\ stage' = "clearing"
  /\ UNCHANGED <<source, history, saved, engine, marks, restarts>>

(* reset_chunks. *)
ClearChunk ==
  /\ stage = "clearing"
  /\ \E c \in Chunk : /\ chunk[c] # Absent
                      /\ chunk' = [chunk EXCEPT ![c] = Absent]
  /\ UNCHANGED <<saved, queue, video>> /\ Losing
  /\ UNCHANGED <<source, history, done, stage, memory, next, stray, bounds>>

ClearProgress ==
  /\ stage = "clearing"
  /\ chunk = NoChunks
  /\ video' = {}
  /\ done' = {}
  /\ draft' = [work EXCEPT !.completed = NoChunks, !.phase = "encoding", !.final = {}]
  /\ stage' = "cleared"
  /\ UNCHANGED <<saved, chunk, queue>> /\ Losing
  /\ UNCHANGED <<source, history, work, next, stray, bounds>>

SaveCleared ==
  /\ stage = "cleared"
  /\ saved' = draft
  /\ work' = draft
  /\ Saved
  /\ stage' = IF next = "keep" THEN "renewed" ELSE "replanning"
  /\ UNCHANGED <<source, history, engine, draft, next, stray, bounds>>

(* new_settings: the old plan goes, and the manifest notes both settings.  *)
DropPlan ==
  /\ stage = "replanning"
  /\ queue' = "none"
  /\ draft' = [work EXCEPT !.settings = next, !.queue = "none",
                           !.previous = IF @ = "none" THEN work.settings ELSE @]
  /\ stage' = "replanned"
  /\ UNCHANGED <<saved, chunk, video>> /\ Losing
  /\ UNCHANGED <<source, history, done, work, next, stray, bounds>>

SaveReplanned ==
  /\ stage = "replanned"
  /\ saved' = draft
  /\ work' = draft
  /\ Saved
  /\ stage' = "renewed"
  /\ UNCHANGED <<source, history, engine, draft, next, stray, bounds>>

(* JobManager::persist. *)
PersistRenewed ==
  /\ stage = "renewed"
  /\ settings' = IF next = "keep" THEN settings ELSE next
  /\ work' = NoManifest
  /\ draft' = NoManifest
  /\ stage' = "idle"
  /\ UNCHANGED <<source, known, delivered, product, saved, engine, next, marks, bounds>>

-----------------------------------------------------------------------------
(* Errors, cancellation and the end of the process.                        *)

Unattended == stage \in {"new", "idle", "down", "queued"}

(* atomic is writing the manifest, and done.json. *)
Saving == (stage # "preparing" /\ draft # work) \/ stage = "sanitized"
Noting == \/ stage = "preparing" /\ draft.queue # "none" /\ draft.phase = "encoding"
          \/ stage = "clearing" /\ chunk = NoChunks

Forget == work' = NoManifest /\ draft' = NoManifest

(* A failed step or the cancellation of the job: what was being saved is   *)
(* there or not.  Nothing fails between a save and the change of the       *)
(* snapshot.                                                               *)
GiveUp ==
  /\ ~Unattended /\ stage \notin {"prepared", "removed", "renewed"}
  /\ saved' \in {saved} \cup IF Saving THEN {draft} ELSE {}
  /\ Saved /\ Forget
  /\ stage' = "idle"
  /\ UNCHANGED <<source, history, engine, next, stray, bounds>>

(* The write in progress is seen under its temporary name. *)
Stranded == Saving \/ Noting

(* The end of the process. *)
Crash ==
  /\ restarts < MaxRestart
  /\ stage # "down"
  /\ restarts' = restarts + 1
  /\ \/ saved' = saved /\ stray' \in {stray, stray \/ Stranded}
     \/ Saving /\ saved' = draft /\ UNCHANGED stray
  /\ Saved /\ Forget
  /\ stage' = "down"
  /\ UNCHANGED <<source, history, engine, next, resets>>

Restart ==
  /\ stage = "down"
  /\ stage' = "idle"
  /\ UNCHANGED <<source, history, saved, engine, memory, next, marks, bounds>>

-----------------------------------------------------------------------------
(* Other programs, while no attempt or action holds the files.             *)

ChangeSource ==
  /\ Unattended
  /\ source' \in Source \ {source}
  /\ UNCHANGED <<history, saved, engine, stage, memory, next, marks, bounds>>

EditChunk(c) ==
  /\ Unattended
  /\ chunk[c] \notin {Absent, Edited}
  /\ chunk' = [chunk EXCEPT ![c] = Edited]
  /\ UNCHANGED <<source, history, saved, queue, done, video, stage, memory, next, marks,
                 bounds>>

-----------------------------------------------------------------------------
Init ==
  /\ source \in Source
  /\ settings \in Settings
  /\ known = FALSE
  /\ delivered = FALSE
  /\ product = {}
  /\ saved = NoManifest
  /\ chunk = NoChunks
  /\ queue = "none"
  /\ done = {}
  /\ video = {}
  /\ stage = "new"
  /\ work = NoManifest
  /\ draft = NoManifest
  /\ next = "none"
  /\ stray = FALSE
  /\ lost = FALSE
  /\ resets = 0
  /\ restarts = 0

Preparing == Prepare \/ Resume \/ Adopt \/ Refuse \/ Sanitize \/ SavePrepared \/ RecordPrepared

Encoding ==
  \/ Launch \/ Join \/ StopEngine
  \/ \E c \in Chunk : StartChunk(c) \/ FinishChunk(c)

Sealing == Checkpoint \/ Commit \/ FailCheckpoint \/ Finalize \/ Publish

Removing == DeleteEncode \/ RemoveEntry \/ RemoveManifest \/ ForgetWorkspace

Resetting ==
  \/ \E s \in Settings \cup {"keep"} : BeginReset(s)
  \/ ClearChunk \/ ClearProgress \/ SaveCleared
  \/ DropPlan \/ SaveReplanned \/ PersistRenewed

Next ==
  \/ Preparing \/ Encoding \/ Sealing \/ Removing \/ Resetting
  \/ GiveUp \/ Crash \/ Restart
  \/ ChangeSource
  \/ \E c \in Chunk : EditChunk(c)

Spec == Init /\ [][Next]_vars

-----------------------------------------------------------------------------
(* Properties.                                                             *)

Recipe == [src : Source, set : Settings]

(* What is published was encoded from one version of the source with the   *)
(* settings the history shows: no chunk of an earlier source or of earlier *)
(* settings, and none another program has changed, whatever was resumed,   *)
(* reset or interrupted before.                                            *)
OneRecipe ==
  delivered => \E r \in Recipe : r.set = settings /\ product = {r}

(* "Stop and keep progress": once a checkpoint has sealed the queue, the   *)
(* workspace can be opened again (resumed, reset or discarded) whatever    *)
(* step was interrupted, unless another program has changed a chunk, a     *)
(* removal was cut short, or a write was.                                  *)
Untouched == ~lost /\ Edited \notin {chunk[c] : c \in Chunk}

KeptChunksUsable ==
  stage = "idle" /\ known /\ saved.queue # "none" /\ Untouched /\ ~stray => Opens

(* "A crash before this point reuses only prior receipts." (av1an.rs)      *)
PriorReceiptsReused ==
  stage = "idle" /\ known /\ saved.queue # "none" /\ Untouched => Opens
=============================================================================
