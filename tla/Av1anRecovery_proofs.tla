----------------------- MODULE Av1anRecovery_proofs -----------------------
(***************************************************************************)
(* Proofs about the chunked workspace.  WorkInv is inductive: the shape of *)
(* every manifest (Shape), what the manifest in place says of the files    *)
(* (OnDisk), what an attempt (InAttempt) and a reset (InReset) know while  *)
(* nobody else touches the workspace, that nothing is in hand otherwise    *)
(* (InHand), and what was published (Published).                           *)
(***************************************************************************)
EXTENDS Av1anRecovery, TLAPS

Content == Recipe \cup {Absent, Partial, Edited}
Named == Settings \cup {"none"}

Manifest == [phase : {"none", "encoding", "finalizing"}, settings : Named, previous : Named,
             source : Source \cup {"none"}, queue : Named,
             completed : [Chunk -> Recipe \cup {Absent}], final : SUBSET Recipe]

Preparation == {"preparing", "sanitized", "prepared", "launching"}
Engine      == {"running", "joined", "stopped"}
Attempt     == Preparation \cup Engine \cup {"finishing", "final"}
Reset       == {"clearing", "cleared", "replanning", "replanned", "renewed"}
Removal     == {"removing", "removed"}
Idle        == {"new", "idle", "down", "queued"}

TypeOK ==
  /\ source \in Source /\ settings \in Settings
  /\ {known, delivered, stray, lost} \subseteq BOOLEAN
  /\ {saved, work, draft} \subseteq Manifest
  /\ chunk \in [Chunk -> Content]
  /\ queue \in Named
  /\ done \subseteq Chunk
  /\ video \subseteq Content
  /\ stage \in Idle \cup Attempt \cup Reset \cup Removal
  /\ next \in Settings \cup {"none", "keep"}

(* A sealed queue has the settings of its manifest and of the history, and *)
(* everything sealed has the recipe of that queue.                         *)
Own(m) == [src |-> m.source, set |-> m.queue]

Shape(m) ==
  /\ m.phase = "none" => m = NoManifest
  /\ m.queue = "none" => m.completed = NoChunks /\ m.final = {}
  /\ m.queue # "none" => m.previous = "none" /\ m.queue = m.settings
  /\ \A c \in Chunk : m.completed[c] \in {Absent, Own(m)}
  /\ m.final \in {{}, {Own(m)}}
  /\ m.phase = "finalizing" <=> m.final # {}

Shapes == Shape(saved) /\ Shape(work) /\ Shape(draft)

OnDisk ==
  saved.queue # "none" =>
    /\ saved.settings = settings
    /\ ~lost => /\ queue = saved.queue
                /\ \A c \in Stamped(saved) : chunk[c] \in {saved.completed[c], Edited}
                /\ saved.final # {} => video = saved.final

Recorded(m) == m.phase # "none" /\ m.previous = "none" /\ m.settings = settings /\ m.source = source

Known == [src |-> source, set |-> queue]

InAttempt ==
  stage \in Attempt =>
    /\ Unchanged(saved) /\ Unchanged(work) /\ Unchanged(draft)
    /\ Recorded(draft)
    /\ stage \notin {"preparing", "sanitized"} => Recorded(work)
    /\ stage = "preparing" => draft.queue = saved.queue /\ draft.final = saved.final
    /\ stage \in {"preparing", "sanitized"} => work \in {saved, NoManifest}
    /\ stage \in {"sanitized", "prepared", "launching"} /\ draft.phase = "encoding"
         /\ draft.queue # "none" => done = Stamped(draft)
    /\ stage \in {"prepared", "launching", "final"} => draft = work /\ work = saved
    /\ stage \in {"launching"} \cup Engine =>
         saved.phase = "encoding" /\ work.phase = "encoding" /\ draft.phase = "encoding"
    /\ stage = "final" => draft.phase = "finalizing"
    /\ stage \in Engine \cup {"finishing"} =>
         /\ queue = settings
         /\ \A c \in done : chunk[c] = Known
         /\ Stamped(saved) \subseteq done /\ Stamped(work) \subseteq done
         /\ Stamped(draft) \subseteq done
    /\ stage \in {"joined", "finishing"} => video = {Known}
    /\ stage = "finishing" => work.phase = "encoding" /\ draft.phase = "finalizing"

InReset ==
  stage \in Reset =>
    /\ stage # "replanned" /\ stage # "cleared" => draft = work
    /\ work = saved /\ next # "none"
    /\ saved.phase # "none" /\ draft.phase # "none"
    /\ saved.queue # "none" => stage = "replanned" \/ queue = saved.queue
    /\ stage \in {"cleared", "replanning", "replanned"} => draft.completed = NoChunks /\ draft.final = {}
    /\ stage = "cleared" => draft.queue = saved.queue /\ draft.settings = saved.settings
    /\ stage = "replanned" => draft.queue = "none"
    /\ stage = "renewed" /\ next # "keep" => saved.queue = "none"
    /\ stage \in {"replanning", "replanned"} => next # "keep"

InHand ==
  /\ stage \in Idle => work = NoManifest /\ draft = NoManifest
  /\ stage \in Removal => draft = work
  /\ stage = "new" => saved = NoManifest

Published ==
  /\ delivered => stage \in {"idle", "down"} \cup Removal
  /\ OneRecipe

WorkInv == TypeOK /\ Shapes /\ OnDisk /\ InAttempt /\ InReset /\ InHand /\ Published

(* No recipe is a mark. *)
LEMMA Marks ==
  ASSUME Names
  PROVE  /\ Absent \notin Recipe /\ Partial \notin Recipe /\ Edited \notin Recipe
         /\ Absent # Partial /\ Absent # Edited /\ Partial # Edited
         /\ NoManifest \in Manifest /\ Shape(NoManifest)
  BY DEF Names, Recipe, Absent, Partial, Edited, NoManifest, NoChunks, Manifest, Named, Shape

(* What is being saved is true of the files. *)
LEMMA DraftFits ==
  ASSUME Names, WorkInv, Saving, draft.queue # "none"
  PROVE  /\ draft.settings = settings /\ queue = draft.queue
         /\ \A c \in Stamped(draft) : chunk[c] = draft.completed[c]
         /\ draft.final # {} => video = draft.final
<1>1. CASE stage \in Attempt
  BY <1>1 DEF WorkInv, InAttempt, Unchanged, Recorded
<1>2. CASE stage \in Reset
  <2>1. stage = "cleared"
    BY <1>2 DEF WorkInv, InReset, Saving, Reset
  <2>2. draft.queue = saved.queue /\ draft.settings = saved.settings /\ queue = saved.queue
    BY <2>1 DEF WorkInv, InReset, Reset
  <2>3. Stamped(draft) = {} /\ draft.final = {}
    BY <2>1 DEF WorkInv, InReset, Reset, Stamped, NoChunks
  <2> QED
    BY <2>2, <2>3 DEF WorkInv, OnDisk
<1>3. CASE stage \in Idle \cup Removal
  BY <1>3 DEF WorkInv, InHand, Saving, Idle, Removal
<1> QED
  BY <1>1, <1>2, <1>3 DEF WorkInv, TypeOK


(* Types. *)
LEMMA TypeNext ==
  ASSUME Names, WorkInv, Next
  PROVE  TypeOK'
<1>1. CASE Prepare
  <2>1. draft' = [phase |-> "encoding", settings |-> settings, previous |-> "none",
                  source |-> source, queue |-> "none", completed |-> NoChunks, final |-> {}]
    BY <1>1 DEF Prepare, NoManifest
  <2>2. NoChunks \in [Chunk -> Recipe \cup {Absent}]
    BY DEF NoChunks
  <2>3. draft' \in Manifest
    BY <2>1, <2>2 DEF WorkInv, TypeOK, Manifest, Named
  <2> QED
    BY <1>1, <2>3, Marks DEF Prepare, WorkInv, TypeOK, Content, Named, Idle, Attempt,
       Preparation, Engine, Reset, Removal, history, engine, memory, marks, bounds
<1>2. CASE Resume
  BY <1>2, Marks DEF WorkInv, TypeOK, NoChunks, Names, Idle, Resume, history, engine, memory,
     marks
<1>3. CASE Adopt
  <2>1. saved \in Manifest /\ settings \in Settings
    BY DEF WorkInv, TypeOK
  <2>2. Adopted \in Manifest
    BY <2>1 DEF Adopted, Manifest, Named
  <2>3. draft' \in Manifest /\ work' \in Manifest
    BY <1>3, <2>1, <2>2 DEF Adopt
  <2> QED
    BY <1>3, <2>3, Marks DEF Adopt, WorkInv, TypeOK, Content, Named, Idle, Attempt,
       Preparation, Engine, Reset, Removal, history, engine, memory, marks, bounds
<1>4. CASE Refuse
  BY <1>4, Marks DEF WorkInv, TypeOK, NoChunks, Names, Idle, Refuse, history, engine, memory,
     marks
<1>5. CASE Sanitize
  BY <1>5, Marks DEF WorkInv, TypeOK, Content, Named, NoChunks, Names, Attempt, Preparation,
     Sanitize, Noted, history, engine, memory, marks, Stamped
<1>6. CASE SavePrepared
  BY <1>6, Marks DEF WorkInv, TypeOK, NoChunks, Names, Attempt, Preparation, SavePrepared,
     history, engine, marks
<1>7. CASE RecordPrepared
  BY <1>7, Marks DEF WorkInv, TypeOK, NoChunks, Names, Attempt, Preparation, RecordPrepared,
     engine, memory, marks
<1>8. CASE Launch
  BY <1>8, Marks DEF WorkInv, TypeOK, Manifest, NoChunks, Names, Attempt, Engine, Launch,
     history, memory, marks
<1>9. ASSUME NEW c \in Chunk, StartChunk(c) PROVE TypeOK'
  BY <1>9, Marks DEF WorkInv, TypeOK, Content, NoChunks, Names, StartChunk, history, memory,
     marks
<1>10. ASSUME NEW c \in Chunk, FinishChunk(c) PROVE TypeOK'
  BY <1>10, Marks DEF WorkInv, TypeOK, Content, NoChunks, Recipe, Names, Attempt, Engine,
     FinishChunk, history, memory, marks, InAttempt
<1>11. CASE Join
  BY <1>11, Marks DEF WorkInv, TypeOK, NoChunks, Names, Attempt, Engine, Join, history, memory,
     marks
<1>12. CASE StopEngine
  BY <1>12, Marks DEF WorkInv, TypeOK, NoChunks, Names, Attempt, Engine, StopEngine, history,
     engine, memory, marks
<1>13. CASE Checkpoint
  <2>1. work \in Manifest /\ queue \in Named /\ stage \in Engine
    BY <1>13 DEF WorkInv, TypeOK, Checkpoint, Engine
  <2>2. \A c \in done : chunk[c] \in Recipe
    BY <2>1 DEF WorkInv, TypeOK, InAttempt, Attempt, Engine, Known, Recipe
  <2>3. [c \in Chunk |-> IF c \in Completed \ Stamped(work) THEN chunk[c] ELSE work.completed[c]]
           \in [Chunk -> Recipe \cup {Absent}]
    BY <2>1, <2>2 DEF Manifest, Completed
  <2>4. draft' \in Manifest
    BY <1>13, <2>1, <2>3 DEF Checkpoint, Candidate, Manifest
  <2> QED
    BY <1>13, <2>4, Marks DEF Checkpoint, WorkInv, TypeOK, Content, Named, Idle, Attempt,
       Preparation, Engine, Reset, Removal, history, engine, memory, marks, bounds
<1>14. CASE Commit
  BY <1>14, Marks DEF WorkInv, TypeOK, NoChunks, Names, Attempt, Commit, history, engine, marks
<1>15. CASE FailCheckpoint
  BY <1>15, Marks DEF WorkInv, TypeOK, NoChunks, Names, FailCheckpoint, history, engine, marks
<1>16. CASE Finalize
  <2>1. work \in Manifest /\ stage = "joined"
    BY <1>16 DEF WorkInv, TypeOK, Finalize
  <2>2. video \subseteq Recipe
    BY <2>1 DEF WorkInv, TypeOK, InAttempt, Attempt, Engine, Known, Recipe
  <2>3. draft' \in Manifest
    BY <1>16, <2>1, <2>2 DEF Finalize, Manifest
  <2> QED
    BY <1>16, <2>3, Marks DEF Finalize, WorkInv, TypeOK, Content, Named, Idle, Attempt,
       Preparation, Engine, Reset, Removal, history, engine, memory, marks, bounds
<1>17. CASE Publish
  BY <1>17, Marks DEF WorkInv, TypeOK, NoChunks, Names, Removal, Publish, engine, memory, marks
<1>18. CASE DeleteEncode
  BY <1>18, Marks DEF WorkInv, TypeOK, NoChunks, Names, Removal, DeleteEncode, history, engine,
     marks
<1>19. CASE RemoveEntry
  BY <1>19, Marks DEF WorkInv, TypeOK, Content, Named, NoChunks, Names, RemoveEntry, Losing,
     history, memory
<1>20. CASE RemoveManifest
  BY <1>20, Marks DEF WorkInv, TypeOK, NoChunks, Names, Removal, RemoveManifest, history,
     engine, memory, marks
<1>21. CASE ForgetWorkspace
  BY <1>21, Marks DEF WorkInv, TypeOK, NoChunks, Names, Idle, ForgetWorkspace, engine, marks
<1>22. ASSUME NEW s \in Settings \cup {"keep"}, BeginReset(s) PROVE TypeOK'
  BY <1>22, Marks DEF WorkInv, TypeOK, NoChunks, Names, Reset, BeginReset, Opens, Loads,
     OwnTree, history, engine, marks
<1>23. CASE ClearChunk
  BY <1>23, Marks DEF WorkInv, TypeOK, Content, NoChunks, Names, ClearChunk, Losing, history,
     memory
<1>24. CASE ClearProgress
  <2>1. work \in Manifest
    BY DEF WorkInv, TypeOK
  <2>2. NoChunks \in [Chunk -> Recipe \cup {Absent}]
    BY DEF NoChunks
  <2>3. draft' \in Manifest
    BY <1>24, <2>1, <2>2 DEF ClearProgress, Manifest
  <2> QED
    BY <1>24, <2>3, Marks DEF ClearProgress, Losing, WorkInv, TypeOK, Content, Named, Idle,
       Attempt, Preparation, Engine, Reset, Removal, history, engine, memory, marks, bounds
<1>25. CASE SaveCleared
  BY <1>25, Marks DEF WorkInv, TypeOK, NoChunks, Names, Reset, SaveCleared, Saved, history,
     engine
<1>26. CASE DropPlan
  <2>1. work \in Manifest /\ next \in Settings
    BY <1>26 DEF WorkInv, TypeOK, InReset, Reset, DropPlan
  <2>3. draft' \in Manifest
    BY <1>26, <2>1 DEF DropPlan, Manifest, Named
  <2> QED
    BY <1>26, <2>3, Marks DEF DropPlan, Losing, WorkInv, TypeOK, Content, Named, Idle,
       Attempt, Preparation, Engine, Reset, Removal, history, engine, memory, marks, bounds
<1>27. CASE SaveReplanned
  BY <1>27, Marks DEF WorkInv, TypeOK, NoChunks, Names, Reset, SaveReplanned, Saved, history,
     engine
<1>28. CASE PersistRenewed
  BY <1>28, Marks DEF WorkInv, TypeOK, NoChunks, Names, Idle, Reset, PersistRenewed, engine,
     marks, InReset
<1>29. CASE GiveUp
  BY <1>29, Marks DEF WorkInv, TypeOK, NoChunks, Names, Idle, GiveUp, Saving, Saved, Forget,
     Unattended, history, engine
<1>30. CASE Crash
  BY <1>30, Marks DEF WorkInv, TypeOK, NoChunks, Names, Idle, Crash, Saving, Saved, Forget,
     Stranded, Noting, history, engine
<1>31. CASE Restart
  BY <1>31, Marks DEF WorkInv, TypeOK, NoChunks, Names, Idle, Restart, history, engine, memory,
     marks
<1>32. CASE ChangeSource
  BY <1>32, Marks DEF WorkInv, TypeOK, NoChunks, Names, ChangeSource, Unattended, history,
     engine, memory, marks
<1>33. ASSUME NEW c \in Chunk, EditChunk(c) PROVE TypeOK'
  BY <1>33, Marks DEF WorkInv, TypeOK, Content, NoChunks, Names, EditChunk, Unattended, history,
     memory, marks
<1> QED
  BY <1>1, <1>2, <1>3, <1>4, <1>5, <1>6, <1>7, <1>8, <1>9, <1>10, <1>11, <1>12, <1>13, <1>14,
     <1>15, <1>16, <1>17, <1>18, <1>19, <1>20, <1>21, <1>22, <1>23, <1>24, <1>25, <1>26, <1>27,
     <1>28, <1>29, <1>30, <1>31, <1>32, <1>33 DEF Next, Preparing, Encoding, Sealing, Removing,
     Resetting

(* Manifests keep their shape. *)
LEMMA ShapesNext ==
  ASSUME Names, WorkInv, Next
  PROVE  Shapes'
<1>1. CASE Prepare
  BY <1>1, Marks DEF WorkInv, Shapes, Shape, Prepare, NoManifest, NoChunks
<1>2. CASE Resume
  BY <1>2, Marks DEF WorkInv, Shapes, Resume, memory
<1>3. CASE Adopt
  BY <1>3, Marks DEF WorkInv, Shapes, Shape, Own, Adopt, Adopted, Adoptable, Opens, Loads,
     OwnTree
<1>4. CASE Refuse
  BY <1>4, Marks DEF WorkInv, Shapes, Refuse, memory
<1>5. CASE Sanitize
  BY <1>5, Marks DEF WorkInv, Shapes, Sanitize, Noted, memory
<1>6. CASE SavePrepared
  BY <1>6, Marks DEF WorkInv, Shapes, SavePrepared
<1>7. CASE RecordPrepared
  BY <1>7, Marks DEF WorkInv, Shapes, RecordPrepared, memory
<1>8. CASE Launch
  BY <1>8, Marks DEF WorkInv, Shapes, Launch, memory
<1>9. ASSUME NEW c \in Chunk, StartChunk(c) PROVE Shapes'
  BY <1>9, Marks DEF WorkInv, Shapes, StartChunk, memory
<1>10. ASSUME NEW c \in Chunk, FinishChunk(c) PROVE Shapes'
  BY <1>10, Marks DEF WorkInv, Shapes, FinishChunk, memory
<1>11. CASE Join
  BY <1>11, Marks DEF WorkInv, Shapes, Join, memory
<1>12. CASE StopEngine
  BY <1>12, Marks DEF WorkInv, Shapes, StopEngine, memory
<1>13. CASE Checkpoint
  <2>1. /\ stage \in Engine /\ draft = work
        /\ {saved, work, draft} \subseteq Manifest /\ settings \in Settings
        /\ Recorded(work) /\ work.phase = "encoding" /\ Unchanged(work)
        /\ queue = settings /\ \A c \in done : chunk[c] = Known
    BY <1>13 DEF WorkInv, TypeOK, InAttempt, Attempt, Engine, Checkpoint
  <2>2. settings # "none"
    BY <2>1 DEF Names
  <2>3. work.final = {} /\ \A c \in Stamped(work) : work.completed[c] = Known
    BY <2>1 DEF WorkInv, Shapes, Shape, Own, Known, Stamped, Unchanged, Recorded, Manifest, NoChunks
  <2>4. /\ draft'.phase = work.phase /\ draft'.settings = work.settings
        /\ draft'.previous = work.previous /\ draft'.source = work.source
        /\ draft'.queue = queue /\ draft'.final = work.final
        /\ \A c \in Chunk : draft'.completed[c] =
              IF c \in done \ Stamped(work) THEN chunk[c] ELSE work.completed[c]
    BY <1>13, <2>1 DEF Checkpoint, Candidate, Completed, Manifest
  <2>5. Own(draft') = Known
    BY <2>1, <2>4 DEF Own, Known, Recorded
  <2>6. \A c \in Chunk : draft'.completed[c] \in {Absent, Own(draft')}
    BY <2>1, <2>3, <2>4, <2>5 DEF Stamped
  <2>7. Shape(draft')
    BY <2>1, <2>2, <2>3, <2>4, <2>6 DEF Shape, Recorded
  <2> QED
    BY <1>13, <2>7 DEF WorkInv, Shapes, Checkpoint, Shape, Own
<1>14. CASE Commit
  BY <1>14, Marks DEF WorkInv, Shapes, Commit
<1>15. CASE FailCheckpoint
  BY <1>15, Marks DEF WorkInv, Shapes, FailCheckpoint
<1>16. CASE Finalize
  <2>1. /\ stage \in Engine /\ draft = work
        /\ {saved, work, draft} \subseteq Manifest /\ settings \in Settings
        /\ Recorded(work) /\ work.phase = "encoding" /\ Unchanged(work)
        /\ queue = settings /\ \A c \in done : chunk[c] = Known
    BY <1>16 DEF WorkInv, TypeOK, InAttempt, Attempt, Engine, Finalize
  <2>2. settings # "none"
    BY <2>1 DEF Names
  <2>3. work.final = {} /\ \A c \in Stamped(work) : work.completed[c] = Known
    BY <2>1 DEF WorkInv, Shapes, Shape, Own, Known, Stamped, Unchanged, Recorded, Manifest, NoChunks
  <2>4. video = {Known} /\ work.queue = queue
    BY <1>16, <2>1 DEF WorkInv, InAttempt, Attempt, Engine, Finalize, Candidate, Manifest
  <2>5. /\ draft'.phase = "finalizing" /\ draft'.settings = work.settings
        /\ draft'.previous = work.previous /\ draft'.source = work.source
        /\ draft'.queue = queue /\ draft'.final = {Known}
        /\ draft'.completed = work.completed
    BY <1>16, <2>1, <2>4 DEF Finalize, Manifest
  <2>6. Own(draft') = Known
    BY <2>1, <2>5 DEF Own, Known, Recorded
  <2>7. \A c \in Chunk : draft'.completed[c] \in {Absent, Own(draft')}
    BY <2>1, <2>3, <2>5, <2>6 DEF Stamped
  <2>8. Shape(draft')
    BY <2>1, <2>2, <2>5, <2>6, <2>7 DEF Shape, Recorded
  <2> QED
    BY <1>16, <2>8 DEF WorkInv, Shapes, Finalize, Shape, Own
<1>17. CASE Publish
  BY <1>17, Marks DEF WorkInv, Shapes, Publish, memory
<1>18. CASE DeleteEncode
  BY <1>18, Marks DEF WorkInv, Shapes, DeleteEncode
<1>19. CASE RemoveEntry
  BY <1>19, Marks DEF WorkInv, Shapes, RemoveEntry, Losing, memory
<1>20. CASE RemoveManifest
  BY <1>20, Marks DEF WorkInv, Shapes, RemoveManifest, memory
<1>21. CASE ForgetWorkspace
  BY <1>21, Marks DEF WorkInv, Shapes, ForgetWorkspace
<1>22. ASSUME NEW s \in Settings \cup {"keep"}, BeginReset(s) PROVE Shapes'
  BY <1>22, Marks DEF WorkInv, Shapes, BeginReset, Opens, Loads, OwnTree
<1>23. CASE ClearChunk
  BY <1>23, Marks DEF WorkInv, Shapes, ClearChunk, Losing, memory
<1>24. CASE ClearProgress
  BY <1>24, Marks DEF WorkInv, Shapes, Shape, ClearProgress, Losing, NoChunks
<1>25. CASE SaveCleared
  BY <1>25, Marks DEF WorkInv, Shapes, SaveCleared, Saved
<1>26. CASE DropPlan
  <2>1. /\ work \in Manifest /\ work = saved /\ draft = work /\ next \in Settings
        /\ work.completed = NoChunks /\ work.final = {} /\ saved.phase # "none"
    BY <1>26 DEF WorkInv, TypeOK, InReset, Reset, DropPlan
  <2>2. /\ draft'.phase = work.phase /\ draft'.queue = "none" /\ draft'.final = {}
        /\ draft'.completed = NoChunks
    BY <1>26, <2>1 DEF DropPlan, Manifest
  <2>3. Shape(draft')
    BY <2>1, <2>2 DEF WorkInv, Shapes, Shape, NoChunks
  <2> QED
    BY <1>26, <2>3 DEF WorkInv, Shapes, DropPlan, Shape, Own
<1>27. CASE SaveReplanned
  BY <1>27, Marks DEF WorkInv, Shapes, SaveReplanned, Saved
<1>28. CASE PersistRenewed
  BY <1>28, Marks DEF WorkInv, Shapes, PersistRenewed
<1>29. CASE GiveUp
  BY <1>29, Marks DEF WorkInv, Shapes, GiveUp, Saving, Saved, Forget, Unattended
<1>30. CASE Crash
  BY <1>30, Marks DEF WorkInv, Shapes, Crash, Saving, Saved, Forget, Stranded, Noting
<1>31. CASE Restart
  BY <1>31, Marks DEF WorkInv, Shapes, Restart, memory
<1>32. CASE ChangeSource
  BY <1>32, Marks DEF WorkInv, Shapes, ChangeSource, Unattended, memory
<1>33. ASSUME NEW c \in Chunk, EditChunk(c) PROVE Shapes'
  BY <1>33, Marks DEF WorkInv, Shapes, EditChunk, Unattended, memory
<1> QED
  BY <1>1, <1>2, <1>3, <1>4, <1>5, <1>6, <1>7, <1>8, <1>9, <1>10, <1>11, <1>12, <1>13, <1>14,
     <1>15, <1>16, <1>17, <1>18, <1>19, <1>20, <1>21, <1>22, <1>23, <1>24, <1>25, <1>26, <1>27,
     <1>28, <1>29, <1>30, <1>31, <1>32, <1>33 DEF Next, Preparing, Encoding, Sealing, Removing,
     Resetting

(* What the manifest in place says of the files stays true. *)
LEMMA OnDiskNext ==
  ASSUME Names, WorkInv, Next
  PROVE  OnDisk'
<1>1. CASE Prepare
  BY <1>1, Marks DEF WorkInv, OnDisk, Prepare, history, engine, marks
<1>2. CASE Resume
  BY <1>2, Marks DEF WorkInv, OnDisk, Resume, history, engine, marks
<1>3. CASE Adopt
  BY <1>3, Marks DEF WorkInv, OnDisk, Adopt, Adopted, Adoptable, Opens, Loads, OwnTree, history,
     engine, marks
<1>4. CASE Refuse
  BY <1>4, Marks DEF WorkInv, OnDisk, Refuse, history, engine, marks
<1>5. CASE Sanitize
  BY <1>5, Marks DEF WorkInv, TypeOK, Shapes, Shape, OnDisk, InAttempt, Idle, Reset, Removal,
     Sanitize, Noted, history, engine, marks
<1>6. CASE SavePrepared
  BY <1>6, Marks DEF WorkInv, TypeOK, OnDisk, Unchanged, InAttempt, Idle, Reset, Removal,
     SavePrepared, history, engine, Recorded
<1>7. CASE RecordPrepared
  BY <1>7, Marks DEF WorkInv, OnDisk, RecordPrepared, engine, marks
<1>8. CASE Launch
  BY <1>8, Marks DEF WorkInv, TypeOK, OnDisk, InAttempt, Idle, Reset, Removal, Launch, history,
     marks
<1>9. ASSUME NEW c \in Chunk, StartChunk(c) PROVE OnDisk'
  BY <1>9, Marks DEF WorkInv, OnDisk, InAttempt, Attempt, Engine, StartChunk, history, marks
<1>10. ASSUME NEW c \in Chunk, FinishChunk(c) PROVE OnDisk'
  BY <1>10, Marks DEF WorkInv, TypeOK, Manifest, OnDisk, FinishChunk, history, marks
<1>11. CASE Join
  BY <1>11, Marks DEF WorkInv, Shapes, Shape, OnDisk, InAttempt, Attempt, Engine, Join, history,
     marks
<1>12. CASE StopEngine
  BY <1>12, Marks DEF WorkInv, OnDisk, StopEngine, history, engine, marks
<1>13. CASE Checkpoint
  BY <1>13, Marks DEF WorkInv, OnDisk, Checkpoint, Candidate, Completed, history, engine, marks
<1>14. CASE Commit
  BY <1>14, Marks DEF WorkInv, Shapes, Shape, OnDisk, Unchanged, InAttempt, Attempt, Engine,
     Commit, history, engine
<1>15. CASE FailCheckpoint
  BY <1>15, Marks DEF WorkInv, Shapes, Shape, OnDisk, Unchanged, InAttempt, Attempt, Engine,
     FailCheckpoint, history, engine
<1>16. CASE Finalize
  BY <1>16, Marks DEF WorkInv, OnDisk, Finalize, Candidate, Completed, history, engine, marks
<1>17. CASE Publish
  BY <1>17, Marks DEF WorkInv, OnDisk, Publish, engine, marks
<1>18. CASE DeleteEncode
  BY <1>18, Marks DEF WorkInv, OnDisk, DeleteEncode, history, engine, marks
<1>19. CASE RemoveEntry
  BY <1>19, Marks DEF WorkInv, OnDisk, Unchanged, RemoveEntry, Losing, history
<1>20. CASE RemoveManifest
  BY <1>20, Marks DEF WorkInv, OnDisk, RemoveManifest, NoManifest
<1>21. CASE ForgetWorkspace
  BY <1>21, Marks DEF WorkInv, OnDisk, ForgetWorkspace, engine, marks
<1>22. ASSUME NEW s \in Settings \cup {"keep"}, BeginReset(s) PROVE OnDisk'
  BY <1>22, Marks DEF WorkInv, OnDisk, BeginReset, Opens, Loads, OwnTree, history, engine, marks
<1>23. CASE ClearChunk
  BY <1>23, Marks DEF WorkInv, OnDisk, Unchanged, ClearChunk, Losing, history
<1>24. CASE ClearProgress
  BY <1>24, Marks DEF WorkInv, OnDisk, Unchanged, ClearProgress, Losing, history
<1>25. CASE SaveCleared
  BY <1>25, Marks DEF WorkInv, OnDisk, Stamped, InReset, Reset, SaveCleared, Saved, history,
     engine, NoChunks
<1>26. CASE DropPlan
  BY <1>26, Marks DEF WorkInv, OnDisk, Unchanged, DropPlan, Losing, history
<1>27. CASE SaveReplanned
  BY <1>27, Marks DEF WorkInv, OnDisk, InReset, Reset, SaveReplanned, Saved
<1>28. CASE PersistRenewed
  BY <1>28, Marks DEF WorkInv, OnDisk, InReset, Reset, PersistRenewed, engine, marks
<1>29. CASE GiveUp
  <2>1. CASE saved' = saved
    BY <1>29, <2>1
       DEF WorkInv, OnDisk, Saved, Unchanged, Stamped, GiveUp, Unattended, history, engine
  <2>2. CASE saved' = draft /\ Saving
    BY <1>29, <2>2, DraftFits DEF OnDisk, Stamped, GiveUp, history, engine
  <2> QED
    BY <1>29, <2>1, <2>2 DEF GiveUp, Crash
<1>30. CASE Crash
  <2>1. CASE saved' = saved
    BY <1>30, <2>1 DEF WorkInv, OnDisk, Saved, Unchanged, Stamped, Crash, history, engine
  <2>2. CASE saved' = draft /\ Saving
    BY <1>30, <2>2, DraftFits DEF OnDisk, Stamped, Crash, history, engine
  <2> QED
    BY <1>30, <2>1, <2>2 DEF GiveUp, Crash
<1>31. CASE Restart
  BY <1>31, Marks DEF WorkInv, OnDisk, Restart, history, engine, marks
<1>32. CASE ChangeSource
  BY <1>32, Marks DEF WorkInv, OnDisk, ChangeSource, Unattended, history, engine, marks
<1>33. ASSUME NEW c \in Chunk, EditChunk(c) PROVE OnDisk'
  BY <1>33, Marks DEF WorkInv, OnDisk, EditChunk, Unattended, history, marks
<1> QED
  BY <1>1, <1>2, <1>3, <1>4, <1>5, <1>6, <1>7, <1>8, <1>9, <1>10, <1>11, <1>12, <1>13, <1>14,
     <1>15, <1>16, <1>17, <1>18, <1>19, <1>20, <1>21, <1>22, <1>23, <1>24, <1>25, <1>26, <1>27,
     <1>28, <1>29, <1>30, <1>31, <1>32, <1>33 DEF Next, Preparing, Encoding, Sealing, Removing,
     Resetting

(* So does what an attempt knows of the workspace it owns. *)
LEMMA InAttemptNext ==
  ASSUME Names, WorkInv, Next
  PROVE  InAttempt'
<1>1. CASE Prepare
  <2>1. /\ draft'.phase = "encoding" /\ draft'.settings = settings /\ draft'.previous = "none"
        /\ draft'.source = source /\ draft'.queue = "none" /\ draft'.completed = NoChunks
        /\ draft'.final = {}
    BY <1>1 DEF Prepare, NoManifest
  <2>2. /\ saved = NoManifest /\ work = NoManifest
        /\ NoManifest.queue = "none" /\ NoManifest.completed = NoChunks /\ NoManifest.final = {}
    BY <1>1 DEF Prepare, WorkInv, InHand, Idle, NoManifest
  <2>3. saved' = saved /\ work' = work /\ stage' = "preparing" /\ settings' = settings /\ source' = source
    BY <1>1 DEF Prepare, history, memory
  <2> QED
    BY <2>1, <2>2, <2>3
       DEF InAttempt, Unchanged, Stamped, NoChunks, Recorded, Attempt, Preparation, Engine
<1>2. CASE Resume
  BY <1>2, Marks DEF WorkInv, InAttempt, Known, Attempt, Preparation, Engine, Resume
<1>3. CASE Adopt
  <2>1. /\ Unchanged(saved) /\ Loads /\ saved.source = source /\ saved \in Manifest /\ Shape(saved)
        /\ settings \in Settings /\ "none" \notin Settings
    BY <1>3 DEF Adopt, Adoptable, Opens, WorkInv, Shapes, TypeOK, Names
  <2>2. /\ Adopted.phase = saved.phase /\ Adopted.source = saved.source
        /\ Adopted.queue = saved.queue /\ Adopted.final = saved.final
        /\ Adopted.completed = saved.completed
        /\ Adopted.previous = "none" /\ Adopted.settings = settings
    BY <2>1 DEF Adopted, Loads, Manifest
  <2>3. /\ saved' = saved /\ work' = saved /\ draft' = Adopted /\ stage' = "preparing"
        /\ settings' = settings /\ source' = source
        /\ queue' = queue /\ chunk' = chunk /\ video' = video
    BY <1>3 DEF Adopt, history, engine
  <2> QED
    BY <2>1, <2>2, <2>3
       DEF InAttempt, Unchanged, Stamped, Recorded, Attempt, Preparation, Engine, Loads
<1>4. CASE Refuse
  BY <1>4, Marks DEF WorkInv, InAttempt, Known, Attempt, Preparation, Engine, Refuse
<1>5. CASE Sanitize
  <2>1. /\ Unchanged(saved) /\ Unchanged(draft) /\ Recorded(draft) /\ work \in {saved, NoManifest}
        /\ draft.queue = saved.queue /\ draft.final = saved.final
        /\ Shape(saved) /\ Shape(draft) /\ Shape(work)
    BY <1>5 DEF Sanitize, WorkInv, Shapes, InAttempt, Attempt, Preparation
  <2>2. /\ saved' = saved /\ work' = work /\ draft' = draft /\ stage' = "sanitized"
        /\ settings' = settings /\ source' = source
    BY <1>5 DEF Sanitize, history, memory
  <2>3. /\ NoManifest.queue = "none" /\ NoManifest.completed = NoChunks /\ NoManifest.final = {}
    BY DEF NoManifest
  <2>4. CASE draft.phase = "finalizing"
    BY <1>5, <2>1, <2>2, <2>3, <2>4 DEF Sanitize, InAttempt, Unchanged, Stamped, NoChunks, Recorded,
       Attempt, Preparation, Engine, engine
  <2>5. CASE draft.phase # "finalizing" /\ draft.queue = "none"
    BY <1>5, <2>1, <2>2, <2>3, <2>5 DEF Sanitize, InAttempt, Unchanged, Stamped, NoChunks, Recorded,
       Attempt, Preparation, Engine, Shape
  <2>6. CASE draft.phase # "finalizing" /\ draft.queue # "none"
    BY <1>5, <2>1, <2>2, <2>3, <2>6 DEF Sanitize, Noted, InAttempt, Unchanged, Stamped, NoChunks,
       Recorded, Attempt, Preparation, Engine, Shape
  <2> QED
    BY <2>4, <2>5, <2>6
<1>6. CASE SavePrepared
  BY <1>6, Marks DEF WorkInv, TypeOK, Unchanged, InAttempt, Recorded, Known, Idle, Engine,
     Reset, Removal, SavePrepared, history, engine
<1>7. CASE RecordPrepared
  BY <1>7, Marks DEF WorkInv, TypeOK, Manifest, Unchanged, InAttempt, Recorded, Known, Idle,
     Engine, Reset, Removal, RecordPrepared, engine, memory
<1>8. CASE Launch
  <2>1. /\ draft = work /\ work = saved /\ Unchanged(work) /\ Recorded(work) /\ Shape(work)
        /\ work.phase = "encoding" /\ work \in Manifest
        /\ work.queue # "none" => done = Stamped(work)
    BY <1>8 DEF Launch, WorkInv, Shapes, TypeOK, InAttempt, Attempt, Preparation, Engine
  <2>2. /\ saved' = saved /\ work' = work /\ draft' = draft /\ stage' = "running"
        /\ settings' = settings /\ source' = source /\ chunk' = chunk /\ video' = video
    BY <1>8 DEF Launch, history, memory
  <2>3. CASE work.queue = "none"
    BY <1>8, <2>1, <2>2, <2>3 DEF Launch, InAttempt, Unchanged, Stamped, NoChunks, Recorded, Shape,
       Attempt, Preparation, Engine
  <2>4. CASE work.queue # "none"
    <3>1. queue' = settings /\ queue = settings /\ done' = Stamped(work)
      BY <1>8, <2>1, <2>4 DEF Launch, Unchanged, Recorded, Shape
    <3>2. \A c \in Stamped(work) : chunk[c] = Own(work) /\ Own(work) = Known
      BY <2>1, <2>4, <3>1 DEF Unchanged, Stamped, Shape, Own, Known, Recorded
    <3>3. Known' = Known
      BY <2>2, <3>1 DEF Known
    <3>4. Unchanged(work)'
      BY <2>1, <2>2, <3>1 DEF Unchanged, Stamped
    <3> QED
      BY <2>1, <2>2, <3>1, <3>2, <3>3, <3>4 DEF InAttempt, Stamped, Recorded, Unchanged,
         Attempt, Preparation, Engine
  <2> QED
    BY <2>3, <2>4
<1>9. ASSUME NEW c \in Chunk, StartChunk(c) PROVE InAttempt'
  BY <1>9, Marks DEF WorkInv, Unchanged, InAttempt, Recorded, Known, Engine, StartChunk,
     history, memory
<1>10. ASSUME NEW c \in Chunk, FinishChunk(c) PROVE InAttempt'
  BY <1>10, Marks DEF WorkInv, TypeOK, Unchanged, InAttempt, Recorded, Known, Engine,
     FinishChunk, history, memory
<1>11. CASE Join
  <2>1. /\ done = Chunk /\ stage = "running" /\ \A c \in Chunk : chunk[c] = Known
        /\ InAttempt
    BY <1>11 DEF Join, WorkInv, InAttempt, Attempt, Engine
  <2>2. video' = {Known}
    BY <1>11, <2>1 DEF Join, Names
  <2>3. saved.final = {} /\ work.final = {} /\ draft.final = {}
    BY <2>1 DEF WorkInv, Shapes, Shape, InAttempt, Attempt, Engine
  <2>4. /\ UNCHANGED <<source, settings, saved, work, draft, queue, done,
                       chunk>> /\ stage' = "joined"
    BY <1>11 DEF Join, history, memory
  <2> QED
    BY <2>1, <2>2, <2>3, <2>4 DEF InAttempt, Unchanged, Stamped, Recorded, Known, Attempt,
       Preparation, Engine
<1>12. CASE StopEngine
  BY <1>12, Marks DEF WorkInv, Unchanged, InAttempt, Recorded, Known, Attempt, Engine,
     StopEngine, history, engine, memory
<1>13. CASE Checkpoint
  BY <1>13, Marks DEF WorkInv, Unchanged, Stamped, InAttempt, Recorded, Known, Checkpoint,
     Candidate, Completed, history, engine
<1>14. CASE Commit
  <2>1. /\ saved' = draft /\ work' = draft
        /\ UNCHANGED <<source, settings, draft, queue, done, chunk, video>>
        /\ stage \in Engine \cup {"finishing"}
        /\ stage' = IF stage = "finishing" THEN "final" ELSE stage
    BY <1>14 DEF Commit, history, engine, Engine
  <2>2. InAttempt /\ stage \in Attempt /\ Shape(draft)
    BY <2>1 DEF WorkInv, Shapes, Attempt
  <2>3. CASE stage = "finishing"
    <3>1. draft.phase = "finalizing"
      BY <1>14, <2>2, <2>3 DEF Commit, InAttempt
    <3> QED
      BY <2>1, <2>2, <2>3, <3>1
         DEF InAttempt, Unchanged, Stamped, Recorded, Attempt, Preparation, Engine
  <2>4. CASE stage # "finishing"
    BY <2>1, <2>2, <2>4
       DEF InAttempt, Unchanged, Stamped, Recorded, Known, Attempt, Preparation, Engine
  <2> QED
    BY <2>3, <2>4
<1>15. CASE FailCheckpoint
  BY <1>15, Marks DEF WorkInv, Unchanged, InAttempt, Recorded, Known, FailCheckpoint, history,
     engine
<1>16. CASE Finalize
  BY <1>16, Marks DEF WorkInv, Unchanged, Stamped, InAttempt, Recorded, Known, Attempt, Engine,
     Finalize, Candidate, Completed, history, engine
<1>17. CASE Publish
  BY <1>17, Marks DEF WorkInv, InAttempt, Known, Attempt, Preparation, Engine, Publish
<1>18. CASE DeleteEncode
  BY <1>18, Marks DEF WorkInv, InAttempt, Known, Attempt, Preparation, Engine, DeleteEncode
<1>19. CASE RemoveEntry
  BY <1>19, Marks DEF WorkInv, InAttempt, Known, Attempt, Preparation, Engine, RemoveEntry,
     Losing
<1>20. CASE RemoveManifest
  BY <1>20, Marks DEF WorkInv, InAttempt, Known, Attempt, Preparation, Engine, RemoveManifest
<1>21. CASE ForgetWorkspace
  BY <1>21, Marks DEF WorkInv, InAttempt, Known, Attempt, Preparation, Engine, ForgetWorkspace
<1>22. ASSUME NEW s \in Settings \cup {"keep"}, BeginReset(s) PROVE InAttempt'
  BY <1>22, Marks DEF WorkInv, InAttempt, Known, Attempt, Preparation, Engine, BeginReset,
     Opens, Loads, OwnTree
<1>23. CASE ClearChunk
  BY <1>23, Marks DEF WorkInv, InAttempt, Known, Attempt, Preparation, Engine, ClearChunk,
     Losing
<1>24. CASE ClearProgress
  BY <1>24, Marks DEF WorkInv, InAttempt, Known, Attempt, Preparation, Engine, ClearProgress,
     Losing
<1>25. CASE SaveCleared
  BY <1>25, Marks DEF WorkInv, InAttempt, Known, Attempt, Preparation, Engine, SaveCleared,
     Saved
<1>26. CASE DropPlan
  BY <1>26, Marks DEF WorkInv, InAttempt, Known, Attempt, Preparation, Engine, DropPlan, Losing
<1>27. CASE SaveReplanned
  BY <1>27, Marks DEF WorkInv, InAttempt, Known, Attempt, Preparation, Engine, SaveReplanned,
     Saved
<1>28. CASE PersistRenewed
  BY <1>28, Marks DEF WorkInv, InAttempt, Known, Attempt, Preparation, Engine, PersistRenewed
<1>29. CASE GiveUp
  BY <1>29, Marks DEF WorkInv, InAttempt, Known, Attempt, Preparation, Engine, GiveUp, Saving,
     Saved, Forget, Unattended
<1>30. CASE Crash
  BY <1>30, Marks DEF WorkInv, InAttempt, Known, Attempt, Preparation, Engine, Crash, Saving,
     Saved, Forget, Stranded, Noting
<1>31. CASE Restart
  BY <1>31, Marks DEF WorkInv, InAttempt, Known, Attempt, Preparation, Engine, Restart
<1>32. CASE ChangeSource
  BY <1>32, Marks DEF WorkInv, InAttempt, Known, Attempt, Preparation, Engine, ChangeSource,
     Unattended
<1>33. ASSUME NEW c \in Chunk, EditChunk(c) PROVE InAttempt'
  BY <1>33, Marks DEF WorkInv, InAttempt, Known, Attempt, Preparation, Engine, EditChunk,
     Unattended
<1> QED
  BY <1>1, <1>2, <1>3, <1>4, <1>5, <1>6, <1>7, <1>8, <1>9, <1>10, <1>11, <1>12, <1>13, <1>14,
     <1>15, <1>16, <1>17, <1>18, <1>19, <1>20, <1>21, <1>22, <1>23, <1>24, <1>25, <1>26, <1>27,
     <1>28, <1>29, <1>30, <1>31, <1>32, <1>33 DEF Next, Preparing, Encoding, Sealing, Removing,
     Resetting

(* And what a reset knows between its steps. *)
LEMMA InResetNext ==
  ASSUME Names, WorkInv, Next
  PROVE  InReset'
<1>1. CASE Prepare
  BY <1>1, Marks DEF WorkInv, InReset, Reset, Prepare
<1>2. CASE Resume
  BY <1>2, Marks DEF WorkInv, InReset, Reset, Resume
<1>3. CASE Adopt
  BY <1>3, Marks DEF WorkInv, InReset, Reset, Adopt, Adopted, Adoptable, Opens, Loads, OwnTree
<1>4. CASE Refuse
  BY <1>4, Marks DEF WorkInv, InReset, Reset, Refuse
<1>5. CASE Sanitize
  BY <1>5, Marks DEF WorkInv, InReset, Reset, Sanitize, Noted
<1>6. CASE SavePrepared
  BY <1>6, Marks DEF WorkInv, InReset, Reset, SavePrepared
<1>7. CASE RecordPrepared
  BY <1>7, Marks DEF WorkInv, InReset, Reset, RecordPrepared
<1>8. CASE Launch
  BY <1>8, Marks DEF WorkInv, InReset, Reset, Launch
<1>9. ASSUME NEW c \in Chunk, StartChunk(c) PROVE InReset'
  BY <1>9, Marks DEF WorkInv, InReset, Reset, StartChunk
<1>10. ASSUME NEW c \in Chunk, FinishChunk(c) PROVE InReset'
  BY <1>10, Marks DEF WorkInv, InReset, Reset, FinishChunk
<1>11. CASE Join
  BY <1>11, Marks DEF WorkInv, InReset, Reset, Join
<1>12. CASE StopEngine
  BY <1>12, Marks DEF WorkInv, InReset, Reset, StopEngine
<1>13. CASE Checkpoint
  BY <1>13, Marks DEF WorkInv, InReset, Reset, Checkpoint, Candidate, Completed
<1>14. CASE Commit
  BY <1>14, Marks DEF WorkInv, InReset, Reset, Commit
<1>15. CASE FailCheckpoint
  BY <1>15, Marks DEF WorkInv, InReset, FailCheckpoint
<1>16. CASE Finalize
  BY <1>16, Marks DEF WorkInv, InReset, Reset, Finalize, Candidate, Completed
<1>17. CASE Publish
  BY <1>17, Marks DEF WorkInv, InReset, Reset, Publish
<1>18. CASE DeleteEncode
  BY <1>18, Marks DEF WorkInv, InReset, Reset, DeleteEncode
<1>19. CASE RemoveEntry
  BY <1>19, Marks DEF WorkInv, InReset, Reset, RemoveEntry, Losing
<1>20. CASE RemoveManifest
  BY <1>20, Marks DEF WorkInv, InReset, Reset, RemoveManifest
<1>21. CASE ForgetWorkspace
  BY <1>21, Marks DEF WorkInv, InReset, Reset, ForgetWorkspace
<1>22. ASSUME NEW s \in Settings \cup {"keep"}, BeginReset(s) PROVE InReset'
  <2>1. /\ Unchanged(saved) /\ saved.phase # "none" /\ next' \in Settings \cup {"keep"}
        /\ next' # "none"
        /\ UNCHANGED <<saved, queue>> /\ work' = saved /\ draft' = saved /\ stage' = "clearing"
    BY <1>22 DEF BeginReset, Opens, Loads, Names, engine
  <2> QED
    BY <2>1 DEF InReset, Reset, Unchanged
<1>23. CASE ClearChunk
  BY <1>23, Marks DEF WorkInv, InReset, ClearChunk, Losing, memory
<1>24. CASE ClearProgress
  BY <1>24, Marks DEF WorkInv, InReset, Reset, ClearProgress, Losing
<1>25. CASE SaveCleared
  BY <1>25, Marks DEF WorkInv, InReset, Reset, SaveCleared, Saved, engine
<1>26. CASE DropPlan
  BY <1>26, Marks DEF WorkInv, InReset, Reset, DropPlan, Losing
<1>27. CASE SaveReplanned
  BY <1>27, Marks DEF WorkInv, InReset, Reset, SaveReplanned, Saved
<1>28. CASE PersistRenewed
  BY <1>28, Marks DEF WorkInv, InReset, Reset, PersistRenewed
<1>29. CASE GiveUp
  BY <1>29, Marks DEF WorkInv, InReset, Reset, GiveUp, Saving, Saved, Forget, Unattended
<1>30. CASE Crash
  BY <1>30, Marks DEF WorkInv, InReset, Reset, Crash, Saving, Saved, Forget, Stranded, Noting
<1>31. CASE Restart
  BY <1>31, Marks DEF WorkInv, InReset, Reset, Restart
<1>32. CASE ChangeSource
  BY <1>32, Marks DEF WorkInv, InReset, Reset, ChangeSource, Unattended
<1>33. ASSUME NEW c \in Chunk, EditChunk(c) PROVE InReset'
  BY <1>33, Marks DEF WorkInv, InReset, Reset, EditChunk, Unattended
<1> QED
  BY <1>1, <1>2, <1>3, <1>4, <1>5, <1>6, <1>7, <1>8, <1>9, <1>10, <1>11, <1>12, <1>13, <1>14,
     <1>15, <1>16, <1>17, <1>18, <1>19, <1>20, <1>21, <1>22, <1>23, <1>24, <1>25, <1>26, <1>27,
     <1>28, <1>29, <1>30, <1>31, <1>32, <1>33 DEF Next, Preparing, Encoding, Sealing, Removing,
     Resetting

(* Nothing is in hand between attempts, resets and removals. *)
LEMMA InHandNext ==
  ASSUME Names, WorkInv, Next
  PROVE  InHand'
<1>1. CASE Prepare
  BY <1>1, Marks DEF WorkInv, InHand, Idle, Removal, Prepare
<1>2. CASE Resume
  BY <1>2, Marks DEF WorkInv, InHand, Idle, Resume, memory
<1>3. CASE Adopt
  BY <1>3, Marks DEF WorkInv, InHand, Idle, Removal, Adopt, Adopted, Adoptable, Opens, Loads,
     OwnTree
<1>4. CASE Refuse
  BY <1>4, Marks DEF WorkInv, InHand, Idle, Refuse, memory
<1>5. CASE Sanitize
  BY <1>5, Marks DEF WorkInv, InHand, Idle, Removal, Sanitize, Noted
<1>6. CASE SavePrepared
  BY <1>6, Marks DEF WorkInv, InHand, Idle, SavePrepared
<1>7. CASE RecordPrepared
  BY <1>7, Marks DEF WorkInv, InHand, Idle, Removal, RecordPrepared
<1>8. CASE Launch
  BY <1>8, Marks DEF WorkInv, InHand, Idle, Removal, Launch
<1>9. ASSUME NEW c \in Chunk, StartChunk(c) PROVE InHand'
  BY <1>9, Marks DEF WorkInv, InHand, Idle, Removal, StartChunk
<1>10. ASSUME NEW c \in Chunk, FinishChunk(c) PROVE InHand'
  BY <1>10, Marks DEF WorkInv, InHand, Idle, Removal, FinishChunk
<1>11. CASE Join
  BY <1>11, Marks DEF WorkInv, InHand, Idle, Removal, Join
<1>12. CASE StopEngine
  BY <1>12, Marks DEF WorkInv, InHand, Idle, Removal, StopEngine
<1>13. CASE Checkpoint
  BY <1>13, Marks DEF WorkInv, InHand, Idle, Removal, Checkpoint, Candidate, Completed
<1>14. CASE Commit
  BY <1>14, Marks DEF WorkInv, InHand, Idle, Commit
<1>15. CASE FailCheckpoint
  BY <1>15, Marks DEF WorkInv, InHand, FailCheckpoint
<1>16. CASE Finalize
  BY <1>16, Marks DEF WorkInv, InHand, Idle, Removal, Finalize, Candidate, Completed
<1>17. CASE Publish
  BY <1>17, Marks DEF WorkInv, InHand, InAttempt, Idle, Attempt, Publish, memory
<1>18. CASE DeleteEncode
  BY <1>18, Marks DEF WorkInv, InHand, Idle, DeleteEncode
<1>19. CASE RemoveEntry
  BY <1>19, Marks DEF WorkInv, InHand, RemoveEntry, Losing, memory
<1>20. CASE RemoveManifest
  BY <1>20, Marks DEF WorkInv, InHand, Idle, Removal, RemoveManifest, memory
<1>21. CASE ForgetWorkspace
  BY <1>21, Marks DEF WorkInv, InHand, ForgetWorkspace
<1>22. ASSUME NEW s \in Settings \cup {"keep"}, BeginReset(s) PROVE InHand'
  BY <1>22, Marks DEF WorkInv, InHand, Idle, BeginReset, Opens, Loads, OwnTree
<1>23. CASE ClearChunk
  BY <1>23, Marks DEF WorkInv, InHand, Idle, Removal, ClearChunk, Losing
<1>24. CASE ClearProgress
  BY <1>24, Marks DEF WorkInv, InHand, Idle, Removal, ClearProgress, Losing
<1>25. CASE SaveCleared
  BY <1>25, Marks DEF WorkInv, InHand, Idle, SaveCleared, Saved
<1>26. CASE DropPlan
  BY <1>26, Marks DEF WorkInv, InHand, Idle, Removal, DropPlan, Losing
<1>27. CASE SaveReplanned
  BY <1>27, Marks DEF WorkInv, InHand, Idle, SaveReplanned, Saved
<1>28. CASE PersistRenewed
  BY <1>28, Marks DEF WorkInv, InHand, PersistRenewed
<1>29. CASE GiveUp
  BY <1>29, Marks DEF WorkInv, InHand, GiveUp, Saving, Saved, Forget, Unattended
<1>30. CASE Crash
  BY <1>30, Marks DEF WorkInv, InHand, Crash, Saving, Saved, Forget, Stranded, Noting
<1>31. CASE Restart
  BY <1>31, Marks DEF WorkInv, InHand, Idle, Restart, memory
<1>32. CASE ChangeSource
  BY <1>32, Marks DEF WorkInv, InHand, ChangeSource, Unattended, memory
<1>33. ASSUME NEW c \in Chunk, EditChunk(c) PROVE InHand'
  BY <1>33, Marks DEF WorkInv, InHand, EditChunk, Unattended, memory
<1> QED
  BY <1>1, <1>2, <1>3, <1>4, <1>5, <1>6, <1>7, <1>8, <1>9, <1>10, <1>11, <1>12, <1>13, <1>14,
     <1>15, <1>16, <1>17, <1>18, <1>19, <1>20, <1>21, <1>22, <1>23, <1>24, <1>25, <1>26, <1>27,
     <1>28, <1>29, <1>30, <1>31, <1>32, <1>33 DEF Next, Preparing, Encoding, Sealing, Removing,
     Resetting

(* Publication follows from the queue the attempt runs. *)
LEMMA PublishedNext ==
  ASSUME Names, WorkInv, Next
  PROVE  Published'
<1>1. CASE Prepare
  BY <1>1, Marks DEF WorkInv, Published, OneRecipe, Removal, Prepare, history
<1>2. CASE Resume
  BY <1>2, Marks DEF WorkInv, Published, OneRecipe, Resume, history
<1>3. CASE Adopt
  BY <1>3, Marks DEF WorkInv, Published, OneRecipe, Removal, Adopt, Adopted, Adoptable, Opens,
     Loads, OwnTree, history
<1>4. CASE Refuse
  BY <1>4, Marks DEF WorkInv, Published, OneRecipe, Refuse, history
<1>5. CASE Sanitize
  BY <1>5, Marks DEF WorkInv, Published, OneRecipe, Removal, Sanitize, Noted, history
<1>6. CASE SavePrepared
  BY <1>6, Marks DEF WorkInv, Published, OneRecipe, Removal, SavePrepared, history
<1>7. CASE RecordPrepared
  BY <1>7, Marks DEF WorkInv, Published, OneRecipe, Removal, RecordPrepared
<1>8. CASE Launch
  BY <1>8, Marks DEF WorkInv, Published, OneRecipe, Removal, Launch, history
<1>9. ASSUME NEW c \in Chunk, StartChunk(c) PROVE Published'
  BY <1>9, Marks DEF WorkInv, Published, OneRecipe, StartChunk, history
<1>10. ASSUME NEW c \in Chunk, FinishChunk(c) PROVE Published'
  BY <1>10, Marks DEF WorkInv, Published, OneRecipe, FinishChunk, history
<1>11. CASE Join
  BY <1>11, Marks DEF WorkInv, Published, OneRecipe, Removal, Join, history
<1>12. CASE StopEngine
  BY <1>12, Marks DEF WorkInv, Published, OneRecipe, Removal, StopEngine, history
<1>13. CASE Checkpoint
  BY <1>13, Marks DEF WorkInv, Published, OneRecipe, Checkpoint, Candidate, Completed, history
<1>14. CASE Commit
  BY <1>14, Marks DEF WorkInv, Published, OneRecipe, Removal, Commit, history
<1>15. CASE FailCheckpoint
  BY <1>15, Marks DEF WorkInv, Published, OneRecipe, FailCheckpoint, history
<1>16. CASE Finalize
  BY <1>16, Marks DEF WorkInv, Published, OneRecipe, Removal, Finalize, Candidate, Completed,
     history
<1>17. CASE Publish
  BY <1>17, Marks DEF WorkInv, TypeOK, Published, OneRecipe, Recipe, Shapes, Shape, Own,
     Unchanged, Recorded, InAttempt, Attempt, Removal, Publish
<1>18. CASE DeleteEncode
  BY <1>18, Marks DEF WorkInv, Published, OneRecipe, DeleteEncode, history
<1>19. CASE RemoveEntry
  BY <1>19, Marks DEF WorkInv, Published, OneRecipe, RemoveEntry, Losing, history
<1>20. CASE RemoveManifest
  BY <1>20, Marks DEF WorkInv, Published, OneRecipe, Removal, RemoveManifest, history
<1>21. CASE ForgetWorkspace
  BY <1>21, Marks DEF WorkInv, Published, OneRecipe, ForgetWorkspace
<1>22. ASSUME NEW s \in Settings \cup {"keep"}, BeginReset(s) PROVE Published'
  BY <1>22, Marks DEF WorkInv, Published, OneRecipe, BeginReset, Opens, Loads, OwnTree, history
<1>23. CASE ClearChunk
  BY <1>23, Marks DEF WorkInv, Published, OneRecipe, ClearChunk, Losing, history
<1>24. CASE ClearProgress
  BY <1>24, Marks DEF WorkInv, Published, OneRecipe, Removal, ClearProgress, Losing, history
<1>25. CASE SaveCleared
  BY <1>25, Marks DEF WorkInv, Published, OneRecipe, Removal, SaveCleared, Saved, history
<1>26. CASE DropPlan
  BY <1>26, Marks DEF WorkInv, Published, OneRecipe, Removal, DropPlan, Losing, history
<1>27. CASE SaveReplanned
  BY <1>27, Marks DEF WorkInv, Published, OneRecipe, Removal, SaveReplanned, Saved, history
<1>28. CASE PersistRenewed
  BY <1>28, Marks DEF WorkInv, Published, OneRecipe, Removal, PersistRenewed
<1>29. CASE GiveUp
  BY <1>29, Marks DEF WorkInv, Published, OneRecipe, GiveUp, Saving, Saved, Forget, Unattended,
     history
<1>30. CASE Crash
  BY <1>30, Marks DEF WorkInv, Published, OneRecipe, Crash, Saving, Saved, Forget, Stranded,
     Noting, history
<1>31. CASE Restart
  BY <1>31, Marks DEF WorkInv, Published, OneRecipe, Restart, history
<1>32. CASE ChangeSource
  BY <1>32, Marks DEF WorkInv, Published, OneRecipe, ChangeSource, Unattended, history
<1>33. ASSUME NEW c \in Chunk, EditChunk(c) PROVE Published'
  BY <1>33, Marks DEF WorkInv, Published, OneRecipe, EditChunk, Unattended, history
<1> QED
  BY <1>1, <1>2, <1>3, <1>4, <1>5, <1>6, <1>7, <1>8, <1>9, <1>10, <1>11, <1>12, <1>13, <1>14,
     <1>15, <1>16, <1>17, <1>18, <1>19, <1>20, <1>21, <1>22, <1>23, <1>24, <1>25, <1>26, <1>27,
     <1>28, <1>29, <1>30, <1>31, <1>32, <1>33 DEF Next, Preparing, Encoding, Sealing, Removing,
     Resetting

LEMMA WorkInitially ==
  ASSUME Names, Init
  PROVE  WorkInv
<1>1. NoManifest.phase = "none" /\ NoManifest.queue = "none"
  BY DEF NoManifest
<1>2. TypeOK
  BY Marks DEF Init, TypeOK, Content, Named, NoChunks, Idle
<1>3. Shapes /\ OnDisk
  BY <1>1, Marks DEF Init, Shapes, OnDisk
<1>4. InAttempt /\ InReset /\ InHand /\ Published
  BY DEF Init, InAttempt, InReset, InHand, Published, OneRecipe, Idle, Attempt, Preparation,
     Engine, Reset, Removal
<1> QED
  BY <1>2, <1>3, <1>4 DEF WorkInv

LEMMA WorkStutters ==
  ASSUME WorkInv, UNCHANGED vars
  PROVE  WorkInv'
<1>1. /\ UNCHANGED <<source, settings, known, delivered, product, saved, chunk, queue, done>>
      /\ UNCHANGED <<video, stage, work, draft, next, stray, lost>>
  BY DEF vars, history, engine, memory, marks
<1>2. TypeOK' /\ Shapes' /\ OnDisk'
  BY <1>1 DEF WorkInv, TypeOK, Shapes, Shape, OnDisk, Stamped, Own
<1>3. InAttempt'
  BY <1>1 DEF WorkInv, InAttempt, Unchanged, Stamped, Recorded, Known
<1>4. InReset' /\ InHand' /\ Published'
  BY <1>1 DEF WorkInv, InReset, InHand, Published, OneRecipe
<1> QED
  BY <1>2, <1>3, <1>4 DEF WorkInv

LEMMA WorkNext ==
  ASSUME Names, WorkInv, [Next]_vars
  PROVE  WorkInv'
<1>1. CASE Next
  BY <1>1, TypeNext, ShapesNext, OnDiskNext, InAttemptNext, InResetNext, InHandNext, PublishedNext
     DEF WorkInv
<1> QED
  BY <1>1, WorkStutters

LEMMA WorkPublishes == WorkInv => OneRecipe
BY DEF WorkInv, Published

(* A sealed queue opens again: the manifest in place is of the settings in *)
(* the history, and the files are as it says.                              *)
LEMMA WorkReopens == WorkInv => KeptChunksUsable
<1> SUFFICES ASSUME WorkInv, stage = "idle", saved.queue # "none", Untouched, ~stray
             PROVE  Opens
  BY DEF KeptChunksUsable
<1>1. saved.phase # "none" /\ settings = saved.settings
  <2>1. saved.phase = "none" => saved = NoManifest
    BY DEF WorkInv, Shapes, Shape
  <2> QED
    BY <2>1 DEF WorkInv, OnDisk, NoManifest
<1>2. Unchanged(saved)
  BY DEF WorkInv, TypeOK, OnDisk, Unchanged, Untouched, Stamped
<1> QED
  BY <1>1, <1>2 DEF Opens, Loads, OwnTree

(* WorkInv holds in every state, however often the work is interrupted. *)
THEOREM WorkInvariant ==
  ASSUME Names
  PROVE  Spec => []WorkInv
BY WorkInitially, WorkNext, PTL DEF Spec

(* What is published was encoded from one version of the source with the   *)
(* settings of the history, for any number of chunks, resets and restarts. *)
THEOREM OneRecipePublished ==
  ASSUME Names
  PROVE  Spec => []OneRecipe
BY WorkPublishes, WorkInvariant, PTL

(* A workspace with a sealed queue opens again after any interruption that *)
(* cut neither a removal nor a write short, while its chunks are unedited. *)
THEOREM SealedChunksUsable ==
  ASSUME Names
  PROVE  Spec => []KeptChunksUsable
BY WorkReopens, WorkInvariant, PTL
=============================================================================
