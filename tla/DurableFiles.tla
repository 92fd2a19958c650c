---------------------------- MODULE DurableFiles ----------------------------
(***************************************************************************)
(* What jesses keeps on disk over errors, other programs and the end of    *)
(* the process.  There are four kinds, which share no file: the phases of  *)
(* a standalone encode (StandaloneRecovery, named by                       *)
(* JobSnapshot.standalone_recovery), the chunks of an av1an encode         *)
(* (Av1anRecovery, named by JobSnapshot.recovery), the finished file of an *)
(* operation (OutputFile) and the job history (HistoryFile).  The backend  *)
(* of its settings decides which of the first two a job has (encode.rs);   *)
(* both are made from the same source.                                     *)
(***************************************************************************)
EXTENDS StandaloneRecovery

CONSTANTS
  Chunk,      \* the chunks av1an splits the source into
  Settings,   \* settings a user may ask for
  MaxReset,   \* bound: chunk deletions and new settings
  Others,     \* files of other programs
  Manager,    \* job managers
  MaxSave     \* bound: saves of the history

VARIABLES
  kind,       \* which files this behaviour is about
  settings, known, delivered, product, saved, chunk, queue, done, video, stage,
  work, draft, next, stray, lost, resets,
  inPlace, names, survivors, flushed, whole, edited, canceled, step,
  managing, writer, record, outcomes, saves, reported

Chunked == INSTANCE Av1anRecovery
Output  == INSTANCE OutputFile
History == INSTANCE HistoryFile

ASSUME DurableAssumption ==
  Chunked!Names /\ Output!Foreign /\ MaxReset \in Nat /\ MaxSave \in Nat

phases  == <<job, root, manifest, content, leftover, foreign, at, mem, seed, part, file,
             writes, locator, published, output, released>>
chunks  == <<settings, known, delivered, product, saved, chunk, queue, done, video, stage,
             work, draft, next, stray, lost, resets>>
made    == <<inPlace, names, survivors, flushed, whole, edited, canceled, step>>
journal == <<managing, writer, record, outcomes, saves, reported>>
shared  == <<source, restarts>>

DurableInit ==
  /\ kind \in {"phases", "chunks", "output", "history"}
  /\ Init /\ Chunked!Init /\ Output!Init /\ History!Init
  /\ kind # "phases" => job = CHOOSE j \in [encoder : Encoders, twoPass : {FALSE}] : TRUE
  /\ kind # "chunks" => settings = CHOOSE s \in Settings : TRUE
  /\ kind \notin {"phases", "chunks"} => source = CHOOSE s \in Source : TRUE
  /\ kind # "output" => inPlace

DurableNext ==
  /\ UNCHANGED kind
  /\ \/ kind = "phases" /\ Next /\ UNCHANGED <<chunks, made, journal>>
     \/ kind = "chunks" /\ Chunked!Next /\ UNCHANGED <<phases, made, journal>>
     \/ kind = "output" /\ Output!Next /\ UNCHANGED <<phases, chunks, shared, journal>>
     \/ kind = "history" /\ History!Next /\ UNCHANGED <<phases, chunks, shared, made>>

DurableSpec ==
  DurableInit /\ [][DurableNext]_<<kind, phases, chunks, shared, made, journal>>

-----------------------------------------------------------------------------
(* One recipe for the whole of what is published (Av1anRecovery).          *)
OneRecipe == Chunked!OneRecipe

(* Sealed chunks can be used again after any interruption (Av1anRecovery). *)
KeptChunksUsable == Chunked!KeptChunksUsable

(* A crash inside a checkpoint costs no more than that checkpoint          *)
(* (Av1anRecovery).                                                        *)
PriorReceiptsReused == Chunked!PriorReceiptsReused

(* No file of the user or of another program is removed (OutputFile).      *)
NothingLost == Output!NothingLost

(* A refusal and a reported replacement stay true (OutputFile).            *)
AnswersHold == Output!AnswersHold

(* The last reported save can be read, always (HistoryFile).               *)
LastSaveKept == History!LastSaveKept
=============================================================================
