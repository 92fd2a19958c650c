---------------------- MODULE StandaloneRecovery_proofs ----------------------
(* Proofs about StandaloneRecovery, for every set of encoders whose timing *)
(* wrapper the layout check knows, and for any bounds.                     *)
EXTENDS StandaloneRecovery, TLAPS

(* validate_layout expects no timing receipt of AOM, whose HDR10 output is *)
(* wrapped all the same: of these jobs SavedProgressUsable is false.       *)
WrapperKnown == "aomHdr10" \notin Encoders

-----------------------------------------------------------------------------
(* The inductive invariant. *)

Busy == {"work", "copy", "copying", "copied", "staged", "saved", "cleanup"}

(* A manifest has the receipts of its phase, no more and no less. *)
Sound(m) ==
  /\ m \in Manifest
  /\ m.phase \in Parts \cup {"none"}
  /\ m.phase = "none" => m = NoManifest
  /\ m.phase # "none" => m.source \in Source
  /\ \A p \in Part : m.receipt[p] # 0 <=> p \in Parts /\ AtLeast(m.phase, p)

Lost(m) ==
  IF m.phase = "none"
  THEN \A f \in File : content[f] = "absent"
  ELSE \E p \in Part : m.receipt[p] # 0 /\ content[m.receipt[p]] \in {"absent", "emptied"}

Kept(m, held) == \A p \in Part : m.receipt[p] # 0 => content[m.receipt[p]] \in held

(* What is on disk: receipts of complete copies until something is removed. *)
OnDisk ==
  /\ Sound(manifest)
  /\ \A p \in Part : manifest.receipt[p] <= writes
  /\ ~released => Kept(manifest, {manifest.source, "edited"})
  /\ ~released => AtLeast(manifest.phase, locator)
  /\ released => Lost(manifest)

(* A running attempt holds what is on disk, made from the source it saw. *)
InAttempt ==
  /\ at \in Busy => /\ ~released
                    /\ published <=> at = "cleanup"
                    /\ manifest.phase # "none" => manifest.source = seed
                    /\ Kept(manifest, {seed})
  /\ at \in {"work", "saved", "cleanup"} => mem = manifest
  /\ at = "cleanup" => mem.phase # "none"
  /\ at \in {"copy", "copying", "copied", "staged"} => root /\ Due(manifest, part)
  /\ at \in {"copy", "copying", "copied"} =>
       mem.receipt = manifest.receipt /\ mem.source = seed
  /\ at \in {"copying", "copied", "staged"} =>
       file = writes /\ file > 0 /\ \A p \in Part : manifest.receipt[p] < file
  /\ at \in {"copied", "staged"} => content[file] = seed
  /\ at = "staged" =>
       mem = [phase |-> part, receipt |-> [manifest.receipt EXCEPT ![part] = file],
              source |-> seed]
  /\ at = "saved" => root /\ mem.phase # "none" /\ ~AtLeast(locator, mem.phase)
  /\ at = "new" => /\ mem = NoManifest /\ manifest = NoManifest
                   /\ ~released /\ ~published
  /\ at = "queued" => ~published

(* A removal works through a workspace it owned entirely. *)
InRemoval ==
  /\ at = "removing" =>
       /\ mem = manifest /\ mem.phase # "none"
       /\ \A f \in File : content[f] # "absent" => f \in Receipts(mem)
       /\ ~released => Kept(mem, Source)
  /\ at \in {"empty", "removed"} =>
       /\ manifest = NoManifest /\ released
       /\ \A f \in File : content[f] = "absent"
  /\ at \in Removing => ~leftover /\ ~foreign

RecoveryInv == TypeOK /\ OnDisk /\ InAttempt /\ InRemoval /\ OutputOfOneSource

-----------------------------------------------------------------------------
(* The order of the phases. *)

LEMMA Ranks ==
  /\ Rank("none") = 0 /\ Rank("stats") = 1 /\ Rank("video") = 2
  /\ Rank("timed") = 3 /\ Rank("final") = 4
BY DEF Rank

LEMMA RankType == \A p \in Phase : Rank(p) \in 0 .. 4
BY Ranks DEF Phase, Part

LEMMA RankInjective == \A p, q \in Phase : Rank(p) = Rank(q) => p = q
BY Ranks DEF Phase, Part

LEMMA PartsArePhases == Parts \subseteq Part /\ Part \subseteq Phase /\ "none" \notin Part
BY DEF Parts, Part, Phase

(* A manifest with the next receipt has the receipts of the next phase. *)
LEMMA Extended ==
  ASSUME Sound(manifest), NEW p \in Part, Due(manifest, p),
         NEW f \in 1 .. MaxWrite, NEW s \in Source,
         NEW m, m = [phase |-> p, receipt |-> [manifest.receipt EXCEPT ![p] = f],
                     source |-> s]
  PROVE  Sound(m) /\ ~AtLeast(manifest.phase, p) /\ p \in Parts
<1>1. p \in Parts /\ ~AtLeast(manifest.phase, p)
  BY DEF Due, Missing
<1>2. m \in Manifest
  BY RecoveryAssumption DEF Sound, Manifest, Phase
<1>3. \A q \in Part : m.receipt[q] # 0 <=> q \in Parts /\ AtLeast(p, q)
  <2> SUFFICES ASSUME NEW q \in Part
               PROVE  m.receipt[q] # 0 <=> q \in Parts /\ AtLeast(p, q)
    OBVIOUS
  <2>1. CASE q = p
    BY <2>1, <1>1, <1>2, RankType, PartsArePhases DEF Sound, Manifest, AtLeast
  <2>2. CASE q # p
    <3>1. m.receipt[q] = manifest.receipt[q]
      BY <2>2 DEF Sound, Manifest
    <3>2. q \in Parts => (AtLeast(manifest.phase, q) <=> AtLeast(p, q))
      <4>1. manifest.phase \in Phase /\ p \in Phase /\ q \in Phase
        BY PartsArePhases DEF Sound, Manifest
      <4>2. q \in Parts /\ ~AtLeast(manifest.phase, q) => AtLeast(q, p)
        BY DEF Due, Missing
      <4>3. QED
        BY <4>1, <4>2, <2>2, <1>1, RankType, RankInjective DEF AtLeast
    <3>3. QED
      BY <3>1, <3>2 DEF Sound
  <2>3. QED
    BY <2>1, <2>2
<1>4. QED
  BY <1>1, <1>2, <1>3, PartsArePhases DEF Sound
-----------------------------------------------------------------------------
(* Steps that hardly touch the disk: each follows from the invariant and   *)
(* the action.                                                             *)

LEMMA RecoveryInit == Init => RecoveryInv
<1> SUFFICES ASSUME Init PROVE RecoveryInv
  OBVIOUS
<1>1. /\ NoManifest \in Manifest /\ NoManifest.phase = "none"
      /\ \A p \in Part : NoManifest.receipt[p] = 0
  BY RecoveryAssumption DEF NoManifest, NoReceipt, Manifest, Phase
<1>2. \A f \in File : content[f] = "absent"
  BY DEF Init
<1>3. TypeOK
  <2>1. content \in [File -> {"absent", "partial", "emptied", "edited"} \cup Source]
    BY DEF Init
  <2>2. {root, leftover, foreign, published, released} \subseteq BOOLEAN
    BY DEF Init
  <2>3. Present = {}
    BY <1>2 DEF Present
  <2> QED
    BY <1>1, <2>1, <2>2, <2>3, RecoveryAssumption DEF Init, TypeOK, Phase
<1>4. OnDisk
  <2>1. \A p \in Part : ~AtLeast("none", p)
    BY Ranks DEF AtLeast, Part
  <2>2. AtLeast("none", "none")
    BY Ranks DEF AtLeast
  <2> QED
    BY <1>1, <2>1, <2>2 DEF Init, OnDisk, Sound, Kept
<1>5. InAttempt /\ InRemoval /\ OutputOfOneSource
  BY DEF Init, InAttempt, InRemoval, OutputOfOneSource, Busy, Removing
<1> QED
  BY <1>3, <1>4, <1>5 DEF RecoveryInv

LEMMA AttemptStarts ==
  ASSUME RecoveryInv, Prepare \/ Resume \/ Adopt \/ Refuse
  PROVE  RecoveryInv'
<1> USE RecoveryAssumption, RankType, PartsArePhases
    DEF RecoveryInv, TypeOK, OnDisk, InAttempt, InRemoval, OutputOfOneSource, Sound, Lost,
        Kept, Manifest, NoManifest, NoReceipt, Phase, Part, File, Present, Receipts, Intact,
        Working, Removing, Busy, Parts, NeedsTimingWrapper, Due, Missing, AtLeast,
        disk, attempt, history
<1>1. CASE Prepare
  BY <1>1 DEF Prepare
<1>2. CASE Resume
  BY <1>2 DEF Resume, Admitted
<1>3. CASE Adopt
  BY <1>3 DEF Adopt, Verified, Admitted, SameSource
<1>4. CASE Refuse
  BY <1>4 DEF Refuse
<1> QED
  BY <1>1, <1>2, <1>3, <1>4

LEMMA WorkspaceEnsured ==
  ASSUME RecoveryInv, NEW p \in Part, EnsureWorkspace(p)
  PROVE  RecoveryInv'
<1> USE DEF RecoveryInv, EnsureWorkspace, history
<1>1. mem = manifest /\ p \in Phase /\ p # "none"
  BY PartsArePhases DEF InAttempt
<1>2. /\ mem' \in Manifest
      /\ mem'.receipt = manifest.receipt /\ mem'.source = seed
      /\ root'
  <2>1. CASE mem.phase = "none"
    <3>1. mem = NoManifest /\ seed \in Source
      BY <1>1, <2>1 DEF OnDisk, Sound, TypeOK
    <3>2. root' /\ mem' = [NoManifest EXCEPT !.phase = p, !.source = seed]
      BY <2>1
    <3>3. NoManifest \in Manifest
      BY RecoveryAssumption DEF NoManifest, NoReceipt, Manifest, Phase
    <3> QED
      BY <1>1, <3>1, <3>2, <3>3 DEF Manifest
  <2>2. CASE mem.phase # "none"
    BY <1>1, <2>2 DEF TypeOK, InAttempt, Busy
  <2> QED
    BY <2>1, <2>2
<1>3. TypeOK'
  BY <1>1, <1>2 DEF TypeOK, Working, Present, File
<1>4. OnDisk'
  BY DEF OnDisk, Sound, Lost, Kept, Parts, NeedsTimingWrapper, AtLeast, File
<1>5. InAttempt'
  BY <1>1, <1>2 DEF InAttempt, Busy, Kept, Due, Missing, Parts, NeedsTimingWrapper, AtLeast
<1>6. InRemoval' /\ OutputOfOneSource'
  BY DEF InRemoval, OutputOfOneSource, Removing
<1> QED
  BY <1>3, <1>4, <1>5, <1>6

LEMMA CopyMade ==
  ASSUME RecoveryInv,
         (\E p \in Part : EnsureWorkspace(p)) \/ CreateCopy \/ VerifyCopy \/ RecordLocator
  PROVE  RecoveryInv'
<1> USE RecoveryAssumption, RankType, PartsArePhases
    DEF RecoveryInv, TypeOK, OnDisk, InAttempt, InRemoval, OutputOfOneSource, Sound, Lost,
        Kept, Manifest, NoManifest, NoReceipt, Phase, Part, File, Present, Receipts,
        Working, Removing, Busy, Parts, NeedsTimingWrapper, Due, Missing, AtLeast,
        disk, attempt, history
<1>1. CASE \E p \in Part : EnsureWorkspace(p)
  BY <1>1, WorkspaceEnsured
<1>2. CASE CreateCopy
  BY <1>2 DEF CreateCopy
<1>3. CASE VerifyCopy
  BY <1>3 DEF VerifyCopy
<1>4. CASE RecordLocator
  BY <1>4 DEF RecordLocator, ManifestSaved
<1> QED
  BY <1>1, <1>2, <1>3, <1>4

LEMMA OtherPrograms ==
  ASSUME RecoveryInv, Restart \/ ChangeSource \/ EditArtifact \/ ForeignEntry
  PROVE  RecoveryInv'
<1> USE RecoveryAssumption, RankType, PartsArePhases
    DEF RecoveryInv, TypeOK, OnDisk, InAttempt, InRemoval, OutputOfOneSource, Sound, Lost,
        Kept, Manifest, NoManifest, NoReceipt, Phase, Part, File, Present,
        Working, Removing, Busy, Parts, NeedsTimingWrapper, Due, Missing, AtLeast,
        disk, attempt, history
<1>1. CASE Restart
  BY <1>1 DEF Restart, Admitted
<1>2. CASE ChangeSource
  BY <1>2 DEF ChangeSource, Unattended
<1>3. CASE EditArtifact
  BY <1>3 DEF EditArtifact, Unattended
<1>4. CASE ForeignEntry
  BY <1>4 DEF ForeignEntry, Unattended
<1> QED
  BY <1>1, <1>2, <1>3, <1>4

-----------------------------------------------------------------------------
(* The commit of a phase: the new manifest is sound, and what it lists is  *)
(* on disk, whether or not the rename is seen.                             *)

LEMMA StagedManifest ==
  ASSUME RecoveryInv, at = "staged"
  PROVE  /\ Sound(mem) /\ mem.phase = part /\ mem.source = seed
         /\ part \in Parts /\ ~AtLeast(manifest.phase, part)
         /\ Kept(mem, {seed})
         /\ \A p \in Part : mem.receipt[p] <= writes
<1>1. /\ mem = [phase |-> part, receipt |-> [manifest.receipt EXCEPT ![part] = file],
                source |-> seed]
      /\ Sound(manifest) /\ Due(manifest, part)
      /\ part \in Part /\ file \in 1 .. MaxWrite /\ seed \in Source
  BY RecoveryAssumption DEF RecoveryInv, TypeOK, OnDisk, InAttempt, Due, Missing, Parts
<1>2. Sound(mem) /\ ~AtLeast(manifest.phase, part) /\ part \in Parts
  BY <1>1, Extended
<1>3. \A p \in Part : mem.receipt[p] = IF p = part THEN file ELSE manifest.receipt[p]
  BY <1>1 DEF Sound, Manifest
<1>4. Kept(mem, {seed})
  BY <1>3 DEF RecoveryInv, InAttempt, Busy, Kept
<1>5. \A p \in Part : mem.receipt[p] <= writes
  BY <1>3, RecoveryAssumption DEF RecoveryInv, TypeOK, OnDisk, InAttempt
<1> QED
  BY <1>1, <1>2, <1>4, <1>5

LEMMA ManifestStaging ==
  ASSUME RecoveryInv, StageManifest
  PROVE  RecoveryInv'
<1> USE RecoveryAssumption, PartsArePhases DEF RecoveryInv, StageManifest, CopyDone,
        disk, history
<1>1. mem' = [phase |-> part, receipt |-> [manifest.receipt EXCEPT ![part] = file],
              source |-> seed]
  BY DEF TypeOK, InAttempt, Manifest
<1>2. mem' \in Manifest
  BY <1>1 DEF TypeOK, InAttempt, OnDisk, Sound, Manifest, Due, Missing, Part, Phase
<1>3. TypeOK'
  BY <1>2 DEF TypeOK, Present, File, Part, Working, Manifest, Phase
<1>4. OnDisk'
  BY DEF OnDisk, Sound, Lost, Kept, Parts, NeedsTimingWrapper, AtLeast, File
<1>5. InAttempt'
  BY <1>1 DEF InAttempt, Busy, Kept, Due, Missing, Parts, NeedsTimingWrapper, AtLeast
<1>6. InRemoval' /\ OutputOfOneSource'
  BY DEF InRemoval, OutputOfOneSource, Removing
<1> QED
  BY <1>3, <1>4, <1>5, <1>6

(* What a rename leaves, however the attempt goes on from there. *)
LEMMA Renamed ==
  ASSUME RecoveryInv, at = "staged", manifest' = mem,
         UNCHANGED <<job, content, writes, released, locator>>
  PROVE  /\ OnDisk' /\ manifest'.phase # "none"
         /\ ~AtLeast(locator, manifest'.phase)
<1>1. /\ Sound(mem) /\ mem.phase = part /\ mem.source = seed
      /\ part \in Parts /\ ~AtLeast(manifest.phase, part)
      /\ Kept(mem, {seed})
      /\ \A p \in Part : mem.receipt[p] <= writes
  BY StagedManifest
<1>2. Sound(manifest)'
  BY <1>1 DEF Sound, Manifest, NoManifest, NoReceipt, Parts, NeedsTimingWrapper, AtLeast
<1>3. ~released /\ AtLeast(manifest.phase, locator)
  BY DEF RecoveryInv, OnDisk, InAttempt, Busy
<1>4. AtLeast(part, locator) /\ ~AtLeast(locator, part)
  <2>1. locator \in Phase /\ part \in Phase /\ manifest.phase \in Phase
    BY DEF RecoveryInv, TypeOK, Manifest
  <2> QED
    BY <1>1, <1>3, <2>1, RankType DEF AtLeast
<1>5. Kept(manifest, {manifest.source, "edited"})'
  BY <1>1 DEF Kept
<1> QED
  BY <1>1, <1>2, <1>3, <1>4, <1>5, PartsArePhases DEF OnDisk, AtLeast

LEMMA ManifestRenaming ==
  ASSUME RecoveryInv, RenameManifest
  PROVE  RecoveryInv'
<1> USE DEF RenameManifest, attempt, history
<1>1. OnDisk' /\ manifest'.phase # "none" /\ ~AtLeast(locator, manifest'.phase)
  BY Renamed
<1>2. mem \in Manifest /\ Kept(mem, {seed}) /\ mem.source = seed
  BY StagedManifest DEF Sound
<1>3. TypeOK'
  BY <1>2 DEF RecoveryInv, TypeOK, InAttempt, Present, File, Working, Manifest, Phase
<1>4. InAttempt'
  BY <1>1, <1>2 DEF RecoveryInv, InAttempt, Busy, Kept, AtLeast
<1>5. InRemoval' /\ OutputOfOneSource'
  BY DEF RecoveryInv, InRemoval, OutputOfOneSource, Removing
<1> QED
  BY <1>1, <1>3, <1>4, <1>5 DEF RecoveryInv

(* An error, a cancellation or the end of the process. *)
LEMMA Interruption ==
  ASSUME RecoveryInv, GiveUp \/ Crash
  PROVE  RecoveryInv'
<1>1. /\ Interrupted /\ mem' = NoManifest /\ at' \in {"idle", "down"}
      /\ UNCHANGED <<job, source, root, content, foreign, seed, part, file, writes,
                     locator, published, output, released>>
      /\ restarts' \in 0 .. MaxRestart
  BY RecoveryAssumption DEF GiveUp, Crash, history, RecoveryInv, TypeOK
<1>2. NoManifest \in Manifest
  BY RecoveryAssumption DEF NoManifest, NoReceipt, Manifest, Phase
<1>3. manifest' = manifest \/ (at = "staged" /\ manifest' = mem)
  BY <1>1 DEF Interrupted
<1>4. OnDisk'
  <2>1. CASE manifest' = manifest
    BY <2>1, <1>1 DEF RecoveryInv, OnDisk, Sound, Lost, Kept, Parts, NeedsTimingWrapper,
                      AtLeast, File, Manifest
  <2>2. CASE at = "staged" /\ manifest' = mem
    BY <2>2, <1>1, Renamed
  <2> QED
    BY <1>3, <2>1, <2>2
<1>5. TypeOK'
  <2>1. manifest' \in Manifest /\ (~root => manifest' = manifest)
    BY <1>3, StagedManifest DEF RecoveryInv, TypeOK, Sound, InAttempt
  <2>2. leftover' \in BOOLEAN
    BY <1>1 DEF Interrupted, RecoveryInv, TypeOK
  <2> QED
    BY <1>1, <1>2, <2>1, <2>2 DEF RecoveryInv, TypeOK, Present, File
<1>6. InAttempt' /\ InRemoval' /\ OutputOfOneSource'
  BY <1>1 DEF RecoveryInv, InAttempt, InRemoval, OutputOfOneSource, Busy, Removing
<1> QED
  BY <1>4, <1>5, <1>6 DEF RecoveryInv

-----------------------------------------------------------------------------
(* Publication and removal. *)

LEMMA Publication ==
  ASSUME RecoveryInv, Publish
  PROVE  RecoveryInv'
<1> USE DEF Publish, disk, attempt
<1>1. output' = {seed} /\ seed \in Source
  <2>1. \A p \in Parts : p \in Part /\ mem.receipt[p] # 0
    BY PartsArePhases DEF RecoveryInv, InAttempt, OnDisk, Sound, Missing
  <2>2. \A p \in Parts : content[mem.receipt[p]] = seed
    BY <2>1 DEF RecoveryInv, InAttempt, Busy, Kept
  <2> QED
    BY <2>2 DEF RecoveryInv, TypeOK
<1>2. TypeOK'
  BY <1>1 DEF RecoveryInv, TypeOK, Present, File, Working
<1>3. OnDisk'
  BY DEF RecoveryInv, OnDisk, Sound, Lost, Kept, Parts, NeedsTimingWrapper, AtLeast, File
<1>4. InAttempt'
  BY DEF RecoveryInv, InAttempt, Busy, Kept
<1>5. InRemoval' /\ OutputOfOneSource'
  BY <1>1 DEF RecoveryInv, InRemoval, OutputOfOneSource, Removing
<1> QED
  BY <1>2, <1>3, <1>4, <1>5 DEF RecoveryInv

LEMMA RemovalBegins ==
  ASSUME RecoveryInv, Cleanup \/ Discard
  PROVE  RecoveryInv'
<1>1. /\ UNCHANGED <<job, source, disk, seed, part, file, writes, history, released,
                     restarts>>
      /\ mem' = manifest /\ mem'.phase # "none" /\ at' = "removing"
      /\ Owned(manifest)
  BY DEF Cleanup, Discard, Admitted, attempt, RecoveryInv, InAttempt
<1> USE <1>1 DEF RecoveryInv, disk, history
<1>2. TypeOK'
  BY DEF TypeOK, Present, File, Working, Removing, Manifest, Phase
<1>3. OnDisk'
  BY DEF OnDisk, Sound, Lost, Kept, Parts, NeedsTimingWrapper, AtLeast, File
<1>4. InRemoval'
  <2>1. \A f \in File : content[f] # "absent" => f \in Receipts(mem')
    BY DEF Owned, Present
  <2>2. Kept(mem', Source)
    BY DEF Owned, Intact, Receipts, Kept
  <2> QED
    BY <2>1, <2>2 DEF InRemoval, Removing, Owned, Receipts, Kept
<1>5. InAttempt' /\ OutputOfOneSource'
  BY DEF InAttempt, OutputOfOneSource, Busy
<1> QED
  BY <1>2, <1>3, <1>4, <1>5

LEMMA RemovalGoesOn ==
  ASSUME RecoveryInv, RemoveArtifact \/ RemoveDirectory \/ ForgetLocator
  PROVE  RecoveryInv'
<1> USE RecoveryAssumption, RankType, PartsArePhases
    DEF RecoveryInv, TypeOK, OnDisk, InAttempt, InRemoval, OutputOfOneSource, Sound, Lost,
        Kept, Manifest, NoManifest, NoReceipt, Phase, Part, File, Present, Receipts,
        Working, Removing, Busy, Parts, NeedsTimingWrapper, AtLeast, disk, attempt, history
<1>1. CASE RemoveArtifact
  BY <1>1 DEF RemoveArtifact
<1>2. CASE RemoveDirectory
  BY <1>2 DEF RemoveDirectory
<1>3. CASE ForgetLocator
  BY <1>3 DEF ForgetLocator
<1> QED
  BY <1>1, <1>2, <1>3

(* Nothing is left, so something with a receipt has been removed. *)
LEMMA RemovalEnds ==
  ASSUME RecoveryInv, RemoveManifest \/ RemoveRoot
  PROVE  RecoveryInv'
<1>1. /\ manifest' = NoManifest /\ at' \in {"empty", "removed"}
      /\ at' = "empty" => root' = root
      /\ root' \in BOOLEAN
      /\ UNCHANGED <<job, source, content, leftover, foreign, attempt, history, released,
                     restarts>>
  BY DEF RemoveManifest, ArtifactsGone, ManifestRemoved, RemoveRoot, RecoveryInv, TypeOK, InRemoval
<1>2. \A f \in File : content[f] = "absent"
  BY DEF RemoveManifest, ArtifactsGone, RemoveRoot, RecoveryInv, InRemoval, Present
<1>3. released
  <2>1. CASE RemoveRoot
    BY <2>1 DEF RemoveRoot, RecoveryInv, InRemoval
  <2>2. CASE RemoveManifest
    <3>1. mem.phase \in Part /\ mem.receipt[mem.phase] \in File
      BY <2>2, RankType, PartsArePhases
         DEF RemoveManifest, ArtifactsGone, RecoveryInv, TypeOK, OnDisk, InRemoval, Sound,
             Manifest, AtLeast, File
    <3> QED
      BY <2>2, <3>1, <1>2, RecoveryAssumption
         DEF RemoveManifest, ArtifactsGone, RecoveryInv, InRemoval, Kept, File
  <2> QED
    BY <2>1, <2>2
<1>4. ~leftover /\ ~foreign
  BY DEF RemoveManifest, ArtifactsGone, RemoveRoot, RecoveryInv, InRemoval, Removing
<1>5. Sound(NoManifest) /\ NoManifest.phase = "none" /\ \A p \in Part : NoManifest.receipt[p] = 0
  BY RecoveryAssumption, Ranks, PartsArePhases
     DEF Sound, NoManifest, NoReceipt, Manifest, Phase, AtLeast, Part
<1>6. TypeOK'
  BY <1>1, <1>2, <1>5 DEF RecoveryInv, TypeOK, attempt, history, Present, File, Working,
                          Removing, Manifest, Phase, Sound
<1>7. OnDisk'
  <2>1. Sound(manifest)'
    BY <1>1, <1>5 DEF Sound, Parts, NeedsTimingWrapper, AtLeast
  <2> QED
    BY <2>1, <1>1, <1>2, <1>3, <1>5 DEF RecoveryInv, TypeOK, OnDisk, Lost, attempt
<1>8. InAttempt' /\ InRemoval' /\ OutputOfOneSource'
  BY <1>1, <1>2, <1>3, <1>4
     DEF RecoveryInv, InAttempt, InRemoval, OutputOfOneSource, Busy, Removing, history
<1> QED
  BY <1>6, <1>7, <1>8 DEF RecoveryInv

-----------------------------------------------------------------------------
LEMMA RecoveryStutter == RecoveryInv /\ UNCHANGED vars => RecoveryInv'
BY DEF RecoveryInv, vars, disk, attempt, history, TypeOK, OnDisk, InAttempt, InRemoval,
       OutputOfOneSource, Sound, Lost, Kept, Present, Receipts, Due, Missing, Parts,
       NeedsTimingWrapper, AtLeast

LEMMA RecoveryNext == RecoveryInv /\ [Next]_vars => RecoveryInv'
BY AttemptStarts, CopyMade, OtherPrograms, ManifestStaging, ManifestRenaming, Interruption,
   Publication, RemovalBegins, RemovalGoesOn, RemovalEnds, RecoveryStutter
   DEF Next, Attempting, Clearing

LEMMA RecoveryInvariant == Spec => []RecoveryInv
<1>1. Init => RecoveryInv
  BY RecoveryInit
<1>2. RecoveryInv /\ [Next]_vars => RecoveryInv'
  BY RecoveryNext
<1> QED
  BY <1>1, <1>2, PTL DEF Spec

(* The manifest has the receipts of its phase, and they are of one source. *)
LEMMA RecoveryUsable ==
  ASSUME WrapperKnown, RecoveryInv
  PROVE  SavedProgressUsable
<1> SUFFICES ASSUME locator # "none", Untouched
             PROVE  Admitted /\ Intact(manifest)
  BY DEF SavedProgressUsable
<1>1. /\ Sound(manifest) /\ AtLeast(manifest.phase, locator)
      /\ Kept(manifest, {manifest.source, "edited"})
      /\ manifest.phase \in Phase /\ locator \in Phase
  BY DEF RecoveryInv, TypeOK, OnDisk, Untouched, Manifest
<1>2. manifest.phase # "none" /\ manifest.phase \in Parts
  BY <1>1, Ranks, RankType, RankInjective DEF AtLeast, Sound, Phase
<1>3. \A p \in Part : manifest.receipt[p] \in File \cup {0}
  BY <1>1 DEF Sound, Manifest, File
<1>4. \A p \in Part : manifest.receipt[p] # 0 =>
        content[manifest.receipt[p]] \in Source
  BY <1>1, <1>2, <1>3 DEF Sound, Kept, Untouched
<1>5. Intact(manifest)
  BY <1>4 DEF Intact, Receipts
<1>6. ValidLayout(manifest)
  <2>1. ~foreign /\ job.encoder # "aomHdr10"
    BY DEF Untouched, WrapperKnown, RecoveryInv, TypeOK
  <2>2. AtLeast(manifest.phase, "stats") /\ "stats" \in Part
    BY <1>2, Ranks DEF AtLeast, Parts, Part
  <2>3. "absent" \notin Source
    BY RecoveryAssumption
  <2> QED
    BY <1>1, <1>4, <2>1, <2>2, <2>3
       DEF ValidLayout, Sound, Parts, Part, NeedsTimingWrapper
<1>7. manifest.receipt[manifest.phase] # 0
  BY <1>1, <1>2, RankType, PartsArePhases DEF Sound, AtLeast
<1> QED
  BY <1>1, <1>2, <1>5, <1>6, <1>7 DEF Admitted

(* The manifest goes when nothing it lists is left. *)
LEMMA RecoveryLast == RecoveryInv => ManifestRemovedLast
BY DEF RecoveryInv, OnDisk, Lost, ManifestRemovedLast, Present

(* Only a removal takes anything, and of what has a receipt. *)
Emptied == (\E f \in Present : content'[f] = "absent") \/ (root /\ ~root')
Listed == Present \subseteq Receipts(mem) /\ ~leftover /\ ~foreign

LEMMA RemovalListed ==
  ASSUME RecoveryInv, [Next]_vars, Emptied
  PROVE  Listed
<1>1. at \in Removing
  BY RecoveryAssumption
     DEF Emptied, Next, Attempting, Clearing, vars, disk, Present, Prepare, Resume, Adopt, Refuse,
         EnsureWorkspace, CreateCopy, VerifyCopy, StageManifest, CopyDone, RenameManifest,
         RecordLocator, ManifestSaved, Publish, Cleanup, Discard, RemoveArtifact,
         RemoveDirectory, RemoveManifest, ArtifactsGone, RemoveRoot, ForgetLocator, GiveUp,
         Crash, Restart, ChangeSource, EditArtifact, ForeignEntry, Removing, RecoveryInv,
         TypeOK, InAttempt, File
<1>2. ~leftover /\ ~foreign
  BY <1>1 DEF RecoveryInv, InRemoval
<1>3. Present \subseteq Receipts(mem)
  BY <1>1 DEF RecoveryInv, InRemoval, Removing, Present
<1> QED
  BY <1>2, <1>3 DEF Listed

-----------------------------------------------------------------------------
(* The results. *)

(* Types, and nothing in a directory that does not exist. *)
THEOREM RecoveryTypes == Spec => []TypeOK
<1>1. RecoveryInv => TypeOK
  BY DEF RecoveryInv
<1> QED
  BY <1>1, RecoveryInvariant, PTL

(* Whatever step was interrupted, a saved phase that nobody else touched   *)
(* is admitted and complete: for every encoder whose timing receipt the    *)
(* layout check expects.                                                   *)
THEOREM SavedProgressIsUsable ==
  ASSUME WrapperKnown
  PROVE  Spec => []SavedProgressUsable
BY RecoveryUsable, RecoveryInvariant, PTL

(* The progress of an AOM encode whose HDR10 output is wrapped is refused  *)
(* as soon as the wrapped file is saved: validate_layout does not expect   *)
(* the receipt its own attempt wrote.                                      *)
THEOREM HdrProgressRefused ==
  Spec => [](job.encoder = "aomHdr10" /\ AtLeast(manifest.phase, "timed") => ~Admitted)
<1>1. RecoveryInv => (job.encoder = "aomHdr10" /\ AtLeast(manifest.phase, "timed") => ~Admitted)
  BY DEF RecoveryInv, OnDisk, Sound, Part, Parts, NeedsTimingWrapper, Admitted, ValidLayout
<1> QED
  BY <1>1, RecoveryInvariant, PTL

(* What is published was made from one version of the source. *)
THEOREM PublishedFromOneSource == Spec => []OutputOfOneSource
<1>1. RecoveryInv => OutputOfOneSource
  BY DEF RecoveryInv
<1> QED
  BY <1>1, RecoveryInvariant, PTL

(* The manifest outlives everything it lists. *)
THEOREM ManifestGoesLast == Spec => []ManifestRemovedLast
BY RecoveryLast, RecoveryInvariant, PTL

(* A workspace is emptied only of what has a receipt. *)
THEOREM OnlyReceiptsRemoved == Spec => NothingElseRemoved
<1>1. RecoveryInv /\ [Next]_vars => [Emptied => Listed]_vars
  BY RemovalListed
<1> QED
  BY <1>1, RecoveryInvariant, PTL DEF Spec, NothingElseRemoved, Emptied, Listed

-----------------------------------------------------------------------------
(* Refinement: every step keeps the promise of SavedProgress. *)

LEMMA PromiseInit == Init => Promise!Init
BY Ranks DEF Init, Promise!Init, NoManifest

(* Only a rename adds to what is kept, and only removal takes it away. *)
LEMMA KeptChanges ==
  ASSUME RecoveryInv, [Next]_vars, manifest' # manifest
  PROVE  \/ /\ at = "staged" /\ manifest' = mem
            /\ UNCHANGED <<locator, published, released>>
         \/ RemoveManifest
BY DEF Next, Attempting, Clearing, vars, disk, attempt, history, Prepare, Resume, Adopt, Refuse,
       EnsureWorkspace, CreateCopy, VerifyCopy, StageManifest, RenameManifest, RecordLocator,
       Publish, Cleanup, Discard, RemoveArtifact, RemoveDirectory, RemoveRoot, ForgetLocator,
       GiveUp, Crash, Interrupted, Restart, ChangeSource, EditArtifact, ForeignEntry

(* The history learns what is kept, and forgets it at the end. *)
LEMMA KnownChanges ==
  ASSUME RecoveryInv, [Next]_vars, locator' # locator
  PROVE  /\ UNCHANGED <<manifest, published, released>>
         /\ \/ locator' = manifest.phase /\ AtLeast(manifest.phase, locator)
            \/ locator' = "none" /\ manifest = NoManifest /\ released
BY DEF Next, Attempting, Clearing, vars, disk, attempt, history, Prepare, Resume, Adopt, Refuse,
       EnsureWorkspace, CreateCopy, VerifyCopy, StageManifest, RenameManifest, RecordLocator,
       ManifestSaved, Publish, Cleanup, Discard, RemoveArtifact, RemoveDirectory, RemoveManifest,
       RemoveRoot, ForgetLocator, GiveUp, Crash, Restart, ChangeSource, EditArtifact,
       ForeignEntry, Admitted, Verified, RecoveryInv, OnDisk, InAttempt, InRemoval, Busy, Removing

LEMMA EndedStays ==
  ASSUME RecoveryInv, [Next]_vars, manifest' = manifest, locator' = locator
  PROVE  published \/ released => published' \/ released'
BY DEF Next, Attempting, Clearing, vars, disk, attempt, history, Prepare, Resume, Adopt, Refuse,
       EnsureWorkspace, CreateCopy, VerifyCopy, StageManifest, RenameManifest, RecordLocator,
       Publish, Cleanup, Discard, RemoveArtifact, RemoveDirectory, RemoveManifest, RemoveRoot,
       ForgetLocator, GiveUp, Crash, Restart, ChangeSource, EditArtifact, ForeignEntry

LEMMA PromiseNext == RecoveryInv /\ [Next]_vars => [Promise!Next]_(Promise!vars)
<1> SUFFICES ASSUME RecoveryInv, [Next]_vars PROVE [Promise!Next]_(Promise!vars)
  OBVIOUS
<1>1. manifest.phase \in Phase /\ locator \in Phase /\ RecoveryInv'
  BY RecoveryNext DEF RecoveryInv, TypeOK, Manifest
<1>2. manifest'.phase \in Phase /\ locator' \in Phase
  BY <1>1 DEF RecoveryInv, TypeOK, Manifest
<1>3. CASE manifest' # manifest /\ at = "staged" /\ manifest' = mem
  <2>1. UNCHANGED <<locator, published, released>>
    BY <1>3, KeptChanges DEF RemoveManifest, ArtifactsGone
  <2>2. ~AtLeast(manifest.phase, manifest'.phase) /\ ~published /\ ~released
    BY <1>3, StagedManifest DEF RecoveryInv, InAttempt, Busy
  <2> QED
    BY <1>1, <1>2, <2>1, <2>2, RankType
       DEF Promise!Next, Promise!Keep, Promise!vars, AtLeast
<1>4. CASE RemoveManifest
  <2>1. manifest' = NoManifest /\ UNCHANGED <<locator, published, released>> /\ released'
    BY <1>4, <1>1 DEF RemoveManifest, ManifestRemoved, history, RecoveryInv, InRemoval
  <2> QED
    BY <2>1, Ranks DEF Promise!Next, Promise!Drop, Promise!vars, NoManifest
<1>5. CASE locator' # locator
  BY <1>5, <1>1, <1>2, KnownChanges, Ranks, RankType, RankInjective
     DEF Promise!Next, Promise!Learn, Promise!Forget, Promise!vars, AtLeast, NoManifest
<1>6. CASE manifest' = manifest /\ locator' = locator
  <2>1. published \/ released => published' \/ released'
    BY <1>6, EndedStays
  <2>2. published \in BOOLEAN /\ released \in BOOLEAN /\ published' \in BOOLEAN /\ released' \in BOOLEAN
    BY <1>1 DEF RecoveryInv, TypeOK
  <2> QED
    BY <1>6, <2>1, <2>2 DEF Promise!Next, Promise!End, Promise!vars
<1> QED
  BY <1>3, <1>4, <1>5, <1>6, KeptChanges

(* The workspace, its manifest and the locator keep what SavedProgress     *)
(* promises, over failures, cancellations and restarts.                    *)
THEOREM KeepsPromise == Spec => ImplementsSavedProgress
<1>1. Init => Promise!Init
  BY PromiseInit
<1>2. RecoveryInv /\ [Next]_vars => [Promise!Next]_(Promise!vars)
  BY PromiseNext
<1> QED
  BY <1>1, <1>2, RecoveryInvariant, PTL DEF Spec, ImplementsSavedProgress, Promise!Spec
=============================================================================
