------------------------ MODULE DurableFiles_proofs ------------------------
(* Proofs about everything that is kept on disk, in this order: the job    *)
(* history, the finished file, the chunks and the phases.  A behaviour is  *)
(* about one of them; the others stay as they began.                       *)
EXTENDS DurableFiles, StandaloneRecovery_proofs

-----------------------------------------------------------------------------
(* The history. *)

Steps == {"idle", "written", "synced", "renamed"}

HistoryTypes ==
  /\ managing \subseteq Manager
  /\ writer \in [Manager -> [save : Nat, step : Steps, flushed : BOOLEAN]]
  /\ record \in [save : Nat, whole : BOOLEAN]
  /\ outcomes \subseteq [save : Nat, whole : BOOLEAN]
  /\ saves \in Nat /\ reported \in Nat

(* One manager has the lock: in its own hands or in those of its write. *)
Alone == \A m, n \in Manager : History!Held(m) /\ History!Held(n) => m = n

(* What is being written is the newest save, and synced before the rename. *)
Newest ==
  \A m \in Manager :
    /\ writer[m].step = "idle" <=> ~History!Writing(m)
    /\ History!Writing(m) => writer[m].save = saves
    /\ writer[m].step \in {"synced", "renamed"} => writer[m].flushed
    /\ writer[m].step = "renamed" => record.save = saves

Readable == \A r \in {record} \cup outcomes : r.whole /\ r.save >= reported /\ r.save <= saves

HistoryInv == HistoryTypes /\ Alone /\ Newest /\ Readable

LEMMA HistoryInit == History!Init => HistoryInv
BY DEF History!Init, History!Empty, History!Idle, History!Held, History!Writing, HistoryInv,
   HistoryTypes, Alone, Newest, Readable, Steps

(* A step of the write of the manager that has the lock. *)
LEMMA WriterStep ==
  ASSUME HistoryInv, NEW m \in Manager, History!Held(m), UNCHANGED managing,
         NEW w \in [save : Nat, step : Steps, flushed : BOOLEAN],
         writer' = [writer EXCEPT ![m] = w],
         w.step = "idle" <=> w = History!Idle,
         w # History!Idle => w.save = saves',
         w.step \in {"synced", "renamed"} => w.flushed,
         w.step = "renamed" => record'.save = saves',
         record' \in [save : Nat, whole : BOOLEAN],
         outcomes' \subseteq [save : Nat, whole : BOOLEAN],
         saves' \in Nat, reported' \in Nat, Readable'
  PROVE  HistoryInv'
<1>1. \A n \in Manager \ {m} : n \notin managing /\ writer[n] = History!Idle
  BY DEF HistoryInv, Alone, History!Held, History!Writing
<1>2. writer'[m] = w /\ \A n \in Manager \ {m} : writer'[n] = History!Idle
  BY <1>1 DEF HistoryInv, HistoryTypes
<1>3. HistoryTypes'
  BY DEF HistoryInv, HistoryTypes
<1>4. Alone'
  BY <1>1, <1>2 DEF Alone, History!Held, History!Writing
<1>5. Newest'
  <2> SUFFICES ASSUME NEW n \in Manager
               PROVE  /\ writer'[n].step = "idle" <=> writer'[n] = History!Idle
                      /\ writer'[n] # History!Idle => writer'[n].save = saves'
                      /\ writer'[n].step \in {"synced", "renamed"} => writer'[n].flushed
                      /\ writer'[n].step = "renamed" => record'.save = saves'
    BY DEF Newest, History!Writing, History!Idle
  <2>1. CASE n = m
    BY <1>2, <2>1
  <2>2. CASE n # m
    BY <1>2, <2>2 DEF History!Idle
  <2> QED
    BY <2>1, <2>2
<1> QED
  BY <1>3, <1>4, <1>5 DEF HistoryInv

(* The bytes are synced before the rename, the rename before the report,   *)
(* and the lock outlasts both.                                             *)
LEMMA HistoryStep ==
  ASSUME HistoryInv, History!Next \/ UNCHANGED journal
  PROVE  HistoryInv'
<1> USE DEF HistoryInv, HistoryTypes, Alone, Newest, Readable, Steps, History!Idle,
            History!Held, History!Writing
<1>1. ASSUME NEW m \in Manager, History!Open(m)  PROVE HistoryInv'
  BY <1>1 DEF History!Open
<1>2. ASSUME NEW m \in Manager, History!Close(m)  PROVE HistoryInv'
  BY <1>2 DEF History!Close
<1>3. ASSUME NEW m \in Manager, History!BeginSave(m)  PROVE HistoryInv'
  <2> DEFINE w == [save |-> saves + 1, step |-> "written", flushed |-> FALSE]
  <2>1. w \in [save : Nat, step : Steps, flushed : BOOLEAN]
    BY <1>3 DEF History!BeginSave
  <2>2. /\ writer' = [writer EXCEPT ![m] = w]
        /\ History!Held(m) /\ UNCHANGED managing
    BY <1>3 DEF History!BeginSave
  <2>3. /\ record' \in [save : Nat, whole : BOOLEAN]
        /\ outcomes' \subseteq [save : Nat, whole : BOOLEAN]
        /\ saves' \in Nat /\ reported' \in Nat
    BY <1>3 DEF History!BeginSave
  <2>4. Readable'
    BY <1>3 DEF History!BeginSave
  <2>5. /\ w.step = "idle" <=> w = History!Idle
        /\ w # History!Idle => w.save = saves'
        /\ w.step \in {"synced", "renamed"} => w.flushed
        /\ w.step = "renamed" => record'.save = saves'
    BY <1>3 DEF History!BeginSave
  <2> HIDE DEF w
  <2> QED
    BY <2>1, <2>2, <2>3, <2>4, <2>5, WriterStep
<1>4. ASSUME NEW m \in Manager, History!Sync(m)  PROVE HistoryInv'
  <2> DEFINE w == [writer[m] EXCEPT !.step = "synced", !.flushed = TRUE]
  <2>1. w \in [save : Nat, step : Steps, flushed : BOOLEAN]
    BY <1>4 DEF History!Sync
  <2>2. /\ writer' = [writer EXCEPT ![m] = w]
        /\ History!Held(m) /\ UNCHANGED managing
    BY <1>4 DEF History!Sync
  <2>3. /\ record' \in [save : Nat, whole : BOOLEAN]
        /\ outcomes' \subseteq [save : Nat, whole : BOOLEAN]
        /\ saves' \in Nat /\ reported' \in Nat
    BY <1>4 DEF History!Sync
  <2>4. Readable'
    BY <1>4 DEF History!Sync
  <2>5. /\ w.step = "idle" <=> w = History!Idle
        /\ w # History!Idle => w.save = saves'
        /\ w.step \in {"synced", "renamed"} => w.flushed
        /\ w.step = "renamed" => record'.save = saves'
    <3>1. writer[m] \in [save : Nat, step : Steps, flushed : BOOLEAN]
      OBVIOUS
    <3>2. writer[m].step = "written" /\ writer[m].save = saves /\ saves' = saves
      BY <1>4 DEF History!Sync
    <3>3. w.step = "synced" /\ w.flushed /\ w.save = saves
      BY <3>1, <3>2
    <3> QED
      BY <3>2, <3>3
  <2> HIDE DEF w
  <2> QED
    BY <2>1, <2>2, <2>3, <2>4, <2>5, WriterStep
<1>5. ASSUME NEW m \in Manager, History!Rename(m)  PROVE HistoryInv'
  <2> DEFINE w == [writer[m] EXCEPT !.step = "renamed"]
  <2>1. w \in [save : Nat, step : Steps, flushed : BOOLEAN]
    BY <1>5 DEF History!Rename
  <2>2. /\ writer' = [writer EXCEPT ![m] = w]
        /\ History!Held(m) /\ UNCHANGED managing
    BY <1>5 DEF History!Rename
  <2>3. /\ record' \in [save : Nat, whole : BOOLEAN]
        /\ outcomes' \subseteq [save : Nat, whole : BOOLEAN]
        /\ saves' \in Nat /\ reported' \in Nat
    BY <1>5 DEF History!Rename
  <2>4. Readable'
    BY <1>5 DEF History!Rename
  <2>5. /\ w.step = "idle" <=> w = History!Idle
        /\ w # History!Idle => w.save = saves'
        /\ w.step \in {"synced", "renamed"} => w.flushed
        /\ w.step = "renamed" => record'.save = saves'
    BY <1>5 DEF History!Rename
  <2> HIDE DEF w
  <2> QED
    BY <2>1, <2>2, <2>3, <2>4, <2>5, WriterStep
<1>6. ASSUME NEW m \in Manager, History!SyncDirectory(m)  PROVE HistoryInv'
  <2> DEFINE w == History!Idle
  <2>1. w \in [save : Nat, step : Steps, flushed : BOOLEAN]
    BY <1>6 DEF History!SyncDirectory
  <2>2. /\ writer' = [writer EXCEPT ![m] = w]
        /\ History!Held(m) /\ UNCHANGED managing
    BY <1>6 DEF History!SyncDirectory
  <2>3. /\ record' \in [save : Nat, whole : BOOLEAN]
        /\ outcomes' \subseteq [save : Nat, whole : BOOLEAN]
        /\ saves' \in Nat /\ reported' \in Nat
    BY <1>6 DEF History!SyncDirectory
  <2>4. Readable'
    BY <1>6 DEF History!SyncDirectory
  <2>5. /\ w.step = "idle" <=> w = History!Idle
        /\ w # History!Idle => w.save = saves'
        /\ w.step \in {"synced", "renamed"} => w.flushed
        /\ w.step = "renamed" => record'.save = saves'
    BY <1>6 DEF History!SyncDirectory
  <2> HIDE DEF w
  <2> QED
    BY <2>1, <2>2, <2>3, <2>4, <2>5, WriterStep
<1>7. ASSUME NEW m \in Manager, History!Fail(m)  PROVE HistoryInv'
  BY <1>7 DEF History!Fail
<1>8. CASE History!Stop
  BY <1>8 DEF History!Stop
<1>9. CASE UNCHANGED journal
  BY <1>9 DEF journal
<1> QED
  BY <1>1, <1>2, <1>3, <1>4, <1>5, <1>6, <1>7, <1>8, <1>9 DEF History!Next, History!Saving

(* "Never truncate the last successful save": what jobs.json is, or may be *)
(* after the machine stops, is whole and no older than the last save that  *)
(* was reported (history.rs, write).                                       *)
THEOREM LastSaveSurvives == DurableSpec => []LastSaveKept
<1>1. DurableInit => HistoryInv
  BY HistoryInit DEF DurableInit
<1>2. HistoryInv /\ [DurableNext]_<<kind, phases, chunks, shared, made, journal>>
        => HistoryInv'
  BY HistoryStep DEF DurableNext
<1>3. HistoryInv => LastSaveKept
  BY DEF HistoryInv, Readable, LastSaveKept, History!LastSaveKept
<1> QED
  BY <1>1, <1>2, <1>3, PTL DEF DurableSpec

-----------------------------------------------------------------------------
(* The finished file. *)

Whose  == Others \cup {"made", "original"}
Places == [target : Whose \cup {"none"}, temporary : Whose \cup {"none"},
           elsewhere : SUBSET Whose]

(* A file has one name, but for the made one while its link is published.  *)
Once(n, f) ==
  /\ n.target = f => n.temporary # f /\ f \notin n.elsewhere
  /\ n.temporary = f => f \notin n.elsewhere

Has(n, f) == n.target = f \/ n.temporary = f \/ f \in n.elsewhere

(* What may be on disk: nothing of theirs is missing, and the made file is *)
(* seen only when its bytes are flushed.                                   *)
Lossless(n) ==
  /\ n \in Places
  /\ \A f \in Others \cup {"original"} : Once(n, f)
  /\ \A f \in Others : Has(n, f)
  /\ Has(n, "original") \/ Has(n, "made")
  /\ ~flushed => n.target # "made" /\ "made" \notin n.elsewhere
  /\ inPlace => Once(n, "made")

(* Once the exchange is synced the original is at the hidden name at most, *)
(* and until the end of the operation the original is there.               *)
Replacing == step \in {"synced", "approved"} \/ (step = "done" /\ inPlace)

Survivors ==
  /\ names \in survivors
  /\ \A n \in survivors : Lossless(n)
  /\ Replacing => \A n \in survivors :
       /\ n.target # "original" /\ "original" \notin n.elsewhere /\ Has(n, "made")
  /\ ~inPlace \/ step \notin {"done", "down"} => \A n \in survivors : Has(n, "original")

(* What the operation knows at each step. *)
AtStep ==
  /\ step \in {"start", "flushed", "ready"} => names.temporary = "made" /\ Once(names, "made")
  /\ step \notin {"start", "refused", "down"} => flushed
  /\ step \in {"ready", "exchanged", "inspected", "doubted", "restoring", "restored", "synced",
               "approved"} => inPlace
  /\ step = "published" => ~inPlace
  /\ step \in {"inspected", "synced", "approved"} => names.temporary = "original"
                                                     /\ Has(names, "made")
  /\ step = "refused" => ~Has(names, "made")
  /\ ~whole => ~flushed /\ step = "down"

OutputTypes ==
  /\ {inPlace, flushed, whole} \subseteq BOOLEAN
  /\ step \in {"start", "flushed", "published", "ready", "exchanged", "inspected", "doubted",
               "restoring", "restored", "synced", "approved", "done", "refused", "retained",
               "down"}

OutputInv == OutputTypes /\ Survivors /\ AtStep

Distinct == Others \cap {"none", "made", "original"} = {}

LEMMA Distinguished == Distinct
BY DurableAssumption DEF Output!Foreign, Distinct

LEMMA OutputInit == Output!Init => OutputInv
<1> SUFFICES ASSUME Output!Init  PROVE OutputInv
  OBVIOUS
<1>1. names = [target |-> "original", temporary |-> "made", elsewhere |-> Others]
      \/ /\ ~inPlace
         /\ names = [target |-> "none", temporary |-> "made",
                     elsewhere |-> Others \cup {"original"}]
  BY DEF Output!Init
<1>2. Lossless(names) /\ Has(names, "original") /\ names.temporary = "made" /\ Once(names, "made")
  BY <1>1, Distinguished DEF Output!Init, Lossless, Places, Whose, Once, Has, Distinct
<1> QED
  BY <1>2 DEF Output!Init, OutputInv, OutputTypes, Survivors, AtStep, Replacing

(* A step that changes no name. *)
LEMMA SameNames ==
  ASSUME OutputInv, UNCHANGED <<inPlace, names, survivors>>, OutputTypes',
         flushed => flushed', AtStep', Replacing' => Replacing,
         inPlace /\ step \in {"done", "down"} => step' \in {"done", "down"}
  PROVE  OutputInv'
<1>1. \A n \in survivors : Lossless(n)'
  BY DEF OutputInv, Survivors, Lossless, OutputTypes
<1> QED
  BY <1>1 DEF OutputInv, Survivors

(* A step that changes the names in a sound way. *)
LEMMA NewNames ==
  ASSUME OutputInv, UNCHANGED <<inPlace, flushed>>, OutputTypes', AtStep', Lossless(names'),
         survivors' = survivors \cup {names'},
         Replacing' => /\ Replacing
                       /\ names'.target # "original" /\ "original" \notin names'.elsewhere
                       /\ Has(names', "made"),
         ~inPlace \/ step' \notin {"done", "down"} =>
            Has(names', "original") /\ (~inPlace \/ step \notin {"done", "down"})
  PROVE  OutputInv'
BY DEF OutputInv, Survivors, Lossless

(* Moves between the target and other names. *)
Carried(n, n2) ==
  /\ n2 \in Places /\ n2.temporary = n.temporary
  /\ \A f \in Whose : /\ n2.target = f \/ f \in n2.elsewhere <=> n.target = f \/ f \in n.elsewhere
                      /\ Once(n, f) => Once(n2, f)

LEMMA CarriedAway ==
  ASSUME NEW n \in Places, n.target # "none",
         NEW n2, n2 = [n EXCEPT !.target = "none", !.elsewhere = @ \cup {n.target}]
  PROVE  Carried(n, n2)
<1>1. /\ n2 \in Places /\ n2.target = "none" /\ n2.temporary = n.temporary
      /\ n2.elsewhere = n.elsewhere \cup {n.target}
  BY DEF Places
<1>2. "none" \notin Whose
  BY Distinguished DEF Distinct, Whose
<1> QED
  BY <1>1, <1>2 DEF Carried, Once

LEMMA CarriedIn ==
  ASSUME NEW n \in Places, NEW f \in n.elsewhere,
         NEW n2, n2 = [n EXCEPT !.target = f,
                                !.elsewhere = (@ \ {f}) \cup ({n.target} \ {"none"})]
  PROVE  Carried(n, n2)
<1>1. /\ n2 \in Places /\ n2.target = f /\ n2.temporary = n.temporary
      /\ n2.elsewhere = (n.elsewhere \ {f}) \cup ({n.target} \ {"none"})
  BY DEF Places
<1>2. "none" \notin Whose
  BY Distinguished DEF Distinct, Whose
<1> QED
  BY <1>1, <1>2 DEF Carried, Once

(* Other programs lose nothing, and leave the hidden name alone. *)
LEMMA OthersStep ==
  ASSUME OutputInv, Output!MoveAway \/ \E f \in names.elsewhere : Output!Place(f)
  PROVE  OutputInv'
<1>1. Lossless(names) /\ names \in Places
  BY DEF OutputInv, Survivors, Lossless
<1>2. /\ UNCHANGED <<inPlace, flushed, whole, step>>
      /\ survivors' = survivors \cup {names'}
      /\ Carried(names, names')
  <2>1. CASE Output!MoveAway
    BY <1>1, <2>1, CarriedAway DEF Output!MoveAway, Output!Rename
  <2>2. ASSUME NEW f \in names.elsewhere, Output!Place(f)
        PROVE  /\ UNCHANGED <<inPlace, flushed, whole, step>>
               /\ survivors' = survivors \cup {names'}
               /\ Carried(names, names')
    BY <1>1, <2>2, CarriedIn DEF Output!Place, Output!Rename
  <2> QED
    BY <2>1, <2>2
<1>3. \A f \in Whose : Has(names', f) <=> Has(names, f)
  BY <1>2 DEF Carried, Has
<1>4. Lossless(names')
  BY <1>1, <1>2, <1>3 DEF Lossless, Carried, Whose
<1>5. AtStep' /\ OutputTypes' /\ Replacing' = Replacing
  BY <1>2, <1>3 DEF OutputInv, AtStep, OutputTypes, Carried, Replacing, Whose
<1>6. Replacing => /\ names'.target # "original" /\ "original" \notin names'.elsewhere
                   /\ Has(names', "made")
  BY <1>2, <1>3 DEF OutputInv, Survivors, Carried, Whose
<1>7. ~inPlace \/ step \notin {"done", "down"} => Has(names', "original")
  BY <1>3 DEF OutputInv, Survivors, Whose
<1> QED
  BY <1>2, <1>4, <1>5, <1>6, <1>7, NewNames

(* The exchange of the target and the hidden name, of two different files. *)
LEMMA SwappedNames ==
  ASSUME Lossless(names), inPlace, names.target # "none", names' = Output!Swapped,
         flushed, UNCHANGED <<inPlace, flushed>>
  PROVE  /\ Lossless(names')
         /\ names'.target = names.temporary /\ names'.temporary = names.target
         /\ names'.elsewhere = names.elsewhere
         /\ \A f : Has(names', f) <=> Has(names, f)
<1>1. /\ names' \in Places
      /\ names'.target = names.temporary /\ names'.temporary = names.target
      /\ names'.elsewhere = names.elsewhere
  BY DEF Lossless, Places, Output!Swapped
<1>2. \A f : Has(names', f) <=> Has(names, f)
  BY <1>1 DEF Has
<1>3. \A f \in Whose : Once(names', f)
  BY <1>1 DEF Lossless, Once, Whose
<1> QED
  BY <1>1, <1>2, <1>3 DEF Lossless, Whose

(* The removal of the hidden name. *)
LEMMA RemovedName ==
  ASSUME Lossless(names), names.temporary \in {"made", "original"},
         names' = [names EXCEPT !.temporary = "none"], UNCHANGED <<inPlace, flushed>>,
         names.temporary = "made" => Has(names, "original"),
         names.temporary = "original" => Has(names, "made")
  PROVE  /\ Lossless(names')
         /\ names'.target = names.target /\ names'.elsewhere = names.elsewhere
         /\ names'.temporary = "none"
         /\ \A f \in Whose : f # names.temporary => (Has(names', f) <=> Has(names, f))
<1>1. /\ names' \in Places
      /\ names'.target = names.target /\ names'.elsewhere = names.elsewhere
      /\ names'.temporary = "none"
  BY DEF Lossless, Places, Whose
<1>2. \A f \in Whose : f # "none" /\ (f # names.temporary => (Has(names', f) <=> Has(names, f)))
  BY <1>1, Distinguished DEF Has, Whose, Distinct
<1>3. \A f \in Whose : Once(names, f) => Once(names', f)
  BY <1>1, <1>2 DEF Once
<1>4. names.temporary \notin Others
  BY Distinguished DEF Distinct
<1>5. Has(names', "original") \/ Has(names', "made")
  BY <1>2 DEF Lossless, Whose
<1>6. ~flushed' => names'.target # "made" /\ "made" \notin names'.elsewhere
  BY <1>1 DEF Lossless
<1> QED
  BY <1>1, <1>2, <1>3, <1>4, <1>5, <1>6 DEF Lossless, Whose

(* The steps of the operation. *)
LEMMA CommittingStep ==
  ASSUME OutputInv, Output!Committing
  PROVE  OutputInv'
<1>1. Lossless(names) /\ (~inPlace \/ step \notin {"done", "down"} => Has(names, "original"))
  BY DEF OutputInv, Survivors
<1>2. CASE Output!Flush
  <2>1. /\ UNCHANGED <<inPlace, names, survivors>> /\ (flushed => flushed') /\ OutputTypes'
        /\ AtStep' /\ (Replacing' => Replacing)
        /\ (inPlace /\ step \in {"done", "down"} => step' \in {"done", "down"})
    BY <1>1, <1>2
       DEF Output!Flush, OutputInv, OutputTypes, AtStep, Replacing, Output!OwnTemporary, Once
  <2> QED
    BY <2>1, SameNames
<1>3. CASE Output!Publish
  <2>1. /\ step = "flushed" /\ ~inPlace /\ flushed /\ names.temporary = "made"
        /\ names.target = "none" /\ Once(names, "made")
    BY <1>3 DEF Output!Publish, Output!OwnTemporary, OutputInv, AtStep
  <2>2. /\ names' = [names EXCEPT !.target = "made"] /\ survivors' = survivors \cup {names'}
        /\ UNCHANGED <<inPlace, flushed, whole>> /\ step' = "published"
    BY <1>3 DEF Output!Publish, Output!Rename
  <2>3. /\ names' \in Places /\ names'.target = "made"
        /\ names'.temporary = names.temporary /\ names'.elsewhere = names.elsewhere
    BY <1>1, <2>2 DEF Lossless, Places, Whose
  <2>4. \A f \in Whose : Has(names, f) => Has(names', f)
    BY <2>1, <2>3, Distinguished DEF Has, Whose, Distinct
  <2>5. \A f \in Others \cup {"original"} : Once(names', f)
    BY <1>1, <2>1, <2>3, Distinguished DEF Lossless, Once, Distinct
  <2>6. Lossless(names')
    BY <1>1, <2>1, <2>2, <2>3, <2>4, <2>5 DEF Lossless, Whose
  <2>7. AtStep' /\ OutputTypes' /\ ~Replacing'
    BY <2>1, <2>2 DEF OutputInv, OutputTypes, AtStep, Replacing
  <2> QED
    BY <1>1, <2>1, <2>2, <2>4, <2>6, <2>7, NewNames DEF Whose
<1>4. CASE Output!Cleanup
  <2>1. /\ step = "published" /\ ~inPlace /\ flushed /\ names.temporary = "made"
        /\ Has(names, "original")
    BY <1>1, <1>4 DEF Output!Cleanup, OutputInv, AtStep, Output!OwnTemporary
  <2>2. /\ names' = [names EXCEPT !.temporary = "none"] /\ survivors' = survivors \cup {names'}
        /\ UNCHANGED <<inPlace, flushed, whole>> /\ step' = "done"
    BY <1>4, <2>1 DEF Output!Cleanup, Output!Rename, Output!OwnTemporary
  <2>3. /\ Lossless(names')
        /\ names'.target = names.target /\ names'.elsewhere = names.elsewhere
        /\ names'.temporary = "none"
        /\ \A f \in Whose : f # names.temporary => (Has(names', f) <=> Has(names, f))
    BY <1>1, <2>1, <2>2, RemovedName
  <2>4. AtStep' /\ OutputTypes' /\ ~Replacing'
    BY <2>1, <2>2 DEF OutputInv, OutputTypes, AtStep, Replacing
  <2> QED
    BY <1>1, <2>1, <2>2, <2>3, <2>4, NewNames DEF Whose
<1>5. CASE Output!Recheck
  <2>1. /\ UNCHANGED <<inPlace, names, survivors>> /\ (flushed => flushed') /\ OutputTypes'
        /\ AtStep' /\ (Replacing' => Replacing)
        /\ (inPlace /\ step \in {"done", "down"} => step' \in {"done", "down"})
    BY <1>1, <1>5 DEF Output!Recheck, OutputInv, OutputTypes, AtStep, Replacing
  <2> QED
    BY <2>1, SameNames
<1>6. CASE Output!Exchange
  <2>1. /\ step = "ready" /\ inPlace /\ flushed /\ names.target # "none"
    BY <1>6 DEF Output!Exchange, OutputInv, AtStep
  <2>2. /\ names' = Output!Swapped /\ survivors' = survivors \cup {names'}
        /\ UNCHANGED <<inPlace, flushed, whole>> /\ step' = "exchanged"
    BY <1>6 DEF Output!Exchange, Output!Rename
  <2>3. Lossless(names') /\ \A f : Has(names', f) <=> Has(names, f)
    BY <1>1, <2>1, <2>2, SwappedNames
  <2>4. AtStep' /\ OutputTypes' /\ ~Replacing'
    BY <2>1, <2>2 DEF OutputInv, OutputTypes, AtStep, Replacing
  <2> QED
    BY <1>1, <2>1, <2>2, <2>3, <2>4, NewNames
<1>7. CASE Output!Inspect
  <2>1. /\ UNCHANGED <<inPlace, names, survivors>> /\ (flushed => flushed') /\ OutputTypes'
        /\ AtStep' /\ (Replacing' => Replacing)
        /\ (inPlace /\ step \in {"done", "down"} => step' \in {"done", "down"})
    BY <1>1, <1>7
       DEF Output!Inspect, OutputInv, OutputTypes, AtStep, Replacing, Output!Replaced, Has
  <2> QED
    BY <2>1, SameNames
<1>8. CASE Output!SyncDirectory
  <2>1. CASE survivors' = Output!OnlyThis /\ step' = "synced"
    <3>1. /\ names.temporary = "original" /\ Has(names, "made")
          /\ names.target # "original" /\ "original" \notin names.elsewhere
      BY <1>1, <1>8 DEF Output!SyncDirectory, OutputInv, AtStep, Lossless, Once
    <3>2. survivors' = {names} /\ UNCHANGED <<inPlace, names, flushed, whole>>
      BY <1>8, <2>1 DEF Output!SyncDirectory, Output!OnlyThis
    <3>3. AtStep' /\ OutputTypes'
      BY <1>8, <2>1, <3>1, <3>2 DEF Output!SyncDirectory, OutputInv, AtStep, OutputTypes, Has
    <3>4. Lossless(names)' /\ Has(names, "original")'
      BY <1>1, <3>1, <3>2 DEF Lossless, Has, Once
    <3> QED
      BY <3>1, <3>2, <3>3, <3>4 DEF OutputInv, Survivors, Has
  <2>2. CASE step' = "doubted" /\ UNCHANGED survivors
    <3>1. /\ UNCHANGED <<inPlace, names, survivors, flushed>> /\ OutputTypes' /\ AtStep'
          /\ ~Replacing' /\ step = "inspected"
      BY <1>8, <2>2 DEF Output!SyncDirectory, OutputInv, OutputTypes, AtStep, Replacing
    <3> QED
      BY <2>2, <3>1, SameNames
  <2> QED
    BY <1>8, <2>1, <2>2 DEF Output!SyncDirectory
<1>9. CASE Output!Reexamine
  <2>1. /\ UNCHANGED <<inPlace, names, survivors>> /\ (flushed => flushed') /\ OutputTypes'
        /\ AtStep' /\ (Replacing' => Replacing)
        /\ (inPlace /\ step \in {"done", "down"} => step' \in {"done", "down"})
    BY <1>1, <1>9 DEF Output!Reexamine, OutputInv, OutputTypes, AtStep, Replacing
  <2> QED
    BY <2>1, SameNames
<1>10. CASE Output!RollBack
  <2>1. /\ step = "restoring" /\ inPlace /\ flushed /\ names.target # "none"
    BY <1>10 DEF Output!RollBack, OutputInv, AtStep
  <2>2. /\ names' = Output!Swapped /\ survivors' = survivors \cup {names'}
        /\ UNCHANGED <<inPlace, flushed, whole>> /\ step' = "restored"
    BY <1>10 DEF Output!RollBack, Output!Rename
  <2>3. Lossless(names') /\ \A f : Has(names', f) <=> Has(names, f)
    BY <1>1, <2>1, <2>2, SwappedNames
  <2>4. AtStep' /\ OutputTypes' /\ ~Replacing'
    BY <2>1, <2>2 DEF OutputInv, OutputTypes, AtStep, Replacing
  <2> QED
    BY <1>1, <2>1, <2>2, <2>3, <2>4, NewNames
<1>11. CASE Output!RemoveMade
  <2>1. /\ step = "restored" /\ inPlace /\ flushed /\ names.temporary = "made"
        /\ Has(names, "original")
    BY <1>1, <1>11 DEF Output!RemoveMade, OutputInv, AtStep, Output!OwnTemporary
  <2>2. /\ names' = [names EXCEPT !.temporary = "none"] /\ survivors' = survivors \cup {names'}
        /\ UNCHANGED <<inPlace, flushed, whole>> /\ step' = "refused"
    BY <1>11, <2>1 DEF Output!RemoveMade, Output!Rename, Output!OwnTemporary
  <2>3. /\ Lossless(names')
        /\ names'.target = names.target /\ names'.elsewhere = names.elsewhere
        /\ names'.temporary = "none"
        /\ \A f \in Whose : f # names.temporary => (Has(names', f) <=> Has(names, f))
    BY <1>1, <2>1, <2>2, RemovedName
  <2>4. ~Has(names', "made")
    BY <1>1, <2>1, <2>3 DEF Has, Lossless, Once
  <2>5. AtStep' /\ OutputTypes' /\ ~Replacing'
    BY <2>1, <2>2, <2>4 DEF OutputInv, OutputTypes, AtStep, Replacing
  <2> QED
    BY <1>1, <2>1, <2>2, <2>3, <2>5, NewNames DEF Whose
<1>12. CASE Output!Approve
  <2>1. /\ UNCHANGED <<inPlace, names, survivors>> /\ (flushed => flushed') /\ OutputTypes'
        /\ AtStep' /\ (Replacing' => Replacing)
        /\ (inPlace /\ step \in {"done", "down"} => step' \in {"done", "down"})
    BY <1>1, <1>12 DEF Output!Approve, OutputInv, OutputTypes, AtStep, Replacing
  <2> QED
    BY <2>1, SameNames
<1>13. CASE Output!RemoveBackup
  <2>1. /\ step = "approved" /\ inPlace /\ flushed /\ names.temporary = "original"
        /\ Has(names, "made")
    BY <1>1, <1>13 DEF Output!RemoveBackup, OutputInv, AtStep, Output!OwnTemporary
  <2>2. /\ names' = [names EXCEPT !.temporary = "none"] /\ survivors' = survivors \cup {names'}
        /\ UNCHANGED <<inPlace, flushed, whole>> /\ step' = "done"
    BY <1>13, <2>1 DEF Output!RemoveBackup, Output!Rename, Output!OwnTemporary
  <2>3. /\ Lossless(names')
        /\ names'.target = names.target /\ names'.elsewhere = names.elsewhere
        /\ names'.temporary = "none"
        /\ \A f \in Whose : f # names.temporary => (Has(names', f) <=> Has(names, f))
    BY <1>1, <2>1, <2>2, RemovedName
  <2>4. /\ Replacing /\ names'.target # "original" /\ "original" \notin names'.elsewhere
        /\ Has(names', "made")
    BY <1>1, <2>1, <2>3 DEF Replacing, OutputInv, Survivors, Whose
  <2>5. AtStep' /\ OutputTypes'
    BY <2>1, <2>2 DEF OutputInv, AtStep, OutputTypes
  <2> QED
    BY <2>1, <2>2, <2>3, <2>4, <2>5, NewNames
<1>14. CASE Output!Abandon
  <2>1. /\ step \in {"start", "flushed", "ready"} /\ names.temporary = "made"
        /\ Once(names, "made") /\ Has(names, "original")
    BY <1>1, <1>14 DEF Output!Abandon, OutputInv, AtStep, Output!OwnTemporary
  <2>2. /\ names' = [names EXCEPT !.temporary = "none"] /\ survivors' = survivors \cup {names'}
        /\ UNCHANGED <<inPlace, flushed, whole>> /\ step' = "refused"
    BY <1>14, <2>1 DEF Output!Abandon, Output!Rename, Output!OwnTemporary
  <2>3. /\ Lossless(names')
        /\ names'.target = names.target /\ names'.elsewhere = names.elsewhere
        /\ names'.temporary = "none"
        /\ \A f \in Whose : f # names.temporary => (Has(names', f) <=> Has(names, f))
    BY <1>1, <2>1, <2>2, RemovedName
  <2>4. ~Has(names', "made")
    BY <2>1, <2>3 DEF Has, Once
  <2>5. AtStep' /\ OutputTypes' /\ ~Replacing'
    BY <2>1, <2>2, <2>4 DEF OutputInv, OutputTypes, AtStep, Replacing
  <2> QED
    BY <1>1, <2>1, <2>2, <2>3, <2>5, NewNames DEF Whose
<1>15. CASE Output!Retain
  <2>1. /\ UNCHANGED <<inPlace, names, survivors>> /\ (flushed => flushed') /\ OutputTypes'
        /\ AtStep' /\ (Replacing' => Replacing)
        /\ (inPlace /\ step \in {"done", "down"} => step' \in {"done", "down"})
    BY <1>1, <1>15 DEF Output!Retain, OutputInv, OutputTypes, AtStep, Replacing
  <2> QED
    BY <2>1, SameNames
<1> QED
  BY <1>2, <1>3, <1>4, <1>5, <1>6, <1>7, <1>8, <1>9, <1>10, <1>11, <1>12, <1>13, <1>14,
     <1>15
     DEF Output!Committing

(* Other programs, the user and the machine. *)
LEMMA OutsideStep ==
  ASSUME OutputInv, Output!Cancel \/ Output!EditOriginal \/ Output!Stop
  PROVE  OutputInv'
<1>1. CASE Output!Cancel \/ Output!EditOriginal
  BY <1>1
     DEF Output!Cancel, Output!EditOriginal, OutputInv, OutputTypes, Survivors, Lossless, AtStep,
     Replacing
<1>2. CASE Output!Stop
  <2>1. /\ names' \in survivors /\ survivors' = {names'} /\ step' = "down"
        /\ whole' = flushed /\ UNCHANGED <<inPlace, flushed>>
    BY <1>2 DEF Output!Stop
  <2>2. Lossless(names)'
    BY <2>1 DEF OutputInv, Survivors, Lossless
  <2>3. ~inPlace' => Has(names', "original")
    BY <2>1 DEF OutputInv, Survivors
  <2> QED
    BY <2>1, <2>2, <2>3 DEF OutputInv, Survivors, OutputTypes, AtStep, Replacing
<1> QED
  BY <1>1, <1>2

LEMMA OutputStep ==
  ASSUME OutputInv, Output!Next \/ UNCHANGED made
  PROVE  OutputInv'
<1>1. CASE UNCHANGED made
  BY <1>1 DEF made, OutputInv, OutputTypes, Survivors, Lossless, AtStep, Replacing
<1> QED
  BY <1>1, CommittingStep, OthersStep, OutsideStep DEF Output!Next

LEMMA Kinds ==
  ASSUME [DurableNext]_<<kind, phases, chunks, shared, made, journal>>
  PROVE  Output!Next \/ UNCHANGED made
BY DEF DurableNext

LEMMA OutputInvariant == DurableSpec => []OutputInv
<1>1. DurableInit => OutputInv
  BY OutputInit DEF DurableInit
<1>2. OutputInv /\ [DurableNext]_<<kind, phases, chunks, shared, made, journal>> => OutputInv'
  BY OutputStep, Kinds
<1> QED
  BY <1>1, <1>2, PTL DEF DurableSpec

(* "A competing path replacement is never authority to delete its          *)
(* displaced file": every file of another program stays, the original goes *)
(* only for the made file, and only a complete one is seen at the target   *)
(* (replace.rs, replace_target; files.rs, publish).                        *)
THEOREM NoFileLost == DurableSpec => []NothingLost
<1>1. OutputInv => NothingLost
  <2> SUFFICES ASSUME OutputInv  PROVE NothingLost
    OBVIOUS
  <2>1. Lossless(names)
    BY DEF OutputInv, Survivors
  <2>2. \A f : Has(names, f) => f \in Output!Files(names)
    BY DEF Has, Output!Files
  <2>3. names.target = "made" => whole
    BY <2>1 DEF OutputInv, AtStep, OutputTypes, Lossless
  <2> QED
    BY <2>1, <2>2, <2>3 DEF NothingLost, Output!NothingLost, Lossless
<1> QED
  BY OutputInvariant, <1>1, PTL

(* A refusal means that the made file is gone, and after a reported        *)
(* replacement the original does not come back, also when the machine      *)
(* stops (replace.rs, the sync before the removal).                        *)
THEOREM AnswersStand == DurableSpec => AnswersHold
<1>1. OutputInv /\ OutputInv' /\ [DurableNext]_<<kind, phases, chunks, shared, made, journal>>
        => [/\ step' = "refused" => "made" \notin Output!Files(names')
            /\ step = "done" /\ inPlace => names'.target # "original"]_made
  <2> SUFFICES ASSUME OutputInv, OutputInv', Output!Next
               PROVE  /\ step' = "refused" => "made" \notin Output!Files(names')
                      /\ step = "done" /\ inPlace => names'.target # "original"
    BY Kinds
  <2>1. step' = "refused" => "made" \notin Output!Files(names')
    BY DEF OutputInv, AtStep, Has, Output!Files
  <2>2. ASSUME step = "done", inPlace  PROVE names'.target # "original"
    <3>1. \A n \in survivors : n.target # "original"
      BY <2>2 DEF OutputInv, Survivors, Replacing
    <3>2. CASE Output!Stop
      BY <3>1, <3>2 DEF Output!Stop
    <3>3. CASE ~Output!Stop
      <4>1. step' = "done" /\ inPlace'
        BY <2>2, <3>3 DEF Output!Next, Output!Committing, Output!Flush, Output!Publish,
           Output!Cleanup, Output!Recheck, Output!Exchange, Output!Inspect,
           Output!SyncDirectory, Output!Approve, Output!RemoveBackup, Output!Reexamine,
           Output!RollBack, Output!RemoveMade, Output!Abandon, Output!Retain, Output!Cancel,
           Output!MoveAway, Output!EditOriginal, Output!Place
      <4> QED
        BY <4>1 DEF OutputInv, Survivors, Replacing
    <3> QED
      BY <3>2, <3>3
  <2> QED
    BY <2>1, <2>2
<1> QED
  BY OutputInvariant, <1>1, PTL DEF DurableSpec, AnswersHold, Output!AnswersHold, Output!vars,
     made
-----------------------------------------------------------------------------
(* The chunks.  The proofs about their workspace hold here as they stand:  *)
(* both instances have the same steps.                                     *)
Work == INSTANCE Av1anRecovery_proofs

LEMMA SameWork == Chunked!Init => Work!Init
BY DEF Chunked!Init, Work!Init, Chunked!Absent, Work!Absent, Chunked!NoChunks, Work!NoChunks,
   Chunked!NoManifest, Work!NoManifest

LEMMA SameSteps == Chunked!Next => Work!Next
<1>1. Chunked!Preparing => Work!Preparing
  BY DEF Chunked!Preparing, Work!Preparing, Chunked!Prepare, Work!Prepare, Chunked!Resume,
     Work!Resume, Chunked!Adopted, Work!Adopted, Chunked!Adoptable, Work!Adoptable,
     Chunked!Adopt, Work!Adopt, Chunked!Refuse, Work!Refuse, Chunked!Noted, Work!Noted,
     Chunked!Sanitize, Work!Sanitize, Chunked!SavePrepared, Work!SavePrepared,
     Chunked!RecordPrepared, Work!RecordPrepared, Chunked!Absent, Work!Absent, Chunked!NoChunks,
     Work!NoChunks, Chunked!NoManifest, Work!NoManifest, Chunked!Stamped, Work!Stamped,
     Chunked!Loads, Work!Loads, Chunked!Unchanged, Work!Unchanged, Chunked!OwnTree,
     Work!OwnTree, Chunked!Opens, Work!Opens, Chunked!engine, Work!engine, Chunked!memory,
     Work!memory, Chunked!history, Work!history, Chunked!marks, Work!marks, Chunked!bounds,
     Work!bounds
<1>2. Chunked!Encoding => Work!Encoding
  BY DEF Chunked!Encoding, Work!Encoding, Chunked!Launch, Work!Launch, Chunked!StartChunk,
     Work!StartChunk, Chunked!FinishChunk, Work!FinishChunk, Chunked!Join, Work!Join,
     Chunked!StopEngine, Work!StopEngine, Chunked!Partial, Work!Partial, Chunked!engine,
     Work!engine, Chunked!memory, Work!memory, Chunked!history, Work!history, Chunked!marks,
     Work!marks, Chunked!bounds, Work!bounds
<1>3. Chunked!Sealing => Work!Sealing
  BY DEF Chunked!Sealing, Work!Sealing, Chunked!Completed, Work!Completed, Chunked!Candidate,
     Work!Candidate, Chunked!Checkpoint, Work!Checkpoint, Chunked!Commit, Work!Commit,
     Chunked!FailCheckpoint, Work!FailCheckpoint, Chunked!Finalize, Work!Finalize,
     Chunked!Publish, Work!Publish, Chunked!Stamped, Work!Stamped, Chunked!Absent, Work!Absent,
     Chunked!engine, Work!engine, Chunked!memory, Work!memory, Chunked!history, Work!history,
     Chunked!marks, Work!marks, Chunked!bounds, Work!bounds
<1>4. Chunked!Removing => Work!Removing
  BY DEF Chunked!Removing, Work!Removing, Chunked!DeleteEncode, Work!DeleteEncode,
     Chunked!RemoveEntry, Work!RemoveEntry, Chunked!RemoveManifest, Work!RemoveManifest,
     Chunked!ForgetWorkspace, Work!ForgetWorkspace, Chunked!Losing, Work!Losing, Chunked!Absent,
     Work!Absent, Chunked!NoChunks, Work!NoChunks, Chunked!NoManifest, Work!NoManifest,
     Chunked!Stamped, Work!Stamped, Chunked!Loads, Work!Loads, Chunked!Unchanged,
     Work!Unchanged, Chunked!OwnTree, Work!OwnTree, Chunked!Opens, Work!Opens, Chunked!engine,
     Work!engine, Chunked!memory, Work!memory, Chunked!history, Work!history, Chunked!marks,
     Work!marks, Chunked!bounds, Work!bounds
<1>5. Chunked!Resetting => Work!Resetting
  BY DEF Chunked!Resetting, Work!Resetting, Chunked!BeginReset, Work!BeginReset,
     Chunked!ClearChunk, Work!ClearChunk, Chunked!ClearProgress, Work!ClearProgress,
     Chunked!SaveCleared, Work!SaveCleared, Chunked!DropPlan, Work!DropPlan,
     Chunked!SaveReplanned, Work!SaveReplanned, Chunked!PersistRenewed, Work!PersistRenewed,
     Chunked!Losing, Work!Losing, Chunked!Saved, Work!Saved, Chunked!Absent, Work!Absent,
     Chunked!NoChunks, Work!NoChunks, Chunked!NoManifest, Work!NoManifest, Chunked!Stamped,
     Work!Stamped, Chunked!Loads, Work!Loads, Chunked!Unchanged, Work!Unchanged,
     Chunked!OwnTree, Work!OwnTree, Chunked!Opens, Work!Opens, Chunked!engine, Work!engine,
     Chunked!memory, Work!memory, Chunked!history, Work!history, Chunked!marks, Work!marks,
     Chunked!bounds, Work!bounds
<1>6. /\ Chunked!GiveUp => Work!GiveUp
      /\ Chunked!Crash => Work!Crash
      /\ Chunked!Restart => Work!Restart
  BY DEF Chunked!GiveUp, Work!GiveUp, Chunked!Crash, Work!Crash, Chunked!Restart, Work!Restart,
     Chunked!Unattended, Work!Unattended, Chunked!Saving, Work!Saving, Chunked!Noting,
     Work!Noting, Chunked!Stranded, Work!Stranded, Chunked!Saved, Work!Saved, Chunked!Forget,
     Work!Forget, Chunked!Absent, Work!Absent, Chunked!NoChunks, Work!NoChunks,
     Chunked!NoManifest, Work!NoManifest, Chunked!Stamped, Work!Stamped, Chunked!Unchanged,
     Work!Unchanged, Chunked!engine, Work!engine, Chunked!memory, Work!memory, Chunked!history,
     Work!history, Chunked!marks, Work!marks, Chunked!bounds, Work!bounds
<1>7. /\ Chunked!ChangeSource => Work!ChangeSource
      /\ \A c : Chunked!EditChunk(c) => Work!EditChunk(c)
  BY DEF Chunked!ChangeSource, Work!ChangeSource, Chunked!EditChunk, Work!EditChunk,
     Chunked!Unattended, Work!Unattended, Chunked!Absent, Work!Absent, Chunked!Edited,
     Work!Edited, Chunked!engine, Work!engine, Chunked!memory, Work!memory, Chunked!history,
     Work!history, Chunked!marks, Work!marks, Chunked!bounds, Work!bounds
<1> QED
  BY <1>1, <1>2, <1>3, <1>4, <1>5, <1>6, <1>7 DEF Chunked!Next, Work!Next

(* Behaviours about other files leave the workspace unmade. *)
ChunkInv ==
  /\ kind = "chunks" => Work!WorkInv
  /\ kind # "chunks" => stage = "new" /\ ~delivered

LEMMA ChunkInvariant == DurableSpec => []ChunkInv
<1>1. Work!Names
  BY DurableAssumption DEF Chunked!Names, Work!Names
<1>2. DurableInit => ChunkInv
  BY <1>1, SameWork, Work!WorkInitially DEF DurableInit, ChunkInv, Chunked!Init
<1>3. ChunkInv /\ [DurableNext]_<<kind, phases, chunks, shared, made, journal>> => ChunkInv'
  <2> SUFFICES ASSUME ChunkInv, [DurableNext]_<<kind, phases, chunks, shared, made, journal>>
               PROVE  ChunkInv'
    OBVIOUS
  <2>1. kind' = kind
    BY DEF DurableNext
  <2>2. CASE kind = "chunks"
    <3>1. Chunked!Next \/ UNCHANGED <<chunks, shared>>
      BY <2>2 DEF DurableNext
    <3>2. [Work!Next]_Work!vars
      BY <3>1, SameSteps DEF chunks, shared, Work!vars, Work!engine, Work!memory, Work!history,
         Work!marks, Work!bounds
    <3> QED
      BY <1>1, <2>1, <2>2, <3>2, Work!WorkNext DEF ChunkInv
  <2>3. CASE kind # "chunks"
    <3>1. UNCHANGED chunks
      BY <2>3 DEF DurableNext
    <3> QED
      BY <2>1, <2>3, <3>1 DEF ChunkInv, chunks
  <2> QED
    BY <2>2, <2>3
<1> QED
  BY <1>2, <1>3, PTL DEF DurableSpec

(* What is published was encoded from one version of the source with the   *)
(* settings of the history, for any number of chunks, resets and restarts  *)
(* (av1an/recovery.rs, Recovery::prepare and new_settings).                *)
THEOREM OneRecipeThroughout == DurableSpec => []OneRecipe
<1>1. ChunkInv => OneRecipe
  BY Work!WorkPublishes DEF ChunkInv, OneRecipe, Chunked!OneRecipe, Chunked!Recipe,
     Work!OneRecipe, Work!Recipe
<1> QED
  BY ChunkInvariant, <1>1, PTL

(* A workspace with a sealed queue opens again after any interruption that *)
(* cut neither a removal nor a write short, while its chunks are unedited  *)
(* (av1an/recovery.rs, OwnedRecovery::open).                               *)
THEOREM SealedChunksKept == DurableSpec => []KeptChunksUsable
<1>1. Work!KeptChunksUsable => KeptChunksUsable
  BY DEF KeptChunksUsable, Chunked!KeptChunksUsable, Work!KeptChunksUsable, Chunked!Untouched,
     Work!Untouched, Chunked!Edited, Work!Edited, Chunked!Opens, Work!Opens, Chunked!Loads,
     Work!Loads, Chunked!Unchanged, Work!Unchanged, Chunked!OwnTree, Work!OwnTree,
     Chunked!Stamped, Work!Stamped, Chunked!Absent, Work!Absent, Chunked!NoChunks, Work!NoChunks
<1>2. ChunkInv => KeptChunksUsable
  BY <1>1, Work!WorkReopens DEF ChunkInv, KeptChunksUsable, Chunked!KeptChunksUsable
<1> QED
  BY ChunkInvariant, <1>2, PTL
-----------------------------------------------------------------------------
(* The phases.  What is proved of a workspace of its own holds here.       *)

(* Behaviours about other files leave this workspace unmade as well. *)
PhaseInv ==
  /\ kind = "phases" => RecoveryInv
  /\ kind # "phases" => /\ at = "new" /\ locator = "none" /\ manifest = NoManifest
                        /\ ~published /\ ~released

LEMMA PhaseSteps ==
  ASSUME [DurableNext]_<<kind, phases, chunks, shared, made, journal>>
  PROVE  /\ kind' = kind
         /\ kind = "phases" => [Next]_vars
         /\ kind # "phases" => UNCHANGED phases
BY DEF DurableNext, phases, shared, vars, disk, attempt, history

LEMMA PhaseInvariant == DurableSpec => []PhaseInv
<1>1. DurableInit => PhaseInv
  BY RecoveryInit DEF DurableInit, PhaseInv, Init
<1>2. PhaseInv /\ [DurableNext]_<<kind, phases, chunks, shared, made, journal>> => PhaseInv'
  BY RecoveryNext, PhaseSteps DEF PhaseInv, phases
<1> QED
  BY <1>1, <1>2, PTL DEF DurableSpec

(* Whatever step was interrupted, a saved phase that nobody else touched   *)
(* can be resumed from, for every encoder whose timing receipt the layout  *)
(* check expects (standalone_recovery.rs, discover_locator and             *)
(* validate_layout).                                                       *)
THEOREM SavedPhasesUsable ==
  ASSUME WrapperKnown
  PROVE  DurableSpec => []SavedProgressUsable
<1>1. PhaseInv => SavedProgressUsable
  BY RecoveryUsable DEF PhaseInv, SavedProgressUsable
<1> QED
  BY <1>1, PhaseInvariant, PTL

(* What is published was made from one version of the source, in however   *)
(* many attempts (standalone_recovery.rs, prepare).                        *)
THEOREM OneSourceThroughout == DurableSpec => []OutputOfOneSource
<1>1. PhaseInv => OutputOfOneSource
  BY DEF PhaseInv, RecoveryInv, OutputOfOneSource
<1> QED
  BY <1>1, PhaseInvariant, PTL

(* The manifest outlives everything it lists, however often its removal    *)
(* fails or is cut short (standalone_recovery.rs, cleanup).                *)
THEOREM ManifestLast == DurableSpec => []ManifestRemovedLast
<1>1. PhaseInv => ManifestRemovedLast
  BY RecoveryLast DEF PhaseInv, ManifestRemovedLast
<1> QED
  BY <1>1, PhaseInvariant, PTL

(* A workspace is emptied only of what has a receipt, and only if nothing  *)
(* else is in it (standalone_recovery.rs, validate_layout before cleanup). *)
THEOREM RemovalsListed == DurableSpec => NothingElseRemoved
<1>1. PhaseInv /\ [DurableNext]_<<kind, phases, chunks, shared, made, journal>>
        => [Emptied => Listed]_vars
  <2>1. UNCHANGED phases => ~Emptied
    BY DEF phases, Emptied, Present
  <2> QED
    BY <2>1, RemovalListed, PhaseSteps DEF PhaseInv
<1> QED
  BY <1>1, PhaseInvariant, PTL DEF DurableSpec, NothingElseRemoved, Emptied, Listed

(* The saved progress keeps what SavedProgress promises, over failures,    *)
(* cancellations and restarts.                                             *)
THEOREM PhasesKeepPromise == DurableSpec => ImplementsSavedProgress
<1>1. DurableInit => Promise!Init
  BY PromiseInit DEF DurableInit
<1>2. PhaseInv /\ [DurableNext]_<<kind, phases, chunks, shared, made, journal>>
        => [Promise!Next]_(Promise!vars)
  <2>1. UNCHANGED phases => UNCHANGED Promise!vars
    BY DEF phases, Promise!vars
  <2> QED
    BY <2>1, PromiseNext, PhaseSteps DEF PhaseInv
<1> QED
  BY <1>1, <1>2, PhaseInvariant, PTL DEF DurableSpec, ImplementsSavedProgress, Promise!Spec
=============================================================================
