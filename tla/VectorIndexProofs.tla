--------------------------- MODULE VectorIndexProofs ---------------------------
(***************************************************************************)
(* What holds of the vector index for any number of frames, generations    *)
(* and thresholds: a kill, at any step of a refit or of a restore, leaves  *)
(* an index at least as new as before, but for the two mishaps StoredIndex *)
(* names (VectorIndex implements it), and the statistics it was built with.*)
(***************************************************************************)
EXTENDS VectorIndex, TLAPS

\* No directory and no refit is ahead of the generations there were.
Bounded ==
  /\ live.gen <= gens /\ backup.gen <= gens /\ refit.gen <= gens

\* Only a daemon that has loaded its store refits or adds, and only a start restores.
Alive ==
  /\ up => restore = NoRestore
  /\ handle # "none" => up /\ live.half = {}
  /\ handle = "none" => refit = NoRefit /\ add.step = "idle"

\* What a restore has still to copy is what the live directory lacks, half files
\* included; a half file without an index is one that the next restore copies again.
Restoring ==
  /\ restore.open # "none" => restore.open \in restore.left
  /\ "index" \in restore.left => live.gen = 0 /\ backup.gen # 0
  /\ "table" \in restore.left => backup.table
  /\ restore.left # {} => live.half \subseteq restore.left
  /\ live.half # {} => HasIndex(live) \/ backup.table

\* How far the files are at each step of the refit.
Refitting ==
  /\ refit.step \in {"build", "drop", "park", "swap"} =>
       live.gen < refit.gen /\ backup.gen < refit.gen
  /\ refit.step \in {"drop", "park", "swap"} =>
       staging.gen = refit.gen /\ staging.half = {}
  /\ refit.step = "park" => backup.gen = 0
  /\ refit.step = "swap" /\ ~raced => live.gen = 0 /\ ~live.there
  /\ refit.step \in {"adopt", "save"} => live.gen = refit.gen /\ refit.gen # 0

\* A store that is loaded does without its backup, but between the renames.
Settled ==
  handle # "none" /\ ~raced /\ refit.step # "swap" => live.gen # 0 \/ backup.gen = 0

IndexInv == TypeOK /\ Bounded /\ Alive /\ Restoring /\ Refitting /\ Settled

-----------------------------------------------------------------------------
(* Types.                                                                  *)

LEMMA InitTypes ==
  Init => TypeOK
<1> SUFFICES ASSUME Init PROVE TypeOK
  OBVIOUS
<1> USE VectorIndexAssumption DEF Frame, Gen
<1>1. NoDir \in Dir /\ NoRows \in [Frame -> Row]
  BY DEF NoDir, Dir, NoRows, Row
<1>2. live \in Dir /\ statsFile \in Gen \cup {0} /\ now \in 0 .. MaxFrame /\ gens \in 0 .. MaxGen
  <2>1. CASE live = NoDir /\ statsFile = 0 /\ now = 0 /\ gens = 0
    BY <1>1, <2>1
  <2>2. CASE /\ now = MinCount /\ now <= MaxFrame /\ gens = 1 /\ statsFile = 1
             /\ live = [there |-> TRUE, gen |-> 1, vectors |-> 1 .. now, table |-> TRUE,
                        rows |-> [f \in Frame |-> IF f <= now THEN "labelled" ELSE "none"],
                        half |-> {}]
    BY <2>2 DEF Dir, Row
  <2>. QED
    BY <2>1, <2>2 DEF Init
<1>3. NoAdd \in [step : {"idle", "open", "insert"}, frame : 0 .. MaxFrame, gen : Gen \cup {0}]
  BY DEF NoAdd
<1>4. NoRefit \in [step : {"idle", "build", "drop", "park", "swap", "adopt", "save"},
                   frames : SUBSET Frame, gen : Gen \cup {0}]
  BY DEF NoRefit
<1>5. mem \in [Frame -> Gen \cup {0}] /\ 0 \in 0 .. MinConsecutive /\ since \in 0 .. MaxSince
      /\ restore \in [left : SUBSET File, open : File \cup {"none"}]
  BY DEF Init, NoRestore
<1>. QED
  BY <1>1, <1>2, <1>3, <1>4, <1>5 DEF Init, TypeOK

\* The fields of a directory.
LEMMA DirFields ==
  ASSUME NEW d \in Dir
  PROVE  /\ d.there \in BOOLEAN /\ d.gen \in Gen \cup {0} /\ d.vectors \subseteq Frame
         /\ d.table \in BOOLEAN /\ d.rows \in [Frame -> Row] /\ d.half \subseteq File
BY DEF Dir

LEMMA NoDirIsDir ==
  NoDir \in Dir /\ [NoDir EXCEPT !.there = TRUE] \in Dir
BY DEF NoDir, Dir, NoRows, Row

\* A row written through the connection leaves directories, and touches nothing of
\* them but their rows.
LEMMA WriteRowKeeps ==
  ASSUME TypeOK, NEW f, NEW r \in Row, WriteRow(f, r)
  PROVE  /\ live' \in Dir /\ backup' \in Dir
         /\ live'.gen = live.gen /\ live'.there = live.there
         /\ live'.half = live.half
         /\ backup'.gen = backup.gen /\ backup'.table = backup.table
<1>1. ASSUME NEW d \in Dir
      PROVE  /\ [d EXCEPT !.rows[f] = r] \in Dir
             /\ [d EXCEPT !.rows[f] = r].gen = d.gen
             /\ [d EXCEPT !.rows[f] = r].there = d.there
             /\ [d EXCEPT !.rows[f] = r].half = d.half
             /\ [d EXCEPT !.rows[f] = r].table = d.table
  <2>1. [d.rows EXCEPT ![f] = r] \in [Frame -> Row]
    BY DirFields
  <2>. QED
    BY <2>1 DEF Dir
<1>. QED
  BY <1>1 DEF TypeOK, WriteRow

\* A kill leaves the index as it was, and what is half of it.
LEMMA KilledFiles ==
  ASSUME TypeOK, Kill
  PROVE  /\ live'.gen = live.gen /\ live'.half \subseteq live.half
         /\ "index" \in live.half => "index" \in live'.half
<1> DEFINE cut == [live EXCEPT !.table = TRUE, !.rows = NoRows, !.half = @ \ {"table"}]
<1>1. live \in Dir /\ (live' = live \/ live' = cut)
  BY DEF TypeOK, Kill
<1>2. cut.gen = live.gen /\ cut.half = live.half \ {"table"}
  BY <1>1 DEF Dir
<1> HIDE DEF cut
<1>. QED
  BY <1>1, <1>2

\* The table a refit builds is complete.
LEMMA BuiltTypes ==
  ASSUME NEW fs \in SUBSET Frame, NEW g \in Gen \cup {0}
  PROVE  Built(fs, g) \in Dir
BY DEF Built, Dir, Row

LEMMA NextTypes ==
  TypeOK /\ [Next]_vars => TypeOK'
<1> SUFFICES ASSUME TypeOK, [Next]_vars PROVE TypeOK'
  OBVIOUS
<1> USE VectorIndexAssumption
<1>0. live \in Dir /\ backup \in Dir /\ staging \in Dir
  BY DEF TypeOK
<1>1. CASE RestoreBegin
  <2>1. live' \in Dir /\ restore' \in [left : SUBSET File, open : File \cup {"none"}]
    BY <1>0, <1>1 DEF RestoreBegin, ToRestore, Dir, File
  <2>. QED
    BY <1>1, <2>1 DEF TypeOK, RestoreBegin
<1>2. ASSUME NEW file \in File, CopyBegin(file) \/ CopyEnd(file) PROVE TypeOK'
  <2>1. live' \in Dir
    <3>1. CASE CopyBegin(file)
      BY <1>0, <1>2, <3>1, DirFields DEF CopyBegin, Dir
    <3>2. CASE CopyEnd(file) /\ file = "index"
      BY <1>0, <3>2, DirFields DEF CopyEnd, Copied, Dir
    <3>3. CASE CopyEnd(file) /\ file = "table"
      BY <1>0, <3>3, DirFields DEF CopyEnd, Copied, Dir
    <3>. QED
      BY <1>2, <3>1, <3>2, <3>3 DEF File
  <2>2. restore' \in [left : SUBSET File, open : File \cup {"none"}]
    BY <1>2 DEF TypeOK, CopyBegin, CopyEnd
  <2>. QED
    BY <1>2, <2>1, <2>2 DEF TypeOK, CopyBegin, CopyEnd
<1>3. CASE Start
  <2>1. live' \in Dir
    BY <1>0, <1>3 DEF Start, Dir
  <2>2. mem' \in [Frame -> Gen \cup {0}]
    BY <1>0, <1>3, DirFields DEF Start, TypeOK
  <2>3. handle' \in {"none", "live", "backup", "gone"} /\ since' \in 0 .. MaxSince
    BY <1>3 DEF Start, TypeOK
  <2>4. UNCHANGED <<backup, staging, statsFile, add, restore, refit, streak, drifts, now,
                    gens, torn>>
        /\ up' \in BOOLEAN /\ embedder' = statsFile /\ locked' \in BOOLEAN
        /\ raced' \in BOOLEAN
    BY <1>3 DEF Start
  <2>. QED
    BY <2>1, <2>2, <2>3, <2>4 DEF TypeOK
<1>4. CASE Kill
  <2>1. /\ add' \in [step : {"idle", "open", "insert"}, frame : 0 .. MaxFrame,
                     gen : Gen \cup {0}]
        /\ refit' \in [step : {"idle", "build", "drop", "park", "swap", "adopt", "save"},
                       frames : SUBSET Frame, gen : Gen \cup {0}]
    BY <1>4 DEF Kill, NoAdd, NoRefit
  <2>2. mem' \in [Frame -> Gen \cup {0}] /\ torn' \in BOOLEAN
    BY <1>4 DEF TypeOK, Kill
  <2>3. streak' \in 0 .. MinConsecutive
        /\ restore' \in [left : SUBSET File, open : File \cup {"none"}]
    BY <1>4 DEF Kill, NoRestore
  <2>4. live' \in Dir
    <3>1. NoRows \in [Frame -> Row]
      BY DEF NoRows, Row
    <3>2. [live EXCEPT !.table = TRUE, !.rows = NoRows, !.half = @ \ {"table"}] \in Dir
      BY <1>0, <3>1, DirFields DEF Dir
    <3>. QED
      BY <1>0, <1>4, <3>2 DEF Kill
  <2>. QED
    BY <1>4, <2>1, <2>2, <2>3, <2>4 DEF TypeOK, Kill
<1>5. CASE AddBegin
  <2>1. now' \in 0 .. MaxFrame /\ add' \in [step : {"idle", "open", "insert"},
                                            frame : 0 .. MaxFrame, gen : Gen \cup {0}]
    BY <1>5 DEF TypeOK, AddBegin, NoAdd
  <2>. QED
    BY <1>5, <2>1 DEF TypeOK, AddBegin, disk
<1>6. CASE AddOpen
  <2>1. live' \in Dir
    BY <1>0, <1>6 DEF AddOpen, Dir
  <2>2. add' \in [step : {"idle", "open", "insert"}, frame : 0 .. MaxFrame,
                  gen : Gen \cup {0}]
    BY <1>6 DEF TypeOK, AddOpen
  <2>3. raced' \in BOOLEAN /\ handle' = "live"
    BY <1>6 DEF TypeOK, AddOpen
  <2>. QED
    BY <1>6, <2>1, <2>2, <2>3 DEF TypeOK, AddOpen
<1>7. CASE AddInsert
  <2>1. live' \in Dir /\ backup' \in Dir
    BY <1>7, WriteRowKeeps DEF AddInsert, Row
  <2>2. mem' \in [Frame -> Gen \cup {0}]
    BY <1>7 DEF TypeOK, AddInsert
  <2>3. add' \in [step : {"idle", "open", "insert"}, frame : 0 .. MaxFrame,
                  gen : Gen \cup {0}]
    BY <1>7 DEF AddInsert, NoAdd
  <2>. QED
    BY <1>7, <2>1, <2>2, <2>3 DEF TypeOK, AddInsert
<1>8. CASE UpdateMetadata
  <2>1. PICK f \in Frame : WriteRow(f, "labelled")
    BY <1>8 DEF UpdateMetadata
  <2>2. live' \in Dir /\ backup' \in Dir
    BY <2>1, WriteRowKeeps DEF Row
  <2>. QED
    BY <1>8, <2>2 DEF TypeOK, UpdateMetadata, process
<1>9. CASE FitOnRing
  BY <1>9 DEF TypeOK, FitOnRing, Gen
<1>10. CASE CheckStep
  <2>1. streak' \in 0 .. MinConsecutive /\ Check
    BY <1>10 DEF TypeOK, CheckStep, CheckShut, CheckRefused, CheckAccepted, Check, Recorded
  <2>2. gens' \in 0 .. MaxGen
    BY <1>10 DEF TypeOK, CheckStep, CheckShut, CheckRefused, CheckAccepted
  <2>3. refit' \in [step : {"idle", "build", "drop", "park", "swap", "adopt", "save"},
                    frames : SUBSET Frame, gen : Gen \cup {0}]
    <3>1. RecentFrames \in SUBSET Frame
      BY DEF TypeOK, RecentFrames, Frame
    <3>2. CASE CheckAccepted
      <4>1. gens + 1 \in Gen
        BY <3>2 DEF TypeOK, CheckAccepted, Gen
      <4>. QED
        BY <3>1, <3>2, <4>1 DEF CheckAccepted
    <3>3. CASE CheckShut \/ CheckRefused
      BY <3>3 DEF TypeOK, CheckShut, CheckRefused
    <3>. QED
      BY <1>10, <3>2, <3>3 DEF CheckStep
  <2>4. since' \in 0 .. MaxSince
    BY <2>1 DEF Check
  <2>. QED
    BY <2>1, <2>2, <2>3, <2>4 DEF TypeOK, Check, disk
<1>11. CASE RefitStep
  <2> DEFINE Refit == [step : {"idle", "build", "drop", "park", "swap", "adopt", "save"},
                       frames : SUBSET Frame, gen : Gen \cup {0}]
  <2>1. ASSUME NEW step \in {"drop", "park", "swap", "adopt", "save"}, Goto(step)
        PROVE  refit' \in Refit
    BY <2>1 DEF TypeOK, Goto
  <2>2. NoRefit \in Refit
    BY DEF NoRefit
  <2> HIDE DEF Refit
  <2>3. refit \in Refit
    BY DEF TypeOK, Refit
  <2>4. live' \in Dir /\ backup' \in Dir /\ staging' \in Dir
    <3>1. CASE RefitBuild
      <4>1. refit.frames \in SUBSET Frame /\ refit.gen \in Gen \cup {0}
        BY DEF TypeOK
      <4>. QED
        BY <1>0, <3>1, <4>1, BuiltTypes DEF RefitBuild
    <3>2. CASE ~RefitBuild
      BY <1>0, <1>11, <3>2, NoDirIsDir
      DEF RefitStep, RefitRaises, RefitDrop, RefitPark, RefitSwap, RefitSwapFails,
          RefitAdopt, RefitSave, disk
    <3>. QED
      BY <3>1, <3>2
  <2>5. refit' \in Refit
    BY <1>11, <2>1, <2>2
    DEF RefitStep, RefitBuild, RefitRaises, RefitDrop, RefitPark, RefitSwap,
        RefitSwapFails, RefitAdopt, RefitSave
  <2>6. /\ statsFile' \in Gen \cup {0} /\ embedder' \in Gen \cup {0}
        /\ handle' \in {"none", "live", "backup", "gone"} /\ torn' \in BOOLEAN
        /\ streak' \in 0 .. MinConsecutive
    <3>1. refit.gen \in Gen \cup {0}
      BY DEF TypeOK
    <3>2. \/ /\ UNCHANGED <<statsFile, embedder, torn, streak>>
             /\ handle' \in {handle, "gone", "backup"}
          \/ RefitAdopt \/ RefitSave
      BY <1>11
      DEF RefitStep, RefitBuild, RefitRaises, RefitDrop, RefitPark, RefitSwap,
          RefitSwapFails, disk
    <3>3. CASE RefitAdopt
      BY <3>1, <3>3 DEF TypeOK, RefitAdopt, disk
    <3>4. CASE RefitSave
      <4>1. statsFile' \in {statsFile, refit.gen} /\ torn' \in BOOLEAN
            /\ streak' = 0 /\ embedder' = embedder /\ handle' = handle
        BY <3>4 DEF RefitSave
      <4>. QED
        BY <3>1, <4>1 DEF TypeOK
    <3>. QED
      BY <3>2, <3>3, <3>4 DEF TypeOK
  <2>7. UNCHANGED <<up, locked, mem, add, restore, since, drifts, now, gens>>
        /\ raced' \in BOOLEAN
    BY <1>11
    DEF TypeOK, RefitStep, RefitBuild, RefitRaises, RefitDrop, RefitPark, RefitSwap,
        RefitSwapFails, RefitAdopt, RefitSave
  <2>. QED
    BY <2>4, <2>5, <2>6, <2>7 DEF TypeOK, Refit
<1>12. CASE DriftChanges
  BY <1>12 DEF TypeOK, DriftChanges, disk, process
<1>14. CASE Elapse
  BY <1>14 DEF TypeOK, Elapse, disk
<1>13. CASE UNCHANGED vars
  BY <1>13 DEF TypeOK, vars
<1>. QED
  BY <1>1, <1>2, <1>3, <1>4, <1>5, <1>6, <1>7, <1>8, <1>9, <1>10, <1>11, <1>12, <1>13,
     <1>14
  DEF Next, StartStep

-----------------------------------------------------------------------------
(* The invariant.                                                          *)

\* Generations are numbers, and the fields of a refit.
LEMMA Numbers ==
  ASSUME TypeOK
  PROVE  /\ live.gen \in Nat /\ backup.gen \in Nat /\ staging.gen \in Nat
         /\ refit.gen \in Nat /\ gens \in Nat /\ statsFile \in Nat
         /\ live.gen \in Gen \cup {0} /\ backup.gen \in Gen \cup {0}
<1>1. live \in Dir /\ backup \in Dir /\ staging \in Dir
  BY DEF TypeOK
<1>2. /\ live.gen \in Gen \cup {0} /\ backup.gen \in Gen \cup {0}
      /\ staging.gen \in Gen \cup {0} /\ refit.gen \in Gen \cup {0}
      /\ statsFile \in Gen \cup {0} /\ gens \in 0 .. MaxGen
  BY <1>1, DirFields DEF TypeOK
<1>. QED
  BY <1>2 DEF Gen

LEMMA InitInv ==
  Init => IndexInv
<1> SUFFICES ASSUME Init PROVE IndexInv
  OBVIOUS
<1>1. NoDir.gen = 0 /\ NoDir.half = {} /\ NoRefit.gen = 0 /\ NoRefit.step = "idle"
      /\ NoAdd.step = "idle" /\ NoRestore.left = {} /\ NoRestore.open = "none"
  BY DEF NoDir, NoRefit, NoAdd, NoRestore
<1>2. live.gen <= gens /\ live.half = {}
  BY <1>1 DEF Init
<1>3. backup.gen = 0 /\ refit = NoRefit /\ ~up /\ restore = NoRestore /\ gens \in {0, 1}
      /\ handle = "none" /\ add = NoAdd
  BY <1>1 DEF Init
<1>. QED
  BY <1>1, <1>2, <1>3, InitTypes DEF IndexInv, Bounded, Alive, Restoring, Refitting, Settled

\* What a step leaves alone that neither starts, stops nor refits.
Untouched ==
  /\ live'.gen = live.gen /\ live'.there = live.there /\ live'.half = live.half
  /\ backup'.gen = backup.gen /\ backup'.table = backup.table
  /\ UNCHANGED <<staging, up, restore, refit, raced>>
  /\ handle' = handle /\ (handle = "none" => add'.step = add.step \/ add'.step = "idle")

\* The steps that leave the directories and the refit alone.
Quiet ==
  \/ AddBegin \/ AddInsert \/ UpdateMetadata \/ FitOnRing \/ DriftChanges \/ Elapse
  \/ CheckShut \/ CheckRefused \/ UNCHANGED vars

LEMMA UntouchedSteps ==
  ASSUME TypeOK, Quiet
  PROVE  Untouched /\ gens' \in {gens, gens + 1}
<1>1. CASE AddInsert
  <2>1. WriteRow(add.frame, "unknown")
    BY <1>1 DEF AddInsert
  <2>. QED
    BY <1>1, <2>1, WriteRowKeeps DEF AddInsert, Untouched, Row, NoAdd
<1>2. CASE UpdateMetadata
  <2>1. PICK f \in Frame : WriteRow(f, "labelled")
    BY <1>2 DEF UpdateMetadata
  <2>. QED
    BY <1>2, <2>1, WriteRowKeeps DEF UpdateMetadata, Untouched, Row, process
<1>3. CASE FitOnRing \/ DriftChanges \/ Elapse \/ UNCHANGED vars
  BY <1>3 DEF FitOnRing, DriftChanges, Elapse, Untouched, disk, process, vars
<1>4. CASE AddBegin
  BY <1>4 DEF AddBegin, NoAdd, Untouched, disk
<1>5. CASE CheckShut \/ CheckRefused
  BY <1>5 DEF CheckShut, CheckRefused, Check, Untouched, disk
<1>. QED
  BY <1>1, <1>2, <1>3, <1>4, <1>5 DEF Quiet

\* A refit runs in a daemon that has loaded its store.
LEMMA RefitRuns ==
  ASSUME Alive, refit.step # "idle"
  PROVE  handle # "none" /\ up /\ live.half = {} /\ restore.left = {} /\ restore.open = "none"
BY DEF Alive, NoRefit, NoRestore

\* The invariant is inductive, one action at a time.
LEMMA NextInv ==
  IndexInv /\ [Next]_vars => IndexInv'
<1> SUFFICES ASSUME IndexInv, [Next]_vars
             PROVE  (Bounded /\ Alive /\ Restoring /\ Refitting /\ Settled)'
  BY NextTypes DEF IndexInv
<1>1. TypeOK /\ Bounded /\ Alive /\ Restoring /\ Refitting /\ Settled
  BY DEF IndexInv
<1>2. /\ live.gen \in Nat /\ backup.gen \in Nat /\ staging.gen \in Nat
      /\ refit.gen \in Nat /\ gens \in Nat
  BY <1>1, Numbers
<1>3. /\ NoRefit.step = "idle" /\ NoRefit.gen = 0
      /\ NoDir.gen = 0 /\ NoDir.there = FALSE /\ NoDir.half = {}
      /\ NoRestore.left = {} /\ NoRestore.open = "none" /\ NoAdd.step = "idle"
  BY DEF NoRefit, NoDir, NoRestore, NoAdd
<1>4. live \in Dir /\ backup \in Dir /\ staging \in Dir
  BY <1>1 DEF TypeOK
<1>5. CASE Quiet
  <2>1. Untouched /\ gens' \in {gens, gens + 1}
    BY <1>1, <1>5, UntouchedSteps
  <2>2. (Alive /\ Restoring)'
    BY <1>1, <2>1 DEF Untouched, Alive, Restoring, HasIndex
  <2>3. (Bounded /\ Refitting /\ Settled)'
    BY <1>1, <1>2, <2>1 DEF Untouched, Bounded, Refitting, Settled
  <2>. QED
    BY <2>2, <2>3
<1>6. CASE RestoreBegin
  <2>1. live'.gen = live.gen /\ live.gen = 0 /\ backup.gen # 0 /\ live'.half = live.half
        /\ "index" \notin live.half /\ live.half \subseteq File
    BY <1>4, <1>6, DirFields DEF RestoreBegin, ToRestore, HasIndex, Dir
  <2>2. ~up /\ UNCHANGED <<up, backup, refit, gens, handle, add>>
    BY <1>6 DEF RestoreBegin
  <2>3. restore'.left = {"index"} \cup {x \in {"table"} : backup.table}
        /\ restore'.open = "none"
    BY <2>1, <1>6 DEF RestoreBegin, ToRestore
  <2>4. live.half \subseteq restore'.left
    BY <1>1, <2>1, <2>3 DEF Restoring, HasIndex, File
  <2>5. Restoring'
    BY <1>1, <2>1, <2>2, <2>3, <2>4 DEF Restoring, HasIndex
  <2>6. handle = "none" /\ refit = NoRefit
    BY <1>1, <2>2 DEF Alive
  <2>. QED
    BY <1>1, <1>3, <2>1, <2>2, <2>5, <2>6 DEF Bounded, Alive, Refitting, Settled
<1>7. ASSUME NEW file \in File, CopyBegin(file)
      PROVE  (Bounded /\ Alive /\ Restoring /\ Refitting /\ Settled)'
  <2>1. /\ ~up /\ file \in restore.left /\ UNCHANGED <<up, backup, refit, gens, handle, add>>
        /\ restore'.left = restore.left /\ restore'.open = file
        /\ live'.gen = live.gen /\ live'.half = live.half \cup {file}
    BY <1>1, <1>4, <1>7 DEF CopyBegin, TypeOK, Dir
  <2>2. handle = "none" /\ refit = NoRefit
    BY <1>1, <2>1 DEF Alive
  <2>3. HasIndex(live)' \/ backup.table
    BY <1>1, <1>7, <2>1 DEF HasIndex, Restoring, File
  <2>4. Restoring'
    BY <1>1, <2>1, <2>3 DEF Restoring
  <2>. QED
    BY <1>1, <1>3, <2>1, <2>2, <2>4 DEF Bounded, Alive, Refitting, Settled
<1>8. ASSUME NEW file \in File, CopyEnd(file)
      PROVE  (Bounded /\ Alive /\ Restoring /\ Refitting /\ Settled)'
  <2>1. /\ restore.open = file /\ file \in restore.left
        /\ UNCHANGED <<up, backup, refit, gens, handle, add>>
        /\ restore'.left = restore.left \ {file} /\ restore'.open = "none"
    BY <1>1, <1>8 DEF CopyEnd, Restoring, File
  <2>2. /\ live'.gen = (IF file = "index" THEN backup.gen ELSE live.gen)
        /\ live'.half = live.half \ {file}
    BY <1>4, <1>8 DEF CopyEnd, Copied, Dir
  <2>3. ~up /\ handle = "none" /\ refit = NoRefit
    BY <1>1, <1>3, <2>1 DEF Alive
  <2>4. live.half \subseteq restore.left
    BY <1>1, <2>1 DEF Restoring
  <2>5. live'.half # {} => HasIndex(live)' \/ backup.table
    <3>1. ASSUME live'.half # {}, ~backup.table PROVE HasIndex(live)'
      <4>1. "index" \in live'.half
        BY <1>1, <1>4, <2>2, <2>4, <3>1, DirFields DEF Restoring, File
      <4>. QED
        BY <4>1 DEF HasIndex
    <3>. QED
      BY <3>1
  <2>6. Restoring'
    BY <1>1, <2>1, <2>2, <2>4, <2>5 DEF Restoring
  <2>. QED
    BY <1>1, <1>2, <1>3, <2>1, <2>2, <2>3, <2>6 DEF Bounded, Alive, Refitting, Settled
<1>9. CASE Start
  <2>1. ~up /\ restore.left = {} /\ UNCHANGED <<backup, refit, gens, add, restore>> /\ up'
    BY <1>9 DEF Start
  <2>2. handle = "none" /\ refit = NoRefit /\ restore = NoRestore
    <3>1. restore = [left |-> restore.left, open |-> restore.open]
      BY <1>1 DEF TypeOK
    <3>2. restore.open = "none"
      BY <1>1, <2>1 DEF Restoring
    <3>. QED
      BY <1>1, <2>1, <3>1, <3>2 DEF Alive, NoRestore
  <2>3. live'.gen = live.gen /\ live'.half = live.half
    BY <1>4, <1>9 DEF Start, Dir
  <2>4. handle' # "none" => live.half = {} /\ (live.gen # 0 \/ backup.gen = 0)
    BY <1>9, <2>2 DEF Start, ToRestore, HasIndex
  <2>5. (Alive /\ Settled)'
    BY <1>1, <2>1, <2>2, <2>3, <2>4 DEF Alive, Settled
  <2>6. Restoring'
    BY <1>1, <2>1, <2>3 DEF Restoring, HasIndex
  <2>. QED
    BY <1>1, <1>3, <2>1, <2>2, <2>3, <2>5, <2>6 DEF Bounded, Refitting
<1>10. CASE Kill
  <2>1. /\ ~up' /\ refit' = NoRefit /\ restore' = NoRestore /\ add' = NoAdd /\ handle' = "none"
        /\ UNCHANGED <<backup, gens>>
    BY <1>10 DEF Kill
  <2>2. live'.gen = live.gen /\ live'.half \subseteq live.half
        /\ ("index" \in live.half => "index" \in live'.half)
    BY <1>1, <1>10, KilledFiles
  <2>3. live'.half # {} => HasIndex(live)' \/ backup'.table
    BY <1>1, <2>1, <2>2 DEF Restoring, HasIndex
  <2>4. (Alive /\ Restoring)'
    BY <1>3, <2>1, <2>3 DEF Alive, Restoring
  <2>. QED
    BY <1>1, <1>2, <1>3, <2>1, <2>2, <2>4 DEF Bounded, Refitting, Settled
\* A directory that appears in mid-swap is the work of this very step.
<1>11. CASE AddOpen
  <2>1. up /\ UNCHANGED <<backup, staging, up, restore, refit, gens>>
        /\ live'.gen = live.gen /\ (live'.there = live.there \/ live'.there = TRUE)
        /\ live'.half = live.half /\ handle' = "live" /\ add.step = "open"
    BY <1>4, <1>11 DEF AddOpen, Dir
  <2>2. handle # "none" /\ live.half = {}
    BY <1>1, <2>1 DEF Alive
  <2>3. raced' = (raced \/ (refit.step = "swap" /\ ~live.there))
    BY <1>11 DEF AddOpen
  <2>4. refit.step = "swap" => raced'
    BY <1>1, <2>3 DEF Refitting
  <2>5. raced => raced'
    BY <2>3
  <2>6. (Alive /\ Restoring)'
    BY <1>1, <2>1, <2>2 DEF Alive, Restoring
  <2>. QED
    BY <1>1, <1>2, <2>1, <2>2, <2>4, <2>5, <2>6 DEF Bounded, Refitting, Settled
<1>12. CASE CheckAccepted
  <2>1. handle # "none" /\ UNCHANGED <<live, backup, up, restore, raced, handle, add>>
        /\ gens' = gens + 1
    BY <1>12 DEF CheckAccepted, Check, disk
  <2>2. refit'.step = "build" /\ refit'.gen = gens + 1 /\ refit.step # "swap"
    BY <1>12 DEF CheckAccepted, Check
  <2>3. (Alive /\ Restoring)'
    BY <1>1, <2>1 DEF Alive, Restoring, HasIndex
  <2>. QED
    BY <1>1, <1>2, <2>1, <2>2, <2>3 DEF Bounded, Refitting, Settled
<1>13. CASE RefitStep
  <2>1. UNCHANGED <<up, restore, gens, add>>
    BY <1>13
    DEF RefitStep, RefitBuild, RefitRaises, RefitDrop, RefitPark, RefitSwap,
        RefitSwapFails, RefitAdopt, RefitSave
  <2>2. refit.step # "idle" /\ (RefitSwap \/ UNCHANGED raced)
    BY <1>13
    DEF RefitStep, RefitBuild, RefitRaises, RefitDrop, RefitPark, RefitSwap,
        RefitSwapFails, RefitAdopt, RefitSave
  <2>3. handle # "none" /\ up /\ live.half = {} /\ restore.left = {} /\ restore.open = "none"
    BY <1>1, <2>2, RefitRuns
  <2>4. ASSUME NEW step \in {"drop", "park", "swap", "adopt", "save"}, Goto(step)
        PROVE  refit'.step = step /\ refit'.gen = refit.gen
    BY <1>1, <2>4 DEF Goto, TypeOK
  <2>5. handle' # "none"
    BY <1>13, <2>3
    DEF RefitStep, RefitBuild, RefitRaises, RefitDrop, RefitPark, RefitSwap,
        RefitSwapFails, RefitAdopt, RefitSave
  <2>6. live'.half = {}
    <3>1. CASE RefitSwap
      <4>1. live' = staging /\ refit.step = "swap"
        BY <3>1 DEF RefitSwap
      <4>. QED
        BY <1>1, <4>1 DEF Refitting
    <3>2. CASE RefitPark
      BY <1>3, <3>2 DEF RefitPark
    <3>3. CASE ~RefitSwap /\ ~RefitPark
      BY <1>13, <2>3, <3>3
      DEF RefitStep, RefitBuild, RefitRaises, RefitDrop, RefitSwapFails, RefitAdopt,
          RefitSave, disk
    <3>. QED
      BY <3>1, <3>2, <3>3
  <2>7. (Alive /\ Restoring)'
    BY <1>1, <2>1, <2>3, <2>5, <2>6 DEF Alive, Restoring
  <2>8. CASE RefitBuild
    <3>1. staging'.gen = refit.gen /\ staging'.half = {} /\ refit'.step = "drop"
          /\ refit'.gen = refit.gen /\ UNCHANGED <<live, backup, raced>> /\ refit.step = "build"
      BY <2>4, <2>8 DEF RefitBuild, Built
    <3>. QED
      BY <1>1, <2>1, <2>3, <2>7, <3>1 DEF Bounded, Refitting, Settled
  <2>9. CASE RefitRaises
    <3>1. refit' = NoRefit /\ UNCHANGED <<live, backup, raced>> /\ refit.step = "build"
      BY <2>9 DEF RefitRaises
    <3>. QED
      BY <1>1, <1>2, <1>3, <2>1, <2>3, <2>7, <3>1 DEF Bounded, Refitting, Settled
  <2>10. CASE RefitDrop
    <3>1. backup'.gen = 0 /\ refit'.step = "park" /\ refit'.gen = refit.gen
          /\ UNCHANGED <<live, staging>> /\ refit.step = "drop"
      BY <1>3, <2>4, <2>10 DEF RefitDrop
    <3>. QED
      BY <1>1, <1>2, <2>1, <2>3, <2>7, <3>1 DEF Bounded, Refitting, Settled
  <2>11. CASE RefitPark
    <3>1. backup' = live /\ live'.gen = 0 /\ ~live'.there /\ refit'.step = "swap"
          /\ refit'.gen = refit.gen /\ UNCHANGED staging /\ refit.step = "park"
      BY <1>3, <2>4, <2>11 DEF RefitPark
    <3>. QED
      BY <1>1, <1>2, <2>1, <2>3, <2>7, <3>1 DEF Bounded, Refitting, Settled
  <2>12. CASE RefitSwap
    <3>1. live' = staging /\ refit'.step = "adopt" /\ refit'.gen = refit.gen
          /\ UNCHANGED backup /\ refit.step = "swap"
      BY <2>4, <2>12 DEF RefitSwap
    <3>. QED
      BY <1>1, <1>2, <2>1, <2>3, <2>7, <3>1 DEF Bounded, Refitting, Settled
  <2>13. CASE RefitSwapFails
    <3>1. refit' = NoRefit /\ UNCHANGED <<live, backup, raced>> /\ refit.step = "swap"
          /\ live.there
      BY <2>13 DEF RefitSwapFails, disk
    <3>2. raced
      BY <1>1, <3>1 DEF Refitting
    <3>. QED
      BY <1>1, <1>2, <1>3, <2>1, <2>3, <2>7, <3>1, <3>2 DEF Bounded, Refitting, Settled
  <2>14. CASE RefitAdopt
    <3>1. refit'.step = "save" /\ refit'.gen = refit.gen /\ UNCHANGED <<live, backup, raced>>
          /\ refit.step = "adopt"
      BY <2>4, <2>14 DEF RefitAdopt, disk
    <3>. QED
      BY <1>1, <2>1, <2>3, <2>7, <3>1 DEF Bounded, Refitting, Settled
  <2>15. CASE RefitSave
    <3>1. refit' = NoRefit /\ UNCHANGED <<live, backup, raced>> /\ refit.step = "save"
      BY <2>15 DEF RefitSave
    <3>. QED
      BY <1>1, <1>2, <1>3, <2>1, <2>3, <2>7, <3>1 DEF Bounded, Refitting, Settled
  <2>. QED
    BY <1>13, <2>8, <2>9, <2>10, <2>11, <2>12, <2>13, <2>14, <2>15 DEF RefitStep
<1>. QED
  BY <1>5, <1>6, <1>7, <1>8, <1>9, <1>10, <1>11, <1>12, <1>13
  DEF Next, StartStep, CheckStep, Quiet

-----------------------------------------------------------------------------
(* The refinement.                                                         *)

\* What a daemon with a loaded store would find if it were started again.
LEMMA RunningFound ==
  ASSUME live.half = {}, restore.left = {}
  PROVE  ~CutOff /\ OnDisk = IF live.gen = 0 THEN backup.gen ELSE live.gen
BY DEF CutOff, OnDisk, HasIndex

\* Only a drop of the backup, the second rename and a kill in mid-copy change what a
\* start would find.
LEMMA FoundKept ==
  ASSUME IndexInv, IndexInv', [Next]_vars, ~RefitSwap, ~RefitDrop, ~Kill
  PROVE  OnDisk' = OnDisk /\ (CutOff' <=> CutOff)
<1>1. TypeOK /\ Bounded /\ Alive /\ Restoring /\ Refitting /\ Settled /\ Restoring'
  BY DEF IndexInv
<1>2. NoRefit.step = "idle" /\ NoDir.gen = 0 /\ NoDir.half = {}
  BY DEF NoRefit, NoDir
<1>3. live \in Dir /\ backup \in Dir
  BY <1>1 DEF TypeOK
<1>4. CASE Quiet
  <2>1. Untouched
    BY <1>1, <1>4, UntouchedSteps
  <2>. QED
    BY <2>1 DEF Untouched, OnDisk, CutOff, HasIndex
<1>5. CASE RestoreBegin
  <2>1. live'.gen = live.gen /\ live'.half = live.half /\ UNCHANGED backup
        /\ ~HasIndex(live) /\ "index" \in restore'.left
    BY <1>3, <1>5 DEF RestoreBegin, ToRestore, Dir
  <2>. QED
    BY <2>1 DEF OnDisk, CutOff, HasIndex
<1>6. ASSUME NEW file \in File, CopyBegin(file) PROVE OnDisk' = OnDisk /\ (CutOff' <=> CutOff)
  <2>1. UNCHANGED backup /\ restore'.left = restore.left /\ file \in restore.left
        /\ live'.gen = live.gen /\ live'.half = live.half \cup {file}
    BY <1>1, <1>3, <1>6 DEF CopyBegin, TypeOK, Dir
  <2>2. ~CutOff /\ ~CutOff'
    BY <2>1 DEF CutOff
  <2>. QED
    BY <1>6, <2>1, <2>2 DEF OnDisk, HasIndex, File
<1>7. ASSUME NEW file \in File, CopyEnd(file) PROVE OnDisk' = OnDisk /\ (CutOff' <=> CutOff)
  <2>1. UNCHANGED backup /\ restore'.left = restore.left \ {file} /\ file \in restore.left
    BY <1>1, <1>7 DEF CopyEnd, Restoring, File
  <2>2. /\ live'.gen = (IF file = "index" THEN backup.gen ELSE live.gen)
        /\ live'.half = live.half \ {file}
    BY <1>3, <1>7 DEF CopyEnd, Copied, Dir
  <2>3. live.half \subseteq restore.left
    BY <1>1, <2>1 DEF Restoring
  <2>4. ~CutOff /\ ~CutOff'
    BY <2>1, <2>2, <2>3 DEF CutOff
  <2>5. CASE file = "index"
    <3>1. live'.gen = backup.gen /\ backup.gen # 0
      BY <1>1, <2>1, <2>2, <2>5 DEF Restoring
    <3>. QED
      BY <2>1, <2>4, <2>5, <3>1 DEF OnDisk, HasIndex
  <2>6. CASE file = "table"
    BY <2>1, <2>2, <2>4, <2>6 DEF OnDisk, HasIndex
  <2>. QED
    BY <2>5, <2>6 DEF File
<1>8. CASE Start \/ AddOpen
  <2>1. live'.gen = live.gen /\ live'.half = live.half /\ UNCHANGED <<backup, restore>>
    BY <1>3, <1>8 DEF Start, AddOpen, Dir
  <2>. QED
    BY <2>1 DEF OnDisk, CutOff, HasIndex
<1>9. CASE CheckAccepted
  BY <1>9 DEF CheckAccepted, Check, disk, OnDisk, CutOff, HasIndex
<1>10. CASE RefitStep
  <2>1. CASE RefitPark
    <3>1. live' = NoDir /\ backup' = live /\ refit.step = "park" /\ UNCHANGED restore
      BY <2>1 DEF RefitPark
    <3>2. restore.left = {} /\ live.half = {} /\ backup.gen = 0
      BY <1>1, <1>2, <3>1, RefitRuns DEF Refitting
    <3>3. ~CutOff /\ OnDisk = live.gen
      BY <3>2, RunningFound
    <3>4. ~CutOff' /\ OnDisk' = live.gen
      BY <1>2, <3>1, <3>2 DEF CutOff, OnDisk, HasIndex
    <3>. QED
      BY <3>3, <3>4
  <2>2. CASE ~RefitPark
    <3>1. UNCHANGED <<live, backup, restore>>
      BY <1>10, <2>2 DEF RefitStep, RefitBuild, RefitRaises, RefitSwapFails, RefitAdopt,
                        RefitSave, disk
    <3>. QED
      BY <3>1 DEF OnDisk, CutOff, HasIndex
  <2>. QED
    BY <2>1, <2>2
<1>. QED
  BY <1>4, <1>5, <1>6, <1>7, <1>8, <1>9, <1>10 DEF Next, StartStep, CheckStep, Quiet

\* A kill costs the index exactly when it cuts off a copy once index.bin exists, and a
\* cut is for good.
LEMMA KillFinds ==
  ASSUME IndexInv, Kill
  PROVE  /\ CutOff' => OnDisk' = 0
         /\ ~CutOff' => OnDisk' = OnDisk /\ ~CutOff
         /\ UNCHANGED raced
<1>1. TypeOK /\ Alive /\ Restoring
  BY DEF IndexInv
<1>2. /\ restore'.left = {} /\ UNCHANGED <<backup, raced>>
      /\ (restore.left = {} => live' = live)
  <2>1. restore.open = "table" => restore.left # {}
    BY <1>1 DEF Restoring
  <2>. QED
    BY <2>1 DEF Kill, NoRestore
<1>3. live'.gen = live.gen /\ live'.half \subseteq live.half
      /\ ("index" \in live.half => "index" \in live'.half)
  BY <1>1, KilledFiles
<1>4. CutOff' => OnDisk' = 0
  BY DEF OnDisk
<1>5. ASSUME ~CutOff' PROVE OnDisk' = OnDisk /\ ~CutOff
  <2>1. HasIndex(live)' <=> HasIndex(live)
    BY <1>3 DEF HasIndex
  <2>2. ~CutOff
    BY <1>2, <1>5, <2>1 DEF CutOff
  <2>3. OnDisk' = IF HasIndex(live) THEN live.gen ELSE backup.gen
    BY <1>2, <1>3, <1>5, <2>1 DEF OnDisk
  <2>4. "index" \in restore.left => ~HasIndex(live)
    <3>1. ASSUME "index" \in restore.left, HasIndex(live) PROVE FALSE
      <4>1. "index" \in live'.half
        BY <1>1, <1>3, <3>1 DEF Restoring, HasIndex
      <4>. QED
        BY <1>2, <1>5, <2>1, <3>1, <4>1 DEF CutOff
    <3>. QED
      BY <3>1
  <2>. QED
    BY <2>2, <2>3, <2>4 DEF OnDisk
<1>. QED
  BY <1>2, <1>4, <1>5

\* A start finds a generation or nothing.
LEMMA FoundIsGeneration ==
  TypeOK => OnDisk \in Gen \cup {0}
BY Numbers DEF OnDisk

\* An add may raise the flag, a start or a swap lowers it.
LEMMA RacedSteps ==
  ASSUME TypeOK, [Next]_vars
  PROVE  raced' \in BOOLEAN
BY NextTypes DEF TypeOK

\* Every step of the store is a step of the abstract one, or leaves it alone.
LEMMA StepRefines ==
  ASSUME IndexInv, IndexInv', [Next]_vars
  PROVE  [Stored!Next]_(Stored!vars)
<1>1. TypeOK /\ Bounded /\ Alive /\ Restoring /\ Refitting /\ Settled
  BY DEF IndexInv
<1>2. OnDisk \in Gen \cup {0} /\ OnDisk' \in Gen \cup {0}
  <2>1. TypeOK' => (OnDisk \in Gen \cup {0})'
    BY FoundIsGeneration, PTL
  <2>. QED
    BY <2>1, FoundIsGeneration DEF IndexInv
<1>3. NoRefit.step = "idle" /\ NoDir.gen = 0 /\ raced \in BOOLEAN /\ raced' \in BOOLEAN
  BY <1>1, RacedSteps DEF NoRefit, NoDir, TypeOK
<1>4. CASE RefitSwap
  <2>1. live' = staging /\ UNCHANGED <<backup, restore>> /\ refit.step = "swap" /\ ~raced'
    BY <1>4 DEF RefitSwap
  <2>2. restore.left = {} /\ live.half = {} /\ live.gen < refit.gen /\ backup.gen < refit.gen
        /\ staging.gen = refit.gen /\ staging.half = {}
    BY <1>1, <2>1, RefitRuns DEF Refitting
  <2>3. OnDisk < refit.gen /\ ~CutOff
    BY <2>2, RunningFound
  <2>4. refit.gen # 0
    BY <1>1, <2>2, Numbers
  <2>5. OnDisk' = refit.gen /\ ~CutOff'
    BY <2>1, <2>2, <2>4 DEF OnDisk, CutOff, HasIndex
  <2>6. OnDisk' \in {g \in Gen : g > OnDisk}
    BY <1>1, <1>2, <2>3, <2>5, Numbers DEF Gen
  <2>. QED
    BY <2>1, <2>3, <2>5, <2>6 DEF Stored!Next, Stored!Swap
<1>5. CASE RefitDrop
  <2>1. UNCHANGED <<live, restore, raced>> /\ refit.step = "drop" /\ backup'.gen = 0
    BY <1>3, <1>5 DEF RefitDrop
  <2>2. restore.left = {} /\ live.half = {} /\ handle # "none"
    BY <1>1, <2>1, RefitRuns
  <2>3. ~CutOff /\ OnDisk = IF live.gen = 0 THEN backup.gen ELSE live.gen
    BY <2>2, RunningFound
  <2>4. ~CutOff' /\ OnDisk' = IF live.gen = 0 THEN 0 ELSE live.gen
    BY <2>1, <2>2 DEF CutOff, OnDisk, HasIndex
  <2>5. OnDisk' = OnDisk \/ (raced /\ OnDisk' = 0)
    BY <1>1, <2>1, <2>2, <2>3, <2>4 DEF Settled
  <2>. QED
    BY <2>1, <2>3, <2>4, <2>5 DEF Stored!Next, Stored!Lose, Stored!vars
<1>6. CASE Kill
  <2>1. CASE CutOff'
    BY <1>6, <2>1, KillFinds DEF Stored!Next, Stored!Cut
  <2>2. CASE ~CutOff'
    BY <1>6, <2>2, KillFinds DEF Stored!vars
  <2>. QED
    BY <2>1, <2>2
<1>7. CASE ~RefitSwap /\ ~RefitDrop /\ ~Kill
  <2>1. OnDisk' = OnDisk /\ (CutOff' <=> CutOff)
    BY <1>7, FoundKept
  <2>. QED
    BY <1>3, <2>1 DEF Stored!Next, Stored!Race, Stored!Mend, Stored!vars
<1>. QED
  BY <1>4, <1>5, <1>6, <1>7

\* Before anything happens there is an index or none.
LEMMA InitRefines ==
  Init => Stored!Init
<1> SUFFICES ASSUME Init PROVE Stored!Init
  OBVIOUS
<1>1. OnDisk \in Gen \cup {0}
  BY InitInv, FoundIsGeneration DEF IndexInv
<1>2. ~CutOff /\ ~raced
  BY DEF Init, CutOff, NoDir
<1>. QED
  BY <1>1, <1>2 DEF Stored!Init

-----------------------------------------------------------------------------
(* The statistics.                                                         *)

\* While a refit adopts or saves, the live index is its own.
LEMMA LiveIsNew ==
  ASSUME IndexInv, refit.step \in {"adopt", "save"}
  PROVE  OnDisk = refit.gen
<1>1. live.half = {} /\ restore.left = {}
  BY RefitRuns DEF IndexInv
<1>. QED
  BY <1>1, RunningFound DEF IndexInv, Refitting

\* The steps that concern neither the statistics nor the end of a refit.
LEMMA OtherSteps ==
  ASSUME [Next]_vars, ~Kill, ~FitOnRing, ~RefitSwap, ~RefitAdopt, ~RefitSave
  PROVE  /\ UNCHANGED <<statsFile, torn>>
         /\ refit' = refit \/ refit.step \notin {"adopt", "save"}
<1>1. CASE StartStep
  BY <1>1 DEF StartStep, RestoreBegin, CopyBegin, CopyEnd, Start
<1>2. CASE AddBegin \/ AddOpen \/ AddInsert \/ UpdateMetadata \/ DriftChanges \/ Elapse
           \/ UNCHANGED vars
  BY <1>2 DEF AddBegin, AddOpen, AddInsert, UpdateMetadata, DriftChanges, Elapse, disk,
              process, vars
<1>3. CASE CheckStep
  BY <1>3 DEF CheckStep, CheckShut, CheckRefused, CheckAccepted, Check, disk
<1>4. CASE RefitStep
  BY <1>4 DEF RefitStep, RefitBuild, RefitRaises, RefitDrop, RefitPark, RefitSwapFails, disk
<1>. QED
  BY <1>1, <1>2, <1>3, <1>4 DEF Next

\* Only the ring fit, an interrupted refit and a failed save bring in a difference, and
\* each of them is a reason kept in torn.
LEMMA NextStats ==
  ASSUME IndexInv, IndexInv', [Next]_vars, StatsFitIndex
  PROVE  StatsFitIndex'
<1>1. TypeOK /\ Alive
  BY DEF IndexInv
<1>2. NoRefit.step = "idle" /\ NoDir.gen = 0
  BY DEF NoRefit, NoDir
<1>3. CASE RefitSave
  <2>1. refit.step = "save" /\ (statsFile' = refit.gen \/ torn' = TRUE)
        /\ UNCHANGED <<live, backup, restore>>
    BY <1>3 DEF RefitSave
  <2>2. OnDisk' = refit.gen
    BY <2>1, LiveIsNew DEF OnDisk, CutOff, HasIndex
  <2>. QED
    BY <2>1, <2>2 DEF StatsFitIndex
<1>4. CASE RefitSwap \/ RefitAdopt
  <2>1. refit'.step \in {"adopt", "save"}
    BY <1>1, <1>4 DEF RefitSwap, RefitAdopt, Goto, TypeOK
  <2>. QED
    BY <2>1 DEF StatsFitIndex
<1>5. CASE RefitDrop
  <2>1. UNCHANGED <<live, restore, statsFile, torn>> /\ refit.step = "drop" /\ backup'.gen = 0
    BY <1>2, <1>5 DEF RefitDrop
  <2>2. restore.left = {} /\ live.half = {}
    BY <1>1, <2>1, RefitRuns
  <2>3. OnDisk = IF live.gen = 0 THEN backup.gen ELSE live.gen
    BY <2>2, RunningFound
  <2>4. OnDisk' = IF live.gen = 0 THEN 0 ELSE live.gen
    BY <2>1, <2>2 DEF CutOff, OnDisk, HasIndex
  <2>. QED
    BY <2>1, <2>3, <2>4 DEF StatsFitIndex
<1>6. CASE FitOnRing
  <2>1. OnDisk' = OnDisk
    BY <1>1, <1>6, UntouchedSteps DEF Quiet, Untouched, OnDisk, CutOff, HasIndex
  <2>2. OnDisk # 0 => torn'
    BY <1>6 DEF FitOnRing
  <2>. QED
    BY <2>1, <2>2 DEF StatsFitIndex
<1>7. CASE Kill
  <2>1. OnDisk' = OnDisk \/ OnDisk' = 0
    BY <1>7, KillFinds
  <2>2. statsFile' = statsFile /\ torn' = (torn \/ refit.step \in {"adopt", "save"})
    BY <1>7 DEF Kill
  <2>. QED
    BY <2>1, <2>2 DEF StatsFitIndex
<1>8. CASE ~RefitSave /\ ~RefitSwap /\ ~RefitAdopt /\ ~RefitDrop /\ ~FitOnRing /\ ~Kill
  <2>1. OnDisk' = OnDisk
    BY <1>8, FoundKept
  <2>2. /\ UNCHANGED <<statsFile, torn>>
        /\ refit' = refit \/ refit.step \notin {"adopt", "save"}
    BY <1>8, OtherSteps
  <2>. QED
    BY <2>1, <2>2 DEF StatsFitIndex
<1>. QED
  BY <1>3, <1>4, <1>5, <1>6, <1>7, <1>8

\* A first start has no index, and a re-indexed store the statistics it was built with.
LEMMA InitStats ==
  Init => StatsFitIndex
<1> SUFFICES ASSUME Init PROVE StatsFitIndex
  OBVIOUS
<1>1. live.gen = statsFile /\ live.half = {}
  BY DEF Init, NoDir
<1>2. restore.left = {} /\ backup.gen = 0
  BY DEF Init, NoDir, NoRestore
<1>. QED
  BY <1>1, <1>2, RunningFound DEF StatsFitIndex

-----------------------------------------------------------------------------
(* The theorems.                                                           *)

\* The strengthened invariant holds of every behaviour.
LEMMA Inductive ==
  Spec => []IndexInv
<1>. QED
  BY InitInv, NextInv, PTL DEF Spec

\* Every variable keeps its type, whatever interleaving of start, kill, add, label and
\* refit steps the daemon goes through.
THEOREM TypeCorrect ==
  Spec => []TypeOK
<1>1. IndexInv => TypeOK
  BY DEF IndexInv
<1>. QED
  BY <1>1, Inductive, PTL

\* The two renames of refit_and_swap and the restore of discover() implement the swap of
\* StoredIndex: what a start would find is never older than what it would have found
\* before.  It is lost only to the next refit after an add that made the live directory
\* between the renames, and to a copy cut off once index.bin exists, which is final.
THEOREM AtomicallySwapped ==
  Spec => AtomicSwap
<1>1. IndexInv /\ IndexInv' /\ [Next]_vars => [Stored!Next]_(Stored!vars)
  BY StepRefines
<1>. QED
  BY <1>1, InitRefines, InitInv, NextInv, PTL DEF Spec, AtomicSwap, Stored!Spec

\* A start loads the statistics its index was built with (save_stats), except after a
\* failed save, a kill between the swap and the save, or a fit on the ring.
THEOREM StatsMatch ==
  Spec => []StatsFitIndex
<1>1. IndexInv /\ IndexInv' /\ [Next]_vars /\ StatsFitIndex => StatsFitIndex'
  BY NextStats
<1>. QED
  BY <1>1, InitStats, Inductive, PTL DEF Spec
================================================================================
