------------------------------ MODULE VectorIndex ------------------------------
(***************************************************************************)
(* The HNSW vector store and its drift-triggered refit.  The store keeps   *)
(* an index in memory, loaded from index.bin when the daemon starts, and a *)
(* table in meta.sqlite beside that file.  The refit thread builds a new   *)
(* pair in a staging directory and swaps it in by two renames, while the   *)
(* drain worker goes on adding vectors and the daemon may be killed        *)
(* between any two steps, in the middle of a file being copied too.        *)
(*                                                                         *)
(* A vector is named by its frame.  A generation names one set of embedder *)
(* statistics; vectors of different generations are not comparable.        *)
(***************************************************************************)
EXTENDS Integers, FiniteSets

CONSTANTS
  MinCount,       \* MIN_HNSW_COUNT
  Window,         \* DEFAULT_WINDOW_FRAMES
  MinFit,         \* Embedder.min_frames_to_fit
  MinConsecutive, \* DriftGate.min_consecutive
  MinGap,         \* DriftGate.min_gap_sec
  CheckEvery,     \* _refit_check_hours, which may be below MinGap
  MaxSince,       \* BOUND: time since a check beyond which no more is told apart
  MaxFrame,       \* BOUND: frames
  MaxGen          \* BOUND: generations

ASSUME VectorIndexAssumption ==
  /\ MinCount \in Nat \ {0} /\ Window \in Nat \ {0} /\ MinFit \in Nat \ {0}
  /\ MinConsecutive \in Nat \ {0} /\ MinGap \in Nat /\ CheckEvery \in Nat \ {0}
  /\ MaxSince \in Nat /\ CheckEvery <= MaxSince
  /\ MaxFrame \in Nat /\ MaxGen \in Nat \ {0}

Frame == 1 .. MaxFrame
Gen   == 1 .. MaxGen

VARIABLES
  live, backup, staging, \* data/hnsw, hnsw.backup, hnsw.staging
  statsFile,  \* the generation in embedder-stats.json, 0 without the file
  up,         \* the daemon runs, after discover()
  embedder,   \* generation of the embedder in memory, 0 before the first fit
  locked,     \* _embedder_stats_locked
  mem,        \* the vectors of the index in memory, with their generation
  handle,     \* where the file behind the sqlite connection is now, "none"
              \* while the store is not available
  add,        \* the running HnswStore.add
  restore,    \* files discover() has still to copy from the backup, and the
              \* one it is copying
  refit,      \* the running refit: its step, frames and generation
  streak,     \* length of DriftGate._streak
  since,      \* time since _last_refit_check_at
  drifts,     \* list_stable answers, with rows of a class that runs hotter
  now, gens,  \* frames and generations so far
  raced,      \* an add rebuilt the live directory in mid-swap, and no start or
              \* swap has come since
  torn        \* history: why the statistics file may be of another
              \* generation than the index

vars == <<live, backup, staging, statsFile, up, embedder, locked, mem, handle,
          add, restore, refit, streak, since, drifts, now, gens, raced, torn>>

disk    == <<live, backup, staging, statsFile>>
process == <<up, embedder, locked, mem, handle, add, restore, refit, streak,
             since>>

Row == {"none", "unknown", "labelled"}
NoRows == [f \in Frame |-> "none"]
File == {"index", "table"}

\* half: the files whose copy was cut off.  gen counts a whole index.bin only.
Dir == [there : BOOLEAN, gen : Gen \cup {0}, vectors : SUBSET Frame,
        table : BOOLEAN, rows : [Frame -> Row], half : SUBSET File]
NoDir  == [there |-> FALSE, gen |-> 0, vectors |-> {}, table |-> FALSE,
           rows |-> NoRows, half |-> {}]
NoRestore == [left |-> {}, open |-> "none"]
NoAdd   == [step |-> "idle", frame |-> 0, gen |-> 0]
NoRefit == [step |-> "idle", frames |-> {}, gen |-> 0]

TypeOK ==
  /\ live \in Dir /\ backup \in Dir /\ staging \in Dir
  /\ statsFile \in Gen \cup {0} /\ embedder \in Gen \cup {0}
  /\ up \in BOOLEAN /\ locked \in BOOLEAN /\ drifts \in BOOLEAN
  /\ raced \in BOOLEAN /\ torn \in BOOLEAN
  /\ mem \in [Frame -> Gen \cup {0}]
  /\ handle \in {"none", "live", "backup", "gone"}
  /\ add \in [step : {"idle", "open", "insert"}, frame : 0 .. MaxFrame,
              gen : Gen \cup {0}]
  /\ restore \in [left : SUBSET File, open : File \cup {"none"}]
  /\ refit \in [step : {"idle", "build", "drop", "park", "swap", "adopt", "save"},
                frames : SUBSET Frame, gen : Gen \cup {0}]
  /\ streak \in 0 .. MinConsecutive /\ since \in 0 .. MaxSince
  /\ now \in 0 .. MaxFrame /\ gens \in 0 .. MaxGen

\* Either a first start, or a start after scripts/reindex_hnsw_from_store.py
\* has indexed the archive and written the statistics it used.
Init ==
  /\ \/ /\ live = NoDir /\ statsFile = 0 /\ now = 0 /\ gens = 0
     \/ /\ now = MinCount /\ now <= MaxFrame /\ gens = 1 /\ statsFile = 1
        /\ live = [there |-> TRUE, gen |-> 1, vectors |-> 1 .. now,
                   table |-> TRUE,
                   rows |-> [f \in Frame |-> IF f <= now THEN "labelled" ELSE "none"],
                   half |-> {}]
  /\ backup = NoDir /\ staging = NoDir
  /\ up = FALSE /\ embedder = 0 /\ locked = FALSE
  /\ mem = [f \in Frame |-> 0] /\ handle = "none"
  /\ add = NoAdd /\ restore = NoRestore /\ refit = NoRefit /\ streak = 0
  /\ since = MaxSince
  /\ drifts = FALSE /\ raced = FALSE /\ torn = FALSE

-----------------------------------------------------------------------------
(* Start and kill.                                                         *)

\* index.bin exists, whole or not.
HasIndex(dir) == dir.gen # 0 \/ "index" \in dir.half

\* What discover() has to copy: nothing when index.bin exists, else every
\* file of a backup that has one.
ToRestore ==
  IF HasIndex(live) \/ backup.gen = 0 THEN {}
  ELSE {"index"} \cup {x \in {"table"} : backup.table}

\* A copy was cut off, and index.bin exists: no later start restores over the
\* half file, and none can load it.
CutOff == restore.left = {} /\ HasIndex(live) /\ live.half # {}

\* The generation a start that is let alone loads.
OnDisk ==
  IF CutOff THEN 0
  ELSE IF "index" \in restore.left \/ ~HasIndex(live) THEN backup.gen
  ELSE live.gen

RestoreBegin ==
  /\ ~up /\ restore.left = {} /\ ToRestore # {}
  /\ restore' = [left |-> ToRestore, open |-> "none"]
  /\ live' = [live EXCEPT !.there = TRUE]
  /\ UNCHANGED <<backup, staging, statsFile, up, embedder, locked, mem, handle,
                 add, refit, streak, since, drifts, now, gens, raced, torn>>

\* copy2 opens the target, which truncates it, and fills it.  The files come
\* in the order of the directory, which is any.
CopyBegin(file) ==
  /\ ~up /\ file \in restore.left /\ restore.open = "none"
  /\ restore' = [restore EXCEPT !.open = file]
  /\ live' = [live EXCEPT !.half = @ \cup {file}]
  /\ UNCHANGED <<backup, staging, statsFile, up, embedder, locked, mem, handle,
                 add, refit, streak, since, drifts, now, gens, raced, torn>>

Copied(file) ==
  IF file = "index"
  THEN [live EXCEPT !.gen = backup.gen, !.vectors = backup.vectors,
                    !.half = @ \ {file}]
  ELSE [live EXCEPT !.table = TRUE, !.rows = backup.rows, !.half = @ \ {file}]

CopyEnd(file) ==
  /\ restore.open = file
  /\ live' = Copied(file)
  /\ restore' = [left |-> restore.left \ {file}, open |-> "none"]
  /\ UNCHANGED <<backup, staging, statsFile, up, embedder, locked, mem, handle,
                 add, refit, streak, since, drifts, now, gens, raced, torn>>

\* load_stats comes before discover(), which loads index.bin or starts empty
\* and creates the table if it is missing.  It fails on a half file: the
\* daemon runs without the store.
Start ==
  /\ ~up /\ restore.left = {} /\ ToRestore = {}
  /\ up' = TRUE
  /\ embedder' = statsFile /\ locked' = (statsFile # 0)
  /\ \/ /\ live.half = {}
        /\ mem' = [f \in Frame |-> IF f \in live.vectors THEN live.gen ELSE 0]
        /\ live' = [live EXCEPT !.there = TRUE, !.table = TRUE]
        /\ handle' = "live"
     \/ /\ live.half # {}
        /\ UNCHANGED <<mem, live, handle>>
  /\ raced' = FALSE /\ since' = MaxSince
  /\ UNCHANGED <<backup, staging, statsFile, add, restore, refit, streak,
                 drifts, now, gens, torn>>

\* A kill at any point, in the middle of a restore too, which an exception of
\* copy2 ends just as well.  A table cut off before its first byte is an empty
\* database.  A clean stop leaves the same disk behind: close() writes nothing
\* and nothing calls persist().
Kill ==
  /\ up \/ restore.left # {}
  /\ up' = FALSE /\ embedder' = 0 /\ locked' = FALSE
  /\ mem' = [f \in Frame |-> 0] /\ handle' = "none"
  /\ add' = NoAdd /\ restore' = NoRestore /\ refit' = NoRefit /\ streak' = 0
  /\ \/ UNCHANGED live
     \/ /\ restore.open = "table"
        /\ live' = [live EXCEPT !.table = TRUE, !.rows = NoRows,
                               !.half = @ \ {"table"}]
  /\ torn' = (torn \/ refit.step \in {"adopt", "save"})
  /\ UNCHANGED <<backup, staging, statsFile, since, drifts, now, gens, raced>>

-----------------------------------------------------------------------------
(* The table, through the connection.                                      *)

TableOf(h) == CASE h = "live" -> live.rows
                [] h = "backup" -> backup.rows
                [] OTHER -> NoRows

\* A write through the connection follows the file wherever it was renamed.
WriteRow(f, r) ==
  /\ live'   = IF handle = "live" THEN [live EXCEPT !.rows[f] = r] ELSE live
  /\ backup' = IF handle = "backup" THEN [backup EXCEPT !.rows[f] = r] ELSE backup

Count == Cardinality({f \in Frame : TableOf(handle)[f] # "none"})

\* _chroma_write embeds the frame, then add() takes over, if there is a store.
AddBegin ==
  /\ up /\ add.step = "idle" /\ now < MaxFrame
  /\ now' = now + 1
  /\ add' = IF embedder = 0 \/ handle = "none" THEN NoAdd
            ELSE [step |-> "open", frame |-> now + 1, gen |-> embedder]
  /\ UNCHANGED <<disk, up, embedder, locked, mem, handle, restore, refit,
                 streak, since, drifts, gens, raced, torn>>

\* _ensure_db_live: the connection is kept when it still is the live file;
\* otherwise the directory and the table are created if need be.
AddOpen ==
  /\ up /\ add.step = "open"
  /\ handle' = "live"
  /\ live' = IF live.table THEN live
             ELSE [live EXCEPT !.there = TRUE, !.table = TRUE]
  /\ raced' = (raced \/ (refit.step = "swap" /\ ~live.there))
  /\ add' = [add EXCEPT !.step = "insert"]
  /\ UNCHANGED <<backup, staging, statsFile, up, embedder, locked, mem, restore,
                 refit, streak, since, drifts, now, gens, torn>>

\* add_items, then the row; a table whose file is gone refuses it.
AddInsert ==
  /\ up /\ add.step = "insert"
  /\ mem' = [mem EXCEPT ![add.frame] = add.gen]
  /\ WriteRow(add.frame, "unknown")
  /\ add' = NoAdd
  /\ UNCHANGED <<staging, statsFile, up, embedder, locked, handle, restore,
                 refit, streak, since, drifts, now, gens, raced, torn>>

\* update_metadata: the labellers do not check whose table they write to.
UpdateMetadata ==
  \E f \in Frame :
    /\ up /\ TableOf(handle)[f] = "unknown"
    /\ WriteRow(f, "labelled")
    /\ UNCHANGED <<staging, statsFile, process, drifts, now, gens, raced, torn>>

\* _refit_embedder, every 30 s unless statistics were loaded at the start.
\* What it writes is not what a refit built the live index with.
FitOnRing ==
  /\ up /\ ~locked /\ now >= MinFit /\ gens < MaxGen
  /\ gens' = gens + 1
  /\ embedder' = gens' /\ statsFile' = gens'
  /\ torn' = (torn \/ OnDisk # 0)
  /\ UNCHANGED <<live, backup, staging, up, locked, mem, handle, add, restore,
                 refit, streak, since, drifts, now, raced>>

-----------------------------------------------------------------------------
(* The refit.                                                              *)

\* A gap of exactly the minimum does not count.
RecordedStrictMutant(n, drifting, gap) ==
  CASE ~drifting              -> 0
    [] n > 0 /\ gap <= MinGap -> n
    [] OTHER                  -> IF n < MinConsecutive THEN n + 1 ELSE n

\* DriftGate.record.  An analysis too soon after the last moves the timestamp
\* without counting.
Recorded(n, drifting, gap) ==
  CASE ~drifting             -> 0
    [] n > 0 /\ gap < MinGap -> n
    [] OTHER                 -> IF n < MinConsecutive THEN n + 1 ELSE n

ShouldRefit(n) == n >= MinConsecutive

\* One frame too many.
RecentFramesWideMutant == {f \in 0 .. now : f >= now - Window}

RecentFrames == {f \in 1 .. now : f > now - Window}

\* The countable guards of refit_and_swap; the spike and parity guards are
\* left to the choice between CheckRefused and CheckAccepted, and so is the
\* count of a table whose file is gone, which can still be read.
MayRefit ==
  /\ Count >= MinCount \/ handle = "gone"
  /\ Cardinality(RecentFrames) >= MinFit

\* detect_cluster_drift: an empty table shows nothing, and a list_stable that
\* raises is taken for one.
Drifting == drifts /\ (Count > 0 \/ handle = "gone")

\* BOUND: MaxSince.
Elapse ==
  /\ up /\ since < MaxSince
  /\ since' = since + 1
  /\ UNCHANGED <<disk, up, embedder, locked, mem, handle, add, restore, refit,
                 streak, drifts, now, gens, raced, torn>>

\* The periodic check.  Every check moves the streak's last timestamp, so the
\* gap is the time since the last check.  Its three outcomes: the gate stays
\* shut, the refit is turned down (a guard, parity), or it goes on to build.
Check ==
  /\ handle # "none" /\ refit.step = "idle"
  /\ since >= CheckEvery
  /\ streak' = Recorded(streak, Drifting, since)
  /\ since' = 0
  /\ UNCHANGED <<disk, up, embedder, locked, mem, handle, add, restore, drifts,
                 now, raced, torn>>

CheckShut ==
  /\ Check /\ ~ShouldRefit(streak')
  /\ UNCHANGED <<refit, gens>>

CheckRefused ==
  /\ Check /\ ShouldRefit(streak')
  /\ UNCHANGED <<refit, gens>>

CheckAccepted ==
  /\ Check /\ ShouldRefit(streak')
  /\ MayRefit /\ gens < MaxGen
  /\ gens' = gens + 1
  /\ refit' = [step |-> "build", frames |-> RecentFrames, gen |-> gens']

\* Every row of the new table is unlabelled again.
Built(frames, gen) ==
  [there |-> TRUE, gen |-> gen, vectors |-> frames, table |-> TRUE,
   rows |-> [f \in Frame |-> IF f \in frames THEN "unknown" ELSE "none"],
   half |-> {}]

Goto(step) == refit' = [refit EXCEPT !.step = step]

RefitBuild ==
  /\ refit.step = "build"
  /\ staging' = Built(refit.frames, refit.gen)
  /\ Goto("drop")
  /\ UNCHANGED <<live, backup, statsFile, up, embedder, locked, mem, handle, add,
                 restore, streak, since, drifts, now, gens, raced, torn>>

\* An exception leaves an incomplete staging directory, wiped by the next
\* refit; _guarded_refit_check clears the inflight flag.
RefitRaises ==
  /\ refit.step = "build"
  /\ staging' = [NoDir EXCEPT !.there = TRUE]
  /\ refit' = NoRefit
  /\ UNCHANGED <<live, backup, statsFile, up, embedder, locked, mem, handle, add,
                 restore, streak, since, drifts, now, gens, raced, torn>>

RefitDrop ==
  /\ refit.step = "drop"
  /\ backup' = NoDir
  /\ handle' = IF handle = "backup" THEN "gone" ELSE handle
  /\ Goto("park")
  /\ UNCHANGED <<live, staging, statsFile, up, embedder, locked, mem, add,
                 restore, streak, since, drifts, now, gens, raced, torn>>

\* The old index is removed to make room for the new one.
RefitParkDeletesMutant ==
  /\ refit.step = "park"
  /\ live' = NoDir
  /\ handle' = IF handle = "live" THEN "gone" ELSE handle
  /\ Goto("swap")
  /\ UNCHANGED <<backup, staging, statsFile, up, embedder, locked, mem, add,
                 restore, streak, since, drifts, now, gens, raced, torn>>

RefitPark ==
  /\ refit.step = "park"
  /\ backup' = live /\ live' = NoDir
  /\ handle' = IF handle = "live" THEN "backup" ELSE handle
  /\ Goto("swap")
  /\ UNCHANGED <<staging, statsFile, up, embedder, locked, mem, add, restore,
                 streak, since, drifts, now, gens, raced, torn>>

RefitSwap ==
  /\ refit.step = "swap" /\ ~live.there
  /\ live' = staging /\ staging' = NoDir /\ raced' = FALSE
  /\ Goto("adopt")
  /\ UNCHANGED <<backup, statsFile, up, embedder, locked, mem, handle, add,
                 restore, streak, since, drifts, now, gens, torn>>

\* A directory that is not empty cannot be renamed over.
RefitSwapFails ==
  /\ refit.step = "swap" /\ live.there
  /\ refit' = NoRefit
  /\ UNCHANGED <<disk, up, embedder, locked, mem, handle, add, restore, streak,
                 since, drifts, now, gens, raced, torn>>

\* The embedder takes the new statistics; the index in memory stays.
RefitAdopt ==
  /\ refit.step = "adopt"
  /\ embedder' = refit.gen
  /\ Goto("save")
  /\ UNCHANGED <<disk, up, locked, mem, handle, add, restore, streak, since, drifts,
                 now, gens, raced, torn>>

\* The new statistics are never written.
RefitSaveForgetsMutant ==
  /\ refit.step = "save"
  /\ streak' = 0 /\ refit' = NoRefit
  /\ UNCHANGED <<disk, up, embedder, locked, mem, handle, add, restore, since,
                 drifts, now, gens, raced, torn>>

\* save_stats, whose failure is only logged, then the report and the gate.
RefitSave ==
  /\ refit.step = "save"
  /\ \/ statsFile' = refit.gen /\ torn' = FALSE
     \/ UNCHANGED statsFile /\ torn' = TRUE
  /\ streak' = 0 /\ refit' = NoRefit
  /\ UNCHANGED <<live, backup, staging, up, embedder, locked, mem, handle, add,
                 restore, since, drifts, now, gens, raced>>

-----------------------------------------------------------------------------

DriftChanges ==
  /\ drifts' = ~drifts
  /\ UNCHANGED <<disk, process, now, gens, raced, torn>>

RefitStep ==
  \/ RefitBuild \/ RefitRaises \/ RefitDrop \/ RefitPark \/ RefitSwap
  \/ RefitSwapFails \/ RefitAdopt \/ RefitSave

StartStep ==
  \/ RestoreBegin
  \/ \E file \in File : CopyBegin(file) \/ CopyEnd(file)
  \/ Start

CheckStep == CheckShut \/ CheckRefused \/ CheckAccepted

Next ==
  \/ StartStep \/ Kill
  \/ AddBegin \/ AddOpen \/ AddInsert \/ UpdateMetadata
  \/ FitOnRing \/ Elapse \/ CheckStep \/ RefitStep \/ DriftChanges

\* The service manager restarts the daemon, time passes, the tick loop comes
\* round, and a thread that runs finishes.
Fairness ==
  /\ WF_vars(StartStep) /\ WF_vars(RefitStep)
  /\ WF_vars(AddOpen) /\ WF_vars(AddInsert)
  /\ WF_vars(Elapse) /\ WF_vars(CheckStep)

Spec == Init /\ [][Next]_vars /\ Fairness

-----------------------------------------------------------------------------
(* Properties.                                                             *)

\* A kill at any step of the refit or of the restore leaves the old index or
\* the new one for discover() to find (embedder_refit.py's two renames,
\* hnsw.py's restore), with two exceptions, each as narrow as the code makes
\* it.  After an add that rebuilt the directory in mid-swap, the next refit
\* drops the only whole index before it has put another in its place.  A copy
\* cut off once index.bin exists leaves a store that no later start can load.
Stored == INSTANCE StoredIndex WITH
  Generation <- Gen,
  found      <- OnDisk,
  trouble    <- IF CutOff THEN "cut" ELSE IF raced THEN "raced" ELSE "none"

AtomicSwap == Stored!Spec

\* The statistics a start will load are those the index it will load was
\* built with (the docstring of save_stats: a restarted daemon must embed
\* compatibly), unless the save failed, was cut off by a kill, or a process
\* that had no statistics at its start went on fitting on the ring.
StatsFitIndex ==
  \/ torn \/ refit.step \in {"adopt", "save"}
  \/ OnDisk = 0 \/ OnDisk = statsFile

\* Drift that lasts opens the gate over and over, so that every further check
\* attempts the refit (DriftGate, ADR-024): once the store stays available and
\* every check sees the drift, checks that come too soon, late ones, and
\* refused or failed refits do not stop it, as long as checks MinGap apart keep
\* coming.  They do by themselves when _refit_check_hours is MinGap or more.
DriftAnswered ==
  <>[](handle # "none" /\ Drifting) /\ []<>(since >= MinGap) =>
  []<>ShouldRefit(streak)
================================================================================
