# TLA+ models of coolstep

coolstep is a laptop thermal daemon. A tick loop samples sensors, keeps a history,
predicts a rise by nearest neighbours, decides on verbs (`RAMP_COOLING`, `REDUCE_NOISE`,
`SHIFT_POWER_ENVELOPE`, `CAP_BOOST`, …) and writes them to fans and power limits. What it
writes is a *bias*: a temporary deviation from what the user had, which the daemon has to
take back. Around the loop run worker threads (vector queue, label passes, rotation,
refit), a second process (the dashboard) and a shell script that systemd runs after a
crash.

This directory holds TLA+ modules of the parts whose correctness depends on the order of
steps, TLC configurations that check them on small instances, and TLAPS proofs for every
instance. Paths below are relative to `src/coolstep/` unless they start with `docs/` or
`systemd/`.

- [1 Inventory](#1-inventory) — the system's parts
- [2 Modules](#2-modules) — how state and actions correspond to the code
- [3 Runs](#3-runs) — what is checked, bounds, fairness
- [4 Disagreements found](#4-disagreements-found)
- [5 Proofs](#5-proofs)
- [6 Not modelled](#6-not-modelled) and [7 Plan](#7-plan)

To repeat a run: `tlc -workers 2 -config Ledger.cfg MCLedger`; a proof:
`tlapm LedgerProofs.tla`.

## 1 Inventory

| component (source) | state it keeps | operations | interacts with |
|---|---|---|---|
| **Hardware-safety belt** (`daemon.py`, `systemd/coolstep-cleanup.sh`) | `_armed_actions`, its mirror in `runtime-state.json`, the tick's phase | `_do_apply`, `_should_skip_rearm`, `_sweep_expired_armed`, `_quiet_safety_eject`, `_persist_runtime_state`, `_recover_armed_actions`, `_revert_all_armed` | calls every actuator; is fed by `decide()`; the script and the next start read the file |
| **Fan-curve actuator** (`adapters/actuators/asusctl_fan_curve.py`, `core/curve.py`) | cached baseline and its age, last issued curve and its time, baseline file, the EC's curve | `apply`, `revert`, `_ensure_baseline` with the S15 ownership guards | the EC is shared with the user, game mode, and the script |
| **Game-mode optimizer** (`game_mode_optimizer.py`) | cached probe | `apply`, `revert` | takes the fan curve over from the actuator above |
| **EPP and ryzenadj actuators** (`epp_shift.py`, `ryzenadj_cap.py`) | baseline, last value | `apply` (partial failure), `revert` | belt |
| **runtime-state.json and mode endpoints** (`daemon.py`, `dashboard/server.py`) | the file, `_mode` | daemon: reload, rewrite; dashboard: read, modify, write | two processes, no lock |
| **Decision engine** (`core/decision.py`) | none between calls (thresholds, a decision log) | `decide` and its gates | fed by the prediction cache, feeds the belt |
| **Prediction cache, predictor, residual bank** (`daemon.py`, `core/predictor*.py`, `core/residual_*.py`) | cached value with age, inflight flag, predictions awaiting validation, intervention windows; log file and archives, decaying bank | refresh in the background, validate after the horizon, append and rotate, rebuild at start, decay | index, decision engine; learns only from samples the belt had no hand in |
| **Event store, throttle FSM, rotation, roll-up** (`core/store.py`, `daemon.py`) | `frames`, `throttle_events`, `daily_rollup`, `meta`, FSM start | `write_frame`, `_throttle_fsm_tick`, `rotate`, `rollup_days` | tick and rotation thread share the store's lock, transaction by transaction |
| **Label pipeline, vector queue** (`daemon.py`, `core/backfill.py`, `adapters/storage/hnsw.py`, `chroma.py`) | `_labelled_window`, `_chroma_queue`, the label of each vector | drain worker, live pass, backfill pass, orphan recovery | three labellers of one field in two threads and at start-up |
| **Refit and index swap** (`core/embedder_refit.py`, `hnsw.py`, `core/cluster_drift.py`, `core/drift.py`) | index directory, backup, embedder statistics, drift streak | staging, two renames, reload | daemon and offline tool |
| **Segmentation, spike detector** (`core/event_segmentation.py`, `core/spike_detector.py`) | window, plateau flag; streak counters | one step per frame, per validated residual | sessions, incidents |
| **Hot state** (`core/hot_state.py`, `daemon.py`) | memory-mapped record with a sequence counter; the daemon's back-off | write, read with retry, set up again | daemon and dashboard |
| **Collectors** (`adapters/collectors/`) | open descriptors, cached answers, last counters, a subprocess's latest line | read sysfs, ask another process, follow a stream, difference a counter | each `sample()` runs in a pool thread the tick may stop waiting for |
| **Dashboard views** (`dashboard/server.py`) | one cache per endpoint, locks of the costly ones | compute in a thread, keep, serve | the daemon's calibration report |
| **Compatibility, install plan, adapter discovery** (`compat/`, `make()`/`discover()` of the adapters) | the capabilities of one process | detect, derive the deployment target, recommend, load adapters | `coolstep compat` in the user's session, the daemon in systemd's |
| **Incidents, calibration, efficiency** | none of their own | reports | store |
| **Feature extraction, workload profiles** | filters, rings | arithmetic per frame | predictor |
| **Inspect CLI, MCP server, journals, notifications** | — | read-only reports, append-only logs | — |

What makes these parts correct, and hard to test:

- *Belt.* A bias is always somebody's to take back: the running daemon's, or the file's
  for the next start. It is not enough to test `apply` and `revert`: a kill may come
  between the hardware write, the entry, the truncation of the file and its rewriting; a
  command may take effect and time out; a refused renewal leaves an older lease; the
  script empties the list. No lease may outlive its expiry by more than grace and loop
  delay, and no quiet bias may survive a hot tick.
- *Fan curve.* The user owns the curve. The snapshot must never be coolstep's own bias,
  a revert must not overwrite an edit nor mistake its own curve for one, across three
  roundings (whole percent written, byte stored, tenth read).
- *State file.* Each process rewrites what the other has written. A garbled or stale
  read must not change the mode, and a request should take effect.
- *Ledger.* Frames age out; the daily roll-up is permanent. A day must be counted before
  it is evicted, with transactions that can be cut anywhere and a clock that crosses
  midnight in the middle of a pass, a tick or a throttle episode.
- *Labels.* A HOT label must be true whoever wrote it, a label must be settled when its
  frame leaves memory, and no vector may stay unlabelled.
- *Index.* A kill at any step of a refit leaves the old or the new index, with the
  statistics it was built with; drift that lasts leads to a refit.
- *Prediction.* A cached value may not age without bound when refreshes fail, and a sample
  taken while coolstep held a bias must not teach the bank. The log survives torn lines
  and half-done rotations; what is learned after a restart is in the order of time.
- *Telemetry.* A reader of the shared record sees one whole record; late answers, reused
  descriptors, wrapped counters and half-published intervals must not become readings.
- *Installation.* Following the plan's advice must not contradict it, and what it announces
  must be what the daemon then loads.

`PROJECT.json` lists every hazard at its line, with the properties that cover it.

## 2 Modules

The state machines are independent of one another; `MC…` modules hold the constants'
values. Where two of them touch the same code, one carries the detail: the belt knows
actuators as "user / bias" and the file as what it lists, `FanCurve` knows the curve,
`SharedState` the file's races with the dashboard; `Labels` knows a vector's label,
`VectorIndex` its table and file; `Forecast` knows the lease as a span of time.
`MCForecast` and `MCTelemetry` put several small machines into one run: a behaviour
chooses a machine and the others rest, so that the run's states are the sum of theirs.
Variables marked *history* are written for the properties and never read by a guard.
Definitions named `…Mutant` are faulty variants kept beside the definition they vary; no
specification uses them.

### SafetyBelt

One action per step that can be interrupted by a kill: `Sample` (collectors answer, the
sweep lists), `RevertOne` (one round of a revert loop, shared by sweep, eject, shutdown
and recovery), `StartEject`, `Decide`, `SkipRearm`, `Apply` / `RecordArmed` /
`RecordError` (before, after the actuator answers), `TickEnd`, and the two halves of
`write_text`: `Truncate`, `PersistEnd`. `Stop` and `ShutdownEnd` are the `finally` of
`run`; `Kill`, `CleanUp` (the script) and `Restart` / `RecoverEnd` the rest of a life.

- Clock readings are differences: `ttl` is `expires_at - now`; `Elapse` lowers all ttls
  by one where the loop waits (sleep, collectors, reverts, predictor).
- An actuator is what the belt can tell of it: the hardware holds the user's setting or a
  bias, the snapshot likewise. `Apply` may leave the hardware alone or touch it, and
  report an error either way. `Guarded` actuators (the fan curve) have the S15 guard, which
  may or may not recognise the live bias as their own, and an entry in the script; the
  others re-read a stale snapshot from whatever is live, and return silently when they
  hold none.
- `decide()` is any set of verbs its gates let through together; the numbers behind the
  gates are not here.
- `excused` collects the actuators whose bias was left behind by a fault the code logs and
  drops: a failed or ceded revert, an apply that failed after touching the hardware, a
  kill while the file is truncated or before the entry is made, the script's emptying of
  the list.
- `spoilt` collects those whose snapshot of the user's setting is gone while the bias is
  live, so that a revert reported as done leaves it: a stale snapshot re-read from the
  actuator's own bias (`epp_shift.py:152`, `ryzenadj_cap.py:238`), one taken after a
  restart, with no snapshot in memory (`epp_shift.py:115` then returns without a word), or of a
  fan curve that reads as another than it was issued. `Taken` names these cases; a
  snapshot of the fan actuator's that its guard should have prevented is none of them.
- `NoUnexplainedBias` says that nothing *else* loses a bias.
- Not here: the dashboard's writes to the file (module `SharedState`).

### LeasedHardware

The belt's promise, without loops, file and script: hardware is biased under a lease
(`Ask`, then `Grant` or `Refuse`), which is renewed near its end only, runs out in time
(`Elapse` lets none but a leftover pass the floor), is saved (`Save`), and survives a death
(`Die`) as it is unless a write was going on or had failed; a start ends what has little
left to run. `SafetyBelt` implements it (`LeasesHonoured`) with `lease` as what whoever
lives holds: the daemon's map, or the file's once it is dead. A revert that does not
succeed may end the lease and leave the bias; which biases that may be is
`NoUnexplainedBias`, not part of this promise.

### FanCurve

One knee anchor with the three real scales: the EC's byte, `Written` (whole percents,
`int(round())` with halves to even), `Shown` (tenths). On most curves they do not agree: a
curve issued in tenths reads as another, and a byte that lies between two percents comes
back as the nearer one (`Near`). `compose_curve` is the base plus a lift from a set,
clamped; the shape policies only choose the lift. `EnsureBaseline` has the four ways of
`_ensure_baseline`; `FanApply` and `FanRestore`/`FanCede` are whole calls. `BaselineLapses`
and `ReapplyLapses` let the two ages pass at any time. The user (`Edit`) and game mode
(`Probe`) are the world's; rounding percent to byte is asusctl's. `blame` names why the
user's curve may be lost: a swallowed fault, game mode, a snapshot older than the edit,
`--default` for want of a snapshot, and `misread`, a comparison of curves that the
scales made wrong: coolstep's own curve reads as another (`Misread`), or the user's reads
as the one issued last (`Alike`).

### SharedState

The file is the content that reading it yields, or `Torn`. The daemon reloads at the
start of a tick, persists after each arming and at the end; the dashboard reads, opens,
writes back with one field changed. Opening truncates; a write that meets the other
process's may leave a garbled file (`Landed`). Kills, failed writes, `Stop`, `Restart`
with recovery are actions. The mode "off" arms nothing. `WorkingSpec` restricts the dashboard to
the interval between a tick's reload and its next persist, for the one violation run.

### Labels

A frame is its timestamp, a vector is its label: `none` before it is written, `unknown`
(-1), `hot`, `cool`. `TickStart`/`TickEnd` are the two ends of a tick around the awaited
collectors; `Drain` is the queue's worker; `LiveStart`, `LiveOne`, `LiveDone`, `LiveFails`
the live pass, which decides all labels from its copy of the window and writes them one by
one; `FillStart`, `FillList`, `FillWrites`, `FillSkips` the backfill pass, which reads
events, then lists vectors, then writes; `Restart` runs both start-up labellers, either
of which may fail for any vector. One unit is 30 s, so the lookahead is 1 and frames are
trimmed after 2. Ticks whose frame is not enqueued (all but one in 5 s), `peak_temp_after`
and the danger and stable labels of the same update are left out.

### Ledger

`frames` and `throttle_events` are sets of stamps, a row of `daily_rollup` is the frames
and events it was computed from. Each transaction of `rotate` is a step — `RotateStart`
(clock, mark, first day), `RollDay`, `RollMark`, `Pause`, `Evict` — because the lock is
released in between; `RollFails` and `EvictFails` are exceptions at any of them. A
tick's frame carries the tick's start and is stored at its end, or skipped while
`_writes_paused`; an episode is stored under its start when it closes. `DayOf` is any
non-decreasing date; the assumption that a frame outlives its own day is the 14 days of
`FRAMES_TTL_SEC`. Passes do not overlap, the clock does not step back, and committed
transactions survive a kill.

### VectorIndex, StoredIndex

`live`, `backup` and `staging` are directories with a generation of vectors (index.bin)
and a table of rows (meta.sqlite); `mem` is the index in memory, `handle` where the file
behind the open connection is now, since a rename takes the file along. The refit is one
step per file operation: `RefitBuild`, `RefitDrop`, `RefitPark`, `RefitSwap`,
`RefitAdopt` (embedder), `RefitSave` (statistics). `AddBegin`/`AddOpen`/`AddInsert` and
`UpdateMetadata` go on beside it; `Kill` comes anywhere. discover()'s restore copies file by
file, and `copy2` truncates the target before it fills it (`CopyBegin`, `CopyEnd`): a copy
that is cut off leaves a half file. Once index.bin exists no later start restores over it, and
one that is half cannot be loaded: the daemon runs without the store (`CutOff`, and `Start` with
`handle = "none"`). A table cut off may be empty or torn. `FitOnRing` is the 30 s fit of a process
that found no statistics at its start. `since` is the time since the last check, which `Check`
resets and hands to `Recorded` as the gap; `Drifting` is false of an empty table and, through
`drifts`, of a `list_stable` that raises. The parity and spike guards are the choice between
`CheckRefused` and `CheckAccepted`.

`StoredIndex` is the promise: what a start would load only ever changes to a newer
generation, with two mishaps, neither of which brings an older one back: somebody else
writes into the directory in mid-swap, which may lose the index until a start or a swap
mends it, and a copy cut off, after which nothing comes. `VectorIndex` implements it
(`AtomicSwap`) with `found <- OnDisk`, the generation `discover()` would find, and `trouble`
the mishap that holds.

### Forecast

A tick is two actions around the awaited collectors. `TickEnd` is the rest of the tick
in the code's order: sweep or eject, `Predict` (cold: wait; stale: start the thread;
else reuse), `Validate` with the pruning of `_intervention_windows`, `Push`, arming with
`Recorded`. `RefreshDone`/`RefreshFails` are the thread. All times are differences from
now. `touched` records for each waiting prediction whether a lease was in its term during
its horizon; the code's own estimate is `Intervened`. `basis` is the age of the features
a cached value was computed from, which the code does not record (`_ts` is the time of
the answer). A waiting prediction is at most `MaxAge` old, its features at most `MaxBasis`; a
lease that is over stops counting one below `-MaxLag`, the latest at which the sweep can
meet it.

### ResidualStore

A file is its lines: a sample, `TornLine` (no newline yet), `GarbageLine` (two that ran
together); `Readable` selects the lines that `_iter_file` does not skip. `Rotated(steps)` is
`_rotate` after its first 0 to 3 file operations; an append fails, or is killed, between any
of them or in the middle of the line. The bank learns in the same order and is rebuilt by
`Replayed`.

### SpikeDetector, EventSegmenter

One action per residual or frame, with the counters and the window of the code; the
whole stream is kept beside them, and the properties say what spikes and sessions are in
terms of it.

### Response

What one tick makes of its window of frames: `Features`, the base prediction (`Knn` or
`Baseline`), `Merged` overlay, bank correction `Corrected`, `Decided` verbs, and the nine
curve policies in their order (`Pipeline`). Integers: degrees, and hundredths of slopes,
probabilities and fan percents; the saturation factor `1 - exp(-h/τ)` is the percentage it
has for the default horizon and τ.

### HotState

The record as header, two words of body and header again; writer and reader take one word
at a time. `Setup` is `Writer()`, with the empty file in between and the back-off of
`_tick`.

### PolledCollector, SysfsCollector, StreamedCollector, EnergyMeter

Four ways of reading. *Polled*: `sample()` in a thread of the pool (`PollTick`), the daemon
giving up (`GiveUp`) while the thread runs on and ends (`Answered`, `Unanswered`) into the
cache; `kind` chooses hyprctl, the session bus or a BMC. A BMC's `Unanswered` includes the
HTTP error or empty answer that is cached and served. *Sysfs*: a path is not a sensor:
`occupant` is whose file is at a path now, `device` the label the collector found it under.
`RefreshPaths` finds the paths again and empties the table of descriptors, when a minute has
passed or nothing was found; `Unplug` and `Replug` let a driver come back under another
number. `LookUp`, `OpenFd`, `Pread`, `Evict` work on the table, with the kernel's numbers
reused. `astray` are the labels whose path has become another sensor's since it was found.
*Streamed*: `perf stat` prints, a reader thread publishes whole intervals, `Close`
escalates. *EnergyMeter*: wrapping counters, some of them unreadable, with their range
(`MaxUj`) known or not.

### EndpointCache

A request up to its first await (`Ask`), the lock's queue (`NextAsker`), the end of the
computation (`Put`, `ComputeFails`), the warm-up as one more requester, and the daemon's
calibration report. `Warmed` are the three bodies the warm-up computes: calibration under its
lock, adapters and discoveries without a look at lock or cache. `StampedEarly` are the
endpoints whose cache is stamped with the time the computation began; the warm-up stamps
all of them at its end.

### Platform, InstallPlan

`Platform` has a host as a record of facts, `Caps` (what `detect.py` records of it),
`Facet` (`caps.py`), and of every adapter the gate on capabilities (`Gated`) and its own
probe (`Probed`); `Discovered` is what the registries load. The command sees the user's
session, the daemon the environment of the user manager, and no capabilities
(`DaemonCaps`). `InstallPlan` adds `PlanOf` and the user: `Compat`, `Follow` a package,
`Configure` the environment, `StartDaemon`. `Unrecorded` is what the host is that its
capabilities do not record, adapter by adapter; `Contradicted` where plan and probe read
the same capability and differ.

## 3 Runs

Every pass run explores its whole state space with the bounds below and fires every
action. Each property also has a mutant of the code that violates it (`PROJECT.json`).

| run | bounds | shows |
|---|---|---|
| `safety_belt` | actuators fan (guarded) and epp, three verbs; 20 s units: durations 2 and 3, recovery horizon 3, grace and re-arm gap 1, loop delay 1 | `NoUnexplainedBias`, `LeaseEndsInTime`, `NoQuietWhenHot`, `ExpiredLeaseSettles`, `LeasesHonoured` (refinement of `LeasedHardware`) |
| `fan_curve` | user curves 51 (20 %, on which the scales agree) and 215 (between 84 % and 85 %), lifts of 64.3 % and 80 % | `BiasTakenBack`, `CrashCanRestore`, `AdoptsOnlyUserCurve` |
| `shared_state` | three modes, one actuator | `MirroredBetweenTicks`, `SettledModeStays`, `RequestSettles` |
| `labels` | four frames, a queue of one, readings 60 and 95 | `HotIsTrue`, `TrimsOnlySettled`, `EveryVectorLabelled` |
| `ledger` | six clock readings, days of two units, frames live 2, events 3 | `EvictsOnlyCounted`, `LedgerKeeps`, `CatchesUp` |
| `vector_index` | four frames, three generations, a refit from two vectors on, drift counted twice, checks every unit while detections count two units apart | `AtomicSwap` (refinement of `StoredIndex`), `StatsFitIndex`, `DriftAnswered` |
| `forecast` | horizon 2, refresh 1, durations 2 and 4, three windows, a tick per unit; seven samples in files of two lines; streams of eight residuals and six frames; 14 temperature windows with votes, banks and workloads | `FlaggedWhenControlled`, `StaleBound`; `KeepsNewest`, `LearnsInOrder`; `StreamsAsDefined`; `RespondsSoundly` |
| `telemetry` | three records in two lives, two sessions, two pool threads, two paths and two descriptors for two sensors, three samples (two once they overlap, after which nothing is promised), three intervals of two events, a counter of range 3 that is known and one of range 2 that is not, five endpoints, two requests and the warm-up; four hosts and every host one fact away | `ReadsWhole`, `ServedFresh`, `ReadingsTrue`, `EndpointsSound`, `PlanSound` (what is announced is loaded, `PlanHolds`; advice can be followed, `AdviceSettles`) |
| `shared_state_intent`, `ledger_throttles`, `fan_curve_cede`, `daemon_cedes` | as above | violations, section 4 |

Why the bounds are enough. Two actuators, one guarded, are the smallest host on which the
script restores one entry and drops another, and three verbs the smallest set in which two
share an actuator. Of the fan's four curves under a lift one reads as it was issued, one
does not, and the third reading, 84.3 %, is that of the user's other curve, so that every
comparison of the S15 guards comes out right and wrong in both directions; the proofs are
for all curves and lifts. The durations put expiry, gap, grace and recovery horizon in each
order relative to the tick. A queue of one overflows at the second frame; four frames and a
lookahead of one let a frame be stamped, vectored, trimmed and recovered in every order with
a stop in between. Three days of two units contain a day rolled up twice, a day evicted and
a day running. Throttle readings are given only to the violation run of the ledger: episodes
touch neither frames nor marks. Three generations contain a refit of a refit, and a window
of two lets the rebuilt index lose vectors the old one had. In `forecast` a lease outlasts
the horizon or ends within it, a validation is late by up to three units, and three windows
overflow; two lines per file and seven samples rotate every generation out. A streak of
eight contains a spike of each kind and the begin of the next. Two pool threads are enough
for an answer to overtake another, two paths for two drivers to swap numbers, two
descriptors for a number to be reused. Checks every unit and detections two units apart give
a streak that is reset, extended, and left alone by a check that comes too soon. A host one
fact away from four very different ones meets every rule of the plan; hosts two facts away
differ in more facts, not in more rules. Ttls stop counting one below `Floor`, and clocks
stop at `MaxTime`: actions stay possible there, so no run has to switch deadlock checking
off.

Fairness, and why the code justifies it:

- `safety_belt`: weak fairness of the event loop's next step (`Tick`), strong of `Elapse`
  because the short phases disable it again and again although every tick sleeps. Nobody
  has to stop, kill, clean up or restart.
- `shared_state`: the daemon's own steps, strong for `TickEnd`, since finitely many sweeps
  and armings delay it; and `Restart`: systemd has `Restart=on-failure` after a kill, and a
  request made to a daemon that was stopped waits until somebody starts it. Nothing of the
  dashboard.
- `labels`: the backfill pass is started again and again (`WF`), not every update of it
  fails, and not every start-up fails (`SF`). The live pass and the drain worker get no
  fairness: `EveryVectorLabelled` does not depend on them.
- `vector_index`: a step the thread, the drain worker or a start is in the middle of is
  finished, time passes, and the periodic check comes round (`WF`). Nobody has to add, fit, or
  kill.
- `ledger`: `rotate` is started every 600 ticks (`WF`), and no statement of it fails every
  time (`SF`). `CatchesUp` is conditional on the daemon staying up in the end.
  `DriftAnswered` is conditional on the store staying available, every check seeing the
  drift, and checks `MinGap` after the last one coming again and again: with a period below
  the gap, which `daemon.py:428` allows, they need not (section 4).
- `forecast` and `telemetry` check safety only.

## 4 Disagreements found

Each has a run that expects the violation; the property states the quoted text.

| run | what the text says | what the code does |
|---|---|---|
| `shared_state_intent` | `_reload_mode_from_state`: "converges to user intent within one tick" | a request between reload and persist is overwritten and lost |
| `ledger_throttles` | `rollup_days`: aggregates complete days, with a count of throttle events | an episode still open at the first roll-up after midnight is never counted in its day |
| `fan_curve_cede` | `revert`: a live curve that is neither the issued one nor the baseline is the user's edit; `docs/interference-matrix.md` S15 closed; `docs/curve-ownership.md:60`: "goes back to exactly the bytes it had before" | coolstep's own curve, issued in tenths, reads as another after percent and byte; it is ceded to the user and left live |
| `daemon_cedes` | `docs/interference-matrix.md`: `epp_shift` and `ryzenadj_cap` cede to power-profiles-daemon and TLP | the gates ask `caps_if_set()`, which nothing in the daemon has set |

The passing run next to each one shows what does hold: `RequestSettles` admits the
overwritten request as `lost`, `LedgerKeeps` holds of frames, `BiasTakenBack` holds but for
what `misread` is to blame for, `PlanHolds` is about the gates both sides share.

Other disagreements met while modelling. The models contain the behaviour (or leave it
out where said so) but no run is spent on it:

- `core/decision.py:318`: quiet mode still allows `RAMP_COOLING`, "the safety override path"
  — but the quiet lease occupies the actuator and `_should_skip_rearm` refuses the ramp;
  below the 80 °C eject nothing overrides it.
- `docs/coolstep-stack-summary.md:272`: cleanup reverts after a crash — only the fan curve;
  an EPP or ryzenadj entry is dropped from the list and stays on the hardware.
- `docs/curve-ownership.md:60`: "exactly the bytes it had before" — a user's byte between
  two percents comes back as the nearest whole percent (`Near`), faults or none.
- `docs/interference-matrix.md` S15: `_ensure_baseline` "refuses to adopt coolstep's own
  issued curve" — on a curve that reads as another than it was issued it adopts and saves it
  (`Misread`), by the same comparison as in the run above.
- The power actuators re-read a snapshot older than five minutes from their own live bias
  (`epp_shift.py:152`, `ryzenadj_cap.py:238`), and after a restart hold none
  (`epp_shift.py:115`): the revert that follows is journalled as restored, or returns
  without a word, and leaves the bias (`spoilt`).
- `embedder_refit.py:352`: "A SIGKILL in the 2-line window" would leave no live index — a
  write of the drain worker or a label pass between the two renames is enough: it re-creates
  the directory (`hnsw.py:193`), the second rename raises, the refit is lost and the live
  index is empty (`raced`).
- `hnsw.py:114`: the restore is there so that a start does not lose the index — but `copy2`
  is not atomic; killed in mid-copy it leaves an index.bin that no later start restores over
  or can load, so that the store stays unavailable until somebody removes the file
  (`CutOff`).
- `daemon.py:424`: the gate fires "after N consecutive drift detections ≥ 1h apart" — the
  period may be set to half an hour, and a check that comes too soon moves the timestamp
  without counting: at that period the streak never passes one.
- `cluster_drift.py:93`: a `list_stable` that raises is read as no drift and resets the
  streak. A refit writes all rows without their `is_stable` flags, so that no drift is seen
  until a backfill script has set them again (`DriftChanges`).
- `docs/calibration-gates.md:177`: start-up promotes old frames of 82 °C and more to HOT —
  but `backfill_labels` runs first and makes them COOL, unless they throttled.
- `core/predictor.py:505`: the overlay bumps the confidence "enough to clear typical
  min_arm_confidence=0.5" — with unlabelled neighbours it bumps 0 to 0.2, and no
  `RAMP_COOLING` comes.
- `core/predictor_meta.py:98`: confidence is base times certainty — the odds are multiplied.
  The conservative mode's floor 0.45 is below the 0.5 that arms anything.
- `daemon.py:1477` and `1527` call `self.embedder.fitted()`, but `fitted` is a property: the
  exception is caught, and incidents never carry an embedding.
- `adapters/storage/hnsw.py:16` announces a periodic flush; nothing calls `persist()`.
  `VectorIndex` has vectors in memory only, lost by `Kill`.
- `_embedder_stats_locked` is not set by an accepted refit of a process that began without
  statistics: the next `FitOnRing` replaces those of the refit (`torn`).
- `core/hot_state.py`: a kill between creating the file and filling it leaves it empty;
  `mmap` then raises `ValueError`, which neither caller expects, at every later start
  (`Setup`, `ended`).
- `linux_sysfs.py:112` "single-threaded per-tick": a sample that outlives its tick shares
  the descriptors with the next one, and after a rebuild a number may be another sensor's.
  `SensorsOwn` is about samples that do not overlap.
- After a driver reload a path may be another sensor's; its values come under the old label
  until the device map is rebuilt, up to `PATH_CACHE_TTL_S` (60 s) later (`astray`).
- `server.py:639`: the lock lets "one compute per window" run — as long as a computation
  takes less than the cache time: calibration is stamped with the time the computation
  began, and one that takes 30 s is stale when it is there. The warm-up of adapters and
  discoveries (`server.py:327`) takes no lock and stamps discoveries at its end, so that a
  body older than its time is served as fresh (`EndpointsSound` allows the longest
  computation).
- A BMC's last answer, and the last counts of a `perf` that died, are served without an age.
- `install_plan.py:612` suggests `COOLSTEP_ACTUATOR_ENABLE=false` "(dry-run)", but `false`
  keeps the actuators from being loaded. The plan announces `ryzenadj_cap` and `ipmi` by
  binary and `redfish` by URL alone (`Unrecorded`); that ryzenadj lacks its sudoers rule is
  left for the plan to say (`ryzenadj_cap.py:335`), which does not.
- `install_plan.py:563` announces `ebpf_sched` when bcc is there, and recommends bcc; the
  collector runs nothing but bpftrace (`ebpf_sched.py:82`), which the capabilities record
  (`Contradicted`).
- To desktops without a platform profile the plan recommends `ipmitool`, which makes the
  next plan take them for servers (`caps.py:162`; the exception in `AdviceSettles`).

## 5 Proofs

The proofs hold for every value of the constants allowed by the module's named
assumption; TLC evaluates those assumptions on its instances. Each property is
proved from an inductive strengthening, named below and defined at the head of the module.

**SafetyBeltProofs** (from `BeltAssumption`) — `TypeCorrect`, and

- `QuietEjected` (`NoQuietWhenHot`) from `QuietInv`: between the sweep and the end of the
  eject a hot chip's quiet leases are exactly on the eject's list, and a hot tick wants no
  quiet verb. Without the first part the step that empties the list could not conclude.
- `LeaseEnds` (`LeaseEndsInTime`) from `LeaseInv`: a lease not on the sweep's list is at
  most grace plus lag late, one on the list at most one `MaxLag` more. The invariant itself
  only has the sum, which is not inductive: it forgets who is still on the list.
- `NoBiasLost` (`NoUnexplainedBias`) from `ListInv`: outside a persist, and unless the last
  write failed, whatever is armed is on file; start-up's and shutdown's loops hold all
  entries they must. This is what turns "armed" before a kill into "on file" after. A
  snapshot of a bias is of an actuator in `spoilt`, and an actuator without guard that is
  biased without a snapshot is excused or spoilt: that is why a successful revert explains
  the bias it leaves.
- `BeltHonoursLeases` (`LeasesHonoured`, the refinement of `LeasedHardware`) from `KeepInv`:
  with `LeaseInv`, that entries are leases of their actuator within their term (`Termed`),
  that a running daemon's file has its leases as they are or lists none (`OnFile`), that
  what a loop is to revert is held (`Looping`), and that no snapshot is of a bias unless one
  is in force, so that a revert makes none (`Snapped`). The kill maps to `Die` because of
  `OnFile`: what the start will read is what was held. Initial states map to initial states;
  each step of the belt has a step of `LeasedHardware` or a stutter.

**LedgerProofs** (from `LedgerAssumption`) — `TypeCorrect`, and `OnlyCountedEvicted`
(`EvictsOnlyCounted`), `LedgerPermanent` (`LedgerKeeps`) from `LedgerInv`: `InOrder` (a
running roll-up goes over complete days after the mark), `KeptInv` (days up to the mark,
and those the pass is through with, are counted) and `Recoverable` (a row of a day that
may be rolled up again counts only frames that are still in the table, so replacing it
loses nothing). `LedgerKeeps` excepts days in `cut`: if the mark fails after the row was
written, the same pass still evicts, and the next one replaces the row by what is left.

**LabelsProofs** (from `LabelsAssumption`) — `TypeCorrect`, which includes the queue's
bound, and `HotLabelsTrue` (`HotIsTrue`) from `HotInv`: the open episode, stored events,
and the HOT sets decided by either pass rest on readings that reached the threshold, and
readings of frames to come are 0, so that a tick adds evidence and takes none away. The
label alone is not inductive: a pass writes what it decided before.
`TrimmedSettled` (`TrimsOnlySettled`) follows from `TrimInv`: the window has no gap since its
oldest frame, so that the readings a pass sees are all there are (`Gapless`); a queued
frame has no vector yet, so that a drain never resets a label already given (`Waiting`);
and a frame whose lookahead was over when the running pass began has the right label, or
will when the pass writes what it decided (`Settled`).

**SharedStateProofs** (from `ModeAssumption`) — `TypeCorrect`; `Mirrored`
(`MirroredBetweenTicks`) from `MirrorInv`: while the daemon writes and nobody else has, the
file is still the truncated one, so what lands is what was written; and nothing is armed
when the daemon dies or stops. `ModeSettled` (`SettledModeStays`) from `ModeInv`: as long
as no request was overwritten, a readable file names the last one and so does a daemon
that has read it. Neither half is inductive alone: a reload takes the mode from the file,
a persist the file from the mode.

**VectorIndexProofs** (from `VectorIndexAssumption`) — `TypeCorrect`; the refinement
`AtomicallySwapped` (`AtomicSwap`) and `StatsMatch` (`StatsFitIndex`) from `IndexInv`: no
directory is of a generation ahead of `gens` (`Bounded`), only a running daemon refits and
only a start restores (`Alive`), what a restore has still to copy is what the live directory
lacks (`Restoring`), each step of the refit knows what its predecessors left
of the three directories (`Refitting`), and outside the renames a running daemon needs no
backup (`Settled`), which is why dropping it first loses nothing. The initial states map to
initial states; the second rename maps to `Swap`, an `AddOpen` that takes the live
directory over to `Race`, a drop after that to `Lose`, the start after it to `Mend`, a kill in
the middle of a copy, once index.bin exists, to `Cut`, every other step to a stutter.

**FanCurveProofs** (from `CurveAssumption`, which asks for nothing but the scales) —
`TypeCorrect`, and, from `CurveInv`, `UserCurveReturns` (`BiasTakenBack`), `CleanupCanRestore`
(`CrashCanRestore`) and `SnapshotIsUsers` (`AdoptsOnlyUserCurve`), for all curves and lifts.
`Owned` is the part that had to be found: with nothing to blame, a snapshot is the
reading of the user's curve and on file, and what is live is the user's curve, the whole
percent nearest to it or, under a bias, the one issued last; an edited curve is still
live and not taken for ours. Beside it stands the arithmetic of the scales (`NearSettles`): a
curve that went through one snapshot and restore goes through all others unchanged.

**ForecastProofs** (from `ForecastAssumption`) — `TypeCorrect`, `BasisBounded`
(`StaleBound`) and `SamplesFlagged` (`FlaggedWhenControlled`) from `LoopInv` (`LoopHolds`).
`Aging` follows the features in the cache through fresh, stale, asked and failed: neither
the cached value's age nor the features' age bounds the other alone. `Fifo` orders the
waiting predictions, so that pruning windows by the one being validated spares those of the
later ones; `Watched` says that an armed lease in its term has its window and a touched
prediction one that ends after it. That a dropped window (`MaxWindows`) was the oldest and
is not needed any more follows from both. The other machines of that run are here as well:

- `RespondsWell` (`RespondsSoundly`, from `ResponseAssumption`: scenes are windows of integers,
  votes and banks of the ranges the code gives them). No state is needed but the scene; the
  work is in the operators. That a sum over the window is the one fold computes is shown by
  taking a smallest set where they differ (`FoldsAgree`), since induction is out of reach.
  Each of the nine curve policies is proved to give no less fan for more heat, then their
  composition (`PipelineRises`).
- `LogKeepsNewest` (`KeepsNewest`), `BankLearnsInOrder` (`LearnsInOrder`) and `LogWellTyped`, from
  `ResidualInv` (under `ResidualAssumption`): an archive is full and ends with a whole line,
  the files hold the last of what was written, and all of it or at least what a rotation
  leaves (`Shaped`); the bank rises, has nothing controlled and whatever can be read. A
  rotation cut after each of its operations is a case of `Shaped`, which the
  properties alone do not tell apart.
- `StreamsFollow` (`StreamsAsDefined`) from `SpikeInv`, the counters are the lengths of the
  streaks the stream ends with, and every closed spike is one by the definition of the
  whole stream; and from `SegmenterInv`, the window holds the last frames of the session.
  `SpikeAssumption` has the thresholds of at least one that the detector's constructor
  insists on. `SegmenterAssumption` has a window of at least two frames: the daemon only
  builds the default (30), and with one frame a window is a plateau by itself and the
  property is false.
- `FedWellTyped` (`WellTyped` of `MCForecast`), and `ForecastSound`: the run's own
  specification, the machines one at a time, has all seven properties.

**TelemetryProofs** (from the assumptions of the machines, one invariant each, since they share
no variable) —

- `RecordsWhole` (`ReadsWhole`) from `HotInv`: the counter is odd exactly while a record is
  written and does not go back within a life; as long as it is what the reader saw, no word
  the reader has copied was overwritten.
- `AnswersFresh` (`ServedFresh`) from `PolledInv`: while no sample overtook another, an
  answer and the cache belong to the session the daemon saw last.
- `EndpointsKept` (`EndpointsSound`) from `EndpointInv`: the lock is held by whoever
  computes, and what is kept is stamped no later than the clock and no further from its
  birth than the longest computation, not at all where it was stamped early and the warm-up
  has not come.
- `ReadingsHold` (`ReadingsTrue`) from three: `SysfsInv`, that the open descriptors are
  those of the cache, each for the sensor its path was found for, a gone one or one of a
  path gone astray, and the sample that is out has the list and the descriptor the collector
  has; `StreamedInv`, that a printed count is published, gathered or in the pipe, in the
  order of intervals; `EnergyInv`, that the last counters show the energy of the sample
  before, so that a difference modulo the range is the energy used unless it wrapped past
  itself.

- `PlanIsSound` (`PlanSound`) from `AdviceHolds` and `PlansKept`, under `HostAssumption` (a host
  has each fact of `Options` and no device without its driver), for any hosts, clans and
  packages. `AdviceInv` remembers the host the first plan was made for, which has grown into
  this one by the packages followed since: fewer packages are wanted, more adapters promised
  (`WantsShrink`, `PromisesGrow`), and the facet stays unless ipmitool came. `PlansKept` is a
  comparison of both sides, adapter by adapter (`RunsAnnounced`, `AnnouncedRuns`,
  `FastPathSound`); TLC has the same on the hosts one fact away from four.
- `TelemetryWellTyped` (`WellTyped` of `MCTelemetry`), from one strengthening per machine: times are
  bounded by the clock, counters by what was written, and overlapping sysfs samples keep
  descriptors in the table (`SysfsBounds`; `SysfsInv` says nothing once samples have overlapped).
  The back-off needs `Backoff0 <= BackoffCap`; in the code 30 and 1500.
- `TelemetrySound`: the run's own specification has all of these properties.

Only model-checked: liveness (`ExpiredLeaseSettles`, `RequestSettles`, `EveryVectorLabelled`,
`CatchesUp`, `DriftAnswered`: temporal logic under fairness is out of the prover's reach). Every
invariant, action property and refinement of the passing runs is proved as well, each from its
module's named assumption alone. The violation runs of section 4 have no proofs.

## 6 Not modelled

- The k-NN search, the 26-dimensional embedding, the EWMA filter, the weights' decay in the
  bank, calibration and efficiency reports: numeric code without control state, in
  floating point. What `Response` has of the arithmetic is in integers.
- amdgpu, nvidia_nvml, intel_i915 and arm_thermal keep nothing between samples but paths;
  `Platform` has their discovery. The restart of `ebpf_sched`'s subprocess is left out.
- Merging the layers of the manifest (`compat/manifest.py`); the environment's escape
  hatches (`COOLSTEP_EPP_SHIFT_FORCE` and its like); `make()` of the readonly, notify and
  game-mode actuators.
- The remaining inspect commands, the MCP server, dashboard views without a cache,
  notifications, journals, snapshots: read-only or append-only.
- Threads inside one transaction or one `update_metadata`: each is atomic under its lock.
- Power loss: files hold what was last written, in order.
- `docs/` mention a retention of the `actions` table; nothing writes that table and
  `rotate` does not touch it, so there is nothing to model.

## 7 Plan

1. done — the machines of section 2; proofs for the belt, the state file, the ledger, the
   HOT labels and the vector index with its refinement.
2. done — proofs for the fan curve, the prediction loop, the telemetry and the window of labels.
3. done — an abstract belt and its refinement; proofs for response, log, streams, plan and
   all types.
4. A mode register that `SharedState` implements; the hazards `PROJECT.json` lists without a
   property: the resumed hot episode, the ramp that a quiet lease blocks, and the cleanup
   script's list.
