-------------------------------- MODULE Forecast --------------------------------
(***************************************************************************)
(* The prediction cache of the tick loop and the validation of what was    *)
(* predicted.  A tick takes its frame's timestamp, awaits the collectors,  *)
(* and then runs to its end: it sweeps the lease, uses or refreshes the    *)
(* cached prediction, validates the predictions whose horizon is over,     *)
(* appends its own and perhaps arms the actuator.  The refresh runs in a   *)
(* thread beside the ticks.  A sample that was validated while the         *)
(* actuator held a bias must be flagged, so that the residual bank does    *)
(* not learn coolstep's own action as if it were the machine's nature.     *)
(*                                                                         *)
(* Times are differences from now, so that the state space is finite.      *)
(***************************************************************************)
EXTENDS Integers, Sequences, FiniteSets

CONSTANTS
  Horizon,      \* predictor.horizon_sec
  RefreshEvery, \* _predict_refresh_sec
  Durations,    \* expires_at - now of an action
  Grace,        \* TTL_GRACE_SEC
  RearmGap,     \* REARM_GAP_SEC
  Recover,      \* 60 s, from which an unexpired lease is kept at start-up
  Cutoff,       \* 2 * LOOKAHEAD_SEC
  MaxWindows,   \* maxlen of _intervention_windows
  MaxGap,       \* BOUND: units from one tick to the next
  MaxLag,       \* BOUND: units in which the collectors answer
  MaxLatency,   \* BOUND: units in which a query answers or fails
  MaxFails,     \* BOUND: failed refreshes in a row
  MaxWait       \* BOUND: age from which a prediction meets a reading

ASSUME ForecastAssumption ==
  /\ Horizon \in Nat \ {0} /\ RefreshEvery \in Nat
  /\ Durations \subseteq Nat \ {0} /\ \E d \in Durations : \A e \in Durations : e <= d
  /\ Grace \in Nat /\ RearmGap \in Nat /\ Recover \in Nat /\ Cutoff \in Nat
  /\ MaxWindows \in Nat \ {0}
  /\ MaxGap \in Nat \ {0} /\ MaxLatency \in Nat /\ MaxLag \in 0 .. MaxLatency
  /\ MaxFails \in Nat /\ MaxWait \in Nat

Longest == CHOOSE d \in Durations : \A e \in Durations : e <= d

\* The longest a prediction waits, and the longest its features have aged.
MaxAge   == Horizon + MaxWait + MaxGap + 2 * MaxLag
MaxBasis == RefreshEvery + (MaxFails + 2) * (MaxLatency + MaxGap)

VARIABLES
  up,       \* the daemon runs
  phase,    \* idle, or sampling: between the timestamp and the answers
  frame,    \* time since the frame's timestamp
  gap,      \* time since the last tick began
  lease,    \* the armed action: time to the end of its window, and since it
            \* was applied; NoLease if there is none
  windows,  \* _intervention_windows
  pending,  \* _pending_predictions
  cache,    \* _cached_prediction: time since its _ts, time since its features
            \* were taken (history), whether it has an expected temperature
  inflight, \* _predict_task_inflight
  task,     \* age of the features the refresh task works on, or NoTask
  validated,\* the samples the last tick validated
  fails     \* history: refreshes failed since the last that succeeded

vars == <<up, phase, frame, gap, lease, windows, pending, cache, inflight, task,
          validated, fails>>

NoLease == [left |-> -(MaxAge + Cutoff + 1), since |-> 0]
NoCache == [age |-> -1, basis |-> -1, useful |-> FALSE]
NoTask  == -1

CapAt(n, cap) == IF n > cap THEN cap ELSE n

\* How far back the start and the end of a window matter.
Since == 0 .. MaxLag
Left  == -(MaxAge + Cutoff + 1) .. Longest + Grace

Window  == [left : Left, since : Since]
Pending == [age : 0 .. MaxAge, touched : BOOLEAN]
Sample  == [touched : BOOLEAN, intervened : BOOLEAN]

TypeOK ==
  /\ up \in BOOLEAN /\ phase \in {"idle", "sampling"}
  /\ frame \in 0 .. MaxLag /\ gap \in 0 .. MaxGap + MaxLag
  /\ lease \in Window
  /\ windows \in Seq(Window) /\ Len(windows) <= MaxWindows
  /\ pending \in Seq(Pending)
  /\ Len(pending) <= MaxAge + 1
  /\ cache \in [age : -1 .. RefreshEvery + 1, basis : -1 .. MaxBasis + 1,
                useful : BOOLEAN]
  /\ inflight \in BOOLEAN /\ task \in -1 .. MaxLatency
  /\ validated \subseteq Sample /\ fails \in 0 .. MaxFails

Init ==
  /\ up = TRUE /\ phase = "idle" /\ frame = 0 /\ gap = MaxGap
  /\ lease = NoLease /\ windows = <<>> /\ pending = <<>> /\ cache = NoCache
  /\ inflight = FALSE /\ task = NoTask /\ validated = {} /\ fails = 0

-----------------------------------------------------------------------------
(* Time.                                                                   *)

Armed == lease # NoLease

\* A unit passes.  A prediction is touched by it when the bias holds from the
\* unit's begin to its end; what is left of a bias after its grace, until the
\* sweep gets to it, is not counted.
Elapse ==
  /\ up => /\ gap < MaxGap + MaxLag
           /\ phase = "idle" => gap < MaxGap
           /\ phase = "sampling" => frame < MaxLag
           /\ task < MaxLatency
  /\ gap' = IF up THEN gap + 1 ELSE gap
  /\ frame' = IF phase = "sampling" THEN frame + 1 ELSE frame
  /\ lease' = IF Armed
              THEN [left  |-> IF lease.left < -MaxLag THEN lease.left ELSE lease.left - 1,
                    since |-> CapAt(lease.since + 1, MaxLag)]
              ELSE lease
  /\ windows' = [i \in DOMAIN windows |->
                   [left  |-> IF windows[i].left = -(MaxAge + Cutoff + 1)
                              THEN windows[i].left ELSE windows[i].left - 1,
                    since |-> CapAt(windows[i].since + 1, MaxLag)]]
  /\ pending' = [i \in DOMAIN pending |->
                   [age |-> CapAt(pending[i].age + 1, MaxAge),
                    touched |-> pending[i].touched \/ (Armed /\ lease.left >= 1)]]
  /\ cache' = IF cache = NoCache THEN cache
              ELSE [cache EXCEPT !.age = CapAt(@ + 1, RefreshEvery + 1),
                                 !.basis = CapAt(@ + 1, MaxBasis + 1)]
  /\ task' = IF task = NoTask THEN task ELSE task + 1
  /\ UNCHANGED <<up, phase, inflight, validated, fails>>

-----------------------------------------------------------------------------
(* The refresh thread.                                                     *)

\* The cache is as old as the answer, its features as old as the question.
RefreshDone ==
  \E useful \in BOOLEAN :
    /\ up /\ task # NoTask
    /\ cache' = [age |-> 0, basis |-> task, useful |-> useful]
    /\ inflight' = FALSE /\ task' = NoTask /\ fails' = 0
    /\ UNCHANGED <<up, phase, frame, gap, lease, windows, pending, validated>>

\* The flag is not cleared when the query raises.
RefreshFailsPinnedMutant ==
  /\ up /\ task # NoTask /\ fails < MaxFails
  /\ task' = NoTask /\ fails' = fails + 1
  /\ UNCHANGED <<up, phase, frame, gap, lease, windows, pending, cache, inflight,
                 validated>>

RefreshFails ==
  /\ up /\ task # NoTask /\ fails < MaxFails
  /\ inflight' = FALSE /\ task' = NoTask /\ fails' = fails + 1
  /\ UNCHANGED <<up, phase, frame, gap, lease, windows, pending, cache, validated>>

-----------------------------------------------------------------------------
(* The tick.                                                               *)

\* BOUND: at most one tick in a unit.
TickBegin ==
  /\ up /\ phase = "idle" /\ gap > 0
  /\ phase' = "sampling" /\ frame' = 0 /\ gap' = 0 /\ validated' = {}
  /\ UNCHANGED <<up, lease, windows, pending, cache, inflight, task, fails>>

\* _sweep_expired_armed; a failing revert is dropped all the same.
Swept(l) == IF l # NoLease /\ l.left < 0 THEN NoLease ELSE l

\* Windows are dropped from the left only, up to the first that ended late
\* enough.
Pruned(ws, p) ==
  LET live == {i \in DOMAIN ws : ws[i].left >= -(p.age + Cutoff)}
  IN  IF live = {} THEN <<>>
      ELSE SubSeq(ws, CHOOSE i \in live : \A j \in live : i <= j, Len(ws))

\* _interventions_overlapping, over [predicted_at, the frame's timestamp].
Intervened(p) ==
  \E i \in DOMAIN Pruned(windows, p) :
    LET w == Pruned(windows, p)[i] IN w.since >= frame /\ w.left >= -p.age

\* The head of the FIFO whose horizon is over.
Ripe == {i \in DOMAIN pending : pending[i].age - frame >= Horizon}

SampleOf(p) == [touched |-> p.touched, intervened |-> Intervened(p)]

\* _validate_pending_predictions: which are validated; it returns at once
\* without a reading.
Validate(reading) == IF reading THEN Ripe ELSE {}

\* Each of them prunes the windows, the youngest last.
WindowsAfter(checked) ==
  IF checked = {} THEN windows
  ELSE Pruned(windows, pending[Cardinality(checked)])

\* Cold, the tick waits for the query (which takes no unit here); warm, it
\* starts the refresh and goes on with what it has; otherwise it reuses that.
Predict(useful) ==
  \/ /\ cache = NoCache
     /\ cache' = [age |-> 0, basis |-> frame, useful |-> useful]
     /\ UNCHANGED <<inflight, task>>
  \/ /\ cache # NoCache /\ cache.age > RefreshEvery /\ ~inflight
     /\ inflight' = TRUE /\ task' = frame
     /\ UNCHANGED cache
  \/ /\ cache # NoCache /\ (cache.age <= RefreshEvery \/ inflight)
     /\ UNCHANGED <<cache, inflight, task>>

\* Stamped with this tick's frame, however old the cached prediction is.
Push(useful) ==
  LET fresh == [age |-> frame,
                touched |-> Armed /\ frame > 0 /\ lease.left + frame >= 1]
  IN  IF useful THEN <<fresh>> ELSE <<>>

\* _should_skip_rearm
SkipRearm(l) == l # NoLease /\ l.left - Grace > RearmGap

\* The deque has no length.
RecordedUnboundedMutant(ws, l) == Append(ws, l)

\* A window is recorded for a lease that was kept, only the newest
\* MaxWindows of them.
Recorded(ws, l) ==
  LET all == Append(ws, l)
  IN  IF Len(all) > MaxWindows THEN Tail(all) ELSE all

\* The rest of a tick, from the collectors' answers to its end.
TickEnd ==
  \E reading, useful, eject \in BOOLEAN, d \in Durations \cup {0} :
    LET kept == IF eject THEN NoLease ELSE Swept(lease) IN
    /\ up /\ phase = "sampling"
    /\ reading \/ \A i \in DOMAIN pending : pending[i].age < MaxWait
    /\ Predict(useful)
    /\ LET checked == Validate(reading)
           left    == SubSeq(pending, Cardinality(checked) + 1, Len(pending))
       IN  /\ validated' = {SampleOf(pending[i]) : i \in checked}
           /\ pending' = left \o Push(cache'.useful)
           /\ LET ws == WindowsAfter(checked) IN
              IF d = 0 \/ SkipRearm(kept)
              THEN lease' = kept /\ windows' = ws
              ELSE /\ lease' = [left |-> d + Grace, since |-> 0]
                   /\ windows' = Recorded(ws, lease')
    /\ phase' = "idle" /\ frame' = 0
    /\ UNCHANGED <<up, gap, fails>>

-----------------------------------------------------------------------------
(* The end of a life and the next.                                         *)

Forget ==
  /\ up' = FALSE /\ phase' = "idle" /\ frame' = 0 /\ gap' = MaxGap
  /\ windows' = <<>> /\ pending' = <<>> /\ cache' = NoCache
  /\ inflight' = FALSE /\ task' = NoTask /\ validated' = {} /\ fails' = 0

\* A first query that raises ends the loop like a stop does.
Stop ==
  /\ up /\ Forget
  /\ lease' = NoLease

Kill ==
  /\ up /\ Forget
  /\ UNCHANGED lease

\* The windows of recovered leases are not recorded.
RestartUnrecordedMutant ==
  /\ ~up /\ up' = TRUE
  /\ lease' = IF Armed /\ lease.left - Grace >= Recover THEN lease ELSE NoLease
  /\ UNCHANGED <<phase, frame, gap, windows, pending, cache, inflight, task,
                 validated, fails>>

\* _recover_armed_actions: a lease that still has time is kept, with its
\* window, any other is reverted.
Restart ==
  /\ ~up /\ up' = TRUE
  /\ lease' = IF Armed /\ lease.left - Grace >= Recover THEN lease ELSE NoLease
  /\ windows' = IF lease' = NoLease THEN <<>> ELSE <<lease'>>
  /\ UNCHANGED <<phase, frame, gap, pending, cache, inflight, task, validated,
                 fails>>

Next ==
  \/ Elapse \/ RefreshDone \/ RefreshFails
  \/ TickBegin \/ TickEnd
  \/ Stop \/ Kill \/ Restart

Spec == Init /\ [][Next]_vars

-----------------------------------------------------------------------------
(* Properties.                                                             *)

\* A sample is flagged as intervened when a lease of the daemon was in its
\* term, grace included, at a time within its horizon (ADR-025: such samples
\* must not train the bank), whether it was renewed, ejected early, recovered
\* at start-up or swept late, and however late the sample was validated.
FlaggedWhenControlled ==
  \A s \in validated : s.touched => s.intervened

\* What the decision is based on is never older than a refresh period, the
\* latency of the question that answered it and of the one now asked, and
\* the way to the next tick, plus one latency and one gap for each refresh
\* that failed: a failed refresh is retried at the next tick.
Bound(n) ==
  RefreshEvery + (n + 2) * MaxLatency + (n + 1) * MaxGap

StaleBound == cache.basis <= Bound(fails)
================================================================================
