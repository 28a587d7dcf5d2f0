------------------------------ MODULE SafetyBelt ------------------------------
(***************************************************************************)
(* The hardware-safety belt of the coolstep daemon: every actuator write   *)
(* is a lease that the tick loop sweeps, ejects, renews and mirrors to     *)
(* runtime-state.json, so that a bias never outlives the action that asked *)
(* for it -- across refused renewals, failed writes, kills between any two *)
(* steps, the ExecStopPost cleanup script and the recovery at start-up.    *)
(*                                                                         *)
(* Clock readings are kept as differences: the ttl of a lease is           *)
(* expires_at - now, and Elapse lowers every ttl by one unit.              *)
(***************************************************************************)
EXTENDS Integers

CONSTANTS
  Actuator,     \* hardware actuators the daemon discovered
  Guarded,      \* those with the S15 own-curve guard and an entry in cleanup.sh
  Verb,         \* verbs of decide() that some actuator serves
  NoVerb,       \* the verb of an empty slot
  Quiet,        \* REDUCE_NOISE
  Ramp,         \* RAMP_COOLING
  Serves,       \* Serves[v]: first non-audit actuator whose supports(v) holds
  Rank,         \* Rank[v]: position of v in the list decide() returns
  Duration,     \* Duration[v]: expires_at - now when decide() emits v
  Grace,        \* TTL_GRACE_SEC
  Gap,          \* REARM_GAP_SEC
  Recover,      \* the 60 s horizon of _recover_armed_actions
  MaxLag        \* BOUND: time that may pass between the starts of two sweeps

ASSUME BeltAssumption ==
  /\ Guarded \subseteq Actuator
  /\ NoVerb \notin Verb
  /\ Quiet \in Verb /\ Ramp \in Verb /\ Quiet # Ramp
  /\ Serves \in [Verb -> Actuator]
  /\ Rank \in [Verb -> Nat]
  /\ Duration \in [Verb -> Nat]
  /\ Grace \in Nat /\ Gap \in Nat /\ Recover \in Nat /\ MaxLag \in Nat

VARIABLES
  phase,    \* where the daemon is in its tick, in start-up, in shutdown, or dead
  after,    \* the phase that follows a persist
  due,      \* actuators the current revert loop has still to revert
  wanted,   \* verbs of this tick not yet routed
  doing,    \* the apply() in progress: its verb, and whether it reports an error
  temp,     \* this tick's reading: calm (< 75), warm, hot (>= 80, or no reading)
  armed,    \* _armed_actions
  disk,     \* armed_actions of runtime-state.json; a truncated file lists none
  ioError,  \* the last persist left the file truncated
  hw,       \* what each actuator's hardware holds
  base,     \* the actuator object's baseline snapshot
  lag,      \* time since the last sweep started
  excused,  \* history: actuators whose bias a logged fault left behind
  spoilt    \* history: actuators whose snapshot of the user's setting is gone

vars == <<phase, after, due, wanted, doing, temp, armed, disk, ioError,
          hw, base, lag, excused, spoilt>>

NoLease == [verb |-> NoVerb, ttl |-> 0]
Idle    == [verb |-> NoVerb, error |-> FALSE]
Nothing == [a \in Actuator |-> NoLease]

On(f, a) == f[a].verb # NoVerb
Running  == phase \notin {"dead", "cleaned"}

\* Lowest ttl an armed lease can show: its sweep starts at most MaxLag after the
\* lease passed the grace period, and the revert loop takes at most MaxLag more.
Floor == -(Grace + 2 * MaxLag)

Phase == {"sample", "sweep", "eject", "route", "apply", "persist",
          "recover", "shutdown", "dead", "cleaned"}
Lease == [verb : Verb \cup {NoVerb}, ttl : Int]

TypeOK ==
  /\ phase \in Phase /\ after \in {"sample", "route", "dead"}
  /\ due \subseteq Actuator /\ wanted \subseteq Verb
  /\ doing \in [verb : Verb \cup {NoVerb}, error : BOOLEAN]
  /\ phase = "apply" => doing.verb \in Verb
  /\ temp \in {"calm", "warm", "hot"}
  /\ armed \in [Actuator -> Lease] /\ disk \in [Actuator -> Lease]
  /\ ioError \in BOOLEAN
  /\ hw \in [Actuator -> {"user", "bias"}]
  /\ base \in [Actuator -> {"none", "user", "bias"}]
  /\ lag \in 0 .. MaxLag
  /\ excused \subseteq Actuator /\ spoilt \subseteq Actuator

Init ==
  /\ phase = "sample" /\ after = "sample"
  /\ due = {} /\ wanted = {} /\ doing = Idle /\ temp = "calm"
  /\ armed = Nothing /\ disk = Nothing /\ ioError = FALSE
  /\ hw = [a \in Actuator |-> "user"]
  /\ base = [a \in Actuator |-> "none"]
  /\ lag = 0 /\ excused = {} /\ spoilt = {}

-----------------------------------------------------------------------------
(* The actuators, as far as the belt can tell their values apart.          *)

\* Mutant: the fan actuator re-reads a stale snapshot as the power actuators do.
SnapshotUnguardedMutant(a, stale, own) ==
  IF base[a] # "none" /\ ~stale THEN base[a] ELSE hw[a]

\* _ensure_baseline: keep a snapshot that is not stale; the fan actuator keeps a
\* stale one when it recognises the live curve as its own; otherwise read the hardware.
\* Ages are not counted: any snapshot may have passed _baseline_ttl_s.
Snapshot(a, stale, own) ==
  IF base[a] # "none" /\ (~stale \/ (a \in Guarded /\ own /\ hw[a] = "bias"))
  THEN base[a] ELSE hw[a]

\* _ensure_baseline takes the actuator's own bias for the user's setting, for one of the
\* reasons there are: no snapshot (a renewal after a restart, a cession or an old fault),
\* no guard (the power actuators), or a curve that reads as another than it was issued.
Taken(a, stale, own) ==
  hw[a] = "bias" /\ (base[a] = "none" \/ (stale /\ ~(a \in Guarded /\ own)))

\* What a revert() that raises nothing leaves on the hardware: the baseline; with
\* no baseline the fan actuator resets to --default and the power actuators return.
Restored(a) ==
  IF base[a] # "none" THEN base[a]
  ELSE IF a \in Guarded THEN "user" ELSE hw[a]

-----------------------------------------------------------------------------
(* runtime-state.json.  write_text truncates the file, then fills it.      *)

Truncate(next) == phase' = "persist" /\ after' = next /\ disk' = Nothing

\* The rest of _persist_runtime_state; an OSError is logged and swallowed.
PersistEnd ==
  /\ phase = "persist"
  /\ \E ok \in BOOLEAN :
       /\ disk' = IF ok THEN armed ELSE disk
       /\ ioError' = ~ok
  /\ phase' = after /\ after' = "sample"
  /\ base' = IF after = "dead" THEN [a \in Actuator |-> "none"] ELSE base
  /\ UNCHANGED <<due, wanted, doing, temp, armed, hw, lag, excused, spoilt>>

-----------------------------------------------------------------------------
(* One tick: sample, sweep, eject, decide, route and apply, persist.       *)

\* Mutant: the sweep waits for the re-arm gap on top of the grace period.
SampleLateMutant ==
  /\ phase = "sample"
  /\ temp' \in {"calm", "warm", "hot"}
  /\ phase' = "sweep"
  /\ due' = {a \in Actuator : On(armed, a) /\ armed[a].ttl < -(Grace + Gap)}
  /\ lag' = 0
  /\ UNCHANGED <<after, wanted, doing, armed, disk, ioError, hw, base,
                 excused, spoilt>>

\* Collectors answer; _sweep_expired_armed lists the leases past their grace.
Sample ==
  /\ phase = "sample"
  /\ temp' \in {"calm", "warm", "hot"}
  /\ phase' = "sweep"
  /\ due' = {a \in Actuator : On(armed, a) /\ armed[a].ttl < -Grace}
  /\ lag' = 0
  /\ UNCHANGED <<after, wanted, doing, armed, disk, ioError, hw, base,
                 excused, spoilt>>

\* What revert() does to actuator a.  It "failed" when it raised, swallowed a failed
\* command or the actuator is no longer discovered; it "ceded" when the fan actuator
\* took the live curve for an edit of the user's, and dropped its snapshot.
Reverted(a, end) ==
  /\ end = "ceded" => a \in Guarded
  /\ LET now == IF end = "done" THEN Restored(a) ELSE hw[a] IN
     /\ hw' = [hw EXCEPT ![a] = now]
     /\ excused' = IF now = "user" THEN excused \ {a}
                   ELSE IF end # "done" THEN excused \cup {a} ELSE excused
     /\ spoilt' = IF now = "user" THEN spoilt \ {a} ELSE spoilt
  /\ base' = IF end = "ceded" THEN [base EXCEPT ![a] = "none"] ELSE base

\* Mutant: an entry whose revert failed stays armed.
RevertOneKeepsMutant(a) ==
  /\ phase \in {"sweep", "eject", "shutdown", "recover"}
  /\ a \in due
  /\ \E end \in {"done", "failed", "ceded"} :
       /\ Reverted(a, end)
       /\ armed' = IF end = "failed" THEN armed ELSE [armed EXCEPT ![a] = NoLease]
  /\ due' = due \ {a}
  /\ UNCHANGED <<phase, after, wanted, doing, temp, disk, ioError, lag>>

\* One round of a revert loop (sweep, eject, shutdown or recovery): revert, then
\* drop the entry whether or not the revert worked.
RevertOne(a) ==
  /\ phase \in {"sweep", "eject", "shutdown", "recover"}
  /\ a \in due
  /\ \E end \in {"done", "failed", "ceded"} : Reverted(a, end)
  /\ due' = due \ {a}
  /\ armed' = [armed EXCEPT ![a] = NoLease]
  /\ UNCHANGED <<phase, after, wanted, doing, temp, disk, ioError, lag>>

\* _quiet_safety_eject lists the quiet leases when the chip is hot or unreadable.
StartEject ==
  /\ phase = "sweep" /\ due = {}
  /\ phase' = "eject"
  /\ due' = {a \in Actuator : armed[a].verb = Quiet /\ temp = "hot"}
  /\ UNCHANGED <<after, wanted, doing, temp, armed, disk, ioError, hw,
                 base, lag, excused, spoilt>>

\* Mutant: REDUCE_NOISE without the live-temperature gate.
DecideUngatedMutant ==
  /\ phase = "eject" /\ due = {}
  /\ wanted' \in SUBSET Verb
  /\ Quiet \in wanted' => Ramp \notin wanted'
  /\ phase' = "route"
  /\ UNCHANGED <<after, due, doing, temp, armed, disk, ioError, hw, base,
                 lag, excused, spoilt>>

\* decide(): any verbs the gates let through together.  REDUCE_NOISE needs a
\* calm chip and a low throttle probability, RAMP_COOLING a high one.
Decide ==
  /\ phase = "eject" /\ due = {}
  /\ wanted' \in SUBSET Verb
  /\ Quiet \in wanted' => temp = "calm" /\ Ramp \notin wanted'
  /\ phase' = "route"
  /\ UNCHANGED <<after, due, doing, temp, armed, disk, ioError, hw, base,
                 lag, excused, spoilt>>

\* v is the next action of the list decide() returned.
Turn(v) == phase = "route" /\ v \in wanted /\ \A w \in wanted : Rank[v] <= Rank[w]

\* _should_skip_rearm: the armed lease still has more than the gap to run.
RearmTooSoon(a) == On(armed, a) /\ armed[a].ttl > Gap

\* _do_apply, refused by the re-arm guard.
SkipRearm(v) ==
  /\ Turn(v) /\ RearmTooSoon(Serves[v])
  /\ wanted' = wanted \ {v}
  /\ UNCHANGED <<phase, after, due, doing, temp, armed, disk, ioError, hw, base,
                 lag, excused, spoilt>>

\* Mutant: the result of apply() is dropped.
ApplyNoResultMutant(v) ==
  LET a == Serves[v] IN
  /\ Turn(v) /\ ~RearmTooSoon(a)
  /\ \E stale, own \in BOOLEAN :
       /\ base' = [base EXCEPT ![a] = Snapshot(a, stale, own)]
       /\ spoilt' = IF Taken(a, stale, own) THEN spoilt \cup {a} ELSE spoilt
  /\ \E touch \in BOOLEAN : hw' = [hw EXCEPT ![a] = IF touch THEN "bias" ELSE @]
  /\ phase' = "apply"
  /\ wanted' = wanted \ {v}
  /\ UNCHANGED <<after, due, doing, temp, armed, disk, ioError, lag,
                 excused>>

\* actuator.apply(): snapshot the baseline, then write.  It may leave the
\* hardware alone (dry run, same curve) or touch it, and report an error either
\* way (partial EPP write, a command that took effect and timed out).
Apply(v) ==
  LET a == Serves[v] IN
  /\ Turn(v) /\ ~RearmTooSoon(a)
  /\ \E stale, own \in BOOLEAN :
       /\ base' = [base EXCEPT ![a] = Snapshot(a, stale, own)]
       /\ spoilt' = IF Taken(a, stale, own) THEN spoilt \cup {a} ELSE spoilt
  /\ \E touch, error \in BOOLEAN :
       /\ hw' = [hw EXCEPT ![a] = IF touch THEN "bias" ELSE @]
       /\ doing' = [verb |-> v, error |-> error]
  /\ phase' = "apply"
  /\ wanted' = wanted \ {v}
  /\ UNCHANGED <<after, due, temp, armed, disk, ioError, lag, excused>>

\* Mutant: the lease is armed but the file waits for the end of the tick.
RecordArmedUnsavedMutant ==
  /\ phase = "apply" /\ ~doing.error
  /\ armed' = [armed EXCEPT ![Serves[doing.verb]] =
                 [verb |-> doing.verb, ttl |-> Duration[doing.verb]]]
  /\ phase' = "route"
  /\ doing' = Idle
  /\ UNCHANGED <<after, due, wanted, temp, disk, ioError, hw, base, lag,
                 excused, spoilt>>

\* apply() reported success: arm the lease and persist at once.
RecordArmed ==
  /\ phase = "apply" /\ ~doing.error
  /\ armed' = [armed EXCEPT ![Serves[doing.verb]] =
                 [verb |-> doing.verb, ttl |-> Duration[doing.verb]]]
  /\ Truncate("route")
  /\ doing' = Idle
  /\ UNCHANGED <<due, wanted, temp, ioError, hw, base, lag, excused, spoilt>>

\* apply() reported an error: nothing is armed, whatever the hardware holds.
RecordError ==
  LET a == Serves[doing.verb] IN
  /\ phase = "apply" /\ doing.error
  /\ phase' = "route"
  /\ excused' = IF hw[a] = "bias" /\ ~On(armed, a) THEN excused \cup {a} ELSE excused
  /\ doing' = Idle
  /\ UNCHANGED <<after, due, wanted, temp, armed, disk, ioError, hw, base,
                 lag, spoilt>>

\* End of the tick: persist, then sleep.
TickEnd ==
  /\ phase = "route" /\ wanted = {}
  /\ Truncate("sample")
  /\ temp' = "calm"
  /\ UNCHANGED <<due, wanted, doing, armed, ioError, hw, base, lag, excused, spoilt>>

-----------------------------------------------------------------------------
(* Stop, kill, clean up, restart.                                          *)

\* SIGTERM: the finally block of run() reverts everything armed, then persists.
Stop ==
  /\ phase = "sample"
  /\ phase' = "shutdown"
  /\ due' = {a \in Actuator : On(armed, a)}
  /\ UNCHANGED <<after, wanted, doing, temp, armed, disk, ioError, hw,
                 base, lag, excused, spoilt>>

ShutdownEnd ==
  /\ phase = "shutdown" /\ due = {}
  /\ Truncate("dead")
  /\ UNCHANGED <<due, wanted, doing, temp, armed, ioError, hw, base, lag,
                 excused, spoilt>>

\* Biases the state file does not list if the daemon dies now, through no fault of
\* the order of its steps: the file is truncated, or apply() has not returned.
Unlisted ==
  {a \in Actuator : hw[a] = "bias" /\
     \/ On(armed, a) /\ (phase = "persist" \/ ioError)
     \/ phase = "apply" /\ a = Serves[doing.verb] /\ ~On(armed, a)}

\* SIGKILL or OOM: memory is gone, hardware and file stay as they are.  The snapshots of
\* the power actuators are in memory only.
Kill ==
  /\ Running
  /\ excused' = excused \cup Unlisted
  /\ spoilt' = spoilt \cup {a \in Actuator \ Guarded : hw[a] = "bias"}
  /\ phase' = "dead" /\ after' = "sample"
  /\ due' = {} /\ wanted' = {} /\ doing' = Idle /\ temp' = "calm"
  /\ armed' = Nothing
  /\ base' = [a \in Actuator |-> "none"]
  /\ UNCHANGED <<disk, ioError, hw, lag>>

\* coolstep-cleanup.sh.  With entries on file it puts the fan curve back (from
\* the baseline file, else --default) and empties the list, the entries of the power
\* actuators included.  ok is FALSE when the command fails, which is ignored, or the
\* baseline file holds a bias.  Without asusctl the script exits before.
CleanUp ==
  /\ phase = "dead"
  /\ phase' = "cleaned"
  /\ IF Guarded = {} \/ disk = Nothing
     THEN UNCHANGED <<hw, disk, excused, spoilt>>
     ELSE \E ok \in BOOLEAN :
       LET put == IF ok THEN Guarded ELSE {} IN
       /\ hw' = [a \in Actuator |-> IF a \in put THEN "user" ELSE hw[a]]
       /\ excused' = (excused \ put) \cup
                       {a \in Actuator \ put : hw[a] = "bias" /\ On(disk, a)}
       /\ spoilt' = spoilt \ put
       /\ disk' = Nothing
  /\ UNCHANGED <<after, due, wanted, doing, temp, armed, ioError, base,
                 lag>>

\* Mutant: start-up arms every entry again, for a full term.
RestartRenewsMutant ==
  /\ ~Running
  /\ LET listed == {a \in Actuator : On(disk, a)} IN
     armed' = [a \in Actuator |->
                 IF a \in listed THEN [disk[a] EXCEPT !.ttl = Duration[disk[a].verb]]
                 ELSE NoLease]
  /\ due' = {} /\ phase' = "sample"
  /\ ioError' = FALSE /\ lag' = 0
  /\ UNCHANGED <<after, wanted, doing, temp, disk, hw, base, excused, spoilt>>

\* Start-up, _recover_armed_actions: entries that run for at least Recover more
\* are armed again, the others are reverted by freshly made actuators.
Restart ==
  /\ ~Running
  /\ LET listed  == {a \in Actuator : On(disk, a)}
         rebuilt == {a \in listed : disk[a].ttl >= Recover}
     IN /\ armed' = [a \in Actuator |-> IF a \in rebuilt THEN disk[a] ELSE NoLease]
        /\ due' = listed \ rebuilt
        /\ phase' = IF listed = {} THEN "sample" ELSE "recover"
  /\ ioError' = FALSE /\ lag' = 0
  /\ UNCHANGED <<after, wanted, doing, temp, disk, hw, base, excused, spoilt>>

\* Recovery persists the map it is left with.
RecoverEnd ==
  /\ phase = "recover" /\ due = {}
  /\ Truncate("sample")
  /\ UNCHANGED <<due, wanted, doing, temp, armed, ioError, hw, base, lag,
                 excused, spoilt>>

-----------------------------------------------------------------------------
\* BOUND: a ttl stops counting one below the floor.
Aged(lease) == [lease EXCEPT !.ttl = IF @ >= Floor THEN @ - 1 ELSE @]

\* One unit of time passes where the loop waits: sleep and collectors, revert
\* commands, the predictor.  Routing and persisting take less than a unit.  A dead
\* daemon may stay dead for any time.
Elapse ==
  /\ Running => lag < MaxLag /\ phase \notin {"route", "apply", "persist"}
  /\ armed' = [a \in Actuator |-> IF On(armed, a)
                 THEN Aged(armed[a]) ELSE armed[a]]
  /\ disk' = [a \in Actuator |-> IF On(disk, a) THEN Aged(disk[a]) ELSE disk[a]]
  /\ lag' = IF Running THEN lag + 1 ELSE lag
  /\ UNCHANGED <<phase, after, due, wanted, doing, temp, ioError, hw, base,
                 excused, spoilt>>

Tick ==
  \/ Sample \/ StartEject \/ Decide
  \/ \E v \in Verb : SkipRearm(v) \/ Apply(v)
  \/ RecordArmed \/ RecordError \/ TickEnd \/ PersistEnd
  \/ \E a \in Actuator : RevertOne(a)
  \/ ShutdownEnd \/ RecoverEnd

Next == Tick \/ Elapse \/ Stop \/ Kill \/ CleanUp \/ Restart

Spec == Init /\ [][Next]_vars

\* The event loop runs its next step, and the clock moves although the short phases
\* disable Elapse again and again (every tick sleeps).  Nobody has to stop, kill,
\* clean up or restart.
FairSpec == Spec /\ WF_vars(Tick) /\ SF_vars(Elapse)

-----------------------------------------------------------------------------
(* Properties.                                                             *)

\* Somebody is going to revert a: the running daemon, or start-up after a death.
Responsible(a) ==
  IF Running
  THEN \/ On(armed, a)
       \/ phase = "apply" /\ Serves[doing.verb] = a
       \/ phase = "recover" /\ a \in due
  ELSE On(disk, a)

\* A bias is on the hardware with nobody going to revert it only after one of the
\* faults the code logs and drops, or when the snapshot had been spoilt while the bias was
\* live, so that a revert reported as done put the bias back -- never because of the order
\* of sweep, eject, apply, persist, kill, cleanup and recovery alone, nor by a renewal that
\* the own-curve guard should have seen (_do_apply, run, _ensure_baseline, cleanup.sh).
NoUnexplainedBias ==
  \A a \in Actuator : hw[a] = "bias" /\ ~Responsible(a) => a \in excused \cup spoilt

\* While the daemon runs, no lease is held beyond its expiry, the grace period and
\* the time the loop may take, whatever was renewed, refused or recovered.
LeaseEndsInTime ==
  Running => \A a \in Actuator : On(armed, a) => armed[a].ttl >= Floor

\* Once a tick has read a hot or unreadable chip and run the quiet safety eject, no
\* quiet bias is armed for the rest of that tick.
NoQuietWhenHot ==
  temp = "hot" /\ phase \in {"route", "apply", "persist"}
    => \A a \in Actuator : armed[a].verb # Quiet

\* An expired lease is ended or renewed in the end, whatever reverts fail, as long as
\* the loop and the clock keep going.
ExpiredLeaseSettles ==
  \A a \in Actuator :
    (On(armed, a) /\ armed[a].ttl < 0) ~> (~On(armed, a) \/ armed[a].ttl >= 0)

-----------------------------------------------------------------------------
(* What the belt promises.                                                 *)

\* What answers for the bias of a: the memory of a running daemon, but for the entries
\* recovery has still to revert; the file of a dead one.
Answering ==
  [a \in Actuator |->
     IF Running /\ ~(phase = "recover" /\ a \in due) THEN armed[a] ELSE disk[a]]

Leased == INSTANCE LeasedHardware WITH
            up       <- Running,
            lease    <- Answering,
            biased   <- {a \in Actuator : hw[a] = "bias"},
            asked    <- IF phase = "apply" THEN doing.verb ELSE NoVerb,
            leftover <- IF phase = "recover" THEN due ELSE {},
            safe     <- Running => phase # "persist" /\ ~ioError

\* Sweep, eject, routing, persist, shutdown, cleanup and recovery, with a kill between
\* any two of their steps, amount to leases that are granted, ended in time, and neither
\* forgotten nor prolonged by a death (the "belt" of run() and _recover_armed_actions).
LeasesHonoured == Leased!Spec
=============================================================================
