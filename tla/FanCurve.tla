------------------------------- MODULE FanCurve -------------------------------
(***************************************************************************)
(* Who owns the fan curve: the asusctl fan-curve actuator with its cached  *)
(* baseline, the game-mode optimizer, the user, the crash-cleanup script.  *)
(*                                                                         *)
(* The curve is one knee anchor.  The EC stores its PWM as a byte, asusctl *)
(* is written whole percents, and the actuator reads tenths of a percent:  *)
(* the three scales are kept, for every comparison depends on them, and on *)
(* most curves they do not agree.                                          *)
(***************************************************************************)
EXTENDS Integers

CONSTANTS
  Curve,        \* bytes the user may set
  Factory,      \* byte of asusctl --default
  GameCurve,    \* byte of GAME_PROFILE_ANCHORS
  DefaultBase,  \* DEFAULT_BASE_ANCHORS_CPU, in tenths of a percent
  Lift          \* tenths of a percent compose_curve may add at the knee

ASSUME CurveAssumption ==
  /\ Curve \subseteq 0 .. 255 /\ Factory \in Curve /\ GameCurve \in 0 .. 255
  /\ DefaultBase \in 0 .. 1000
  /\ Lift \subseteq 0 .. 1000

VARIABLES
  hw,      \* the byte in the EC
  user,    \* history: the byte the user or the factory last put there
  base,    \* _baseline_anchors, or None
  fresh,   \* _baseline_at is less than _baseline_ttl ago
  sig,     \* _last_curve_sig, or None
  recent,  \* _last_curve_at is less than MAX_REAPPLY_S ago
  file,    \* asusctl_fan_curve_baseline.json, or None
  armed,   \* which of the two actuators is in _armed_actions
  sees,    \* each actuator's cached probe of game mode
  up,      \* the daemon is alive
  edited,  \* history: the user set a curve since the last snapshot
  blame    \* history: why the user's curve may be lost

vars == <<hw, user, base, fresh, sig, recent, file, armed, sees, up, edited,
          blame>>

None  == -1
Tenth == 0 .. 1000
Owner == {"fan", "game"}
Cause == {"fault",     \* a read, write or file operation failed and was swallowed
          "game",      \* the game profile took the curve over
          "snapshot",  \* a cached or saved snapshot older than the user's edit
          "default",   \* --default, for want of a baseline in memory
          "misread"}   \* the live curve reads as whose it is not (see Misread, Alike)

\* int(round(p)) of a percent in tenths: halves go to the even neighbour.
Percent(t) ==
  LET q == t \div 10
      r == t % 10
  IN IF r > 5 \/ (r = 5 /\ q % 2 = 1) THEN q + 1 ELSE q

\* _format_data_arg, then asusctl storing the percentage as a byte.
Written(t) == (255 * Percent(t) + 50) \div 100

\* _parse_curve_block: round(p / 255 * 100, 1).
Shown(b) == (2000 * b + 255) \div 510

\* What a curve becomes when its reading is written back: the nearest whole percent.
Near(b) == Written(Shown(b))

\* Mutant: the lift is not clamped.
ComposedUnclampedMutant(t, l) == t + l

\* compose_curve at the knee: the base plus a lift, clamped to 100 %.
Composed(t, l) == IF t + l > 1000 THEN 1000 ELSE t + l

TypeOK ==
  /\ hw \in 0 .. 255 /\ user \in Curve
  /\ base \in Tenth \cup {None} /\ sig \in Tenth \cup {None}
  /\ file \in Tenth \cup {None}
  /\ fresh \in BOOLEAN /\ recent \in BOOLEAN
  /\ armed \subseteq Owner
  /\ sees \in [Owner -> BOOLEAN]
  /\ up \in BOOLEAN /\ edited \in BOOLEAN /\ blame \subseteq Cause

Init ==
  /\ hw \in Curve /\ user = hw
  /\ base = None /\ sig = None /\ file = None
  /\ fresh = FALSE /\ recent = FALSE
  /\ armed = {} /\ sees = [o \in Owner |-> FALSE]
  /\ up = TRUE /\ edited = FALSE /\ blame = {}

-----------------------------------------------------------------------------
(* The world: the user, game mode, the clock.                              *)

\* The user sets another curve than the live one.
Edit(b) ==
  /\ b # hw
  /\ hw' = b /\ user' = b
  /\ edited' = TRUE /\ blame' = {}
  /\ UNCHANGED <<base, fresh, sig, recent, file, armed, sees, up>>

\* _is_game_mode_active: o's cached answer has passed its 5 s and is renewed.  Game
\* mode may have been switched any number of times meanwhile.
Probe(o) ==
  /\ up
  /\ \E active \in BOOLEAN : sees' = [sees EXCEPT ![o] = active]
  /\ UNCHANGED <<hw, user, base, fresh, sig, recent, file, armed, up, edited,
                 blame>>

BaselineLapses ==
  /\ fresh' = FALSE
  /\ UNCHANGED <<hw, user, base, sig, recent, file, armed, sees, up, edited,
                 blame>>

ReapplyLapses ==
  /\ recent' = FALSE
  /\ UNCHANGED <<hw, user, base, fresh, sig, file, armed, sees, up, edited,
                 blame>>

-----------------------------------------------------------------------------
(* The fan-curve actuator.                                                 *)

\* The live curve is the one issued last and, rounded on its way, reads as another.
Misread == sig # None /\ ~edited /\ hw = Written(sig) /\ Shown(hw) # sig

\* The live curve is the user's and reads as the one issued last.
Alike == sig # None /\ edited /\ Shown(hw) = sig

\* _ensure_baseline keeps the cached snapshot while it is fresh ...
KeepCached ==
  /\ base # None /\ fresh
  /\ UNCHANGED <<base, fresh, file, edited>>

\* ... and, S15, past that while the live curve is the one it issued ...
KeepOwn ==
  /\ ~(base # None /\ fresh)
  /\ base # None /\ sig # None /\ Shown(hw) = sig
  /\ fresh' = TRUE
  /\ UNCHANGED <<base, file, edited>>

\* Mutant: a lapsed snapshot is renewed from whatever curve is live.
AdoptLiveOwnMutant(saved) ==
  /\ ~(base # None /\ fresh)
  /\ base' = Shown(hw) /\ fresh' = TRUE
  /\ file' = IF saved THEN Shown(hw) ELSE file
  /\ edited' = FALSE

\* Mutant: the snapshot is not saved.
AdoptLiveUnsavedMutant(saved) ==
  /\ ~(base # None /\ fresh)
  /\ ~(base # None /\ sig # None /\ Shown(hw) = sig)
  /\ base' = Shown(hw) /\ fresh' = TRUE
  /\ file' = file
  /\ edited' = FALSE

\* ... and adopts the live curve otherwise, saving it for the cleanup script ...
AdoptLive(saved) ==
  /\ ~(base # None /\ fresh)
  /\ ~(base # None /\ sig # None /\ Shown(hw) = sig)
  /\ base' = Shown(hw) /\ fresh' = TRUE
  /\ file' = IF saved THEN Shown(hw) ELSE file
  /\ edited' = FALSE

\* ... or the built-in curve when asusctl reports none.
AdoptDefault(saved) ==
  /\ ~(base # None /\ fresh)
  /\ base' = DefaultBase /\ fresh' = TRUE
  /\ file' = IF saved THEN DefaultBase ELSE file
  /\ edited' = FALSE

\* _ensure_baseline, and what it is to blame for.
EnsureBaseline(cause) ==
  \/ KeepCached /\ cause = IF edited THEN {"snapshot"} ELSE {}
  \/ KeepOwn /\ cause = IF Alike THEN {"misread"} ELSE {}
  \/ \E saved \in BOOLEAN :
       \/ AdoptLive(saved) /\ cause = (IF saved THEN {} ELSE {"fault"})
                                      \cup (IF Misread THEN {"misread"} ELSE {})
       \/ AdoptDefault(saved) /\ cause = {"fault"}

\* apply(), first half done: the curve is the one last issued, so nothing is written.
SkipSame(curve) ==
  /\ sig = curve /\ recent
  /\ armed' = armed \cup {"fan"}
  /\ UNCHANGED <<hw, sig, recent>>

Issue(curve) ==
  /\ ~(sig = curve /\ recent)
  /\ hw' = Written(curve)
  /\ sig' = curve /\ recent' = TRUE
  /\ armed' = armed \cup {"fan"}

\* The command failed, before or after it took effect; nothing is armed.
IssueFails(curve) ==
  /\ ~(sig = curve /\ recent)
  /\ hw' \in {hw, Written(curve)}
  /\ UNCHANGED <<sig, recent, armed>>

\* supports(), apply() and the daemon's arming of the result.
FanApply(l) ==
  /\ up /\ ~sees["fan"]
  /\ \E cause \in SUBSET {"snapshot", "fault", "misread"} :
       /\ EnsureBaseline(cause)
       /\ LET curve == Composed(base', l) IN
          \/ (SkipSame(curve) \/ Issue(curve)) /\ blame' = blame \cup cause
          \/ IssueFails(curve) /\ blame' = blame \cup cause \cup {"fault"}
  /\ UNCHANGED <<user, sees, up>>

\* Mutant: no look at the live curve before restoring.
ForeignNeverMutant == FALSE

\* Mutant: a curve that is not the baseline is taken for the user's.
ForeignOwnMutant == sig # None /\ (base = None \/ Shown(hw) # base)

\* The live curve is neither the last issued one nor the baseline.
Foreign ==
  /\ sig # None /\ Shown(hw) # sig
  /\ base = None \/ Shown(hw) # base

\* revert(), S15: the curve is taken for somebody else's, and left.
FanCede ==
  /\ up /\ "fan" \in armed /\ Foreign
  /\ base' = None /\ fresh' = FALSE
  /\ armed' = armed \ {"fan"}
  /\ blame' = blame \cup (IF Misread THEN {"misread"} ELSE {})
  /\ UNCHANGED <<hw, user, sig, recent, file, sees, up, edited>>

\* revert(): write the baseline back, or --default without one.  read is FALSE
\* when the live curve could not be read, ok when the write took effect.
FanRestore(read, ok) ==
  /\ up /\ "fan" \in armed /\ (read => ~Foreign)
  /\ hw' = IF ~ok THEN hw ELSE IF base # None THEN Written(base) ELSE Factory
  /\ armed' = armed \ {"fan"}
  /\ blame' = blame \cup (IF read /\ ok THEN {} ELSE {"fault"})
                    \cup (IF base = None THEN {"default"} ELSE {})
                    \cup (IF Alike THEN {"misread"} ELSE {})
  /\ UNCHANGED <<user, base, fresh, sig, recent, file, sees, up, edited>>

-----------------------------------------------------------------------------
(* The game-mode optimizer.                                                *)

\* apply(): the command may take effect and be reported as failed.
GameApply ==
  /\ up /\ sees["game"]
  /\ hw' = GameCurve
  /\ armed' \in {armed, armed \cup {"game"}}
  /\ blame' = blame \cup {"game"}
  /\ UNCHANGED <<user, base, fresh, sig, recent, file, sees, up, edited>>

\* revert(): --default; a failure is swallowed.
GameRevert ==
  /\ up /\ "game" \in armed
  /\ hw' \in {hw, Factory}
  /\ armed' = armed \ {"game"}
  /\ blame' = blame \cup {"game"}
  /\ UNCHANGED <<user, base, fresh, sig, recent, file, sees, up, edited>>

-----------------------------------------------------------------------------
(* Crash, cleanup, restart.                                                *)

Crash ==
  /\ up /\ up' = FALSE
  /\ base' = None /\ fresh' = FALSE /\ sig' = None /\ recent' = FALSE
  /\ sees' = [o \in Owner |-> FALSE]
  /\ UNCHANGED <<hw, user, file, armed, edited, blame>>

\* coolstep-cleanup.sh, when the state file lists anything.
CleanUp ==
  /\ ~up /\ armed # {}
  /\ \/ /\ hw' = IF file # None THEN Written(file) ELSE Factory
        /\ blame' = blame \cup (IF file = None THEN {"default"}
                                ELSE IF edited THEN {"snapshot"} ELSE {})
     \/ UNCHANGED hw /\ blame' = blame \cup {"fault"}
  /\ armed' = {}
  /\ UNCHANGED <<user, base, fresh, sig, recent, file, sees, up, edited>>

\* Start-up; what is still listed is reverted by actuators that hold no baseline.
Restart ==
  /\ ~up /\ up' = TRUE
  /\ hw' \in IF armed # {} THEN {Factory, hw} ELSE {hw}
  /\ armed' = {}
  /\ blame' = blame \cup (IF armed # {} THEN {"default"} ELSE {})
  /\ UNCHANGED <<user, base, fresh, sig, recent, file, sees, edited>>

Next ==
  \/ \E b \in Curve : Edit(b)
  \/ BaselineLapses \/ ReapplyLapses
  \/ \E o \in Owner : Probe(o)
  \/ \E l \in Lift : FanApply(l)
  \/ FanCede \/ \E read, ok \in BOOLEAN : FanRestore(read, ok)
  \/ GameApply \/ GameRevert
  \/ Crash \/ CleanUp \/ Restart

Spec == Init /\ [][Next]_vars

-----------------------------------------------------------------------------
(* Properties.                                                             *)

\* With nothing armed the user's own curve is on the hardware, or the whole percent
\* nearest to it and never anything further away -- through renewals, lapsed snapshots,
\* edits under a bias, crashes and cleanups -- but for a named cause (revert,
\* _ensure_baseline, cleanup.sh).
BiasTakenBack == up /\ armed = {} /\ blame = {} => hw \in {user, Near(user)}

\* Whenever the fan curve is biased, the file holds what the cleanup script needs to
\* put the user's curve back after a kill, again but for a named cause
\* (_persist_baseline).
CrashCanRestore ==
  "fan" \in armed /\ blame = {} /\ ~edited => file # None /\ Written(file) = Near(user)

\* No snapshot mistakes a curve of coolstep's own for the user's, however long the
\* bias is renewed (_ensure_baseline, the second S15 guard), unless that curve reads
\* as another than it was issued.
AdoptsOnlyUserCurve ==
  [][base' # base /\ base' # None /\ blame' = {} => Written(base') = Near(user')]_vars

\* "if the live curve matches neither what we last issued nor the saved baseline, the
\* user edited it externally" (revert, the first S15 guard): coolstep never cedes a
\* curve it wrote itself, which would leave its bias behind as the user's curve.
CedesOnlyToOthers == [][FanCede => hw # Written(sig)]_vars
=============================================================================
