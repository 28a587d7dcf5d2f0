---------------------------- MODULE FanCurveProofs ----------------------------
(***************************************************************************)
(* What holds of the fan curve's ownership for any set of user curves,     *)
(* lifts and built-in curves, whether they read as they were written or    *)
(* not.                                                                    *)
(***************************************************************************)
EXTENDS FanCurve, TLAPS

\* What the user's curve looks like after any number of snapshots and restores.
UserBytes == {user, Near(user)}
UserReadings == {Shown(b) : b \in UserBytes}

\* An actuator that holds a bias remembers what it issued and what it took over.
Remembers ==
  /\ up /\ "fan" \in armed => sig # None /\ base # None
  /\ ~up => sig = None /\ base = None

\* With nothing to blame: an edited curve is still the live one; a snapshot is the
\* user's curve and on file; and what is live is the user's curve or, under a bias, the
\* one last issued.
Owned ==
  blame = {} =>
    /\ edited \/ "fan" \notin armed => hw \in UserBytes
    /\ ~edited /\ base # None => base \in UserReadings /\ file \in UserReadings
    /\ ~edited /\ armed # {} => file \in UserReadings
    /\ ~edited /\ up /\ "fan" \in armed => hw \in UserBytes \/ hw = Written(sig)

CurveInv == TypeOK /\ Remembers /\ Owned

-----------------------------------------------------------------------------
(* The scales.                                                             *)

\* A whole number of percents is the nearest.
LEMMA PercentIs ==
  ASSUME NEW t \in Tenth
  PROVE  Percent(t) \in 0 .. 100
<1>1. t \in Int /\ 0 <= t /\ t <= 1000
  BY DEF Tenth
<1>2. t \div 10 \in 0 .. 100 /\ (t = 1000 \/ t \div 10 <= 99)
  BY <1>1
<1>3. t = 1000 => t \div 10 = 100 /\ t % 10 = 0
  OBVIOUS
<1>. QED
  BY <1>2, <1>3 DEF Percent

\* A percentage is written as a byte.
LEMMA WrittenIs ==
  ASSUME NEW t \in Tenth
  PROVE  Written(t) \in 0 .. 255
BY PercentIs DEF Written

\* A byte is shown in tenths of a percent.
LEMMA ShownIs ==
  ASSUME NEW b \in 0 .. 255
  PROVE  Shown(b) \in Tenth
BY DEF Shown, Tenth

\* A lifted curve stays on the scale.
LEMMA ComposedIs ==
  ASSUME NEW t \in Tenth, NEW l \in Lift
  PROVE  Composed(t, l) \in Tenth
BY CurveAssumption DEF Composed, Tenth

\* Whole percents, all that asusctl can set, survive being read and written again.
LEMMA WholePercentsReturn ==
  ASSUME NEW p \in 0 .. 100
  PROVE  Written(Shown(Written(10 * p))) = Written(10 * p)
<1>1. Percent(10 * p) = p
  BY DEF Percent
<1> DEFINE b == (255 * p + 50) \div 100
           s == (2000 * b + 255) \div 510
<1>2. b \in 0 .. 255 /\ 100 * b <= 255 * p + 50 /\ 255 * p + 50 < 100 * b + 100
  OBVIOUS
<1>3. 510 * s <= 2000 * b + 255 /\ 2000 * b + 255 < 510 * s + 510 /\ s \in Nat
  BY <1>2
<1> HIDE DEF b, s
<1>4. 10 * p - 5 < s /\ s < 10 * p + 5
  BY <1>2, <1>3
<1>5. Percent(s) = p
  <2> DEFINE q == s \div 10  r == s % 10
  <2>1. s = 10 * q + r /\ q \in Int /\ r \in 0 .. 9
    BY <1>3
  <2> HIDE DEF q, r
  <2>2. (r < 5 /\ q = p) \/ (r > 5 /\ q = p - 1)
    BY <1>4, <2>1
  <2>3. Percent(s) = IF r > 5 \/ (r = 5 /\ q % 2 = 1) THEN q + 1 ELSE q
    BY Zenon DEF Percent, q, r
  <2>. QED
    BY <2>1, <2>2, <2>3
<1>. QED
  BY <1>1, <1>5 DEF Written, Shown, b, s

\* So a curve that went through one snapshot and restore goes through all others
\* unchanged: it never drifts.
LEMMA NearSettles ==
  ASSUME NEW b \in 0 .. 255
  PROVE  Near(b) \in 0 .. 255 /\ Near(Near(b)) = Near(b)
<1> DEFINE p == Percent(Shown(b))
<1>1. p \in 0 .. 100
  BY ShownIs, PercentIs
<1>2. Percent(10 * p) = p
  BY <1>1 DEF Percent
<1>3. Near(b) = Written(10 * p)
  BY <1>2 DEF Near, Written
<1>4. Written(Shown(Written(10 * p))) = Written(10 * p)
  BY <1>1, WholePercentsReturn
<1>5. Near(b) \in 0 .. 255
  BY ShownIs, WrittenIs DEF Near
<1> HIDE DEF p
<1>. QED
  BY <1>3, <1>4, <1>5 DEF Near

-----------------------------------------------------------------------------
(* Types.                                                                  *)

\* Whatever _ensure_baseline does, it leaves a snapshot, and saves a snapshot or nothing.
LEMMA BaselineIs ==
  ASSUME TypeOK, NEW cause, EnsureBaseline(cause)
  PROVE  /\ base' \in Tenth /\ file' \in Tenth \cup {None}
         /\ fresh' \in BOOLEAN /\ edited' \in BOOLEAN
<1>1. Shown(hw) \in Tenth
  BY ShownIs DEF TypeOK
<1>0. DefaultBase \in Tenth
  BY CurveAssumption DEF Tenth
<1>2. CASE KeepCached \/ KeepOwn
  BY <1>2 DEF TypeOK, KeepCached, KeepOwn
<1>3. ASSUME NEW saved \in BOOLEAN, AdoptLive(saved) \/ AdoptDefault(saved)
      PROVE  base' \in {Shown(hw), DefaultBase} /\ file' \in {file, Shown(hw), DefaultBase}
             /\ fresh' = TRUE /\ edited' = FALSE
  BY <1>3 DEF AdoptLive, AdoptDefault
<1>4. CASE \E saved \in BOOLEAN : AdoptLive(saved) \/ AdoptDefault(saved)
  BY <1>0, <1>1, <1>3, <1>4 DEF TypeOK
<1>. QED
  BY <1>2, <1>4 DEF EnsureBaseline

LEMMA NextTypes ==
  TypeOK /\ [Next]_vars => TypeOK'
<1> SUFFICES ASSUME TypeOK, [Next]_vars PROVE TypeOK'
  OBVIOUS
<1> USE CurveAssumption DEF TypeOK
<1>1. ASSUME NEW b \in Curve, Edit(b) PROVE TypeOK'
  BY <1>1 DEF Edit
<1>2. CASE BaselineLapses \/ ReapplyLapses
  <2>1. CASE BaselineLapses
    BY <2>1, ZenonT(30) DEF BaselineLapses
  <2>2. CASE ReapplyLapses
    BY <2>2, ZenonT(30) DEF ReapplyLapses
  <2>. QED
    BY <1>2, <2>1, <2>2
<1>3. ASSUME NEW o \in Owner, Probe(o) PROVE TypeOK'
  <2>1. sees' \in [Owner -> BOOLEAN]
    BY <1>3 DEF Probe
  <2>. QED
    BY <1>3, <2>1 DEF Probe
<1>4. ASSUME NEW l \in Lift, FanApply(l) PROVE TypeOK'
  <2>1. PICK cause \in SUBSET {"snapshot", "fault", "misread"} :
          /\ EnsureBaseline(cause)
          /\ LET curve == Composed(base', l) IN
               \/ (SkipSame(curve) \/ Issue(curve)) /\ blame' = blame \cup cause
               \/ IssueFails(curve) /\ blame' = blame \cup cause \cup {"fault"}
    BY <1>4 DEF FanApply
  <2>2. /\ base' \in Tenth /\ file' \in Tenth \cup {None}
        /\ fresh' \in BOOLEAN /\ edited' \in BOOLEAN
    BY <2>1, BaselineIs
  <2> DEFINE curve == Composed(base', l)
  <2>3. curve \in Tenth /\ Written(curve) \in 0 .. 255
    BY <2>2, ComposedIs, WrittenIs
  <2>4. blame' \subseteq Cause
    <3>1. blame \subseteq Cause
      OBVIOUS
    <3>2. \A x \in cause \cup {"fault"} : x \in Cause
      BY DEF Cause
    <3>3. \A x \in blame' : x \in blame \/ x \in cause \cup {"fault"}
      BY <2>1
    <3>. QED
      BY <3>1, <3>2, <3>3, ZenonT(30)
  <2> HIDE DEF curve
  <2>5. hw' \in 0 .. 255 /\ sig' \in Tenth \cup {None} /\ recent' \in BOOLEAN
        /\ armed' \subseteq Owner
    <3>1. SkipSame(curve) \/ Issue(curve) \/ IssueFails(curve)
      BY <2>1 DEF curve
    <3>2. CASE SkipSame(curve)
      BY <3>2 DEF SkipSame, Owner
    <3>3. CASE Issue(curve)
      BY <2>3, <3>3 DEF Issue, Owner
    <3>4. CASE IssueFails(curve)
      BY <2>3, <3>4 DEF IssueFails
    <3>. QED
      BY <3>1, <3>2, <3>3, <3>4
  <2>. QED
    BY <1>4, <2>2, <2>4, <2>5 DEF FanApply
<1>5. CASE FanCede
  <2>1. {"misread"} \subseteq Cause
    BY DEF Cause
  <2>2. blame' \subseteq blame \cup {"misread"}
    BY <1>5 DEF FanCede
  <2>3. base' = None /\ fresh' = FALSE /\ armed' = armed \ {"fan"}
        /\ UNCHANGED <<hw, user, sig, recent, file, sees, up, edited>>
    BY <1>5 DEF FanCede
  <2>4. blame' \subseteq Cause
    BY <2>1, <2>2
  <2>5. armed' \subseteq Owner
    BY <2>3
  <2>. QED
    BY <2>3, <2>4, <2>5, ZenonT(30)
<1>6. ASSUME NEW read \in BOOLEAN, NEW ok \in BOOLEAN, FanRestore(read, ok) PROVE TypeOK'
  <2>1. hw' \in 0 .. 255
    BY <1>6, WrittenIs DEF FanRestore
  <2>2. blame' \subseteq blame \cup {"fault", "default", "misread"}
    BY <1>6 DEF FanRestore
  <2>. QED
    BY <1>6, <2>1, <2>2 DEF FanRestore, Cause
<1>7. CASE GameApply \/ GameRevert
  <2>1. CASE GameApply
    BY <2>1 DEF GameApply, Owner, Cause
  <2>2. CASE GameRevert
    BY <2>2 DEF GameRevert, Cause
  <2>. QED
    BY <1>7, <2>1, <2>2
<1>8. CASE Crash
  <2>1. sees' \in [Owner -> BOOLEAN]
    BY <1>8 DEF Crash
  <2>. QED
    BY <1>8, <2>1, ZenonT(30) DEF Crash
<1>9. CASE CleanUp
  <2>1. hw' \in 0 .. 255
    BY <1>9, WrittenIs DEF CleanUp
  <2>2. blame' \subseteq blame \cup {"fault", "default", "snapshot"}
    BY <1>9 DEF CleanUp
  <2>. QED
    BY <1>9, <2>1, <2>2 DEF CleanUp, Cause
<1>10. CASE Restart
  BY <1>10 DEF Restart, Cause
<1>11. CASE UNCHANGED vars
  BY <1>11 DEF vars
<1>. QED
  BY <1>1, <1>2, <1>3, <1>4, <1>5, <1>6, <1>7, <1>8, <1>9, <1>10, <1>11 DEF Next

\* Every variable keeps its type: nothing written to the EC, saved or remembered leaves
\* its scale, whatever the user, game mode, faults and crashes do.
THEOREM TypeCorrect == Spec => []TypeOK
<1>1. Init => TypeOK
  <2>1. Init => sees \in [Owner -> BOOLEAN]
    BY DEF Init
  <2>2. Init => hw \in 0 .. 255 /\ armed = {} /\ blame = {} /\ base = None /\ sig = None /\ file = None
    BY CurveAssumption DEF Init
  <2>. QED
    BY <2>1, <2>2 DEF Init, TypeOK
<1>. QED
  BY <1>1, NextTypes, PTL DEF Spec

-----------------------------------------------------------------------------
(* Ownership.                                                              *)

\* A tenth is a number, and no snapshot.
LEMMA NoneIsNoTenth ==
  None \notin Tenth
BY DEF None, Tenth

\* What the user's curve may look like stays that, read and written back.
LEMMA UserReturns ==
  ASSUME user \in Curve
  PROVE  /\ \A b \in UserBytes : Shown(b) \in UserReadings
         /\ \A t \in UserReadings : t \in Tenth /\ t # None /\ Written(t) = Near(user)
<1>1. user \in 0 .. 255
  BY CurveAssumption
<1>2. Near(user) \in 0 .. 255 /\ Near(Near(user)) = Near(user)
  BY <1>1, NearSettles
<1>3. \A b \in UserBytes : b \in 0 .. 255 /\ Written(Shown(b)) = Near(user)
  BY <1>1, <1>2 DEF UserBytes, Near
<1>. QED
  BY <1>3, ShownIs, NoneIsNoTenth DEF UserReadings

\* A snapshot that nobody is to blame for, renewed or not, is the user's curve and saved.
LEMMA BaselineOwned ==
  ASSUME CurveInv, up, NEW cause, EnsureBaseline(cause), blame = {}, cause = {}
  PROVE  /\ ~edited' /\ base' \in UserReadings /\ file' \in UserReadings
         /\ hw \in UserBytes \/ hw = Written(sig)
<1>1. TypeOK /\ Remembers /\ Owned /\ user \in Curve
  BY DEF CurveInv, TypeOK
<1>2. hw \in UserBytes \/ (~edited /\ hw = Written(sig) /\ sig # None)
  BY <1>1 DEF Owned, Remembers
<1>3. CASE KeepCached /\ ~edited
  BY <1>1, <1>2, <1>3 DEF KeepCached, Owned
<1>4. CASE KeepOwn /\ ~Alike
  <2>1. ~edited
    BY <1>4 DEF KeepOwn, Alike
  <2>. QED
    BY <1>1, <1>2, <1>4, <2>1 DEF KeepOwn, Owned
<1>5. CASE AdoptLive(TRUE) /\ ~Misread
  <2>1. base # None /\ sig # None => Shown(hw) # sig
    BY <1>5 DEF AdoptLive
  <2>2. hw \in UserBytes
    BY <1>1, <1>2, <1>5, <2>1 DEF Misread, Owned, Remembers
  <2>3. Shown(hw) \in UserReadings
    BY <1>1, <2>2, UserReturns
  <2>. QED
    BY <1>5, <2>2, <2>3 DEF AdoptLive
<1>. QED
  BY <1>3, <1>4, <1>5 DEF EnsureBaseline

\* No action but an edit clears the blame.
LEMMA BlameGrows ==
  ASSUME [Next]_vars, ~\E b \in Curve : Edit(b)
  PROVE  blame \subseteq blame'
BY DEF Next, vars, BaselineLapses, ReapplyLapses, Probe, FanApply, FanCede, FanRestore,
       GameApply, GameRevert, Crash, CleanUp, Restart

LEMMA NextRemembers ==
  ASSUME TypeOK, Remembers, [Next]_vars
  PROVE  Remembers'
<1> USE DEF Remembers
<1>1. ASSUME NEW b \in Curve, Edit(b) PROVE Remembers'
  BY <1>1 DEF Edit
<1>2. CASE BaselineLapses \/ ReapplyLapses \/ \E o \in Owner : Probe(o)
  BY <1>2 DEF BaselineLapses, ReapplyLapses, Probe
<1>3. ASSUME NEW l \in Lift, FanApply(l) PROVE Remembers'
  <2>1. PICK cause : EnsureBaseline(cause)
    BY <1>3 DEF FanApply
  <2>2. base' \in Tenth
    BY <2>1, BaselineIs
  <2>3. Composed(base', l) \in Tenth
    BY <2>2, ComposedIs
  <2>4. SkipSame(Composed(base', l)) \/ Issue(Composed(base', l)) \/ IssueFails(Composed(base', l))
    BY <1>3 DEF FanApply
  <2>5. "fan" \in armed' => sig' # None
    BY <1>3, <2>3, <2>4, NoneIsNoTenth DEF FanApply, SkipSame, Issue, IssueFails
  <2>. QED
    BY <1>3, <2>2, <2>5, NoneIsNoTenth DEF FanApply
<1>4. CASE FanCede \/ \E read, ok \in BOOLEAN : FanRestore(read, ok)
  BY <1>4 DEF FanCede, FanRestore
<1>5. CASE GameApply \/ GameRevert
  BY <1>5 DEF GameApply, GameRevert
<1>6. CASE Crash \/ CleanUp \/ Restart
  BY <1>6 DEF Crash, CleanUp, Restart
<1>7. CASE UNCHANGED vars
  BY <1>7 DEF vars
<1>. QED
  BY <1>1, <1>2, <1>3, <1>4, <1>5, <1>6, <1>7 DEF Next

LEMMA NextOwned ==
  ASSUME CurveInv, [Next]_vars
  PROVE  Owned'
<1> SUFFICES ASSUME blame' = {} PROVE Owned'
  BY DEF Owned
<1>0. TypeOK /\ Remembers /\ Owned /\ user \in Curve
  BY DEF CurveInv, TypeOK
<1>1. ASSUME user' = user PROVE UserBytes' = UserBytes /\ UserReadings' = UserReadings
  BY <1>1 DEF UserBytes, UserReadings, Near
<1>2. ASSUME NEW b \in Curve, Edit(b) PROVE Owned'
  BY <1>2 DEF Edit, Owned, UserBytes
<1>3. CASE ~\E b \in Curve : Edit(b)
  <2>0. blame = {}
    BY <1>3, BlameGrows
  <2>1. CASE BaselineLapses \/ ReapplyLapses \/ \E o \in Owner : Probe(o)
    <3>1. UNCHANGED <<hw, user, base, sig, file, armed, up, edited>>
      BY <2>1 DEF BaselineLapses, ReapplyLapses, Probe
    <3>. QED
      BY <1>0, <1>1, <2>0, <3>1 DEF Owned
  <2>2. ASSUME NEW l \in Lift, FanApply(l) PROVE Owned'
    <3> DEFINE curve == Composed(base', l)
    <3>1. PICK cause \in SUBSET {"snapshot", "fault", "misread"} :
            /\ EnsureBaseline(cause)
            /\ \/ (SkipSame(curve) \/ Issue(curve)) /\ blame' = blame \cup cause
               \/ IssueFails(curve) /\ blame' = blame \cup cause \cup {"fault"}
      BY <2>2 DEF FanApply
    <3>2. cause = {} /\ (SkipSame(curve) \/ Issue(curve))
      BY <2>0, <3>1
    <3>3. up /\ up' /\ user' = user
      BY <2>2 DEF FanApply
    <3>4. /\ ~edited' /\ base' \in UserReadings /\ file' \in UserReadings
          /\ hw \in UserBytes \/ hw = Written(sig)
      BY <2>0, <3>1, <3>2, <3>3, BaselineOwned
    <3> HIDE DEF curve
    <3>5. "fan" \in armed' /\ (hw' \in UserBytes \/ hw' = Written(sig'))
      BY <3>2, <3>4 DEF SkipSame, Issue
    <3>. QED
      BY <1>1, <3>3, <3>4, <3>5 DEF Owned
  <2>3. CASE FanCede
    <3>1. up /\ "fan" \in armed /\ sig # None /\ Shown(hw) # sig /\ ~Misread
      BY <2>3 DEF FanCede, Foreign
    <3>2. hw \in UserBytes
      BY <1>0, <2>0, <3>1 DEF Owned, Misread
    <3>3. base' = None /\ armed' = armed \ {"fan"} /\ UNCHANGED <<hw, user, sig, file, up, edited>>
      BY <2>3 DEF FanCede
    <3>. QED
      BY <1>0, <1>1, <2>0, <3>2, <3>3 DEF Owned
  <2>4. ASSUME NEW read \in BOOLEAN, NEW ok \in BOOLEAN, FanRestore(read, ok) PROVE Owned'
    <3>1. read /\ ok /\ base # None /\ ~Alike
      BY <2>4 DEF FanRestore
    <3>2. up /\ "fan" \in armed /\ ~Foreign /\ hw' = Written(base)
      BY <2>4, <3>1 DEF FanRestore
    <3>3. base \in UserReadings
      <4>1. CASE ~edited
        BY <1>0, <2>0, <3>1, <4>1 DEF Owned
      <4>2. CASE edited
        <5>1. hw \in UserBytes /\ sig # None
          BY <1>0, <2>0, <3>2, <4>2 DEF Owned, Remembers
        <5>2. Shown(hw) = base
          BY <3>1, <3>2, <4>2, <5>1 DEF Foreign, Alike
        <5>. QED
          BY <1>0, <5>1, <5>2, UserReturns
      <4>. QED
        BY <4>1, <4>2
    <3>4. hw' \in UserBytes
      BY <1>0, <3>2, <3>3, UserReturns DEF UserBytes
    <3>5. UNCHANGED <<user, base, sig, file, up, edited>> /\ armed' = armed \ {"fan"}
      BY <2>4 DEF FanRestore
    <3>. QED
      BY <1>0, <1>1, <2>0, <3>4, <3>5 DEF Owned
  <2>5. ~GameApply /\ ~GameRevert
    BY DEF GameApply, GameRevert
  <2>6. CASE Crash
    <3>1. UNCHANGED <<hw, user, file, armed, edited>> /\ ~up' /\ base' = None
      BY <2>6 DEF Crash
    <3>. QED
      BY <1>0, <1>1, <2>0, <3>1 DEF Owned
  <2>7. CASE CleanUp
    <3>1. ~up /\ armed # {} /\ ~edited /\ hw' = Written(file)
      BY <2>7 DEF CleanUp
    <3>2. hw' \in UserBytes
      BY <1>0, <2>0, <3>1, UserReturns DEF Owned, UserBytes
    <3>3. armed' = {} /\ UNCHANGED <<user, base, sig, file, up, edited>>
      BY <2>7 DEF CleanUp
    <3>. QED
      BY <1>0, <1>1, <2>0, <3>1, <3>2, <3>3 DEF Owned
  <2>8. CASE Restart
    <3>1. armed = {} /\ hw' = hw /\ armed' = {} /\ UNCHANGED <<user, base, sig, file, edited>>
      BY <2>8 DEF Restart
    <3>. QED
      BY <1>0, <1>1, <2>0, <3>1 DEF Owned
  <2>9. CASE UNCHANGED vars
    BY <1>0, <1>1, <2>0, <2>9 DEF vars, Owned
  <2>. QED
    BY <1>3, <2>1, <2>2, <2>3, <2>4, <2>5, <2>6, <2>7, <2>8, <2>9 DEF Next
<1>. QED
  BY <1>2, <1>3

\* The invariant the theorems about ownership rest on.
LEMMA Invariant == Spec => []CurveInv
<1>1. Init => CurveInv
  <2>1. Init => sees \in [Owner -> BOOLEAN]
    BY DEF Init
  <2>2. Init => hw \in 0 .. 255
    BY CurveAssumption DEF Init
  <2>3. Init => TypeOK
    BY <2>1, <2>2 DEF Init, TypeOK
  <2>. QED
    BY <2>3 DEF Init, CurveInv, Remembers, Owned, UserBytes
<1>2. CurveInv /\ [Next]_vars => CurveInv'
  BY NextTypes, NextRemembers, NextOwned DEF CurveInv
<1>. QED
  BY <1>1, <1>2, PTL DEF Spec

\* Whenever nothing is armed the user's curve is back, to the nearest whole percent,
\* through renewals, edits, crashes and cleanups, or a named cause lost it.
THEOREM UserCurveReturns == Spec => []BiasTakenBack
<1>1. CurveInv => BiasTakenBack
  BY DEF CurveInv, Owned, BiasTakenBack, UserBytes
<1>. QED
  BY <1>1, Invariant, PTL

\* A kill at any point of a bias leaves the cleanup script what it needs.
THEOREM CleanupCanRestore == Spec => []CrashCanRestore
<1>1. CurveInv => CrashCanRestore
  <2> SUFFICES ASSUME CurveInv, "fan" \in armed, blame = {}, ~edited
               PROVE  file # None /\ Written(file) = Near(user)
    BY DEF CrashCanRestore
  <2>1. file \in UserReadings /\ user \in Curve
    BY DEF CurveInv, Owned, TypeOK
  <2>. QED
    BY <2>1, UserReturns
<1>. QED
  BY <1>1, Invariant, PTL

\* No snapshot is taken of a curve of coolstep's own while nothing else went wrong.
THEOREM SnapshotIsUsers == Spec => AdoptsOnlyUserCurve
<1> DEFINE Adopts == base' # base /\ base' # None /\ blame' = {} => Written(base') = Near(user')
<1>1. CurveInv /\ [Next]_vars => [Adopts]_vars
  <2> SUFFICES ASSUME CurveInv, [Next]_vars, base' # base, base' # None, blame' = {}
               PROVE  Written(base') = Near(user')
    OBVIOUS
  <2>1. PICK l \in Lift : FanApply(l)
    BY DEF Next, vars, Edit, BaselineLapses, ReapplyLapses, Probe, FanCede, FanRestore,
           GameApply, GameRevert, Crash, CleanUp, Restart
  <2>2. PICK cause \in SUBSET {"snapshot", "fault", "misread"} :
          EnsureBaseline(cause) /\ cause \subseteq blame' /\ blame \subseteq blame'
    BY <2>1 DEF FanApply
  <2>3. base' \in UserReadings /\ user' = user /\ user \in Curve
    BY <2>1, <2>2, BaselineOwned DEF FanApply, CurveInv, TypeOK
  <2>. QED
    BY <2>3, UserReturns
<1>. QED
  BY <1>1, Invariant, PTL DEF Spec, AdoptsOnlyUserCurve
===============================================================================
