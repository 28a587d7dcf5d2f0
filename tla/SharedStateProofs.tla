--------------------------- MODULE SharedStateProofs ---------------------------
(***************************************************************************)
(* What the unlocked file still guarantees, for any modes and actuators:   *)
(*   MirrorInv  a file nobody else has touched is the daemon's own;        *)
(*   ModeInv    a readable file names the mode last requested, and so does *)
(*              the daemon that has read it, until it overwrites one.      *)
(***************************************************************************)
EXTENDS SharedState, TLAPS

MirrorInv ==
  /\ phase = "fill" /\ ~touched => file = Torn
  /\ phase = "dead" => armed = {}
  /\ phase \in {"open", "fill"} /\ next = "dead" => armed = {}
  /\ MirroredBetweenTicks

ModeInv ==
  /\ ~lost /\ file # Torn => ModeOf(file) = intent
  /\ ~lost /\ seen => mode = intent

-----------------------------------------------------------------------------
(* Operators.                                                              *)

\* Whatever a write leaves on the file is the content written, or unreadable.
LEMMA LandedIs ==
  ASSUME NEW c, NEW f \in Landed(c)
  PROVE  f = c \/ f = Torn
BY DEF Landed

\* The mode a readable file names is a mode.
LEMMA ModeOfIs ==
  ASSUME NEW c
  PROVE  /\ ModeOf(c) \in Mode
         /\ c.mode \in Mode => ModeOf(c) = c.mode
BY ModeAssumption DEF ModeOf

\* What the dashboard writes back names the requested mode.
LEMMA CopyIs ==
  ASSUME TypeOK, NEW c, c = [post.copy EXCEPT !.mode = post.target]
  PROVE  c \in Content /\ c.mode = post.target /\ post.target \in Mode
<1>1. post.copy \in [mode : Mode \cup {"none", "torn"}, armed : SUBSET Lease]
  BY DEF TypeOK, Content, Torn
<1>2. post.target \in Mode
  BY DEF TypeOK
<1>. QED
  BY <1>1, <1>2 DEF Content

-----------------------------------------------------------------------------
(* Types.                                                                  *)

PostType == [step : {"idle", "read", "open"}, target : Mode, copy : Content \cup {Torn}]

LEMMA InitTypes ==
  Init => TypeOK
<1>1. NoPost \in PostType
  BY ModeAssumption DEF NoPost, PostType
<1>2. [mode |-> Default, armed |-> {}] \in Content
  BY ModeAssumption DEF Content
<1>. QED
  BY <1>1, <1>2, ModeAssumption DEF Init, TypeOK, PostType

LEMMA NextTypes ==
  TypeOK /\ [Next]_vars => TypeOK'
<1> SUFFICES ASSUME TypeOK, [Next]_vars PROVE TypeOK'
  OBVIOUS
<1>0. NoPost \in PostType /\ post \in PostType
  BY ModeAssumption DEF NoPost, PostType, TypeOK
<1>1. CASE Wake \/ TickEnd \/ Kill \/ (\E a \in Lease : Drop(a))
  BY <1>1 DEF Wake, TickEnd, Kill, Drop, TypeOK
<1>2. CASE Reload
  <2>1. mode' \in Mode
    BY <1>2, ModeOfIs DEF Reload, TypeOK
  <2>. QED
    BY <1>2, <2>1 DEF Reload, TypeOK
<1>3. ASSUME NEW a \in Lease, Arm(a) PROVE TypeOK'
  BY <1>3 DEF Arm, TypeOK
<1>4. CASE Stop
  BY <1>4 DEF Stop, TypeOK
<1>5. CASE Open
  BY <1>5 DEF Open, Overwrites, TypeOK
<1>6. CASE Fill
  <2>1. [mode |-> mode, armed |-> armed] \in Content
    BY DEF Content, TypeOK
  <2>2. file' \in Content \cup {Torn}
    BY <1>6, <2>1, LandedIs DEF Fill, TypeOK
  <2>3. spoilt' \in BOOLEAN /\ lost' \in BOOLEAN
    BY <1>6 DEF Fill, Overwrites, TypeOK
  <2>. QED
    BY <1>6, <2>2, <2>3 DEF Fill, TypeOK
<1>7. CASE Restart
  <2>1. mode' \in Mode
    BY <1>7, ModeOfIs, ModeAssumption DEF Restart
  <2>. QED
    BY <1>7, <2>1 DEF Restart, TypeOK
<1>8. ASSUME NEW m \in Mode, PostRead(m) PROVE TypeOK'
  <2>1. post' \in PostType
    BY <1>8 DEF PostRead, PostType, TypeOK
  <2>. QED
    BY <1>8, <2>1 DEF PostRead, PostType, TypeOK
<1>9. CASE PostOpen
  <2>1. post' \in PostType
    BY <1>0, <1>9 DEF PostOpen, PostType
  <2>. QED
    BY <1>9, <2>1 DEF PostOpen, PostType, TypeOK
<1>10. CASE PostDone
  <2>1. file' \in Content \cup {Torn} /\ intent' \in Mode
    BY <1>10, CopyIs, LandedIs DEF PostDone
  <2>. QED
    BY <1>0, <1>10, <2>1 DEF PostDone, PostType, TypeOK
<1>11. CASE PostFails
  BY <1>0, <1>11 DEF PostFails, PostType, TypeOK
<1>12. CASE UNCHANGED vars
  BY <1>12 DEF vars, TypeOK
<1>. QED
  BY <1>1, <1>2, <1>3, <1>4, <1>5, <1>6, <1>7, <1>8, <1>9, <1>10, <1>11, <1>12
     DEF Next, Tick, Dashboard

\* Every reachable state of the two processes and their file is well typed: the daemon
\* never works under anything but one of its modes.
THEOREM TypeCorrect == Spec => []TypeOK
<1>1. Init => TypeOK
  BY InitTypes
<1>2. TypeOK /\ [Next]_vars => TypeOK'
  BY NextTypes
<1>. QED
  BY <1>1, <1>2, PTL DEF Spec

-----------------------------------------------------------------------------
(* The file as the daemon's mirror.                                        *)

LEMMA NextMirror ==
  TypeOK /\ MirrorInv /\ [Next]_vars => MirrorInv'
<1> SUFFICES ASSUME TypeOK, MirrorInv, [Next]_vars PROVE MirrorInv'
  OBVIOUS
<1> USE DEF MirrorInv, MirroredBetweenTicks
<1>1. CASE Wake \/ Reload \/ TickEnd
  BY <1>1 DEF Wake, Reload, TickEnd
<1>2. ASSUME NEW a \in Lease, Drop(a) \/ Arm(a) PROVE MirrorInv'
  BY <1>2 DEF Drop, Arm
<1>3. CASE Stop \/ Kill
  BY <1>3 DEF Stop, Kill
<1>4. CASE Open
  BY <1>4 DEF Open
<1>5. CASE Fill
  <2>1. ~touched => Landed([mode |-> mode, armed |-> armed])
                      = {[mode |-> mode, armed |-> armed]}
    BY <1>5 DEF Fill, Landed
  <2>2. ~spoilt' => ~touched /\ file' = [mode |-> mode, armed |-> armed]
    BY <1>5, <2>1 DEF Fill, TypeOK
  <2>. QED
    BY <1>5, <2>2 DEF Fill, TypeOK
<1>6. CASE Restart
  BY <1>6 DEF Restart
<1>7. ASSUME NEW m \in Mode, PostRead(m) PROVE MirrorInv'
  BY <1>7 DEF PostRead
<1>8. CASE PostOpen \/ PostDone \/ PostFails
  BY <1>8 DEF PostOpen, PostDone, PostFails
<1>9. CASE UNCHANGED vars
  BY <1>9 DEF vars
<1>. QED
  BY <1>1, <1>2, <1>3, <1>4, <1>5, <1>6, <1>7, <1>8, <1>9 DEF Next, Tick, Dashboard

\* Between ticks runtime-state.json mirrors the daemon's mode and leases, but for a
\* failed write or one that met the dashboard's.
THEOREM Mirrored == Spec => []MirroredBetweenTicks
<1>1. Init => TypeOK /\ MirrorInv
  BY InitTypes DEF Init, MirrorInv, MirroredBetweenTicks
<1>2. TypeOK /\ MirrorInv /\ [Next]_vars => (TypeOK /\ MirrorInv)'
  BY NextTypes, NextMirror
<1>3. MirrorInv => MirroredBetweenTicks
  BY DEF MirrorInv
<1>. QED
  BY <1>1, <1>2, <1>3, PTL DEF Spec

-----------------------------------------------------------------------------
(* The mode the daemon follows.                                            *)

LEMMA NextMode ==
  TypeOK /\ ModeInv /\ [Next]_vars => ModeInv'
<1> SUFFICES ASSUME TypeOK, ModeInv, [Next]_vars PROVE ModeInv'
  OBVIOUS
<1> USE DEF ModeInv
<1>1. CASE Wake \/ TickEnd \/ Stop \/ Kill \/ (\E a \in Lease : Drop(a) \/ Arm(a))
  BY <1>1 DEF Wake, TickEnd, Stop, Kill, Drop, Arm, ModeOf
<1>2. CASE Reload
  BY <1>2 DEF Reload, ModeOf
<1>3. CASE Open
  BY <1>3 DEF Open
<1>4. CASE Fill
  <2>1. CASE UNCHANGED <<file, lost>>
    BY <1>4, <2>1 DEF Fill, ModeOf
  <2>2. CASE /\ file' \in Landed([mode |-> mode, armed |-> armed])
             /\ lost' = (lost \/ Overwrites)
    <3>1. ~lost' => ~lost /\ mode = intent
      BY <2>2 DEF Overwrites, TypeOK
    <3>2. file' # Torn => file'.mode = mode /\ mode \in Mode
      BY <2>2, LandedIs DEF TypeOK
    <3>3. file' # Torn => ModeOf(file') = mode
      BY <3>2, ModeOfIs
    <3>4. ModeOf(file)' = ModeOf(file')
      BY DEF ModeOf
    <3>. QED
      BY <1>4, <3>1, <3>3, <3>4 DEF Fill
  <2>. QED
    BY <1>4, <2>1, <2>2 DEF Fill
<1>5. CASE Restart
  BY <1>5 DEF Restart, ModeOf
<1>6. ASSUME NEW m \in Mode, PostRead(m) PROVE ModeInv'
  BY <1>6 DEF PostRead, ModeOf
<1>7. CASE PostOpen
  BY <1>7 DEF PostOpen
<1>8. CASE PostDone
  <2>1. file' # Torn => file'.mode = post.target /\ post.target \in Mode
    BY <1>8, CopyIs, LandedIs DEF PostDone
  <2>2. file' # Torn => ModeOf(file') = post.target
    BY <2>1, ModeOfIs
  <2>3. ModeOf(file)' = ModeOf(file')
    BY DEF ModeOf
  <2>. QED
    BY <1>8, <2>2, <2>3 DEF PostDone
<1>9. CASE PostFails \/ UNCHANGED vars
  BY <1>9 DEF PostFails, vars, ModeOf
<1>. QED
  BY <1>1, <1>2, <1>3, <1>4, <1>5, <1>6, <1>7, <1>8, <1>9 DEF Next, Tick, Dashboard

\* A running daemon that follows the last answered request keeps following it until
\* another is served, whatever half-written file it reads.
THEOREM ModeSettled == Spec => SettledModeStays
<1>1. Init => TypeOK /\ ModeInv
  BY InitTypes, ModeAssumption DEF Init, ModeInv, ModeOf
<1>2. TypeOK /\ ModeInv /\ [Next]_vars => (TypeOK /\ ModeInv)'
  BY NextTypes, NextMode
<1>3. ModeInv /\ [Next]_vars
        => [phase # "dead" /\ phase' # "dead" /\ mode = intent /\ ~lost /\ ~Serving
              => mode' = intent]_vars
  <2> SUFFICES ASSUME ModeInv, [Next]_vars, phase # "dead", mode = intent, ~lost
               PROVE  mode' = intent
    OBVIOUS
  <2>1. CASE Reload
    BY <2>1 DEF Reload, ModeInv
  <2>2. CASE UNCHANGED mode
    BY <2>2
  <2>. QED
    BY <2>1, <2>2 DEF Next, Tick, Dashboard, Wake, Drop, Arm, TickEnd, Stop, Open, Fill,
                      Kill, Restart, PostRead, PostOpen, PostDone, PostFails, vars
<1>. QED
  BY <1>1, <1>2, <1>3, PTL DEF Spec, SettledModeStays
=============================================================================
