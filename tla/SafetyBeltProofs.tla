--------------------------- MODULE SafetyBeltProofs ---------------------------
(***************************************************************************)
(* Proofs about SafetyBelt for any actuators, verbs, durations and bounds. *)
(* Four inductive invariants, each relative to TypeOK:                     *)
(*   QuietInv  a quiet lease on a hot chip is on the eject loop's list;    *)
(*   LeaseInv  how far past its expiry a lease can be, by loop and lag;    *)
(*   ListInv   who answers for a bias, and that the file lists it;         *)
(*   KeepInv   what maps, file, loops and snapshots say of each other, for *)
(*             the refinement of LeasedHardware.                           *)
(***************************************************************************)
EXTENDS SafetyBelt, TLAPS

QuietInv ==
  /\ phase \in {"sample", "recover", "shutdown", "dead", "cleaned"} => temp = "calm"
  /\ phase = "persist" /\ after # "route" => temp = "calm"
  /\ temp = "hot" /\ phase = "eject"
       => \A a \in Actuator : armed[a].verb = Quiet => a \in due
  /\ temp = "hot" /\ phase \in {"route", "apply", "persist"} => Quiet \notin wanted
  /\ temp = "hot" /\ phase = "apply" => doing.verb # Quiet
  /\ NoQuietWhenHot

LeaseInv ==
  Running =>
    \A a \in Actuator : On(armed, a) =>
      IF phase = "sweep" /\ a \in due
      THEN armed[a].ttl >= -Grace - MaxLag - lag
      ELSE armed[a].ttl >= -Grace - lag

ListInv ==
  /\ Running /\ phase # "persist" /\ ~ioError
       => \A a \in Actuator : On(armed, a) => On(disk, a)
  /\ phase = "recover" => \A a \in due : On(disk, a)
  /\ phase = "shutdown" => \A a \in Actuator : On(armed, a) => a \in due
  /\ phase = "persist" /\ after = "dead" => \A a \in Actuator : ~On(armed, a)
  /\ ~Running => base = [a \in Actuator |-> "none"]
  /\ \A a \in Actuator : base[a] = "bias" => hw[a] = "bias" /\ a \in spoilt
  /\ \A a \in Actuator \ Guarded :
       base[a] = "none" /\ hw[a] = "bias" => a \in excused \cup spoilt
  /\ NoUnexplainedBias

-----------------------------------------------------------------------------
\* Ageing a lease keeps its verb and takes at most one unit off its ttl.
LEMMA AgedLease ==
  ASSUME NEW l \in Lease
  PROVE  /\ Aged(l) \in Lease
         /\ Aged(l).verb = l.verb
         /\ Aged(l).ttl >= l.ttl - 1
<1>1. l.ttl \in Int /\ Floor \in Int
  BY BeltAssumption DEF Lease, Floor
<1>2. PICK t \in Int : t = IF l.ttl >= Floor THEN l.ttl - 1 ELSE l.ttl
  BY <1>1
<1>3. Aged(l) = [l EXCEPT !.ttl = t]
  BY <1>2 DEF Aged
<1>4. t >= l.ttl - 1
  BY <1>1, <1>2
<1>5. QED
  BY <1>3, <1>4 DEF Lease

\* Types.
LEMMA InitTypes ==
  Init => TypeOK
<1>1. Nothing \in [Actuator -> Lease]
  BY DEF Nothing, NoLease, Lease
<1>2. Idle \in [verb : Verb \cup {NoVerb}, error : BOOLEAN]
  BY DEF Idle
<1>3. 0 \in 0 .. MaxLag
  BY BeltAssumption
<1>4. QED
  BY <1>1, <1>2, <1>3 DEF Init, TypeOK, Phase

LEMMA NextTypes ==
  TypeOK /\ [Next]_vars => TypeOK'
<1> SUFFICES ASSUME TypeOK, [Next]_vars PROVE TypeOK'
  OBVIOUS
<1> USE BeltAssumption DEF TypeOK, Phase
<1>1. CASE Sample
  BY <1>1 DEF Sample
<1>2. CASE StartEject
  BY <1>2 DEF StartEject
<1>3. CASE Decide
  BY <1>3 DEF Decide
<1>4. ASSUME NEW v \in Verb, SkipRearm(v) PROVE TypeOK'
  BY <1>4 DEF SkipRearm, Turn
<1>5. ASSUME NEW v \in Verb, Apply(v) PROVE TypeOK'
  BY <1>5 DEF Apply, Turn, Snapshot
<1>6. CASE RecordArmed
  BY <1>6 DEF RecordArmed, Truncate, Lease, Idle, Nothing, NoLease
<1>7. CASE RecordError
  BY <1>7 DEF RecordError, Idle
<1>8. CASE TickEnd
  BY <1>8 DEF TickEnd, Truncate, Lease, Nothing, NoLease
<1>9. CASE PersistEnd
  BY <1>9 DEF PersistEnd
<1>10. ASSUME NEW a \in Actuator, RevertOne(a) PROVE TypeOK'
  BY <1>10 DEF RevertOne, Reverted, Restored, Lease, NoLease
<1>11. CASE ShutdownEnd
  BY <1>11 DEF ShutdownEnd, Truncate, Lease, Nothing, NoLease
<1>12. CASE RecoverEnd
  BY <1>12 DEF RecoverEnd, Truncate, Lease, Nothing, NoLease
<1>13. CASE Elapse
  <2>1. lag' \in 0 .. MaxLag
    BY <1>13 DEF Elapse
  <2>2. armed' \in [Actuator -> Lease] /\ disk' \in [Actuator -> Lease]
    BY AgedLease, <1>13 DEF Elapse
  <2>3. QED
    BY <2>1, <2>2, <1>13 DEF Elapse
<1>14. CASE Stop
  BY <1>14 DEF Stop
<1>15. CASE Kill
  BY <1>15 DEF Kill, Unlisted, Idle, Nothing, NoLease, Lease
<1>16. CASE CleanUp
  BY <1>16 DEF CleanUp, Nothing, NoLease, Lease
<1>17. CASE Restart
  <2>1. armed' \in [Actuator -> Lease]
    BY <1>17 DEF Restart, NoLease, Lease
  <2>2. lag' \in 0 .. MaxLag
    BY <1>17 DEF Restart
  <2>3. QED
    BY <1>17, <2>1, <2>2 DEF Restart
<1>18. CASE UNCHANGED vars
  BY <1>18 DEF vars
<1>19. QED
  BY <1>1, <1>2, <1>3, <1>4, <1>5, <1>6, <1>7, <1>8, <1>9, <1>10, <1>11, <1>12,
     <1>13, <1>14, <1>15, <1>16, <1>17, <1>18 DEF Next, Tick

\* Every reachable state is well typed, for any instance of the constants.
THEOREM TypeCorrect == Spec => []TypeOK
BY InitTypes, NextTypes, PTL DEF Spec

-----------------------------------------------------------------------------
\* A hot tick keeps the quiet leases on the eject list, then has none.
LEMMA QuietStep ==
  ASSUME TypeOK, QuietInv, [Next]_vars
  PROVE  QuietInv'
<1> USE BeltAssumption DEF TypeOK, Phase, Lease, QuietInv, NoQuietWhenHot
<1>1. CASE Sample
  BY <1>1 DEF Sample
<1>2. CASE StartEject
  BY <1>2 DEF StartEject
<1>3. CASE Decide
  BY <1>3 DEF Decide
<1>4. ASSUME NEW v \in Verb, SkipRearm(v) PROVE QuietInv'
  BY <1>4 DEF SkipRearm, Turn
<1>5. ASSUME NEW v \in Verb, Apply(v) PROVE QuietInv'
  BY <1>5 DEF Apply, Turn
<1>6. CASE RecordArmed
  BY <1>6 DEF RecordArmed, Truncate
<1>7. CASE RecordError
  BY <1>7 DEF RecordError
<1>8. CASE TickEnd
  BY <1>8 DEF TickEnd, Truncate
<1>9. CASE PersistEnd
  BY <1>9 DEF PersistEnd
<1>10. ASSUME NEW a \in Actuator, RevertOne(a) PROVE QuietInv'
  BY <1>10 DEF RevertOne, Reverted, NoLease
<1>11. CASE ShutdownEnd
  BY <1>11 DEF ShutdownEnd, Truncate
<1>12. CASE RecoverEnd
  BY <1>12 DEF RecoverEnd, Truncate
<1>13. CASE Elapse
  BY <1>13, AgedLease DEF Elapse, Aged
<1>14. CASE Stop
  BY <1>14 DEF Stop
<1>15. CASE Kill
  BY <1>15 DEF Kill, Nothing, NoLease
<1>16. CASE CleanUp
  BY <1>16 DEF CleanUp
<1>17. CASE Restart
  BY <1>17 DEF Restart, NoLease, Running
<1>18. CASE UNCHANGED vars
  BY <1>18 DEF vars
<1>19. QED
  BY <1>1, <1>2, <1>3, <1>4, <1>5, <1>6, <1>7, <1>8, <1>9, <1>10, <1>11, <1>12, <1>13, <1>14, <1>15, <1>16, <1>17, <1>18 DEF Next, Tick

\* No tick that read a hot or unreadable chip routes, applies or persists with a
\* quiet bias armed (_quiet_safety_eject before decide()).
THEOREM QuietEjected == Spec => []NoQuietWhenHot
<1>1. Init => QuietInv
  BY DEF Init, QuietInv, NoQuietWhenHot
<1>2. QuietInv => NoQuietWhenHot
  BY DEF QuietInv
<1>3. QED
  BY <1>1, <1>2, QuietStep, TypeCorrect, PTL DEF Spec
-----------------------------------------------------------------------------
\* A step moves no lease further past its expiry than its loop and the lag allow.
LEMMA LeaseStep ==
  ASSUME TypeOK, LeaseInv, [Next]_vars
  PROVE  LeaseInv'
<1> USE BeltAssumption DEF TypeOK, Phase, Lease, LeaseInv, Running, On
<1>1. CASE Sample
  BY <1>1 DEF Sample
<1>2. CASE StartEject
  BY <1>2 DEF StartEject
<1>3. CASE Decide
  BY <1>3 DEF Decide
<1>4. ASSUME NEW v \in Verb, SkipRearm(v) PROVE LeaseInv'
  BY <1>4 DEF SkipRearm, Turn
<1>5. ASSUME NEW v \in Verb, Apply(v) PROVE LeaseInv'
  BY <1>5 DEF Apply, Turn
<1>6. CASE RecordArmed
  BY <1>6 DEF RecordArmed, Truncate
<1>7. CASE RecordError
  BY <1>7 DEF RecordError
<1>8. CASE TickEnd
  BY <1>8 DEF TickEnd, Truncate
<1>9. CASE PersistEnd
  BY <1>9 DEF PersistEnd
<1>10. ASSUME NEW a \in Actuator, RevertOne(a) PROVE LeaseInv'
  BY <1>10 DEF RevertOne, Reverted, NoLease
<1>11. CASE ShutdownEnd
  BY <1>11 DEF ShutdownEnd, Truncate
<1>12. CASE RecoverEnd
  BY <1>12 DEF RecoverEnd, Truncate
<1>13. CASE Elapse
  BY <1>13, AgedLease DEF Elapse
<1>14. CASE Stop
  BY <1>14 DEF Stop
<1>15. CASE Kill
  BY <1>15 DEF Kill, Nothing, NoLease
<1>16. CASE CleanUp
  BY <1>16 DEF CleanUp
<1>17. CASE Restart
  BY <1>17 DEF Restart, NoLease
<1>18. CASE UNCHANGED vars
  BY <1>18 DEF vars
<1>19. QED
  BY <1>1, <1>2, <1>3, <1>4, <1>5, <1>6, <1>7, <1>8, <1>9, <1>10, <1>11,
     <1>12, <1>13, <1>14, <1>15, <1>16, <1>17, <1>18 DEF Next, Tick

LEMMA LeaseInvBounds ==
  TypeOK /\ LeaseInv => LeaseEndsInTime
BY BeltAssumption DEF TypeOK, Lease, LeaseInv, LeaseEndsInTime, Floor

\* However renewals, refusals, reverts and restarts interleave, a running daemon holds
\* no lease beyond its expiry, the grace period and two sweep intervals
\* (_sweep_expired_armed, _should_skip_rearm, _recover_armed_actions).
THEOREM LeaseEnds == Spec => []LeaseEndsInTime
<1>1. Init => LeaseInv
  BY DEF Init, LeaseInv, On, Nothing, NoLease
<1>2. QED
  BY <1>1, LeaseInvBounds, LeaseStep, TypeCorrect, PTL DEF Spec

-----------------------------------------------------------------------------
\* A step leaves every bias with somebody to revert it, with a logged fault, or with a
\* snapshot that was spoilt while the bias was live.
LEMMA ListStep ==
  ASSUME TypeOK, ListInv, [Next]_vars
  PROVE  ListInv'
<1> USE BeltAssumption DEF TypeOK, Phase, Lease, ListInv, Running, On,
        NoUnexplainedBias, Responsible
<1>1. CASE Sample
  BY <1>1 DEF Sample
<1>2. CASE StartEject
  BY <1>2 DEF StartEject
<1>3. CASE Decide
  BY <1>3 DEF Decide
<1>4. ASSUME NEW v \in Verb, SkipRearm(v) PROVE ListInv'
  BY <1>4 DEF SkipRearm, Turn
<1>5. ASSUME NEW v \in Verb, Apply(v) PROVE ListInv'
  BY <1>5 DEF Apply, Turn, Snapshot, Taken
<1>6. CASE RecordArmed
  BY <1>6 DEF RecordArmed, Truncate
<1>7. CASE RecordError
  BY <1>7 DEF RecordError
<1>8. CASE TickEnd
  BY <1>8 DEF TickEnd, Truncate
<1>9. CASE PersistEnd
  BY <1>9 DEF PersistEnd
<1>10. ASSUME NEW a \in Actuator, RevertOne(a) PROVE ListInv'
  BY <1>10 DEF RevertOne, Reverted, Restored, NoLease
<1>11. CASE ShutdownEnd
  BY <1>11 DEF ShutdownEnd, Truncate
<1>12. CASE RecoverEnd
  BY <1>12 DEF RecoverEnd, Truncate
<1>13. CASE Elapse
  BY <1>13, AgedLease DEF Elapse
<1>14. CASE Stop
  BY <1>14 DEF Stop
<1>15. CASE Kill
  BY <1>15 DEF Kill, Nothing, NoLease, Unlisted
<1>16. CASE CleanUp
  BY <1>16 DEF CleanUp, Nothing, NoLease
<1>17. CASE Restart
  BY <1>17 DEF Restart, NoLease
<1>18. CASE UNCHANGED vars
  BY <1>18 DEF vars
<1>19. QED
  BY <1>1, <1>2, <1>3, <1>4, <1>5, <1>6, <1>7, <1>8, <1>9, <1>10, <1>11,
     <1>12, <1>13, <1>14, <1>15, <1>16, <1>17, <1>18 DEF Next, Tick

\* No bias is ever without an owner but for a fault the code logged and dropped or a
\* snapshot spoilt while the bias was live (re-read without the own-curve guard, lost with
\* the process, or of a misread curve): no interleaving of the tick's steps with kills,
\* cleanup and recovery loses one (_do_apply, run, _ensure_baseline, cleanup.sh).
THEOREM NoBiasLost == Spec => []NoUnexplainedBias
<1>1. Init => ListInv
  BY DEF Init, ListInv, On, Nothing, NoLease, Running, NoUnexplainedBias
<1>2. ListInv => NoUnexplainedBias
  BY DEF ListInv
<1>3. QED
  BY <1>1, <1>2, ListStep, TypeCorrect, PTL DEF Spec

-----------------------------------------------------------------------------
(* The belt implements LeasedHardware.                                     *)

\* Entries of the two maps are leases of their actuator, within their term, or none.
Termed ==
  \A a \in Actuator :
    /\ armed[a] # NoLease => /\ armed[a].verb \in Verb /\ Serves[armed[a].verb] = a
                             /\ armed[a].ttl <= Duration[armed[a].verb]
    /\ disk[a] # NoLease => /\ disk[a].verb \in Verb /\ Serves[disk[a].verb] = a
                            /\ disk[a].ttl <= Duration[disk[a].verb]

\* A running daemon's file has its leases as they are, or lists none.
OnFile ==
  Running =>
    IF phase = "persist" \/ ioError THEN disk = Nothing
    ELSE \A a \in Actuator : On(armed, a) => disk[a] = armed[a]

\* What a revert loop has still to revert is held, and a shutdown leaves nothing out.
Looping ==
  /\ phase \in {"sweep", "eject", "shutdown"} => \A a \in due : On(armed, a)
  /\ phase = "recover" => ~ioError /\ \A a \in due : On(disk, a)
  /\ phase = "shutdown" => \A a \in Actuator : On(armed, a) => a \in due
  /\ phase = "persist" /\ after = "dead" => armed = Nothing

\* A snapshot of a bias is that of a bias in force, so no revert makes a bias.
Snapped ==
  /\ ~Running => base = [a \in Actuator |-> "none"]
  /\ \A a \in Actuator : base[a] = "bias" => hw[a] = "bias"

KeepInv == TypeOK /\ LeaseInv /\ Termed /\ OnFile /\ Looping /\ Snapped

\* Every entry stays a lease of its actuator and within its term.
LEMMA TermedStep ==
  ASSUME TypeOK, Termed, [Next]_vars
  PROVE  Termed'
<1> USE BeltAssumption DEF TypeOK, Phase, Lease, Termed, On, NoLease
<1>1. CASE Sample
  BY <1>1 DEF Sample
<1>2. CASE StartEject
  BY <1>2 DEF StartEject
<1>3. CASE Decide
  BY <1>3 DEF Decide
<1>4. ASSUME NEW v \in Verb, SkipRearm(v) PROVE Termed'
  BY <1>4 DEF SkipRearm, Turn
<1>5. ASSUME NEW v \in Verb, Apply(v) PROVE Termed'
  BY <1>5 DEF Apply, Turn, Snapshot
<1>6. CASE RecordArmed
  BY <1>6 DEF RecordArmed, Truncate, Nothing
<1>7. CASE RecordError
  BY <1>7 DEF RecordError
<1>8. CASE TickEnd
  BY <1>8 DEF TickEnd, Truncate, Nothing
<1>9. CASE PersistEnd
  BY <1>9 DEF PersistEnd
<1>10. ASSUME NEW a \in Actuator, RevertOne(a) PROVE Termed'
  BY <1>10 DEF RevertOne, Reverted, Restored
<1>11. CASE ShutdownEnd
  BY <1>11 DEF ShutdownEnd, Truncate, Nothing
<1>12. CASE RecoverEnd
  BY <1>12 DEF RecoverEnd, Truncate, Nothing
<1>13. CASE Elapse
  BY <1>13, AgedLease DEF Elapse, Aged
<1>14. CASE Stop
  BY <1>14 DEF Stop
<1>15. CASE Kill
  BY <1>15 DEF Kill, Nothing
<1>16. CASE CleanUp
  BY <1>16 DEF CleanUp, Nothing
<1>17. CASE Restart
  BY <1>17 DEF Restart
<1>18. CASE UNCHANGED vars
  BY <1>18 DEF vars
<1>. QED
  BY <1>1, <1>2, <1>3, <1>4, <1>5, <1>6, <1>7, <1>8, <1>9,
     <1>10, <1>11, <1>12, <1>13, <1>14, <1>15, <1>16, <1>17, <1>18 DEF Next, Tick

\* What is on file stays what is armed, until a write begins.
LEMMA OnFileStep ==
  ASSUME TypeOK, Termed, Looping, OnFile, [Next]_vars
  PROVE  OnFile'
<1> USE BeltAssumption DEF TypeOK, Phase, Lease, OnFile, Running, On
<1>1. CASE Sample
  BY <1>1 DEF Sample
<1>2. CASE StartEject
  BY <1>2 DEF StartEject
<1>3. CASE Decide
  BY <1>3 DEF Decide
<1>4. ASSUME NEW v \in Verb, SkipRearm(v) PROVE OnFile'
  BY <1>4 DEF SkipRearm, Turn
<1>5. ASSUME NEW v \in Verb, Apply(v) PROVE OnFile'
  BY <1>5 DEF Apply, Turn, Snapshot
<1>6. CASE RecordArmed
  BY <1>6 DEF RecordArmed, Truncate
<1>7. CASE RecordError
  BY <1>7 DEF RecordError
<1>8. CASE TickEnd
  BY <1>8 DEF TickEnd, Truncate
<1>9. CASE PersistEnd
  BY <1>9 DEF PersistEnd, Nothing, NoLease, Termed
<1>10. ASSUME NEW a \in Actuator, RevertOne(a) PROVE OnFile'
  BY <1>10 DEF RevertOne, Reverted, Restored, NoLease
<1>11. CASE ShutdownEnd
  BY <1>11 DEF ShutdownEnd, Truncate
<1>12. CASE RecoverEnd
  BY <1>12 DEF RecoverEnd, Truncate
<1>13. CASE Elapse
  BY <1>13, AgedLease DEF Elapse, Nothing, NoLease
<1>14. CASE Stop
  BY <1>14 DEF Stop
<1>15. CASE Kill
  BY <1>15 DEF Kill, Nothing
<1>16. CASE CleanUp
  BY <1>16 DEF CleanUp
<1>17. CASE Restart
  BY <1>17 DEF Restart, Nothing, NoLease, Looping
<1>18. CASE UNCHANGED vars
  BY <1>18 DEF vars
<1>. QED
  BY <1>1, <1>2, <1>3, <1>4, <1>5, <1>6, <1>7, <1>8, <1>9,
     <1>10, <1>11, <1>12, <1>13, <1>14, <1>15, <1>16, <1>17, <1>18 DEF Next, Tick

\* The loops' lists stay lists of what is held.
LEMMA LoopingStep ==
  ASSUME TypeOK, Termed, Looping, [Next]_vars
  PROVE  Looping'
<1> USE BeltAssumption DEF TypeOK, Phase, Lease, Looping, On
<1>1. CASE Sample
  BY <1>1 DEF Sample
<1>2. CASE StartEject
  BY <1>2 DEF StartEject
<1>3. CASE Decide
  BY <1>3 DEF Decide
<1>4. ASSUME NEW v \in Verb, SkipRearm(v) PROVE Looping'
  BY <1>4 DEF SkipRearm, Turn
<1>5. ASSUME NEW v \in Verb, Apply(v) PROVE Looping'
  BY <1>5 DEF Apply, Turn, Snapshot
<1>6. CASE RecordArmed
  BY <1>6 DEF RecordArmed, Truncate
<1>7. CASE RecordError
  BY <1>7 DEF RecordError
<1>8. CASE TickEnd
  BY <1>8 DEF TickEnd, Truncate
<1>9. CASE PersistEnd
  BY <1>9 DEF PersistEnd
<1>10. ASSUME NEW a \in Actuator, RevertOne(a) PROVE Looping'
  BY <1>10 DEF RevertOne, Reverted, Restored, NoLease
<1>11. CASE ShutdownEnd
  BY <1>11 DEF ShutdownEnd, Truncate, Termed, Nothing, NoLease
<1>12. CASE RecoverEnd
  BY <1>12 DEF RecoverEnd, Truncate
<1>13. CASE Elapse
  BY <1>13, AgedLease DEF Elapse, Running
<1>14. CASE Stop
  BY <1>14 DEF Stop
<1>15. CASE Kill
  BY <1>15 DEF Kill
<1>16. CASE CleanUp
  BY <1>16 DEF CleanUp
<1>17. CASE Restart
  BY <1>17 DEF Restart
<1>18. CASE UNCHANGED vars
  BY <1>18 DEF vars
<1>. QED
  BY <1>1, <1>2, <1>3, <1>4, <1>5, <1>6, <1>7, <1>8, <1>9,
     <1>10, <1>11, <1>12, <1>13, <1>14, <1>15, <1>16, <1>17, <1>18 DEF Next, Tick

\* Snapshots stay snapshots of what is on the hardware, where they are of a bias.
LEMMA SnappedStep ==
  ASSUME TypeOK, Snapped, [Next]_vars
  PROVE  Snapped'
<1> USE DEF TypeOK, Phase, Snapped, Running
<1>1. CASE Sample
  BY <1>1 DEF Sample
<1>2. CASE StartEject
  BY <1>2 DEF StartEject
<1>3. CASE Decide
  BY <1>3 DEF Decide
<1>4. ASSUME NEW v \in Verb, SkipRearm(v) PROVE Snapped'
  BY <1>4 DEF SkipRearm, Turn
<1>5. ASSUME NEW v \in Verb, Apply(v) PROVE Snapped'
  BY <1>5 DEF Apply, Turn, Snapshot
<1>6. CASE RecordArmed
  BY <1>6 DEF RecordArmed, Truncate
<1>7. CASE RecordError
  BY <1>7 DEF RecordError
<1>8. CASE TickEnd
  BY <1>8 DEF TickEnd, Truncate
<1>9. CASE PersistEnd
  BY <1>9 DEF PersistEnd
<1>10. ASSUME NEW a \in Actuator, RevertOne(a) PROVE Snapped'
  BY <1>10 DEF RevertOne, Reverted, Restored
<1>11. CASE ShutdownEnd
  BY <1>11 DEF ShutdownEnd, Truncate
<1>12. CASE RecoverEnd
  BY <1>12 DEF RecoverEnd, Truncate
<1>13. CASE Elapse
  BY <1>13, AgedLease DEF Elapse
<1>14. CASE Stop
  BY <1>14 DEF Stop
<1>15. CASE Kill
  BY <1>15 DEF Kill
<1>16. CASE CleanUp
  BY <1>16 DEF CleanUp
<1>17. CASE Restart
  BY <1>17 DEF Restart
<1>18. CASE UNCHANGED vars
  BY <1>18 DEF vars
<1>. QED
  BY <1>1, <1>2, <1>3, <1>4, <1>5, <1>6, <1>7, <1>8, <1>9,
     <1>10, <1>11, <1>12, <1>13, <1>14, <1>15, <1>16, <1>17, <1>18 DEF Next, Tick

LEMMA InitKeeps ==
  Init => KeepInv
<1> SUFFICES ASSUME Init PROVE KeepInv
  OBVIOUS
<1>1. TypeOK
  BY InitTypes
<1>2. LeaseInv /\ Termed /\ OnFile /\ Looping /\ Snapped
  BY DEF Init, LeaseInv, Termed, OnFile, Looping, Snapped, On, Nothing, NoLease, Running
<1>. QED
  BY <1>1, <1>2 DEF KeepInv

\* The initial states are those of the promise.
LEMMA InitRefines ==
  Init => Leased!Init
BY DEF Init, Leased!Init, Leased!Nothing, Leased!NoLease, Answering, Nothing, NoLease, Running

\* What answers is typed, and held where a map says so.
LEMMA AnswerIs ==
  ASSUME TypeOK
  PROVE  /\ Answering \in [Actuator -> Lease]
         /\ \A a \in Actuator :
              /\ Answering[a] = IF Running /\ ~(phase = "recover" /\ a \in due)
                                THEN armed[a] ELSE disk[a]
              /\ Leased!On(a) <=> On(Answering, a)
BY DEF TypeOK, Answering, Leased!On, On

\* Every step of the belt is one of the promise, or none of its business.
LEMMA StepRefines ==
  ASSUME KeepInv, KeepInv', [Next]_vars
  PROVE  [Leased!Next]_(Leased!vars)
<1> USE DEF Leased!Next, Leased!vars, Running
<1>0. /\ TypeOK /\ Termed /\ OnFile /\ Looping /\ Snapped
      /\ TypeOK' /\ LeaseInv' /\ Termed' /\ OnFile' /\ Looping'
  BY DEF KeepInv
<1>1. CASE Sample \/ StartEject \/ Decide \/ (\E v \in Verb : SkipRearm(v)) \/ Stop \/ UNCHANGED vars
  BY <1>1 DEF Sample, StartEject, Decide, SkipRearm, Turn, Stop, vars, Answering
<1>2. ASSUME NEW v \in Verb, Apply(v) PROVE Leased!Ask(v)
  <2>1. /\ phase = "route" /\ phase' = "apply" /\ doing'.verb = v
        /\ UNCHANGED <<due, armed, disk, ioError>>
        /\ ~RearmTooSoon(Serves[v])
    BY <1>0, <1>2 DEF Apply, Turn, TypeOK
  <2>4. hw' = hw \/ hw' = [hw EXCEPT ![Serves[v]] = "bias"]
    <3>1. PICK touch \in BOOLEAN :
            hw' = [hw EXCEPT ![Serves[v]] = IF touch THEN "bias" ELSE @]
      BY <1>2 DEF Apply
    <3>2. CASE touch
      BY <3>1, <3>2
    <3>3. CASE ~touch
      BY <1>0, <3>1, <3>3 DEF TypeOK
    <3>. QED
      BY <3>2, <3>3
  <2>2. Answering' = Answering /\ Answering[Serves[v]] = armed[Serves[v]]
    BY <2>1, BeltAssumption DEF Answering
  <2>3. {a \in Actuator : hw'[a] = "bias"} \in
          {{a \in Actuator : hw[a] = "bias"}, {a \in Actuator : hw[a] = "bias"} \cup {Serves[v]}}
    BY <1>0, <2>4, BeltAssumption DEF TypeOK
  <2>. QED
    BY <2>1, <2>2, <2>3 DEF Leased!Ask, Leased!On, RearmTooSoon, On
<1>3. CASE RecordArmed
  <2>1. /\ phase = "apply" /\ phase' = "persist" /\ doing.verb \in Verb
        /\ armed' = [armed EXCEPT ![Serves[doing.verb]] =
                       [verb |-> doing.verb, ttl |-> Duration[doing.verb]]]
        /\ UNCHANGED <<due, hw>>
    BY <1>0, <1>3 DEF RecordArmed, Truncate, TypeOK
  <2>2. Answering = armed /\ Answering' = armed'
    BY <1>0, <2>1 DEF Answering, TypeOK
  <2>. QED
    BY <2>1, <2>2, BeltAssumption DEF Leased!Grant
<1>4. CASE RecordError
  <2>1. /\ phase = "apply" /\ phase' = "route" /\ doing.verb \in Verb
        /\ UNCHANGED <<due, armed, disk, hw, ioError>>
    BY <1>0, <1>4 DEF RecordError, TypeOK
  <2>. QED
    BY <2>1, BeltAssumption DEF Leased!Refuse, Answering
<1>5. CASE TickEnd \/ ShutdownEnd \/ RecoverEnd
  <2>1. /\ phase \in {"route", "shutdown", "recover"} /\ phase' = "persist"
        /\ phase = "recover" => due = {}
        /\ UNCHANGED <<due, armed, hw, ioError>>
    BY <1>5 DEF TickEnd, ShutdownEnd, RecoverEnd, Truncate
  <2>2. Answering' = Answering
    BY <2>1 DEF Answering
  <2>. QED
    BY <1>0, <2>1, <2>2 DEF Leased!Save, TypeOK
<1>6. CASE PersistEnd
  <2>1. phase = "persist" /\ phase' = after /\ UNCHANGED <<due, armed, hw>>
    BY <1>6 DEF PersistEnd
  <2>2. CASE after = "dead"
    <3>1. armed = Nothing /\ disk' = Nothing
      BY <1>0, <1>6, <2>1, <2>2 DEF PersistEnd, Looping, OnFile
    <3>2. Answering = Nothing /\ Answering' = Nothing
      BY <2>1, <2>2, <3>1 DEF Answering, Nothing
    <3>. QED
      BY <2>1, <2>2, <3>2 DEF Leased!Stop, Leased!Nothing, Leased!NoLease, Nothing, NoLease
  <2>3. CASE after \in {"sample", "route"}
    <3>1. Answering' = Answering
      BY <2>1, <2>3 DEF Answering
    <3>. QED
      BY <1>0, <2>1, <2>3, <3>1 DEF Leased!Save, TypeOK
  <2>. QED
    BY <1>0, <2>2, <2>3 DEF TypeOK
<1>7. ASSUME NEW a \in Actuator, RevertOne(a) PROVE Leased!End(a)
  <2>1. /\ phase \in {"sweep", "eject", "shutdown", "recover"} /\ phase' = phase
        /\ a \in due /\ due' = due \ {a}
        /\ armed' = [armed EXCEPT ![a] = NoLease] /\ UNCHANGED <<disk, ioError>>
    BY <1>7 DEF RevertOne
  <2>2. Answering' = [Answering EXCEPT ![a] = NoLease]
    <3>1. \A b \in Actuator : Answering'[b] = IF b = a THEN NoLease ELSE Answering[b]
      BY <1>0, <2>1 DEF Answering, TypeOK
    <3>. QED
      BY <3>1 DEF Answering
  <2>3. On(Answering, a)
    BY <1>0, <2>1 DEF Answering, Looping, On
  <2>4. {b \in Actuator : hw'[b] = "bias"} \in
          {{b \in Actuator : hw[b] = "bias"}, {b \in Actuator : hw[b] = "bias"} \ {a}}
    BY <1>0, <1>7 DEF RevertOne, Reverted, Restored, Snapped, TypeOK
  <2>. QED
    BY <1>0, <2>1, <2>2, <2>3, <2>4 DEF Leased!End, Leased!On, Leased!NoLease, NoLease, On
<1>8. CASE Elapse
  <2>1. /\ phase' = phase /\ phase # "apply" /\ UNCHANGED <<due, ioError, hw>>
        /\ armed' = [a \in Actuator |-> IF On(armed, a) THEN Aged(armed[a]) ELSE armed[a]]
        /\ disk' = [a \in Actuator |-> IF On(disk, a) THEN Aged(disk[a]) ELSE disk[a]]
    BY <1>0, <1>8 DEF Elapse
  <2>2. \A a \in Actuator :
          Answering'[a] = IF On(Answering, a) THEN Aged(Answering[a]) ELSE Answering[a]
    BY <2>1 DEF Answering, On
  <2>3. \A a \in Actuator :
          Answering'[a] = IF Leased!On(a) /\ Answering[a].ttl >= Floor
                          THEN [Answering[a] EXCEPT !.ttl = @ - 1] ELSE Answering[a]
    BY <1>0, <2>2, AnswerIs DEF Aged, Lease
  <2>4. Running => \A a \in Actuator \ (IF phase = "recover" THEN due ELSE {}) :
          Leased!On(a) => Answering'[a].ttl >= Floor
    <3>1. (TypeOK /\ LeaseInv => LeaseEndsInTime)'
      BY LeaseInvBounds, PTL
    <3>2. LeaseEndsInTime'
      BY <1>0, <3>1
    <3> SUFFICES ASSUME Running, NEW a \in Actuator, phase = "recover" => a \notin due,
                        Leased!On(a)
                 PROVE  Answering'[a].ttl >= Floor
      BY <2>1
    <3>3. Answering[a] = armed[a] /\ Answering'[a] = armed'[a] /\ On(armed, a)
      BY <1>0, <2>1, AnswerIs DEF Answering, On
    <3>4. armed[a] \in Lease /\ armed'[a] = Aged(armed[a])
      BY <1>0, <2>1, <3>3 DEF TypeOK
    <3>5. On(armed', a)
      BY <3>3, <3>4, AgedLease DEF On
    <3>. QED
      BY <2>1, <3>2, <3>3, <3>5 DEF LeaseEndsInTime, On
  <2>. QED
    BY <2>1, <2>3, <2>4 DEF Leased!Elapse, Answering
<1>9. CASE Kill
  <2>1. /\ Running /\ ~Running' /\ UNCHANGED <<disk, hw>> /\ phase' = "dead"
    BY <1>9 DEF Kill
  <2>2. Answering' = disk
    BY <1>0, <2>1 DEF Answering, TypeOK
  <2>3. ASSUME NEW a \in Actuator
        PROVE  IF ~(phase # "persist" /\ ~ioError) THEN disk[a] = NoLease
               ELSE IF Leased!On(a) THEN disk[a] = Answering[a]
               ELSE disk[a] \in Leased!Terms(a) \cup {NoLease}
    <3>1. CASE ~(phase # "persist" /\ ~ioError)
      BY <1>0, <2>1, <3>1 DEF OnFile, Nothing
    <3>2. CASE phase # "persist" /\ ~ioError /\ Leased!On(a)
      BY <1>0, <2>1, <3>2, AnswerIs DEF OnFile, On
    <3>3. disk[a] \in Leased!Terms(a) \cup {NoLease}
      BY <1>0 DEF Termed, TypeOK, Lease, Leased!Terms
    <3>. QED
      BY <3>1, <3>2, <3>3
  <2>. QED
    BY <1>0, <2>1, <2>2, <2>3 DEF Leased!Die, Leased!NoLease, NoLease, TypeOK
<1>10. CASE CleanUp
  <2>1. ~Running /\ ~Running' /\ UNCHANGED <<ioError, due>>
    BY <1>10 DEF CleanUp
  <2>2. Answering = disk /\ Answering' = disk'
    BY <1>0, <2>1 DEF Answering, TypeOK
  <2>3. CASE UNCHANGED <<hw, disk>>
    BY <2>1, <2>2, <2>3
  <2>4. CASE disk' = Nothing /\ \A a \in Actuator : hw'[a] = "bias" => hw[a] = "bias"
    BY <2>1, <2>2, <2>4 DEF Leased!CleanUp, Leased!Nothing, Leased!NoLease, Nothing, NoLease
  <2>5. \/ UNCHANGED <<hw, disk>>
        \/ disk' = Nothing /\ \A a \in Actuator : hw'[a] = "bias" => hw[a] = "bias"
    BY <1>10 DEF CleanUp
  <2>. QED
    BY <2>3, <2>4, <2>5
<1>11. CASE Restart
  <2>1. /\ ~Running /\ Running' /\ UNCHANGED <<disk, hw>> /\ ~ioError'
        /\ phase' \in {"sample", "recover"}
        /\ due' = {a \in Actuator : On(disk, a) /\ ~(disk[a].ttl >= Recover)}
        /\ armed' = [a \in Actuator |->
                       IF On(disk, a) /\ disk[a].ttl >= Recover THEN disk[a] ELSE NoLease]
        /\ phase' = "sample" => \A a \in Actuator : ~On(disk, a)
    BY <1>11 DEF Restart
  <2>2. Answering = disk
    BY <1>0, <2>1 DEF Answering, TypeOK
  <2>3. Answering' = disk
    <3>1. \A a \in Actuator : Answering'[a] = disk[a]
      BY <1>0, <2>1, BeltAssumption DEF Answering, Termed, On, NoLease
    <3>. QED
      BY <1>0, <3>1 DEF Answering, TypeOK
  <2>4. (IF phase' = "recover" THEN due' ELSE {})
          = {a \in Actuator : Leased!On(a) /\ Answering[a].ttl < Recover}
    BY <1>0, <2>1, <2>2, AnswerIs, BeltAssumption DEF On, TypeOK, Lease
  <2>. QED
    BY <2>1, <2>2, <2>3, <2>4 DEF Leased!Start
<1>. QED
  BY <1>1, <1>2, <1>3, <1>4, <1>5, <1>6, <1>7, <1>8, <1>9, <1>10, <1>11 DEF Next, Tick

\* Sweep, eject, routing, persist, shutdown, cleanup and recovery, with a kill between any
\* two steps, implement LeasedHardware: a lease is granted to who may have one, ended in
\* time, and neither forgotten nor prolonged by a death (the belt of run(),
\* _recover_armed_actions and coolstep-cleanup.sh).
THEOREM BeltHonoursLeases == Spec => LeasesHonoured
<1>1. KeepInv /\ [Next]_vars => KeepInv'
  BY NextTypes, LeaseStep, TermedStep, OnFileStep, LoopingStep, SnappedStep DEF KeepInv
<1>2. KeepInv /\ KeepInv' /\ [Next]_vars => [Leased!Next]_(Leased!vars)
  BY StepRefines
<1>. QED
  BY <1>1, <1>2, InitKeeps, InitRefines, PTL DEF Spec, LeasesHonoured, Leased!Spec
=============================================================================
