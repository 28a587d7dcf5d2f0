----------------------------- MODULE LedgerProofs -----------------------------
(***************************************************************************)
(* What holds of the ledger for any length of day, any times to live and   *)
(* any number of days.  Kept says which frames the ledger accounts for,    *)
(* Recoverable which days may still be rolled up again.                    *)
(***************************************************************************)
EXTENDS Ledger, TLAPS

\* Every frame of a day before the bound is counted, unless it came late.
Kept(bound) ==
  \A f \in frames : DayOf[f] < bound => Counted(f) \/ f \in late

\* No row was stored for the days between the mark and the bound, but for those cut.
NoRows(bound) ==
  \A d \in Day \ cut : done < d /\ d < bound => rows[d].frames = {}

\* The running roll-up goes over complete days after the mark, in order.
InOrder ==
  /\ done < DayOf[now]
  /\ rot.step # "idle" => rot.at <= now
  /\ rot.step \in {"rows", "mark"} =>
       done < rot.day /\ rot.day < DayOf[rot.at] /\ ~rot.failed

\* Days up to the mark are accounted for, and so are those the roll-up has passed.
KeptInv ==
  /\ Kept(done + 1)
  /\ rot.step = "rows" => Kept(rot.day)
  /\ rot.step = "mark" => Kept(rot.day + 1)
  /\ rot.step \in {"pause", "evict"} /\ ~rot.failed => Kept(DayOf[rot.at])

\* A row counts frames of its own day; while the day may be rolled up again they are
\* still in the table.
Recoverable ==
  /\ \A d \in Day : rows[d].frames \subseteq {t \in Time : DayOf[t] = d}
  /\ \A d \in Day \ cut : done < d => rows[d].frames \subseteq frames
  /\ rot.step \in {"rows", "mark"} => NoRows(rot.day)
  /\ rot.step \in {"pause", "evict"} /\ ~rot.failed => NoRows(DayOf[rot.at])

LedgerInv == TypeOK /\ InOrder /\ KeptInv /\ Recoverable

-----------------------------------------------------------------------------
(* Operators.                                                              *)

\* The roll-up begins at the first frame's day or after the mark, whichever is later.
LEMMA StartDayIs ==
  ASSUME TypeOK, NEW first \in frames
  PROVE  /\ StartDay(first) \in {DayOf[first], done + 1}
         /\ DayOf[first] <= StartDay(first) /\ done < StartDay(first)
         /\ StartDay(first) \in Nat
<1> USE LedgerAssumption DEF Time
<1>1. first \in Time /\ DayOf[first] \in Nat /\ done + 1 \in Nat
  BY DEF TypeOK
<1> DEFINE a == DayOf[first]  b == done + 1
<1>2. \E x \in {a, b} : \A y \in {a, b} : x >= y
  BY <1>1
<1>3. /\ StartDay(first) \in {a, b}
      /\ \A y \in {a, b} : StartDay(first) >= y
  BY <1>2 DEF StartDay, Max
<1>. QED
  BY <1>1, <1>3 DEF TypeOK

\* A frame stamped on a day before the clock's is late if it is stored now.
LEMMA StoredLate ==
  ASSUME TypeOK, NEW f \in Stored, DayOf[f] < DayOf[now]
  PROVE  f \in Belated(Stored)
BY DEF Belated

\* What a dead or a living tick stores are timestamps.
LEMMA StoredTimes ==
  ASSUME TypeOK
  PROVE  Stored \subseteq Time
BY DEF TypeOK, Stored

LEMMA EpisodeTimes ==
  ASSUME TypeOK
  PROVE  Episode \subseteq Time
BY DEF TypeOK, Episode

-----------------------------------------------------------------------------
(* Types.                                                                  *)

LEMMA InitTypes ==
  Init => TypeOK
BY LedgerAssumption DEF Init, TypeOK, NoTick, NoStart, NoRow, Idle, Time, Day

LEMMA NextTypes ==
  TypeOK /\ [Next]_vars => TypeOK'
<1> SUFFICES ASSUME TypeOK, [Next]_vars PROVE TypeOK'
  OBVIOUS
<1> USE LedgerAssumption DEF Time
<1>1. CASE Clock
  BY <1>1 DEF TypeOK, Clock
<1>2. CASE TickStart
  BY <1>2 DEF TypeOK, TickStart
<1>3. ASSUME NEW r \in Reading, TickEnd(r) PROVE TypeOK'
  <2>1. tick' \in [on : BOOLEAN, stamp : Time] /\ start' \in Time \cup {NoStart}
    BY <1>3 DEF TypeOK, TickEnd, NoTick, NoStart
  <2>2. frames' \subseteq Time /\ late' \subseteq Time
    BY <1>3, StoredTimes DEF TypeOK, TickEnd, Belated
  <2>3. events' \subseteq Time
    <3>1. PICK row \in {{}, IF Closes(r) THEN Episode ELSE {}} : events' = events \cup row
      BY <1>3 DEF TickEnd
    <3>2. row \subseteq Time
      BY <3>1, EpisodeTimes
    <3>. QED
      BY <3>1, <3>2 DEF TypeOK
  <2>. QED
    BY <1>3, <2>1, <2>2, <2>3 DEF TypeOK, TickEnd
<1>4. CASE RotateStart
  <2>1. CASE frames = {} /\ rot' = [Idle EXCEPT !.step = "pause", !.at = now]
    BY <1>4, <2>1 DEF TypeOK, RotateStart, Idle
  <2>2. ASSUME NEW first \in frames,
               rot' = [step |-> IF StartDay(first) < DayOf[now] THEN "rows" ELSE "pause",
                       at |-> now, day |-> StartDay(first), failed |-> FALSE]
        PROVE  TypeOK'
    BY <1>4, <2>2, StartDayIs DEF TypeOK, RotateStart
  <2>. QED
    BY <1>4, <2>1, <2>2 DEF RotateStart
<1>5. CASE RollDay
  <2>1. Of(rot.day, frames) \subseteq Time /\ Of(rot.day, events) \subseteq Time
    BY DEF TypeOK, Of
  <2>2. rows' \in [Day -> [frames : SUBSET Time, throttles : SUBSET Time]]
    BY <1>5, <2>1 DEF TypeOK, RollDay
  <2>. QED
    BY <1>5, <2>2 DEF TypeOK, RollDay
<1>6. CASE RollMark
  <2>1. Loop(rot.day + 1) \in {"rows", "pause"} /\ rot.day \in Nat
    BY DEF TypeOK, Loop
  <2>2. rot' \in [step : {"idle", "rows", "mark", "pause", "evict"}, at : Time,
                 day : Nat, failed : BOOLEAN]
    <3>1. rot' = [step |-> Loop(rot.day + 1), at |-> rot.at, day |-> rot.day + 1,
                  failed |-> rot.failed]
      BY <1>6 DEF TypeOK, RollMark
    <3>. QED
      BY <2>1, <3>1 DEF TypeOK
  <2>. QED
    BY <1>6, <2>1, <2>2 DEF TypeOK, RollMark
<1>7. CASE RollFails
  BY <1>7 DEF TypeOK, RollFails
<1>8. CASE Pause
  BY <1>8 DEF TypeOK, Pause
<1>9. CASE Evict
  <2>1. cut' \subseteq Nat
    <3>1. {DayOf[f] : f \in frames \ frames'} \subseteq Nat
      BY DEF TypeOK
    <3>. QED
      BY <1>9, <3>1 DEF TypeOK, Evict
  <2>2. frames' \subseteq Time /\ events' \subseteq Time
    BY <1>9 DEF TypeOK, Evict
  <2>. QED
    BY <1>9, <2>1, <2>2 DEF TypeOK, Evict, Idle
<1>10. CASE EvictFails
  BY <1>10 DEF TypeOK, EvictFails, Idle
<1>11. CASE Stop
  <2>1. tick' \in [on : BOOLEAN, stamp : Time] /\ start' \in Time \cup {NoStart}
    BY <1>11 DEF TypeOK, Stop, NoTick, NoStart
  <2>2. PICK stored \in {{}, Stored}, row \in {{}, Episode} :
          /\ frames' = frames \cup stored
          /\ events' = events \cup row
          /\ late' = late \cup Belated(stored)
    BY <1>11 DEF Stop
  <2>3. stored \subseteq Time /\ row \subseteq Time
    BY StoredTimes, EpisodeTimes
  <2>4. frames' \subseteq Time /\ events' \subseteq Time /\ late' \subseteq Time
    BY <2>2, <2>3 DEF TypeOK, Belated
  <2>. QED
    <3>1. /\ rot' = Idle /\ up' = FALSE
          /\ UNCHANGED <<now, rows, done, cut>>
      BY <1>11 DEF Stop
    <3>2. Idle \in [step : {"idle", "rows", "mark", "pause", "evict"}, at : Time,
                   day : Nat, failed : BOOLEAN]
      BY DEF Idle
    <3>. QED
      BY <2>1, <2>4, <3>1, <3>2 DEF TypeOK
<1>12. CASE Restart
  BY <1>12 DEF TypeOK, Restart
<1>13. CASE UNCHANGED vars
  BY <1>13 DEF TypeOK, vars
<1>. QED
  BY <1>1, <1>2, <1>3, <1>4, <1>5, <1>6, <1>7, <1>8, <1>9, <1>10, <1>11, <1>12, <1>13
     DEF Next

\* Every reachable state of the store and its rotation is well typed.
THEOREM TypeCorrect == Spec => []TypeOK
<1>1. Init => TypeOK
  BY InitTypes
<1>2. TypeOK /\ [Next]_vars => TypeOK'
  BY NextTypes
<1>. QED
  BY <1>1, <1>2, PTL DEF Spec

-----------------------------------------------------------------------------
(* The roll-up goes over complete days, in order.                          *)

LEMMA NextInOrder ==
  TypeOK /\ InOrder /\ [Next]_vars => InOrder'
<1> SUFFICES ASSUME TypeOK, InOrder, [Next]_vars PROVE InOrder'
  OBVIOUS
<1> USE LedgerAssumption DEF Time, InOrder
<1>1. CASE Clock
  <2>1. now \in Time /\ now' \in Time /\ now <= now'
    BY <1>1 DEF TypeOK, Clock
  <2>2. DayOf[now] <= DayOf[now'] /\ DayOf[now] \in Nat /\ DayOf[now'] \in Nat
    BY <2>1
  <2>. QED
    BY <1>1, <2>1, <2>2 DEF TypeOK, Clock
<1>2. CASE RotateStart
  <2>1. ASSUME frames = {}, rot' = [Idle EXCEPT !.step = "pause", !.at = now]
        PROVE  InOrder'
    BY <1>2, <2>1 DEF TypeOK, RotateStart, Idle
  <2>2. ASSUME NEW first \in frames,
               rot' = [step |-> IF StartDay(first) < DayOf[now] THEN "rows" ELSE "pause",
                       at |-> now, day |-> StartDay(first), failed |-> FALSE]
        PROVE  InOrder'
    BY <1>2, <2>2, StartDayIs DEF TypeOK, RotateStart
  <2>. QED
    BY <1>2, <2>1, <2>2 DEF RotateStart
<1>3. CASE RollMark
  <2>1. rot.day < DayOf[rot.at] /\ DayOf[rot.at] <= DayOf[now]
    BY <1>3 DEF TypeOK, RollMark
  <2>2. /\ done' = rot.day /\ now' = now
        /\ rot' = [step |-> Loop(rot.day + 1), at |-> rot.at, day |-> rot.day + 1,
                   failed |-> rot.failed]
    BY <1>3 DEF TypeOK, RollMark
  <2>3. Loop(rot.day + 1) = "rows" => rot.day + 1 < DayOf[rot.at]
    BY DEF Loop, MoreDays
  <2>4. Loop(rot.day + 1) \in {"rows", "pause"}
    BY DEF Loop
  <2>. QED
    BY <1>3, <2>1, <2>2, <2>3, <2>4 DEF TypeOK, RollMark
<1>4. CASE RollDay
  BY <1>4 DEF TypeOK, RollDay
<1>5. CASE RollFails
  BY <1>5 DEF TypeOK, RollFails
<1>6. CASE Pause
  BY <1>6 DEF TypeOK, Pause
<1>7. CASE Evict
  BY <1>7 DEF TypeOK, Evict, Idle
<1>8. CASE EvictFails
  BY <1>8 DEF TypeOK, EvictFails, Idle
<1>9. CASE Stop
  BY <1>9 DEF Stop, Idle
<1>10. CASE TickStart
  BY <1>10 DEF TickStart
<1>11. ASSUME NEW r \in Reading, TickEnd(r) PROVE InOrder'
  BY <1>11 DEF TickEnd
<1>12. CASE Restart
  BY <1>12 DEF Restart
<1>13. CASE UNCHANGED vars
  BY <1>13 DEF vars
<1>. QED
  BY <1>1, <1>2, <1>3, <1>4, <1>5, <1>6, <1>7, <1>8, <1>9, <1>10, <1>11, <1>12, <1>13
     DEF Next

\* How far the running roll-up and the mark are behind the clock's day.
LEMMA BehindToday ==
  ASSUME TypeOK, InOrder
  PROVE  /\ done + 1 <= DayOf[now]
         /\ rot.step # "idle" => DayOf[rot.at] <= DayOf[now]
         /\ rot.step \in {"rows", "mark"} => rot.day + 1 <= DayOf[now]
<1> USE LedgerAssumption DEF Time
<1>1. rot.step # "idle" => DayOf[rot.at] <= DayOf[now]
  BY DEF TypeOK, InOrder
<1>2. DayOf[now] \in Nat /\ DayOf[rot.at] \in Nat /\ rot.day \in Nat /\ done \in Int
  BY DEF TypeOK
<1>. QED
  BY <1>1, <1>2, SMTT(30) DEF InOrder

-----------------------------------------------------------------------------
(* The frames of past days are counted.                                    *)

\* Frames that are stored now disturb no account of the days before today's.
LEMMA KeptGrows ==
  ASSUME TypeOK, NEW b \in Int, b <= DayOf[now], Kept(b),
         NEW stored \in {{}, Stored},
         frames' = frames \cup stored, late' = late \cup Belated(stored), rows' = rows
  PROVE  \A f \in frames' : DayOf[f] < b => f \in rows'[DayOf[f]].frames \/ f \in late'
<1> SUFFICES ASSUME NEW f \in frames', DayOf[f] < b
             PROVE  f \in rows[DayOf[f]].frames \/ f \in late'
  OBVIOUS
<1>1. CASE f \in frames
  BY <1>1 DEF Kept, Counted
<1>2. CASE f \in stored
  <2>1. f \in Time /\ now \in Time
    BY <1>2, StoredTimes DEF TypeOK
  <2>2. DayOf[f] < DayOf[now]
    BY <2>1, LedgerAssumption DEF Time
  <2>. QED
    BY <1>2, <2>2 DEF Belated
<1>. QED
  BY <1>1, <1>2

\* The same for a step of the daemon that may leave rotate() alone or end it.
LEMMA StoringKept ==
  ASSUME TypeOK, InOrder, KeptInv,
         NEW stored \in {{}, Stored},
         frames' = frames \cup stored, late' = late \cup Belated(stored),
         rows' = rows, done' = done, rot' \in {rot, Idle}
  PROVE  KeptInv'
<1>1. rot.day \in Nat /\ done \in Int /\ DayOf[rot.at] \in Nat /\ DayOf[now] \in Nat
  BY LedgerAssumption DEF TypeOK, Time
<1>2. Kept(done + 1)'
  BY <1>1, KeptGrows, BehindToday DEF KeptInv, Kept, Counted
<1>3. CASE rot' = rot
  <2>1. rot.step = "rows" => Kept(rot.day)'
    <3>1. rot.step = "rows" => rot.day <= DayOf[now]
      BY <1>1, BehindToday
    <3>. QED
      BY <1>1, <1>3, <3>1, KeptGrows DEF KeptInv, Kept, Counted
  <2>2. rot.step = "mark" => Kept(rot.day + 1)'
    BY <1>1, <1>3, KeptGrows, BehindToday DEF KeptInv, Kept, Counted
  <2>3. rot.step \in {"pause", "evict"} /\ ~rot.failed => Kept(DayOf[rot.at])'
    BY <1>1, <1>3, KeptGrows, BehindToday DEF KeptInv, Kept, Counted
  <2>. QED
    BY <1>2, <1>3, <2>1, <2>2, <2>3 DEF KeptInv
<1>4. CASE rot' = Idle
  BY <1>2, <1>4 DEF KeptInv, Idle
<1>. QED
  BY <1>3, <1>4

LEMMA NextKept ==
  TypeOK /\ InOrder /\ KeptInv /\ [Next]_vars => KeptInv'
<1> SUFFICES ASSUME TypeOK, InOrder, KeptInv, [Next]_vars PROVE KeptInv'
  OBVIOUS
<1>0. /\ rot.day \in Nat /\ done \in Int /\ DayOf[rot.at] \in Nat /\ DayOf[now] \in Nat
      /\ \A f \in frames : f \in Time /\ DayOf[f] \in Nat /\ DayOf[f] \in Day
  BY LedgerAssumption DEF TypeOK, Time, Day
<1>1. ASSUME NEW r \in Reading, TickEnd(r) PROVE KeptInv'
  BY <1>1, StoringKept DEF TickEnd
<1>2. CASE Stop
  <2>1. PICK stored \in {{}, Stored} :
          frames' = frames \cup stored /\ late' = late \cup Belated(stored)
    BY <1>2 DEF Stop
  <2>2. rows' = rows /\ done' = done /\ rot' = Idle
    BY <1>2 DEF Stop
  <2>. QED
    BY <2>1, <2>2, StoringKept
<1>3. CASE RotateStart
  <2>1. UNCHANGED <<frames, late, rows, done>>
    BY <1>3 DEF RotateStart
  <2>2. Kept(done + 1)'
    BY <2>1 DEF KeptInv, Kept, Counted
  <2>3. ASSUME frames = {}, rot' = [Idle EXCEPT !.step = "pause", !.at = now]
        PROVE  KeptInv'
    BY <2>1, <2>2, <2>3 DEF KeptInv, Kept, Idle
  <2>4. ASSUME NEW first \in frames, \A f \in frames : first <= f,
               rot' = [step |-> IF StartDay(first) < DayOf[now] THEN "rows" ELSE "pause",
                       at |-> now, day |-> StartDay(first), failed |-> FALSE]
        PROVE  KeptInv'
    <3>1. ASSUME NEW f \in frames, DayOf[f] < StartDay(first)
          PROVE  Counted(f) \/ f \in late
      <4>1. DayOf[first] <= DayOf[f]
        BY <1>0, <2>4, LedgerAssumption DEF Time
      <4>2. DayOf[f] < done + 1
        BY <1>0, <3>1, <4>1, StartDayIs
      <4>. QED
        BY <4>2 DEF KeptInv, Kept
    <3>2. ~(StartDay(first) < DayOf[now]) => DayOf[now] <= StartDay(first)
      BY <1>0, StartDayIs
    <3>3. Kept(StartDay(first))
      BY <3>1 DEF Kept
    <3>4. ~(StartDay(first) < DayOf[now]) => Kept(DayOf[now])
      BY <1>0, <3>2, <3>3, StartDayIs DEF Kept
    <3>. QED
      BY <2>1, <2>2, <2>4, <3>3, <3>4 DEF KeptInv, Kept, Counted
  <2>. QED
    BY <1>3, <2>3, <2>4 DEF RotateStart
<1>4. CASE RollDay
  <2>1. /\ rot.step = "rows" /\ done < rot.day /\ Kept(rot.day)
        /\ rot' = [rot EXCEPT !.step = "mark"]
        /\ UNCHANGED <<frames, late, done>>
    BY <1>4 DEF RollDay, InOrder, KeptInv
  <2>2. ASSUME NEW f \in frames, DayOf[f] # rot.day
        PROVE  rows'[DayOf[f]] = rows[DayOf[f]]
    BY <1>0, <1>4, <2>2 DEF RollDay, TypeOK
  <2>3. ASSUME NEW f \in frames, DayOf[f] = rot.day
        PROVE  f \in rows'[DayOf[f]].frames
    BY <1>0, <1>4, <2>3 DEF RollDay, TypeOK, Of
  <2>4. \A f \in frames : DayOf[f] < done + 1 => DayOf[f] < rot.day
    BY <1>0, <2>1
  <2>5. \A f \in frames : DayOf[f] < rot.day + 1 => DayOf[f] < rot.day \/ DayOf[f] = rot.day
    BY <1>0
  <2>6. Kept(rot.day)'
    BY <2>1, <2>2, <1>0 DEF Kept, Counted, TypeOK
  <2>7. Kept(rot.day + 1)'
    BY <2>1, <2>2, <2>3, <2>5, <1>0 DEF Kept, Counted, TypeOK
  <2>8. Kept(done + 1)'
    BY <2>1, <2>4, <2>2, <1>0 DEF Kept, Counted
  <2>9. rot'.step = "mark"
    BY <2>1 DEF TypeOK
  <2>. QED
    BY <2>7, <2>8, <2>9 DEF KeptInv
<1>5. CASE RollMark
  <2>1. /\ Kept(rot.day + 1) /\ done' = rot.day
        /\ rot' = [step |-> Loop(rot.day + 1), at |-> rot.at, day |-> rot.day + 1,
                   failed |-> rot.failed]
        /\ UNCHANGED <<frames, late, rows>>
    BY <1>5 DEF TypeOK, RollMark, KeptInv
  <2>2. /\ Loop(rot.day + 1) \in {"rows", "pause"}
        /\ Loop(rot.day + 1) = "pause" => DayOf[rot.at] <= rot.day + 1
    BY <1>0 DEF Loop, MoreDays
  <2>3. Loop(rot.day + 1) = "pause" => Kept(DayOf[rot.at])
    BY <1>0, <2>1, <2>2 DEF Kept
  <2>. QED
    BY <2>1, <2>2, <2>3 DEF KeptInv, Kept, Counted
<1>6. CASE RollFails
  <2>1. rot'.step = "pause" /\ rot'.failed = TRUE
    BY <1>6 DEF RollFails, TypeOK
  <2>. QED
    BY <1>6, <2>1 DEF RollFails, KeptInv, Kept, Counted
<1>7. CASE Pause
  <2>1. /\ rot.step = "pause" /\ rot'.step = "evict"
        /\ rot'.failed = rot.failed /\ rot'.at = rot.at
    BY <1>7 DEF Pause, TypeOK
  <2>. QED
    BY <1>7, <2>1 DEF Pause, KeptInv, Kept, Counted
<1>8. CASE Evict
  BY <1>8 DEF Evict, Idle, KeptInv, Kept, Counted
<1>9. CASE EvictFails
  BY <1>9 DEF EvictFails, Idle, KeptInv, Kept, Counted
<1>10. CASE Clock
  BY <1>10 DEF Clock, KeptInv, Kept, Counted
<1>11. CASE TickStart
  BY <1>11 DEF TickStart, KeptInv, Kept, Counted
<1>12. CASE Restart
  BY <1>12 DEF Restart, KeptInv, Kept, Counted
<1>13. CASE UNCHANGED vars
  BY <1>13 DEF vars, KeptInv, Kept, Counted
<1>. QED
  BY <1>1, <1>2, <1>3, <1>4, <1>5, <1>6, <1>7, <1>8, <1>9, <1>10, <1>11, <1>12, <1>13
     DEF Next

-----------------------------------------------------------------------------
(* A day that may be rolled up again still has its frames.                 *)

\* What eviction deletes is of a day before the one it runs on.
LEMMA EvictedAreOld ==
  ASSUME TypeOK, Evict, NEW f \in frames, f \notin frames'
  PROVE  DayOf[f] < DayOf[rot.at]
<1>1. f \in Time /\ rot.at \in Time
  BY DEF TypeOK
<1>2. ~(f >= rot.at - FramesTtl)
  BY DEF Evict
<1>3. f + FramesTtl < rot.at
  BY <1>1, <1>2, LedgerAssumption DEF Time
<1>. QED
  BY <1>1, <1>3, LedgerAssumption

\* Steps that only store frames and move the clock, and may end rotate().
LEMMA StoringRecoverable ==
  ASSUME TypeOK, Recoverable, frames \subseteq frames', rot' \in {rot, Idle},
         UNCHANGED <<rows, done, cut>>
  PROVE  Recoverable'
<1>1. CASE rot' = rot
  BY <1>1 DEF Recoverable, NoRows
<1>2. CASE rot' = Idle
  BY <1>2 DEF Recoverable, NoRows, Idle
<1>. QED
  BY <1>1, <1>2

LEMMA NextRecoverable ==
  TypeOK /\ InOrder /\ Recoverable /\ [Next]_vars => Recoverable'
<1> SUFFICES ASSUME TypeOK, InOrder, Recoverable, [Next]_vars PROVE Recoverable'
  OBVIOUS
<1>0. /\ rot.day \in Nat /\ done \in Int /\ DayOf[rot.at] \in Nat /\ DayOf[now] \in Nat
      /\ \A f \in frames : f \in Time /\ DayOf[f] \in Nat /\ DayOf[f] \in Day
      /\ Day \subseteq Nat
  BY LedgerAssumption DEF TypeOK, Time, Day
<1>1. ASSUME NEW r \in Reading, TickEnd(r) PROVE Recoverable'
  BY <1>1, StoringRecoverable DEF TickEnd
<1>2. CASE Stop
  BY <1>2, StoringRecoverable DEF Stop
<1>3. CASE RotateStart
  <2>1. UNCHANGED <<frames, late, rows, done, cut>>
    BY <1>3 DEF RotateStart
  <2>2. ASSUME frames = {}, rot' = [Idle EXCEPT !.step = "pause", !.at = now]
        PROVE  Recoverable'
    <3>1. \A d \in Day \ cut : done < d => rows[d].frames = {}
      BY <2>2 DEF Recoverable
    <3>. QED
      BY <2>1, <2>2, <3>1 DEF Recoverable, NoRows, Idle
  <2>3. ASSUME NEW first \in frames, \A f \in frames : first <= f,
               rot' = [step |-> IF StartDay(first) < DayOf[now] THEN "rows" ELSE "pause",
                       at |-> now, day |-> StartDay(first), failed |-> FALSE]
        PROVE  Recoverable'
    <3>1. ASSUME NEW d \in Day \ cut, done < d, d < StartDay(first)
          PROVE  rows[d].frames = {}
      <4>1. d < DayOf[first]
        BY <1>0, <3>1, StartDayIs
      <4>2. \A f \in frames : DayOf[first] <= DayOf[f]
        BY <1>0, <2>3, LedgerAssumption DEF Time
      <4>3. ASSUME NEW f \in rows[d].frames PROVE FALSE
        BY <1>0, <3>1, <4>1, <4>2, <4>3 DEF Recoverable
      <4>. QED
        BY <4>3
    <3>2. NoRows(StartDay(first))
      BY <3>1 DEF NoRows
    <3>3. ~(StartDay(first) < DayOf[now]) => NoRows(DayOf[now])
      BY <1>0, <3>2, StartDayIs DEF NoRows
    <3>. QED
      BY <2>1, <2>3, <3>2, <3>3 DEF Recoverable, NoRows
  <2>. QED
    BY <1>3, <2>2, <2>3 DEF RotateStart
<1>4. CASE RollDay
  <2>1. /\ done < rot.day /\ NoRows(rot.day)
        /\ rot'.step = "mark" /\ rot'.day = rot.day
        /\ UNCHANGED <<frames, done, cut>>
    BY <1>4 DEF RollDay, InOrder, Recoverable, TypeOK
  <2>2. \A d \in Day : d # rot.day => rows'[d] = rows[d]
    BY <1>4 DEF RollDay, TypeOK
  <2>3. ASSUME rot.day \in Day
        PROVE  rows'[rot.day].frames \in {rows[rot.day].frames, Of(rot.day, frames)}
    BY <1>4, <2>3 DEF RollDay, TypeOK
  <2>4. Of(rot.day, frames) \subseteq {t \in Time : DayOf[t] = rot.day}
    BY <1>0 DEF Of
  <2>5. \A d \in Day : rows'[d].frames \subseteq {t \in Time : DayOf[t] = d}
    BY <2>2, <2>3, <2>4 DEF Recoverable
  <2>6. \A d \in Day \ cut : done < d => rows'[d].frames \subseteq frames
    BY <2>2, <2>3 DEF Recoverable, Of
  <2>7. NoRows(rot.day)'
    BY <1>0, <2>1, <2>2 DEF NoRows
  <2>. QED
    BY <2>1, <2>5, <2>6, <2>7 DEF Recoverable
<1>5. CASE RollMark
  <2>1. /\ done < rot.day /\ done' = rot.day
        /\ rot' = [step |-> Loop(rot.day + 1), at |-> rot.at, day |-> rot.day + 1,
                   failed |-> rot.failed]
        /\ UNCHANGED <<frames, rows, cut>>
    BY <1>5 DEF TypeOK, RollMark, InOrder
  <2>2. /\ Loop(rot.day + 1) \in {"rows", "pause"}
        /\ Loop(rot.day + 1) = "pause" => DayOf[rot.at] <= rot.day + 1
    BY <1>0 DEF Loop, MoreDays
  <2>3. \A d \in Day : done' < d => done < d /\ ~(d < rot.day + 1)
    BY <1>0, <2>1
  <2>4. Loop(rot.day + 1) = "pause" => \A d \in Day : done' < d => ~(d < DayOf[rot.at])
    BY <1>0, <2>1, <2>2
  <2>5. /\ rot'.step = Loop(rot.day + 1) /\ rot'.at = rot.at
        /\ rot'.day = rot.day + 1 /\ rot'.failed = rot.failed
    BY <2>1
  <2>6. rot'.step = "rows" => NoRows(rot.day)'
    BY <2>3, <2>5 DEF NoRows
  <2>7. rot'.step = "pause" => NoRows(DayOf[rot.at])'
    BY <2>4, <2>5 DEF NoRows
  <2>8. \A d \in Day \ cut' : done' < d => rows'[d].frames \subseteq frames'
    BY <2>1, <2>3 DEF Recoverable
  <2>. QED
    BY <2>1, <2>2, <2>5, <2>6, <2>7, <2>8 DEF Recoverable
<1>6. CASE RollFails
  <2>1. rot'.step = "pause" /\ rot'.failed = TRUE
    BY <1>6 DEF RollFails, TypeOK
  <2>. QED
    BY <1>6, <2>1 DEF RollFails, Recoverable
<1>7. CASE Pause
  <2>1. /\ rot.step = "pause" /\ rot'.step = "evict"
        /\ rot'.failed = rot.failed /\ rot'.at = rot.at
    BY <1>7 DEF Pause, TypeOK
  <2>. QED
    BY <1>7, <2>1 DEF Pause, Recoverable, NoRows
<1>8. CASE Evict
  <2>1. rot' = Idle /\ rows' = rows /\ done' = done /\ rot.step = "evict" /\ cut \subseteq cut'
    BY <1>8 DEF Evict
  <2>2. ASSUME NEW d \in Day \ cut', done < d, NEW f \in rows[d].frames, f \notin frames'
        PROVE  FALSE
    <3>1. f \in frames /\ DayOf[f] = d /\ f \in Time
      BY <2>1, <2>2 DEF Recoverable
    <3>2. CASE rot.failed
      BY <1>8, <2>2, <3>1, <3>2 DEF Evict
    <3>3. CASE ~rot.failed
      BY <1>8, <2>1, <2>2, <3>1, <3>3, EvictedAreOld DEF Recoverable, NoRows
    <3>. QED
      BY <3>2, <3>3 DEF TypeOK
  <2>. QED
    BY <2>1, <2>2 DEF Recoverable, Idle
<1>9. CASE EvictFails
  BY <1>9, StoringRecoverable DEF EvictFails
<1>10. CASE Clock
  BY <1>10, StoringRecoverable DEF Clock
<1>11. CASE TickStart
  BY <1>11, StoringRecoverable DEF TickStart
<1>12. CASE Restart
  BY <1>12, StoringRecoverable DEF Restart
<1>13. CASE UNCHANGED vars
  BY <1>13, StoringRecoverable DEF vars
<1>. QED
  BY <1>1, <1>2, <1>3, <1>4, <1>5, <1>6, <1>7, <1>8, <1>9, <1>10, <1>11, <1>12, <1>13
     DEF Next

-----------------------------------------------------------------------------
(* The theorems.                                                           *)

LEMMA InitInv ==
  Init => LedgerInv
<1> SUFFICES ASSUME Init PROVE LedgerInv
  OBVIOUS
<1>1. TypeOK
  BY InitTypes
<1>2. InOrder
  BY LedgerAssumption DEF Init, InOrder, Idle, Time
<1>3. KeptInv
  BY DEF Init, KeptInv, Kept, Idle
<1>4. Recoverable
  BY DEF Init, Recoverable, NoRow, Idle
<1>. QED
  BY <1>1, <1>2, <1>3, <1>4 DEF LedgerInv

LEMMA NextInv ==
  LedgerInv /\ [Next]_vars => LedgerInv'
BY NextTypes, NextInOrder, NextKept, NextRecoverable DEF LedgerInv

\* However ticks, roll-ups, failures, kills and restarts fall together, eviction deletes
\* only what the ledger counts: the frames it loses came late or after a failed roll-up.
THEOREM OnlyCountedEvicted == Spec => EvictsOnlyCounted
<1>1. LedgerInv /\ [Next]_vars =>
        [\A f \in frames \ frames' : Counted(f) \/ f \in late \/ rot.failed]_vars
  <2> SUFFICES ASSUME LedgerInv, Next, NEW f \in frames \ frames'
               PROVE  Counted(f) \/ f \in late \/ rot.failed
    OBVIOUS
  <2>1. Evict
    BY DEF Next, Clock, TickStart, TickEnd, RotateStart, RollDay, RollMark, RollFails,
           Pause, EvictFails, Stop, Restart
  <2>2. DayOf[f] < DayOf[rot.at]
    BY <2>1, EvictedAreOld DEF LedgerInv
  <2>. QED
    BY <2>1, <2>2 DEF Evict, LedgerInv, KeptInv, Kept
<1>. QED
  BY <1>1, InitInv, NextInv, PTL DEF Spec, EvictsOnlyCounted

\* A frame counted once stays counted, unless a pass evicted frames of its day after its
\* own roll-up had failed.
THEOREM LedgerPermanent == Spec => LedgerKeeps
<1>1. LedgerInv /\ [Next]_vars =>
        [\A d \in Day : rows[d].frames \subseteq rows'[d].frames \/ d \in cut]_vars
  <2> SUFFICES ASSUME LedgerInv, Next, NEW d \in Day, d \notin cut
               PROVE  rows[d].frames \subseteq rows'[d].frames
    OBVIOUS
  <2>1. CASE RollDay
    <3>1. done < rot.day
      BY <2>1 DEF RollDay, LedgerInv, InOrder
    <3>2. CASE d = rot.day
      BY <2>1, <3>1, <3>2 DEF RollDay, LedgerInv, Recoverable, TypeOK, Of
    <3>3. CASE d # rot.day
      BY <2>1, <3>3 DEF RollDay, LedgerInv, TypeOK
    <3>. QED
      BY <3>2, <3>3
  <2>2. CASE ~RollDay
    BY <2>2 DEF Next, Clock, TickStart, TickEnd, RotateStart, RollMark, RollFails,
                Pause, Evict, EvictFails, Stop, Restart
  <2>. QED
    BY <2>1, <2>2
<1>. QED
  BY <1>1, InitInv, NextInv, PTL DEF Spec, LedgerKeeps
=============================================================================
