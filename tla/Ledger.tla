-------------------------------- MODULE Ledger --------------------------------
(***************************************************************************)
(* store.db: the frames and throttle_events tables with their time to      *)
(* live, and daily_rollup, the permanent record of each day.  The tick     *)
(* writes frames and closes throttle episodes; rotate(), in a worker       *)
(* thread, rolls up the complete days and then evicts.  Each transaction   *)
(* is one step: the store's lock is released between them.                 *)
(***************************************************************************)
EXTENDS Integers, FiniteSetsExt

CONSTANTS
  MaxTime,     \* BOUND: the clock stops here
  DayOf,       \* the UTC date of a timestamp
  FramesTtl,   \* FRAMES_TTL_SEC
  EventsTtl,   \* EVENTS_TTL_SEC
  MinDuration, \* THROTTLE_MIN_DURATION_S
  Reading      \* what a tick may read: at THROTTLE_ENTER_C, at or below
               \* THROTTLE_EXIT_C, between the two, or nothing

Time == 0 .. MaxTime

\* Dates do not decrease, and a frame outlives its own day.
ASSUME LedgerAssumption ==
  /\ MaxTime \in Nat /\ FramesTtl \in Nat /\ EventsTtl \in Nat /\ MinDuration \in Nat
  /\ DayOf \in [Time -> Nat]
  /\ \A s, t \in Time : s <= t => DayOf[s] <= DayOf[t]
  /\ \A s, t \in Time : s + FramesTtl < t => DayOf[s] < DayOf[t]
  /\ Reading \subseteq {"hot", "between", "cool", "none"}

VARIABLES
  now,     \* the clock
  up,      \* the daemon is alive
  tick,    \* the running tick: the stamp of its frame
  start,   \* _throttle_start_ts while the FSM is hot, else NoStart
  frames,  \* the stamps in the frames table
  events,  \* the ts_start in the throttle_events table
  rows,    \* daily_rollup: the frames and the events each day's row counts
  done,    \* meta['rollup_day_done'], or -1
  rot,     \* the running rotate()
  late,    \* history: frames stored on a later day than they carry
  cut      \* history: days a pass evicted frames of after its roll-up had failed

vars == <<now, up, tick, start, frames, events, rows, done, rot, late, cut>>

NoStart == -1
Day     == {DayOf[t] : t \in Time}
NoRow   == [frames |-> {}, throttles |-> {}]
NoTick  == [on |-> FALSE, stamp |-> 0]
Idle    == [step |-> "idle", at |-> 0, day |-> 0, failed |-> FALSE]

TypeOK ==
  /\ now \in Time /\ up \in BOOLEAN
  /\ tick \in [on : BOOLEAN, stamp : Time]
  /\ start \in Time \cup {NoStart}
  /\ frames \subseteq Time /\ events \subseteq Time
  /\ rows \in [Day -> [frames : SUBSET Time, throttles : SUBSET Time]]
  /\ done \in Nat \cup {-1}
  /\ rot \in [step : {"idle", "rows", "mark", "pause", "evict"}, at : Time,
              day : Nat, failed : BOOLEAN]
  /\ late \subseteq Time /\ cut \subseteq Nat

Init ==
  /\ now = 0 /\ up = TRUE /\ tick = NoTick /\ start = NoStart
  /\ frames = {} /\ events = {}
  /\ rows = [d \in Day |-> NoRow] /\ done = -1
  /\ rot = Idle /\ late = {} /\ cut = {}

\* _writes_paused.
Paused == rot.step = "evict"

\* Those of the stamps that the clock's day has left behind.
Belated(stamps) == {s \in stamps : DayOf[s] < DayOf[now]}

Clock ==
  /\ now < MaxTime /\ now' = now + 1
  /\ UNCHANGED <<up, tick, start, frames, events, rows, done, rot, late, cut>>

-----------------------------------------------------------------------------
(* The tick.                                                               *)

TickStart ==
  /\ up /\ ~tick.on
  /\ tick' = [on |-> TRUE, stamp |-> now]
  /\ UNCHANGED <<now, up, start, frames, events, rows, done, rot, late, cut>>

\* write_frame, unless rotate() holds the writer lock: then the frame is skipped.
Stored == IF Paused THEN {} ELSE {tick.stamp}

\* The row of the episode that is open, if it is long enough for one.
Episode ==
  IF start # NoStart /\ tick.stamp - start >= MinDuration THEN {start} ELSE {}

\* _throttle_fsm_tick: an episode is one row, stored when it closes; a failed write
\* is logged and the episode is gone.  Without a reading the FSM stands still.
Opens(r)  == start = NoStart /\ r = "hot"
Closes(r) == start # NoStart /\ r = "cool"

TickEnd(r) ==
  /\ up /\ tick.on /\ tick' = NoTick
  /\ start' = IF Opens(r) THEN tick.stamp ELSE IF Closes(r) THEN NoStart ELSE start
  /\ frames' = frames \cup Stored
  /\ late' = late \cup Belated(Stored)
  /\ \E row \in {{}, IF Closes(r) THEN Episode ELSE {}} : events' = events \cup row
  /\ UNCHANGED <<now, up, rows, done, rot, cut>>

-----------------------------------------------------------------------------
(* rotate().                                                               *)

\* Mutant: the day that is still running is rolled up too.
MoreDaysTodayMutant(day) == day <= DayOf[rot.at]

\* Strictly complete days only.
MoreDays(day) == day < DayOf[rot.at]

\* The next step of the loop of rollup_days.
Loop(day) == IF MoreDays(day) THEN "rows" ELSE "pause"

\* Mutant: it begins at the mark itself.
StartDayAtMarkMutant(first) == done

\* Mutant: the mark is not consulted.
StartDayUnmarkedMutant(first) == DayOf[first]

\* The day of the first frame, or the one after the mark.
StartDay(first) == Max({DayOf[first], done + 1})

\* It takes the time, reads the mark and the oldest frame; without frames there is
\* nothing to roll up.
RotateStart ==
  /\ up /\ rot.step = "idle"
  /\ \/ /\ frames = {}
        /\ rot' = [Idle EXCEPT !.step = "pause", !.at = now]
     \/ \E first \in frames :
          /\ \A f \in frames : first <= f
          /\ rot' = [step |-> IF StartDay(first) < DayOf[now] THEN "rows" ELSE "pause",
                     at |-> now, day |-> StartDay(first), failed |-> FALSE]
  /\ UNCHANGED <<now, up, tick, start, frames, events, rows, done, late, cut>>

Of(day, stamps) == {s \in stamps : DayOf[s] = day}

\* _rollup_one_day: a day without frames gets no row, else its row is replaced.
RollDay ==
  /\ up /\ rot.step = "rows"
  /\ rows' = IF Of(rot.day, frames) = {} THEN rows
             ELSE [rows EXCEPT ![rot.day] =
                     [frames |-> Of(rot.day, frames), throttles |-> Of(rot.day, events)]]
  /\ rot' = [rot EXCEPT !.step = "mark"]
  /\ UNCHANGED <<now, up, tick, start, frames, events, done, late, cut>>

\* Mutant: the mark is not moved.
RollMarkForgottenMutant ==
  /\ up /\ rot.step = "mark"
  /\ rot' = [rot EXCEPT !.step = Loop(rot.day + 1), !.day = @ + 1]
  /\ UNCHANGED <<now, up, tick, start, frames, events, rows, done, late, cut>>

RollMark ==
  /\ up /\ rot.step = "mark"
  /\ done' = rot.day
  /\ rot' = [rot EXCEPT !.step = Loop(rot.day + 1), !.day = @ + 1]
  /\ UNCHANGED <<now, up, tick, start, frames, events, rows, late, cut>>

\* Any statement of the roll-up may raise; that never blocks eviction.
RollFails ==
  /\ up /\ rot.step \in {"rows", "mark"}
  /\ rot' = [rot EXCEPT !.step = "pause", !.failed = TRUE]
  /\ UNCHANGED <<now, up, tick, start, frames, events, rows, done, late, cut>>

Pause ==
  /\ up /\ rot.step = "pause"
  /\ rot' = [rot EXCEPT !.step = "evict"]
  /\ UNCHANGED <<now, up, tick, start, frames, events, rows, done, late, cut>>

\* One transaction over both tables.
Evict ==
  /\ up /\ rot.step = "evict"
  /\ frames' = {f \in frames : f >= rot.at - FramesTtl}
  /\ events' = {e \in events : e >= rot.at - EventsTtl}
  /\ rot' = Idle
  /\ cut' = IF rot.failed THEN cut \cup {DayOf[f] : f \in frames \ frames'} ELSE cut
  /\ UNCHANGED <<now, up, tick, start, rows, done, late>>

\* It raised: nothing is deleted and writing goes on.
EvictFails ==
  /\ up /\ rot.step = "evict"
  /\ rot' = Idle
  /\ UNCHANGED <<now, up, tick, start, frames, events, rows, done, late, cut>>

-----------------------------------------------------------------------------
(* Stop or kill, and start.                                                *)

\* A kill in mid-tick may come after the frame, or after the frame and the episode's
\* row were stored; the FSM is on file, unless the file is torn.
Stop ==
  /\ up /\ up' = FALSE
  /\ tick' = NoTick /\ rot' = Idle
  /\ \E stored \in {{}, Stored}, row \in {{}, Episode} :
       /\ tick.on \/ stored \cup row = {}
       /\ row = {} \/ stored = Stored
       /\ frames' = frames \cup stored
       /\ events' = events \cup row
       /\ late' = late \cup Belated(stored)
  /\ start' \in {start, NoStart}
  /\ UNCHANGED <<now, rows, done, cut>>

\* _restore_runtime_state: a hot episode goes on.
Restart ==
  /\ ~up /\ up' = TRUE
  /\ UNCHANGED <<now, tick, start, frames, events, rows, done, rot, late, cut>>

-----------------------------------------------------------------------------
Next ==
  \/ Clock \/ TickStart \/ \E r \in Reading : TickEnd(r)
  \/ RotateStart \/ RollDay \/ RollMark \/ RollFails \/ Pause \/ Evict \/ EvictFails
  \/ Stop \/ Restart

Spec == Init /\ [][Next]_vars

\* rotate() is started every 600 ticks; no statement of it fails every time.
FairSpec ==
  /\ Spec
  /\ WF_vars(RotateStart) /\ WF_vars(Pause)
  /\ SF_vars(RollDay) /\ SF_vars(RollMark) /\ SF_vars(Evict)

-----------------------------------------------------------------------------
(* Properties.                                                             *)

\* A frame in the table is due to be counted: its day is over and it was stored in time.
Counted(f) == f \in rows[DayOf[f]].frames

\* "A day must land in the permanent ledger before its frames can age out" (rotate): an
\* evicted frame is counted in its day's row, whatever was killed, restarted or skipped
\* before, unless the roll-up of this very pass failed or the frame was stored after
\* its day.
EvictsOnlyCounted ==
  [][\A f \in frames \ frames' : Counted(f) \/ f \in late \/ rot.failed]_vars

\* The ledger is permanent: a frame once counted stays counted, although days are rolled
\* up again after a kill or a failure and frames age out meanwhile; only a day whose frames
\* a pass evicted after its own roll-up had failed may be replaced by what is left.
LedgerKeeps ==
  [][\A d \in Day : rows[d].frames \subseteq rows'[d].frames \/ d \in cut]_vars

\* While the daemon stays up, every day that is over is rolled up in the end, and the
\* frames are cut to their time to live, although passes fail again and again.
CatchesUp ==
  <>[]up => <>[](\A f \in frames : /\ DayOf[f] < DayOf[now] => DayOf[f] <= done
                                   /\ f >= now - FramesTtl)

\* "Aggregate every COMPLETE UTC day" (rollup_days): the row of a day that is marked done
\* counts every throttle event of that day that is in the table.
ThrottlesCounted ==
  \A e \in events : DayOf[e] <= done /\ rows[DayOf[e]] # NoRow
                      => e \in rows[DayOf[e]].throttles
=============================================================================
