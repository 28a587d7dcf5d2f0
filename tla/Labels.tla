-------------------------------- MODULE Labels --------------------------------
(***************************************************************************)
(* How a telemetry frame's vector gets its was_hot_in_30s label.  Three    *)
(* labellers write the same field and none of them locks it for longer     *)
(* than one update: the live pass over the frames still in memory, the     *)
(* backfill from throttle_events, and the orphan recovery at start-up.     *)
(* The vectors come from a bounded queue with a worker of its own.         *)
(*                                                                         *)
(* A frame is named by its timestamp; one is sampled per unit of time.     *)
(***************************************************************************)
EXTENDS Integers, Sequences

CONSTANTS
  Temp,        \* readings; 0 when the sensor is missing
  Hot,         \* HOT_THRESHOLD_C
  Enter, Exit, \* THROTTLE_ENTER_C, THROTTLE_EXIT_C
  MinDuration, \* THROTTLE_MIN_DURATION_S
  Lookahead,   \* LOOKAHEAD_SEC
  QueueMax,    \* maxsize of _chroma_queue
  MaxTime      \* BOUND: the clock stops here

ASSUME LabelsAssumption ==
  /\ Temp \subseteq Nat
  /\ Hot \in Nat /\ Enter \in Nat /\ Exit \in Nat
  /\ 0 < Hot /\ Hot <= Enter /\ Exit < Enter
  /\ MinDuration \in Nat /\ Lookahead \in Nat /\ QueueMax \in Nat \ {0}
  /\ MaxTime \in Nat

VARIABLES
  now,     \* the clock; the timestamp of the last frame
  up,      \* the daemon is alive
  busy,    \* the tick of frame now has sampled but not yet stored it
  temp,    \* history: the reading of each frame, 0 where there is none
  window,  \* _labelled_window
  queue,   \* _chroma_queue
  label,   \* was_hot_in_30s of each vector; "none" before it is written
  lively,  \* history: frames of the window last labelled by the live pass
  start,   \* _throttle_start_ts while the FSM is hot, else 0
  events,  \* ts_start of the rows of throttle_events
  live,    \* the running _backfill_labels
  fill     \* the running backfill_labels

vars == <<now, up, busy, temp, window, queue, label, lively, start, events,
          live, fill>>

Frame  == 1 .. MaxTime
NoLive == [on |-> FALSE, at |-> 0, todo |-> {}, hot |-> {}]
NoFill == [step |-> "idle", events |-> {}, todo |-> {}, hot |-> {}]

TypeOK ==
  /\ now \in 0 .. MaxTime /\ up \in BOOLEAN /\ busy \in BOOLEAN
  /\ busy => now \in Frame
  /\ temp \in [Frame -> Temp \cup {0}]
  /\ window \subseteq Frame
  /\ queue \in Seq(Frame) /\ Len(queue) <= QueueMax
  /\ label \in [Frame -> {"none", "unknown", "hot", "cool"}]
  /\ lively \subseteq Frame
  /\ start \in Frame \cup {0} /\ events \subseteq Frame
  /\ live \in [on : BOOLEAN, at : 0 .. MaxTime, todo : SUBSET Frame,
               hot : SUBSET Frame]
  /\ fill \in [step : {"idle", "list", "write"}, events : SUBSET Frame,
               todo : SUBSET Frame, hot : SUBSET Frame]

Init ==
  /\ now = 0 /\ up = TRUE /\ busy = FALSE
  /\ temp = [f \in Frame |-> 0]
  /\ window = {} /\ queue = <<>>
  /\ label = [f \in Frame |-> "none"] /\ lively = {}
  /\ start = 0 /\ events = {}
  /\ live = NoLive /\ fill = NoFill

Unknown == {f \in Frame : label[f] = "unknown"}

-----------------------------------------------------------------------------
(* The tick.                                                               *)

\* The frame takes its timestamp, then the collectors are awaited.
TickStart ==
  /\ up /\ ~busy /\ now < MaxTime
  /\ now' = now + 1 /\ busy' = TRUE
  /\ \E t \in Temp : temp' = [temp EXCEPT ![now + 1] = t]
  /\ UNCHANGED <<up, window, queue, label, lively, start, events, live, fill>>

\* Mutant: nothing makes room.
EnqueuedUnboundedMutant(f) == Append(queue, f)

\* put_nowait; a full queue gives up its oldest frame.
Enqueued(f) ==
  IF Len(queue) = QueueMax THEN Append(Tail(queue), f) ELSE Append(queue, f)

\* _throttle_fsm_tick: without a reading the FSM stands still.  A row is written
\* when an episode closes; a failed write is logged and the episode is gone.
Throttle(t) ==
  \/ /\ start = 0 /\ t >= Enter
     /\ start' = now /\ UNCHANGED events
  \/ /\ start # 0 /\ t > 0 /\ t <= Exit
     /\ start' = 0
     /\ events' \in IF now - start >= MinDuration
                    THEN {events, events \cup {start}} ELSE {events}
  \/ /\ ~(start = 0 /\ t >= Enter) /\ ~(start # 0 /\ t > 0 /\ t <= Exit)
     /\ UNCHANGED <<start, events>>

\* The rest of the tick: keep the frame, enqueue it, feed the FSM.  The ticks whose
\* frames are not enqueued (all but one in 5 s) are left out.
TickEnd ==
  /\ up /\ busy
  /\ busy' = FALSE
  /\ window' = window \cup {now}
  /\ queue' = Enqueued(now)
  /\ Throttle(temp[now])
  /\ UNCHANGED <<now, up, temp, label, lively, live, fill>>

-----------------------------------------------------------------------------
(* _chroma_drain_worker and _chroma_write.                                 *)

\* The vector is stored unlabelled; without a temperature, without a fitted
\* embedder or when the store fails, it is not stored at all.
Drain ==
  /\ up /\ queue # <<>>
  /\ queue' = Tail(queue)
  /\ \/ /\ temp[Head(queue)] > 0
        /\ label' = [label EXCEPT ![Head(queue)] = "unknown"]
     \/ UNCHANGED label
  /\ UNCHANGED <<now, up, busy, temp, window, lively, start, events, live, fill>>

-----------------------------------------------------------------------------
(* _backfill_labels: the live pass, in a worker thread.                    *)

\* Mutant: the frame at the end of the lookahead is left out.
PeakHotShortMutant(f) ==
  \E g \in window : f <= g /\ g < f + Lookahead /\ temp[g] >= Hot

\* Mutant: every later frame counts.
PeakHotLongMutant(f) == \E g \in window : f <= g /\ temp[g] >= Hot

\* The frames in the window from f to the end of its lookahead reach the threshold.
PeakHot(f) ==
  \E g \in window : f <= g /\ g <= f + Lookahead /\ temp[g] >= Hot

\* It reads the clock and copies the window; the labels follow from the copy.
LiveStart ==
  /\ up /\ ~live.on /\ window # {}
  /\ LET due == {f \in window : f + Lookahead <= now} IN
     live' = [on |-> TRUE, at |-> now, todo |-> due, hot |-> {f \in due : PeakHot(f)}]
  /\ UNCHANGED <<now, up, busy, temp, window, queue, label, lively, start, events,
                 fill>>

\* update_metadata of the next frame; one without a vector yet is passed over.
LiveOne ==
  /\ up /\ live.on
  /\ \E f \in live.todo :
       /\ \A g \in live.todo : f <= g
       /\ live' = [live EXCEPT !.todo = @ \ {f}, !.hot = @ \ {f}]
       /\ IF label[f] = "none" THEN UNCHANGED <<label, lively>>
          ELSE /\ label' = [label EXCEPT ![f] = IF f \in live.hot THEN "hot" ELSE "cool"]
               /\ lively' = lively \cup {f}
  /\ UNCHANGED <<now, up, busy, temp, window, queue, start, events, fill>>

\* _on_backfill_labels_done, on the event loop: trim what is old enough.
LiveDone ==
  /\ up /\ live.on /\ live.todo = {}
  /\ live' = NoLive
  /\ window' = {f \in window : f >= live.at - 2 * Lookahead}
  /\ lively' = lively \cap window'
  /\ UNCHANGED <<now, up, busy, temp, queue, label, start, events, fill>>

\* An update raised: the pass ends there and nothing is trimmed.
LiveFails ==
  /\ up /\ live.on /\ live.todo # {}
  /\ live' = NoLive
  /\ UNCHANGED <<now, up, busy, temp, window, queue, label, lively, start, events,
                 fill>>

-----------------------------------------------------------------------------
(* backfill_labels: the pass over throttle_events, in another thread.      *)

\* Mutant: the task handle of the first pass is never seen as done.
FillStartOnceMutant ==
  /\ up /\ fill.step = "idle" /\ now = 0
  /\ fill' = [NoFill EXCEPT !.step = "list", !.events = events]
  /\ UNCHANGED <<now, up, busy, temp, window, queue, label, lively, start, events,
                 live>>

FillStart ==
  /\ up /\ fill.step = "idle"
  /\ fill' = [NoFill EXCEPT !.step = "list", !.events = events]
  /\ UNCHANGED <<now, up, busy, temp, window, queue, label, lively, start, events,
                 live>>

\* _event_peak_in_window: an episode starts within the lookahead of f.
EventHot(f, known) == \E e \in known : f < e /\ e <= f + Lookahead

\* list_unlabeled: whatever is unlabelled now, however young.
FillList ==
  /\ up /\ fill.step = "list"
  /\ fill' = IF Unknown = {} THEN NoFill
             ELSE [NoFill EXCEPT !.step = "write", !.todo = Unknown,
                     !.hot = {f \in Unknown : EventHot(f, fill.events)}]
  /\ UNCHANGED <<now, up, busy, temp, window, queue, label, lively, start, events,
                 live>>

\* The pass with f behind it; after the last one it is over.
FillNext(f) ==
  IF fill.todo = {f} THEN NoFill
  ELSE [fill EXCEPT !.todo = @ \ {f}, !.hot = @ \ {f}]

\* _label_one: HOT by the events alone, else COOL, whatever the label is by now.
FillWrites(f) ==
  /\ up /\ fill.step = "write" /\ f \in fill.todo
  /\ fill' = FillNext(f)
  /\ label' = [label EXCEPT ![f] = IF f \in fill.hot THEN "hot" ELSE "cool"]
  /\ lively' = lively \ {f}
  /\ UNCHANGED <<now, up, busy, temp, window, queue, start, events, live>>

\* The update raised; the vector is left for another pass.
FillSkips(f) ==
  /\ up /\ fill.step = "write" /\ f \in fill.todo
  /\ fill' = FillNext(f)
  /\ UNCHANGED <<now, up, busy, temp, window, queue, label, lively, start, events,
                 live>>

-----------------------------------------------------------------------------
(* Stop or kill, and start.                                                *)

\* Window, queue and passes live in memory; the FSM is on file, unless torn.
Stop ==
  /\ up /\ up' = FALSE
  /\ busy' = FALSE /\ window' = {} /\ queue' = <<>> /\ lively' = {}
  /\ live' = NoLive /\ fill' = NoFill
  /\ start' \in {start, 0}
  /\ UNCHANGED <<now, temp, label, events>>

Down ==
  /\ ~up /\ now < MaxTime
  /\ now' = now + 1
  /\ UNCHANGED <<up, busy, temp, window, queue, label, lively, start, events,
                 live, fill>>

\* _recover_orphan_labels: by the frame's own temperature.
OrphanLabel(f) == IF temp[f] >= Hot THEN "hot" ELSE "cool"

\* __init__: backfill_labels first, then _recover_orphan_labels for what it left.
\* Either may fail for any vector.
Restart(left, orphans) ==
  /\ ~up /\ up' = TRUE
  /\ left \subseteq Unknown
  /\ orphans \subseteq {f \in left : f < now - 2 * Lookahead}
  /\ label' = [f \in Frame |->
       IF f \in orphans THEN OrphanLabel(f)
       ELSE IF f \in Unknown \ left
            THEN IF EventHot(f, events) THEN "hot" ELSE "cool"
            ELSE label[f]]
  /\ UNCHANGED <<now, busy, temp, window, queue, lively, start, events, live, fill>>

-----------------------------------------------------------------------------
Next ==
  \/ TickStart \/ TickEnd \/ Drain
  \/ LiveStart \/ LiveOne \/ LiveDone \/ LiveFails
  \/ FillStart \/ FillList
  \/ \E f \in Frame : FillWrites(f) \/ FillSkips(f)
  \/ Stop \/ Down
  \/ \E left, orphans \in SUBSET Frame : Restart(left, orphans)

Spec == Init /\ [][Next]_vars

\* Passes are started again and again; neither every update of theirs nor every
\* start-up fails.
FairSpec ==
  /\ Spec
  /\ WF_vars(FillStart \/ FillList)
  /\ SF_vars(\E f \in Frame : FillWrites(f))
  /\ SF_vars(Restart({}, {}))

-----------------------------------------------------------------------------
(* Properties.                                                             *)

\* Some frame from f to the end of its lookahead reached the threshold.
WasHot(f) ==
  \E g \in Frame : f <= g /\ g <= f + Lookahead /\ temp[g] >= Hot

\* A vector is HOT only if the chip really reached HOT_THRESHOLD_C from its frame to
\* 30 s later, whichever labellers wrote it, in whatever order and across restarts.
HotIsTrue == \A f \in Frame : label[f] = "hot" => WasHot(f)

\* A frame trimmed from the window takes with it the last chance of a live label: if
\* its label is the live pass's, it is the right one by then, although passes overlap
\* ticks whose frame is stamped but not yet in the window.
TrimsOnlySettled ==
  [][\A f \in window \ window' :
       up' /\ f \in lively => (label[f] = "hot" <=> WasHot(f))]_vars

\* No vector stays unlabelled for ever: not one whose frame was trimmed before the
\* worker got to it, nor one whose labels were interrupted by a stop.  (The clock stops
\* at its bound, so there is a last vector.)
EveryVectorLabelled == <>[](Unknown = {})
=============================================================================
