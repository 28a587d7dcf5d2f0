----------------------------- MODULE LabelsProofs -----------------------------
(***************************************************************************)
(* A HOT label is a true one, for any readings, thresholds, lookahead and  *)
(* queue.  Each labeller decides on its own evidence -- the window, the    *)
(* throttle events, the frame itself -- and writes later; HotInv says that *)
(* the evidence was sound when it was taken and stays so.  A label of the  *)
(* live pass is the right one, HOT or COOL, when its frame is trimmed;     *)
(* TrimInv says which evidence is complete by then.                        *)
(***************************************************************************)
EXTENDS Labels, TLAPS

Reached(f) == temp[f] >= Hot

HotInv ==
  /\ \A f \in Frame : f > now => temp[f] = 0
  /\ start # 0 => Reached(start)
  /\ \A f \in events \cup fill.events : Reached(f)
  /\ \A f \in live.hot \cup fill.hot : WasHot(f)
  /\ HotIsTrue

-----------------------------------------------------------------------------
(* Types.                                                                  *)

LiveType == [on : BOOLEAN, at : 0 .. MaxTime, todo : SUBSET Frame, hot : SUBSET Frame]
FillType == [step : {"idle", "list", "write"}, events : SUBSET Frame,
             todo : SUBSET Frame, hot : SUBSET Frame]

\* A queue of frames stays one, and within its size, when it takes one more.
LEMMA EnqueuedType ==
  ASSUME NEW f \in Frame, queue \in Seq(Frame), Len(queue) <= QueueMax
  PROVE  Enqueued(f) \in Seq(Frame) /\ Len(Enqueued(f)) <= QueueMax
<1>1. QueueMax \in Nat \ {0} /\ Len(queue) \in Nat
  BY LabelsAssumption
<1>2. CASE Len(queue) = QueueMax
  <2>1. queue # <<>>
    BY <1>1, <1>2
  <2>2. Tail(queue) \in Seq(Frame) /\ Len(Tail(queue)) = Len(queue) - 1
    BY <2>1
  <2>3. /\ Append(Tail(queue), f) \in Seq(Frame)
        /\ Len(Append(Tail(queue), f)) = Len(Tail(queue)) + 1
    BY <2>2
  <2>. QED
    BY <1>1, <1>2, <2>2, <2>3 DEF Enqueued
<1>3. CASE Len(queue) # QueueMax
  <2>1. Append(queue, f) \in Seq(Frame) /\ Len(Append(queue, f)) = Len(queue) + 1
    OBVIOUS
  <2>. QED
    BY <1>1, <1>3, <2>1 DEF Enqueued
<1>. QED
  BY <1>2, <1>3

LEMMA InitTypes ==
  Init => TypeOK
<1> SUFFICES ASSUME Init PROVE TypeOK
  OBVIOUS
<1>1. queue \in Seq(Frame) /\ Len(queue) <= QueueMax
  BY LabelsAssumption DEF Init
<1>2. NoLive \in LiveType /\ NoFill \in FillType /\ 0 \in 0 .. MaxTime
  BY LabelsAssumption DEF NoLive, NoFill, LiveType, FillType
<1>. QED
  BY <1>1, <1>2 DEF Init, TypeOK, LiveType, FillType

LEMMA NextTypes ==
  TypeOK /\ [Next]_vars => TypeOK'
<1> SUFFICES ASSUME TypeOK, [Next]_vars PROVE TypeOK'
  OBVIOUS
<1>0. /\ MaxTime \in Nat /\ Frame \subseteq 0 .. MaxTime
      /\ NoLive \in LiveType /\ NoFill \in FillType
      /\ live \in LiveType /\ fill \in FillType
  BY LabelsAssumption DEF Frame, NoLive, NoFill, LiveType, FillType, TypeOK
<1>1. CASE TickStart
  <2>1. now + 1 \in 0 .. MaxTime /\ now + 1 \in Frame
    BY <1>0, <1>1 DEF TickStart, TypeOK, Frame
  <2>2. temp' \in [Frame -> Temp \cup {0}]
    BY <1>1, <2>1 DEF TickStart, TypeOK
  <2>. QED
    BY <1>1, <2>1, <2>2 DEF TickStart, TypeOK
<1>2. CASE TickEnd
  <2>1. now \in Frame
    BY <1>2 DEF TickEnd, TypeOK
  <2>2. window' \subseteq Frame
    BY <1>2, <2>1 DEF TickEnd, TypeOK
  <2>3. queue' \in Seq(Frame) /\ Len(queue') <= QueueMax
    BY <1>2, <2>1, EnqueuedType DEF TickEnd, TypeOK
  <2>4. start' \in Frame \cup {0} /\ events' \subseteq Frame
    BY <1>2, <2>1 DEF TickEnd, Throttle, TypeOK
  <2>. QED
    BY <1>2, <2>2, <2>3, <2>4 DEF TickEnd, TypeOK
<1>3. CASE Drain
  <2>1. Tail(queue) \in Seq(Frame) /\ Len(Tail(queue)) <= QueueMax
    BY <1>3, LabelsAssumption DEF Drain, TypeOK
  <2>2. label' \in [Frame -> {"none", "unknown", "hot", "cool"}]
    BY <1>3 DEF Drain, TypeOK
  <2>. QED
    BY <1>3, <2>1, <2>2 DEF Drain, TypeOK
<1>4. CASE LiveStart
  <2>1. live' \in LiveType
    <3> DEFINE due == {f \in window : f + Lookahead <= now}
    <3>1. due \in SUBSET Frame /\ {f \in due : PeakHot(f)} \in SUBSET Frame
      BY DEF TypeOK
    <3>2. live' = [on |-> TRUE, at |-> now, todo |-> due, hot |-> {f \in due : PeakHot(f)}]
      BY <1>4 DEF LiveStart
    <3> HIDE DEF due
    <3>. QED
      BY <3>1, <3>2 DEF TypeOK, LiveType
  <2>. QED
    BY <1>4, <2>1 DEF LiveStart, TypeOK, LiveType
<1>5. CASE LiveOne
  <2>1. PICK f \in live.todo :
          /\ live' = [live EXCEPT !.todo = @ \ {f}, !.hot = @ \ {f}]
          /\ \/ UNCHANGED <<label, lively>>
             \/ /\ label' = [label EXCEPT ![f] = IF f \in live.hot THEN "hot" ELSE "cool"]
                /\ lively' = lively \cup {f}
    BY <1>5 DEF LiveOne
  <2>2. live' \in LiveType
    BY <1>0, <2>1 DEF LiveType
  <2>3. label' \in [Frame -> {"none", "unknown", "hot", "cool"}] /\ lively' \subseteq Frame
    BY <1>0, <2>1, SMTT(30) DEF TypeOK, LiveType
  <2>. QED
    BY <1>5, <2>2, <2>3 DEF LiveOne, TypeOK, LiveType
<1>6. CASE LiveDone
  BY <1>0, <1>6 DEF LiveDone, TypeOK, LiveType
<1>7. CASE LiveFails
  BY <1>0, <1>7 DEF LiveFails, TypeOK, LiveType
<1>8. CASE FillStart
  <2>1. fill' \in FillType
    BY <1>0, <1>8 DEF FillStart, TypeOK, FillType
  <2>. QED
    BY <1>8, <2>1 DEF FillStart, TypeOK, FillType
<1>9. CASE FillList
  <2>1. fill' \in FillType
    BY <1>0, <1>9 DEF FillList, FillType, Unknown
  <2>. QED
    BY <1>9, <2>1 DEF FillList, TypeOK, FillType
<1>10. ASSUME NEW f \in Frame, FillWrites(f) \/ FillSkips(f) PROVE TypeOK'
  <2>1. fill' \in FillType
    BY <1>0, <1>10 DEF FillWrites, FillSkips, FillNext, FillType
  <2>2. label' \in [Frame -> {"none", "unknown", "hot", "cool"}]
    BY <1>10 DEF FillWrites, FillSkips, TypeOK
  <2>. QED
    BY <1>10, <2>1, <2>2 DEF FillWrites, FillSkips, TypeOK, FillType
<1>11. CASE Stop
  <2>1. <<>> \in Seq(Frame) /\ Len(<<>>) <= QueueMax
    BY LabelsAssumption
  <2>. QED
    BY <1>0, <1>11, <2>1 DEF Stop, TypeOK, LiveType, FillType
<1>12. CASE Down
  BY <1>0, <1>12 DEF Down, TypeOK, Frame
<1>13. ASSUME NEW left \in SUBSET Frame, NEW orphans \in SUBSET Frame, Restart(left, orphans)
       PROVE  TypeOK'
  <2>1. label' \in [Frame -> {"none", "unknown", "hot", "cool"}]
    BY <1>13 DEF Restart, OrphanLabel, TypeOK
  <2>. QED
    BY <1>13, <2>1 DEF Restart, TypeOK
<1>14. CASE UNCHANGED vars
  BY <1>14 DEF vars, TypeOK
<1>. QED
  BY <1>1, <1>2, <1>3, <1>4, <1>5, <1>6, <1>7, <1>8, <1>9, <1>10, <1>11, <1>12, <1>13, <1>14
     DEF Next

\* Every reachable state of the label pipeline is well typed; the queue stays within
\* its size.
THEOREM TypeCorrect == Spec => []TypeOK
<1>1. Init => TypeOK
  BY InitTypes
<1>2. TypeOK /\ [Next]_vars => TypeOK'
  BY NextTypes
<1>. QED
  BY <1>1, <1>2, PTL DEF Spec

-----------------------------------------------------------------------------
(* HOT labels.                                                             *)

\* A frame that was hot stays so: a step adds readings, it changes none.
LEMMA WasHotStays ==
  ASSUME TypeOK, NEW f \in Frame, WasHot(f),
         \A g \in Frame : Reached(g) => temp'[g] >= Hot
  PROVE  WasHot(f)'
BY DEF WasHot, Reached

\* The evidence of the two passes.
LEMMA PeakIsHot ==
  ASSUME TypeOK, NEW f \in Frame, PeakHot(f)
  PROVE  WasHot(f)
BY DEF PeakHot, WasHot, TypeOK

LEMMA EventIsHot ==
  ASSUME TypeOK, NEW f \in Frame, NEW known \in SUBSET Frame, EventHot(f, known),
         \A e \in known : Reached(e)
  PROVE  WasHot(f)
BY DEF EventHot, WasHot, Reached, Frame

LEMMA FrameIsHot ==
  ASSUME TypeOK, NEW f \in Frame, Reached(f)
  PROVE  WasHot(f)
BY LabelsAssumption DEF WasHot, Reached, Frame

LEMMA InitHot ==
  Init => HotInv
BY DEF Init, HotInv, HotIsTrue, NoLive, NoFill

\* A step that leaves the readings alone keeps what was hot.
LEMMA SameReadings ==
  ASSUME TypeOK, HotInv, temp' = temp, now' \in {now, now + 1},
         start' \in {start, 0} \/ Reached(start'),
         \A e \in events' \cup fill'.events : Reached(e),
         \A f \in live'.hot \cup fill'.hot : WasHot(f),
         \A f \in Frame : label'[f] = "hot" => WasHot(f)
  PROVE  HotInv'
<1>1. now \in Int /\ Frame \subseteq Int
  BY DEF TypeOK, Frame
<1>2. \A f \in Frame : f > now' => temp'[f] = 0
  <2>1. \A f \in Frame : f > now' => f > now
    BY <1>1
  <2>. QED
    BY <2>1 DEF HotInv
<1>3. \A f : (Reached(f) <=> Reached(f)') /\ (WasHot(f) <=> WasHot(f)')
  BY DEF Reached, WasHot
<1>4. start' # 0 => Reached(start')
  BY DEF HotInv
<1>5. (start # 0 => Reached(start))'
  BY <1>4 DEF Reached
<1>6. HotIsTrue'
  BY <1>3 DEF HotIsTrue
<1>. QED
  BY <1>2, <1>3, <1>5, <1>6 DEF HotInv

LEMMA NextHot ==
  TypeOK /\ HotInv /\ [Next]_vars => HotInv'
<1> SUFFICES ASSUME TypeOK, HotInv, [Next]_vars PROVE HotInv'
  OBVIOUS
<1>0. /\ live.hot \subseteq Frame /\ fill.hot \subseteq Frame
      /\ fill.events \subseteq Frame /\ events \subseteq Frame /\ window \subseteq Frame
  BY DEF TypeOK
<1>1. CASE TickStart
  <2>1. now + 1 \in Frame /\ temp[now + 1] = 0 /\ ~Reached(now + 1)
    BY <1>1, LabelsAssumption DEF TickStart, HotInv, TypeOK, Frame, Reached
  <2>2. \A g \in Frame : g # now + 1 => temp'[g] = temp[g]
    BY <1>1 DEF TickStart, TypeOK
  <2>3. \A g \in Frame : Reached(g) => temp'[g] >= Hot
    BY <2>1, <2>2 DEF Reached
  <2>4. \A f \in Frame : WasHot(f) => WasHot(f)'
    BY <2>3, WasHotStays
  <2>5. \A f \in Frame : f > now' => temp'[f] = 0
    BY <1>1, <2>2 DEF TickStart, HotInv, TypeOK, Frame
  <2>6. (start # 0 => Reached(start))'
    BY <1>1, <2>3 DEF TickStart, HotInv, TypeOK, Reached
  <2>7. (\A f \in events \cup fill.events : Reached(f))'
    BY <1>0, <1>1, <2>3 DEF TickStart, HotInv, Reached
  <2>8. (\A f \in live.hot \cup fill.hot : WasHot(f))'
    BY <1>0, <1>1, <2>4 DEF TickStart, HotInv
  <2>9. HotIsTrue'
    BY <1>1, <2>4 DEF TickStart, HotInv, HotIsTrue
  <2>. QED
    BY <2>5, <2>6, <2>7, <2>8, <2>9 DEF HotInv
<1>2. CASE TickEnd
  <2>1. start' \in {start, 0} \/ Reached(start')
    <3>1. temp[now] \in Nat
      <4>1. now \in Frame
        BY <1>2 DEF TickEnd, TypeOK
      <4>2. temp[now] \in Temp \cup {0}
        BY <4>1 DEF TypeOK
      <4>3. \A t \in Temp : t \in Nat
        BY LabelsAssumption
      <4>. QED
        BY <4>2, <4>3
    <3>2. temp[now] >= Enter => temp[now] >= Hot
      BY <3>1, LabelsAssumption
    <3>3. \/ start' = now /\ temp[now] >= Enter
          \/ start' \in {start, 0}
      BY <1>2 DEF TickEnd, Throttle
    <3>. QED
      BY <3>2, <3>3 DEF Reached
  <2>2. events' \subseteq events \cup {start} /\ (start = 0 => events' = events)
    BY <1>2 DEF TickEnd, Throttle
  <2>3. \A e \in events' \cup fill'.events : Reached(e)
    BY <1>2, <2>2 DEF TickEnd, HotInv
  <2>. QED
    BY <1>2, <2>1, <2>3, SameReadings DEF TickEnd, HotInv, HotIsTrue
<1>3. CASE Drain
  <2>1. \A f \in Frame : label'[f] = "hot" => WasHot(f)
    BY <1>3 DEF Drain, HotInv, HotIsTrue, TypeOK
  <2>. QED
    BY <1>3, <2>1, SameReadings DEF Drain, HotInv
<1>4. CASE LiveStart
  <2>1. live'.hot \subseteq {f \in window : PeakHot(f)}
    BY <1>4 DEF LiveStart
  <2>2. \A f \in live'.hot : WasHot(f)
    BY <1>0, <2>1, PeakIsHot
  <2>. QED
    BY <1>4, <2>2, SameReadings DEF LiveStart, HotInv, HotIsTrue
<1>5. CASE LiveOne
  <2>1. PICK f \in live.todo :
          /\ live' = [live EXCEPT !.todo = @ \ {f}, !.hot = @ \ {f}]
          /\ \/ UNCHANGED <<label, lively>>
             \/ label' = [label EXCEPT ![f] = IF f \in live.hot THEN "hot" ELSE "cool"]
    BY <1>5 DEF LiveOne
  <2>2. live'.hot \subseteq live.hot
    BY <2>1 DEF TypeOK
  <2>3. \A g \in Frame : label'[g] = "hot" => label[g] = "hot" \/ g \in live.hot
    BY <2>1 DEF TypeOK
  <2>4. \A g \in Frame : label'[g] = "hot" => WasHot(g)
    BY <2>3 DEF HotInv, HotIsTrue
  <2>. QED
    BY <1>5, <2>2, <2>4, SameReadings DEF LiveOne, HotInv
<1>6. CASE LiveDone \/ LiveFails
  BY <1>6, SameReadings DEF LiveDone, LiveFails, NoLive, HotInv, HotIsTrue
<1>7. CASE FillStart
  BY <1>7, SameReadings DEF FillStart, NoFill, HotInv, HotIsTrue
<1>8. CASE FillList
  <2>1. /\ fill'.events = {}
        /\ fill'.hot \subseteq {f \in Unknown : EventHot(f, fill.events)}
    BY <1>8 DEF FillList, NoFill
  <2>2. \A f \in fill'.hot : WasHot(f)
    BY <1>0, <2>1, EventIsHot DEF HotInv, Unknown
  <2>. QED
    BY <1>8, <2>1, <2>2, SameReadings DEF FillList, HotInv, HotIsTrue
<1>9. ASSUME NEW f \in Frame, FillWrites(f) \/ FillSkips(f) PROVE HotInv'
  <2>1. fill'.hot \subseteq fill.hot /\ fill'.events \subseteq fill.events
    <3>1. fill' \in {NoFill, [fill EXCEPT !.todo = @ \ {f}, !.hot = @ \ {f}]}
      BY <1>9 DEF FillWrites, FillSkips, FillNext
    <3>2. CASE fill' = NoFill
      BY <3>2 DEF NoFill
    <3>3. CASE fill' = [fill EXCEPT !.todo = @ \ {f}, !.hot = @ \ {f}]
      <4>1. fill'.hot = fill.hot \ {f} /\ fill'.events = fill.events
        BY <3>3 DEF TypeOK
      <4>. QED
        BY <4>1
    <3>. QED
      BY <3>1, <3>2, <3>3
  <2>2. \A g \in Frame : label'[g] = "hot" => label[g] = "hot" \/ g \in fill.hot
    BY <1>9 DEF FillWrites, FillSkips, TypeOK
  <2>3. \A g \in Frame : label'[g] = "hot" => WasHot(g)
    BY <2>2 DEF HotInv, HotIsTrue
  <2>4. UNCHANGED <<now, temp, start, events, live>>
    BY <1>9 DEF FillWrites, FillSkips
  <2>. QED
    BY <2>1, <2>3, <2>4, SameReadings DEF HotInv
<1>10. CASE Stop
  BY <1>10, SameReadings DEF Stop, NoLive, NoFill, HotInv, HotIsTrue
<1>11. CASE Down
  BY <1>11, SameReadings DEF Down, HotInv, HotIsTrue
<1>12. ASSUME NEW left \in SUBSET Frame, NEW orphans \in SUBSET Frame, Restart(left, orphans)
       PROVE  HotInv'
  <2>1. ASSUME NEW f \in Frame, label'[f] = "hot"
        PROVE  label[f] = "hot" \/ Reached(f) \/ EventHot(f, events)
    BY <1>12, <2>1 DEF Restart, OrphanLabel, Reached, TypeOK
  <2>2. \A f \in Frame : label'[f] = "hot" => WasHot(f)
    BY <1>0, <2>1, FrameIsHot, EventIsHot DEF HotInv, HotIsTrue
  <2>. QED
    BY <1>12, <2>2, SameReadings DEF Restart, HotInv
<1>13. CASE UNCHANGED vars
  BY <1>13, SameReadings DEF vars, HotInv, HotIsTrue
<1>. QED
  BY <1>1, <1>2, <1>3, <1>4, <1>5, <1>6, <1>7, <1>8, <1>9, <1>10, <1>11, <1>12, <1>13
     DEF Next

\* A HOT label is true, whichever of the three labellers wrote it and however they,
\* the ticks, the queue worker, stops and restarts interleave.
THEOREM HotLabelsTrue == Spec => []HotIsTrue
<1>1. Init => TypeOK /\ HotInv
  BY InitTypes, InitHot
<1>2. TypeOK /\ HotInv /\ [Next]_vars => (TypeOK /\ HotInv)'
  BY NextTypes, NextHot
<1>3. HotInv => HotIsTrue
  BY DEF HotInv
<1>. QED
  BY <1>1, <1>2, <1>3, PTL DEF Spec


-----------------------------------------------------------------------------
(* Trimming.                                                               *)

\* Nothing of a life is left when it is over.
Gone ==
  ~up => /\ ~busy /\ window = {} /\ queue = <<>> /\ lively = {}
         /\ ~live.on /\ fill.todo = {}

\* Frames wait in their order and have no vector while they do; what a pass has labelled
\* or is going to label has one.
Waiting ==
  /\ \A i, j \in 1 .. Len(queue) : i < j => queue[i] < queue[j]
  /\ \A i \in 1 .. Len(queue) :
       label[queue[i]] = "none" /\ queue[i] <= now /\ (busy => queue[i] < now)
  /\ \A f \in Frame : f > now \/ (busy /\ f = now) => label[f] = "none"
  /\ \A f \in lively \cup fill.todo : label[f] # "none"

\* The window has every frame since its oldest, but for the one that is being sampled.
Gapless ==
  /\ \A f \in window : f <= now /\ (busy => f < now)
  /\ \A f \in window, g \in Frame :
       f <= g /\ g <= now /\ ~(busy /\ g = now) => g \in window

\* Frames whose lookahead was over before the running pass began: those it is through
\* with have the right label, if it is a pass that labelled them, the others will get it.
Settled ==
  live.on =>
    /\ live.at <= now
    /\ \A f \in window : f + Lookahead < live.at =>
         IF f \in live.todo THEN f \in live.hot <=> WasHot(f)
         ELSE f \in lively => (label[f] = "hot" <=> WasHot(f))

TrimInv == TypeOK /\ Gone /\ Waiting /\ Gapless /\ Settled

LEMMA GoneStays ==
  ASSUME TrimInv, [Next]_vars
  PROVE  Gone'
<1> USE DEF TrimInv, Gone
<1>1. CASE UNCHANGED vars
  BY <1>1 DEF vars
<1>2. CASE Stop
  BY <1>2 DEF Stop, NoLive, NoFill
<1>3. CASE Down
  BY <1>3 DEF Down
<1>4. CASE up'
  BY <1>4
<1>5. CASE up /\ up' = up
  BY <1>5
<1>6. Next => Stop \/ Down \/ up' \/ (up /\ up' = up)
  BY DEF Next, TickStart, TickEnd, Drain, LiveStart, LiveOne, LiveDone, LiveFails,
         FillStart, FillList, FillWrites, FillSkips, Restart
<1>. QED
  BY <1>1, <1>2, <1>3, <1>4, <1>5, <1>6

\* The window is trimmed from its old end.
LEMMA GaplessStays ==
  ASSUME TrimInv, [Next]_vars
  PROVE  Gapless'
<1> USE DEF TrimInv
<1>0. now \in Nat /\ Frame \subseteq Nat /\ window \subseteq Frame /\ Lookahead \in Nat
      /\ busy \in BOOLEAN
  BY LabelsAssumption DEF TypeOK, Frame
<1>1. CASE TickStart
  <2>1. now' = now + 1 /\ busy' /\ ~busy /\ window' = window
    BY <1>1 DEF TickStart
  <2>. QED
    BY <1>0, <2>1 DEF Gapless
<1>2. CASE TickEnd
  <2>1. now' = now /\ busy /\ ~busy' /\ window' = window \cup {now}
    BY <1>2 DEF TickEnd
  <2>2. ASSUME NEW f \in window', NEW g \in Frame, f <= g, g <= now'
        PROVE  g \in window'
    BY <1>0, <2>1, <2>2 DEF Gapless
  <2>3. \A f \in window' : f <= now'
    BY <1>0, <2>1 DEF Gapless
  <2>. QED
    BY <2>1, <2>2, <2>3 DEF Gapless
<1>3. CASE LiveDone
  <2>1. now' = now /\ busy' = busy /\ window' = {f \in window : f >= live.at - 2 * Lookahead}
    BY <1>3 DEF LiveDone
  <2>2. live.at \in Nat
    BY LabelsAssumption DEF TypeOK
  <2> DEFINE c == live.at - 2 * Lookahead
  <2>3. c \in Int
    BY <1>0, <2>2
  <2> HIDE DEF c
  <2>4. window' = {f \in window : f >= c}
    BY <2>1 DEF c
  <2>5. \A f \in window' : f <= now' /\ (busy' => f < now')
    BY <2>1, <2>4 DEF Gapless
  <2>6. ASSUME NEW f \in window', NEW g \in Frame, f <= g, g <= now', ~(busy' /\ g = now')
        PROVE  g \in window'
    <3>1. f \in window /\ f >= c
      BY <2>4
    <3>2. g \in window
      BY <2>1, <2>6, <3>1 DEF Gapless
    <3>3. g >= c
      BY <1>0, <2>3, <2>6, <3>1
    <3>. QED
      BY <2>4, <3>2, <3>3
  <2>. QED
    BY <2>5, <2>6 DEF Gapless
<1>4. CASE Stop \/ Down
  <2>1. window' = {}
    BY <1>4 DEF Stop, Down, Gone
  <2>. QED
    BY <2>1 DEF Gapless
<1>5. CASE UNCHANGED <<now, busy, window>>
  BY <1>5 DEF Gapless
<1>6. Next => TickStart \/ TickEnd \/ LiveDone \/ Stop \/ Down \/ UNCHANGED <<now, busy, window>>
  BY DEF Next, Drain, LiveStart, LiveOne, LiveFails, FillStart, FillList, FillWrites,
         FillSkips, Restart
<1>7. UNCHANGED vars => UNCHANGED <<now, busy, window>>
  BY DEF vars
<1>. QED
  BY <1>1, <1>2, <1>3, <1>4, <1>5, <1>6, <1>7


\* A step that leaves the queue alone and gives no frame its first label.
LEMMA SameVectors ==
  ASSUME TypeOK, Waiting, UNCHANGED <<now, busy, queue>>,
         \A f \in Frame : label'[f] = "none" <=> label[f] = "none",
         lively' \subseteq Frame, fill'.todo \subseteq Frame,
         \A f \in lively' \cup fill'.todo : label[f] # "none"
  PROVE  Waiting'
<1>1. \A i \in 1 .. Len(queue) : queue[i] \in Frame
  BY DEF TypeOK
<1>2. \A i \in 1 .. Len(queue) : label'[queue[i]] = "none"
  BY <1>1 DEF Waiting
<1>3. \A f \in lively' \cup fill'.todo : label'[f] # "none"
  OBVIOUS
<1>. QED
  BY <1>2, <1>3 DEF Waiting

\* What waits after one more was put: that one last, before it what waited.
LEMMA EnqueuedIs ==
  ASSUME NEW f \in Frame, queue \in Seq(Frame), Len(queue) <= QueueMax
  PROVE  \E k \in {0, 1} :
           /\ Len(Enqueued(f)) = Len(queue) - k + 1
           /\ Enqueued(f)[Len(queue) - k + 1] = f
           /\ \A i \in 1 .. Len(queue) - k : /\ Enqueued(f)[i] = queue[i + k]
                                             /\ i + k \in 1 .. Len(queue)
<1>1. QueueMax \in Nat \ {0} /\ Len(queue) \in Nat
  BY LabelsAssumption
<1>2. CASE Len(queue) = QueueMax
  <2>1. queue # <<>>
    BY <1>1, <1>2
  <2>2. /\ Tail(queue) \in Seq(Frame) /\ Len(Tail(queue)) = Len(queue) - 1
        /\ \A i \in 1 .. Len(queue) - 1 : Tail(queue)[i] = queue[i + 1]
    BY <2>1
  <2>3. Enqueued(f) = Append(Tail(queue), f)
    BY <1>2 DEF Enqueued
  <2>4. /\ Len(Enqueued(f)) = Len(queue) /\ Enqueued(f)[Len(queue)] = f
        /\ \A i \in 1 .. Len(queue) - 1 : Enqueued(f)[i] = queue[i + 1]
    BY <1>1, <2>2, <2>3
  <2>5. Len(queue) - 1 + 1 = Len(queue) /\ \A i \in 1 .. Len(queue) - 1 : i + 1 \in 1 .. Len(queue)
    BY <1>1
  <2>. QED
    BY <2>4, <2>5
<1>3. CASE Len(queue) # QueueMax
  <2>1. /\ Len(Enqueued(f)) = Len(queue) + 1 /\ Enqueued(f)[Len(queue) + 1] = f
        /\ \A i \in 1 .. Len(queue) : Enqueued(f)[i] = queue[i]
    BY <1>1, <1>3 DEF Enqueued
  <2>2. Len(queue) - 0 = Len(queue) /\ \A i \in 1 .. Len(queue) : i + 0 = i
    BY <1>1
  <2>. QED
    BY <2>1, <2>2
<1>. QED
  BY <1>2, <1>3

LEMMA TickEndWaits ==
  ASSUME TrimInv, TickEnd
  PROVE  Waiting'
<1> USE DEF TrimInv
<1>1. /\ now \in Frame /\ busy /\ ~busy' /\ queue' = Enqueued(now)
      /\ UNCHANGED <<now, label, lively, fill>>
  BY DEF TickEnd, TypeOK
<1> DEFINE n == Len(queue)
<1>2. queue \in Seq(Frame) /\ n <= QueueMax /\ n \in Nat /\ Frame \subseteq Nat
  BY DEF TypeOK, Frame
<1>3. PICK k \in {0, 1} :
        /\ Len(queue') = n - k + 1 /\ queue'[n - k + 1] = now
        /\ \A i \in 1 .. n - k : queue'[i] = queue[i + k] /\ i + k \in 1 .. n
  BY <1>1, <1>2, EnqueuedIs
<1>4. /\ \A i, j \in 1 .. n : i < j => queue[i] < queue[j]
      /\ \A i \in 1 .. n : queue[i] \in Frame /\ label[queue[i]] = "none" /\ queue[i] < now
      /\ label[now] = "none"
  BY <1>1, <1>2 DEF Waiting
<1> DEFINE m == n - k
<1>5. /\ m \in Int /\ k \in Int /\ Len(queue') = m + 1 /\ queue'[m + 1] = now
      /\ \A i \in 1 .. m : queue'[i] = queue[i + k] /\ i + k \in 1 .. n
  BY <1>2, <1>3
<1> HIDE DEF m, n
<1>6. \A i \in 1 .. m + 1 : i \in 1 .. m \/ i = m + 1
  BY <1>5
<1>7. ASSUME NEW i \in 1 .. m + 1, NEW j \in 1 .. m + 1, i < j
      PROVE  queue'[i] < queue'[j]
  <2>1. i \in 1 .. m
    BY <1>5, <1>7
  <2>2. CASE j \in 1 .. m
    <3>1. i + k < j + k
      BY <1>5, <1>7
    <3>. QED
      BY <1>4, <1>5, <2>1, <2>2, <3>1
  <2>3. CASE j = m + 1
    BY <1>4, <1>5, <2>1, <2>3
  <2>. QED
    BY <1>6, <2>2, <2>3
<1>8. ASSUME NEW i \in 1 .. m + 1
      PROVE  label[queue'[i]] = "none" /\ queue'[i] <= now
  <2>1. CASE i \in 1 .. m
    <3>1. queue'[i] = queue[i + k] /\ i + k \in 1 .. n
      BY <1>5, <2>1
    <3>2. label[queue'[i]] = "none" /\ queue'[i] < now /\ queue'[i] \in Nat
      BY <1>2, <1>4, <3>1
    <3>. QED
      BY <1>1, <1>2, <3>2
  <2>2. CASE i = m + 1
    <3>1. queue'[i] = now /\ now \in Nat
      BY <1>1, <1>2, <1>5, <2>2
    <3>. QED
      BY <1>4, <3>1
  <2>. QED
    BY <1>6, <2>1, <2>2
<1>. QED
  BY <1>1, <1>5, <1>7, <1>8 DEF Waiting

LEMMA DrainWaits ==
  ASSUME TrimInv, Drain
  PROVE  Waiting'
<1> USE DEF TrimInv
<1> DEFINE n == Len(queue)
           h == Head(queue)
<1>1. /\ queue # <<>> /\ queue' = Tail(queue) /\ UNCHANGED <<now, busy, lively, fill>>
      /\ label' \in {label, [label EXCEPT ![h] = "unknown"]}
  BY DEF Drain
<1>2. /\ queue \in Seq(Frame) /\ label \in [Frame -> {"none", "unknown", "hot", "cool"}]
      /\ lively \subseteq Frame /\ fill.todo \subseteq Frame /\ Frame \subseteq Nat
  BY DEF TypeOK, Frame
<1>3. /\ n \in Nat /\ n > 0 /\ h = queue[1] /\ h \in Frame /\ 1 \in 1 .. n
      /\ Len(queue') = n - 1
      /\ \A i \in 1 .. n - 1 : queue'[i] = queue[i + 1] /\ i + 1 \in 1 .. n
  BY <1>1, <1>2
<1> HIDE DEF n, h
<1>4. /\ \A i, j \in 1 .. n : i < j => queue[i] < queue[j]
      /\ \A i \in 1 .. n : /\ queue[i] \in Frame /\ label[queue[i]] = "none"
                           /\ queue[i] <= now /\ (busy => queue[i] < now)
  BY <1>2 DEF Waiting, n
<1>5. \A f \in Frame : f # h => label'[f] = label[f]
  BY <1>1, <1>2
<1>6. \A i \in 1 .. n - 1 : queue'[i] # h
  <2>1. \A i \in 1 .. n - 1 : 1 < i + 1
    BY <1>3
  <2>2. \A i \in 1 .. n - 1 : h < queue'[i]
    BY <1>3, <1>4, <2>1
  <2>. QED
    BY <1>2, <1>3, <1>4, <2>2
<1>7. \A i, j \in 1 .. n - 1 : i < j => queue'[i] < queue'[j]
  <2>1. \A i, j \in 1 .. n - 1 : i < j => i + 1 < j + 1
    BY <1>3
  <2>. QED
    BY <1>3, <1>4, <2>1
<1>8. \A i \in 1 .. n - 1 : /\ label'[queue'[i]] = "none" /\ queue'[i] <= now
                            /\ (busy => queue'[i] < now)
  BY <1>3, <1>4, <1>5, <1>6
<1>9. \A f \in Frame : f > now \/ (busy /\ f = now) => label'[f] = "none"
  <2>1. h <= now /\ (busy => h < now) /\ now \in Nat
    BY <1>3, <1>4, LabelsAssumption DEF TypeOK
  <2>2. \A f \in Frame : f > now \/ (busy /\ f = now) => f # h
    BY <1>2, <1>3, <2>1
  <2>. QED
    BY <1>5, <2>2 DEF Waiting
<1>10. \A f \in lively \cup fill.todo : label'[f] # "none"
  BY <1>1, <1>2 DEF Waiting
<1>. QED
  BY <1>1, <1>3, <1>7, <1>8, <1>9, <1>10 DEF Waiting

LEMMA WaitingStays ==
  ASSUME TrimInv, [Next]_vars
  PROVE  Waiting'
<1> USE DEF TrimInv
<1>0. /\ label \in [Frame -> {"none", "unknown", "hot", "cool"}] /\ now \in Nat
      /\ lively \subseteq Frame /\ fill.todo \subseteq Frame /\ live.todo \subseteq Frame
      /\ Frame \subseteq Nat /\ busy \in BOOLEAN
      /\ \A f \in lively \cup fill.todo : label[f] # "none"
  BY LabelsAssumption DEF TypeOK, Frame, Waiting
<1>1. CASE TickStart
  <2>1. /\ now' = now + 1 /\ ~busy /\ busy' /\ UNCHANGED <<queue, label, lively, fill>>
    BY <1>1 DEF TickStart
  <2>2. \A i \in 1 .. Len(queue) : queue[i] \in Nat /\ queue[i] <= now
    <3>1. \A i \in 1 .. Len(queue) : queue[i] \in Frame
      BY DEF TypeOK
    <3>. QED
      BY <1>0, <3>1 DEF Waiting
  <2>3. \A i \in 1 .. Len(queue) : queue[i] <= now + 1 /\ queue[i] < now + 1
    BY <1>0, <2>2
  <2>4. \A f \in Nat : f >= now + 1 => f > now
    BY <1>0
  <2>5. \A f \in Frame : f > now + 1 \/ f = now + 1 => label[f] = "none"
    BY <1>0, <2>4 DEF Waiting
  <2>. QED
    BY <2>1, <2>3, <2>5 DEF Waiting
<1>2. CASE TickEnd \/ Drain
  BY <1>2, TickEndWaits, DrainWaits
<1>3. CASE LiveStart \/ LiveDone \/ LiveFails \/ UNCHANGED vars
  <2>1. UNCHANGED <<now, busy, queue, label, fill>> /\ lively' \subseteq lively
    BY <1>3 DEF LiveStart, LiveDone, LiveFails, vars
  <2>. QED
    BY <1>0, <2>1, SameVectors
<1>4. CASE LiveOne
  <2>1. PICK f \in live.todo :
          IF label[f] = "none" THEN UNCHANGED <<label, lively>>
          ELSE /\ label' = [label EXCEPT ![f] = IF f \in live.hot THEN "hot" ELSE "cool"]
               /\ lively' = lively \cup {f}
    BY <1>4 DEF LiveOne
  <2>2. UNCHANGED <<now, busy, queue, fill>>
    BY <1>4 DEF LiveOne
  <2>3. \A g \in Frame : label'[g] = "none" <=> label[g] = "none"
    BY <1>0, <2>1
  <2>4. /\ lively' \subseteq Frame
        /\ \A g \in lively' \cup fill'.todo : label[g] # "none"
    BY <1>0, <2>1, <2>2
  <2>. QED
    BY <1>0, <2>2, <2>3, <2>4, SameVectors
<1>5. CASE FillStart \/ FillList
  <2>1. UNCHANGED <<now, busy, queue, label, lively>>
    BY <1>5 DEF FillStart, FillList
  <2>2. fill'.todo \subseteq Unknown
    <3>1. FillStart => fill'.todo = {}
      BY DEF FillStart, NoFill
    <3>2. FillList /\ Unknown = {} => fill'.todo = {}
      BY DEF FillList, NoFill
    <3>3. FillList /\ Unknown # {} => fill'.todo = Unknown
      BY DEF FillList, NoFill
    <3>. QED
      BY <1>5, <3>1, <3>2, <3>3
  <2>. QED
    BY <1>0, <2>1, <2>2, SameVectors DEF Unknown
<1>6. ASSUME NEW f \in Frame, FillWrites(f) \/ FillSkips(f) PROVE Waiting'
  <2>1. f \in fill.todo /\ fill'.todo \subseteq fill.todo
    <3>1. f \in fill.todo /\ fill' \in {NoFill, [fill EXCEPT !.todo = @ \ {f}, !.hot = @ \ {f}]}
      BY <1>6 DEF FillWrites, FillSkips, FillNext
    <3>2. CASE fill' = NoFill
      BY <3>1, <3>2 DEF NoFill
    <3>3. CASE fill' = [fill EXCEPT !.todo = @ \ {f}, !.hot = @ \ {f}]
      <4>1. fill'.todo = fill.todo \ {f}
        BY <3>3 DEF TypeOK
      <4>. QED
        BY <3>1, <4>1
    <3>. QED
      BY <3>1, <3>2, <3>3
  <2>2. UNCHANGED <<now, busy, queue>> /\ lively' \subseteq lively
    BY <1>6 DEF FillWrites, FillSkips
  <2>3. \A g \in Frame : label'[g] = "none" <=> label[g] = "none"
    BY <1>0, <1>6, <2>1 DEF FillWrites, FillSkips
  <2>. QED
    BY <1>0, <2>1, <2>2, <2>3, SameVectors
<1>7. CASE Stop
  BY <1>0, <1>7 DEF Stop, Waiting, NoFill
<1>8. CASE Down
  <2>1. now' = now + 1 /\ UNCHANGED <<busy, queue, label, lively, fill>> /\ queue = <<>> /\ ~busy
    BY <1>8 DEF Down, Gone
  <2>2. \A f \in Frame : f > now + 1 => f > now
    BY <1>0
  <2>3. Len(queue) = 0
    BY <2>1
  <2>. QED
    BY <1>0, <2>1, <2>2, <2>3 DEF Waiting
<1>9. ASSUME NEW left \in SUBSET Frame, NEW orphans \in SUBSET Frame, Restart(left, orphans)
      PROVE  Waiting'
  <2>1. UNCHANGED <<now, busy, queue, lively, fill>> /\ orphans \subseteq Unknown
    BY <1>9 DEF Restart
  <2>2. ASSUME NEW f \in Frame PROVE label'[f] = "none" <=> label[f] = "none"
    <3>1. label'[f] = IF f \in orphans THEN OrphanLabel(f)
                      ELSE IF f \in Unknown \ left
                           THEN IF EventHot(f, events) THEN "hot" ELSE "cool"
                           ELSE label[f]
      BY <1>9 DEF Restart
    <3>2. f \in Unknown => label[f] # "none"
      BY DEF Unknown
    <3>. QED
      BY <2>1, <3>1, <3>2 DEF OrphanLabel
  <2>. QED
    BY <1>0, <2>1, <2>2, SameVectors
<1>. QED
  BY <1>1, <1>2, <1>3, <1>4, <1>5, <1>6, <1>7, <1>8, <1>9 DEF Next


\* Whether a frame was hot is settled once its lookahead is over.
LEMMA OverStays ==
  ASSUME TypeOK, NEW f \in Frame, f + Lookahead <= now, UNCHANGED temp \/ TickStart
  PROVE  WasHot(f)' <=> WasHot(f)
<1>1. now \in Nat /\ Lookahead \in Nat /\ Frame \subseteq Nat
      /\ temp \in [Frame -> Temp \cup {0}]
  BY LabelsAssumption DEF TypeOK, Frame
<1>2. \A g \in Frame : g <= f + Lookahead => temp'[g] = temp[g]
  <2>1. CASE UNCHANGED temp
    BY <2>1
  <2>2. CASE TickStart
    <3>1. \A g \in Frame : g # now + 1 => temp'[g] = temp[g]
      BY <1>1, <2>2 DEF TickStart
    <3>. QED
      BY <1>1, <3>1
  <2>. QED
    BY <2>1, <2>2
<1>. QED
  BY <1>2 DEF WasHot

\* What the pass decides from its copy of the window is right for those frames.
LEMMA PeaksAreRight ==
  ASSUME TrimInv, NEW f \in window, f + Lookahead < now
  PROVE  PeakHot(f) <=> WasHot(f)
<1> USE DEF TrimInv
<1>1. f \in Frame /\ now \in Nat /\ Lookahead \in Nat /\ Frame \subseteq Nat
  BY LabelsAssumption DEF TypeOK, Frame
<1>2. ASSUME NEW g \in Frame, f <= g, g <= f + Lookahead, temp[g] >= Hot
      PROVE  g \in window
  <2>1. g <= now /\ g # now
    BY <1>1, <1>2
  <2>. QED
    BY <1>2, <2>1 DEF Gapless
<1>. QED
  BY <1>1, <1>2, PeakIsHot DEF PeakHot, WasHot

LEMMA LiveOneSettles ==
  ASSUME TrimInv, LiveOne
  PROVE  Settled'
<1> USE DEF TrimInv
<1>1. PICK f \in live.todo :
        /\ live' = [live EXCEPT !.todo = @ \ {f}, !.hot = @ \ {f}]
        /\ IF label[f] = "none" THEN UNCHANGED <<label, lively>>
           ELSE /\ label' = [label EXCEPT ![f] = IF f \in live.hot THEN "hot" ELSE "cool"]
                /\ lively' = lively \cup {f}
  BY DEF LiveOne
<1>2. live.on /\ UNCHANGED <<now, temp, window>>
  BY DEF LiveOne
<1>3. live \in LiveType /\ label \in [Frame -> {"none", "unknown", "hot", "cool"}]
      /\ window \subseteq Frame
  BY DEF TypeOK, LiveType
<1>4. live'.on /\ live'.at = live.at /\ live'.todo = live.todo \ {f} /\ live'.hot = live.hot \ {f}
  BY <1>1, <1>2, <1>3 DEF LiveType
<1>5. f \in Frame
  BY <1>3 DEF LiveType
<1>6. ASSUME NEW g \in window, g + Lookahead < live.at
      PROVE  IF g \in live'.todo THEN g \in live'.hot <=> WasHot(g)
             ELSE g \in lively' => (label'[g] = "hot" <=> WasHot(g))
  <2>1. IF g \in live.todo THEN g \in live.hot <=> WasHot(g)
        ELSE g \in lively => (label[g] = "hot" <=> WasHot(g))
    BY <1>2, <1>6 DEF Settled
  <2>2. CASE g # f
    <3>1. label'[g] = label[g] /\ (g \in lively' <=> g \in lively)
      BY <1>1, <1>3, <2>2
    <3>. QED
      BY <1>4, <2>1, <2>2, <3>1
  <2>3. CASE g = f /\ label[f] = "none"
    <3>1. f \notin lively
      BY <2>3 DEF Waiting
    <3>. QED
      BY <1>1, <1>4, <2>3, <3>1
  <2>4. CASE g = f /\ label[f] # "none"
    <3>1. label'[f] = IF f \in live.hot THEN "hot" ELSE "cool"
      BY <1>1, <1>3, <1>5, <2>4
    <3>2. f \in live.hot <=> WasHot(f)
      BY <1>1, <2>1, <2>4
    <3>. QED
      BY <1>4, <2>4, <3>1, <3>2
  <2>. QED
    BY <2>2, <2>3, <2>4
<1>7. \A g \in window : WasHot(g)' <=> WasHot(g)
  BY <1>2 DEF WasHot
<1>. QED
  BY <1>2, <1>4, <1>6, <1>7 DEF Settled

LEMMA SettledStays ==
  ASSUME TrimInv, [Next]_vars
  PROVE  Settled'
<1> USE DEF TrimInv
<1>0. /\ label \in [Frame -> {"none", "unknown", "hot", "cool"}] /\ now \in Nat
      /\ window \subseteq Frame /\ Frame \subseteq Nat /\ Lookahead \in Nat /\ live.at \in Nat
  BY LabelsAssumption DEF TypeOK, Frame
<1>1. live.on => \A f \in window : f + Lookahead < live.at => f + Lookahead <= now
  BY <1>0 DEF Settled
<1>2. CASE TickStart
  <2>1. UNCHANGED <<window, label, lively, live>> /\ now' = now + 1
    BY <1>2 DEF TickStart
  <2>2. live.on => \A f \in window : f + Lookahead < live.at => (WasHot(f)' <=> WasHot(f))
    BY <1>0, <1>1, <1>2, OverStays
  <2>3. live.on => live.at <= now + 1
    BY <1>0 DEF Settled
  <2>. QED
    BY <2>1, <2>2, <2>3 DEF Settled
<1>3. CASE TickEnd
  <2>1. UNCHANGED <<now, temp, label, lively, live>> /\ window' = window \cup {now}
    BY <1>3 DEF TickEnd
  <2>2. live.on => ~(now + Lookahead < live.at)
    BY <1>0 DEF Settled
  <2>3. \A f : WasHot(f)' <=> WasHot(f)
    BY <2>1 DEF WasHot
  <2>. QED
    BY <2>1, <2>2, <2>3 DEF Settled
<1>4. CASE Drain
  <2>1. UNCHANGED <<now, temp, window, lively, live>>
        /\ label' \in {label, [label EXCEPT ![Head(queue)] = "unknown"]} /\ queue # <<>>
    BY <1>4 DEF Drain
  <2>2. Head(queue) \notin lively
    <3>1. Len(queue) > 0 /\ Len(queue) \in Nat /\ Head(queue) = queue[1]
      BY <2>1 DEF TypeOK
    <3>2. label[Head(queue)] = "none"
      BY <3>1 DEF Waiting
    <3>. QED
      BY <3>2 DEF Waiting
  <2>3. \A f \in window : f \in lively => label'[f] = label[f]
    BY <1>0, <2>1, <2>2
  <2>4. \A f : WasHot(f)' <=> WasHot(f)
    BY <2>1 DEF WasHot
  <2>. QED
    BY <2>1, <2>3, <2>4 DEF Settled
<1>5. CASE LiveStart
  <2> DEFINE due == {f \in window : f + Lookahead <= now}
  <2>1. /\ live' = [on |-> TRUE, at |-> now, todo |-> due, hot |-> {f \in due : PeakHot(f)}]
        /\ UNCHANGED <<now, temp, window, label, lively>>
    BY <1>5 DEF LiveStart
  <2>2. \A f \in window : f + Lookahead < now => f \in due
    BY <1>0
  <2>3. \A f \in window : f + Lookahead < now => (f \in live'.hot <=> WasHot(f))
    BY <2>1, <2>2, PeaksAreRight
  <2>4. \A f : WasHot(f)' <=> WasHot(f)
    BY <2>1 DEF WasHot
  <2>5. live'.on /\ live'.at = now /\ live'.todo = due /\ now <= now
    BY <1>0, <2>1
  <2>. QED
    BY <2>1, <2>2, <2>3, <2>4, <2>5 DEF Settled
<1>6. CASE LiveOne
  BY <1>6, LiveOneSettles
<1>7. CASE LiveDone \/ LiveFails \/ Stop \/ Down
  <2>1. ~live'.on
    BY <1>7 DEF LiveDone, LiveFails, Stop, Down, NoLive, Gone
  <2>. QED
    BY <2>1 DEF Settled
<1>8. CASE FillStart \/ FillList \/ UNCHANGED vars
  <2>1. UNCHANGED <<now, temp, window, label, lively, live>>
    BY <1>8 DEF FillStart, FillList, vars
  <2>2. \A f : WasHot(f)' <=> WasHot(f)
    BY <2>1 DEF WasHot
  <2>. QED
    BY <2>1, <2>2 DEF Settled
<1>9. ASSUME NEW f \in Frame, FillWrites(f) \/ FillSkips(f) PROVE Settled'
  <2>1. UNCHANGED <<now, temp, window, live>>
    BY <1>9 DEF FillWrites, FillSkips
  <2>2. \A g \in Frame : g \in lively' => g \in lively /\ label'[g] = label[g]
    BY <1>0, <1>9 DEF FillWrites, FillSkips
  <2>3. \A g : WasHot(g)' <=> WasHot(g)
    BY <2>1 DEF WasHot
  <2>. QED
    BY <1>0, <2>1, <2>2, <2>3 DEF Settled
<1>10. ASSUME NEW left \in SUBSET Frame, NEW orphans \in SUBSET Frame, Restart(left, orphans)
       PROVE  Settled'
  <2>1. ~live'.on
    BY <1>10 DEF Restart, Gone
  <2>. QED
    BY <2>1 DEF Settled
<1>. QED
  BY <1>2, <1>3, <1>4, <1>5, <1>6, <1>7, <1>8, <1>9, <1>10 DEF Next

\* A frame leaves the window only after its label is settled, if the live pass gave it
\* one: however ticks overlap the pass and whatever the queue and the backfill do
\* meanwhile.
THEOREM TrimmedSettled == Spec => TrimsOnlySettled
<1>1. Init => TrimInv
  <2> SUFFICES ASSUME Init PROVE TrimInv
    OBVIOUS
  <2>1. TypeOK
    BY InitTypes
  <2>2. Gone /\ Waiting /\ Gapless /\ Settled
    BY DEF Init, NoLive, NoFill, Gone, Waiting, Gapless, Settled
  <2>. QED
    BY <2>1, <2>2 DEF TrimInv
<1>2. TrimInv /\ [Next]_vars => TrimInv'
  <2>1. TrimInv /\ [Next]_vars => TypeOK'
    BY NextTypes DEF TrimInv
  <2>. QED
    BY <2>1, GoneStays, WaitingStays, GaplessStays, SettledStays DEF TrimInv
<1>3. ASSUME TrimInv, [Next]_vars, NEW f \in window \ window', up', f \in lively
      PROVE  label[f] = "hot" <=> WasHot(f)
  <2>1. LiveDone
    BY <1>3 DEF Next, TickStart, TickEnd, Drain, LiveStart, LiveOne, LiveFails, FillStart,
                FillList, FillWrites, FillSkips, Stop, Down, Restart, vars
  <2>2. live.on /\ live.todo = {} /\ ~(f >= live.at - 2 * Lookahead)
    BY <1>3, <2>1 DEF LiveDone
  <2>3. f \in Nat /\ live.at \in Nat /\ Lookahead \in Nat
    <3>1. f \in Frame /\ live.at \in 0 .. MaxTime
      BY <1>3 DEF TrimInv, TypeOK
    <3>. QED
      BY <3>1, LabelsAssumption DEF Frame
  <2>4. f + Lookahead < live.at
    BY <2>2, <2>3
  <2>. QED
    BY <1>3, <2>2, <2>4 DEF TrimInv, Settled
<1> DEFINE Settles == \A f \in window \ window' :
                        up' /\ f \in lively => (label[f] = "hot" <=> WasHot(f))
<1>4. TrimInv /\ [Next]_vars => [Settles]_vars
  BY <1>3
<1> HIDE DEF Settles
<1>5. Spec => [][Settles]_vars
  BY <1>1, <1>2, <1>4, PTL DEF Spec
<1>. QED
  BY <1>5 DEF TrimsOnlySettled, Settles
=============================================================================
