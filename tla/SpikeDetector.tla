------------------------------ MODULE SpikeDetector ------------------------------
(***************************************************************************)
(* The spike detector: every validated residual is fed to it; it opens a   *)
(* spike after a streak of large ones and closes it after a streak of      *)
(* small ones or of deeply negative ones.  It keeps counters only; seen    *)
(* and spikes keep the whole stream beside them for comparison with what a *)
(* spike is.                                                               *)
(***************************************************************************)
EXTENDS Integers, Sequences, FiniteSets

CONSTANTS
  Residuals,  \* BOUND: residuals, in degrees
  EntryN, ExitN, NegN, \* streaks: 2, 3 and 10 by default
  MaxStream   \* BOUND: validated residuals

ASSUME SpikeAssumption ==
  /\ Residuals \subseteq Int
  /\ EntryN \in Nat \ {0} /\ ExitN \in Nat \ {0} /\ NegN \in Nat \ {0}
  /\ MaxStream \in Nat

EntryThresh == 5
ExitThresh  == 2
NegThresh   == 5

VARIABLES
  spike,  \* SpikeState
  seen,   \* history: the residuals so far
  opened, \* history: where in seen the open spike was opened
  spikes  \* history: the closed spikes

spikeVars == <<spike, seen, opened, spikes>>

Size(r) == IF r < 0 THEN -r ELSE r
Larger(a, b) == IF a > b THEN a ELSE b

Fresh == [active |-> FALSE, high |-> 0, low |-> 0, neg |-> 0, worst |-> 0,
          count |-> 0]

SpikeTypeOK ==
  /\ seen \in Seq(Residuals) /\ Len(seen) <= MaxStream
  /\ spike \in [active : BOOLEAN, high : 0 .. EntryN, low : 0 .. ExitN,
                neg : 0 .. NegN, worst : Nat, count : 0 .. MaxStream]
  /\ opened \in 0 .. Len(seen) /\ (spike.active => opened > 0)
  /\ \A s \in spikes : s.to \in 1 .. Len(seen) /\ s.from <= s.to

SpikeInit == spike = Fresh /\ seen = <<>> /\ opened = 0 /\ spikes = {}

-----------------------------------------------------------------------------

\* The entry streak survives a residual that is not large.
WaitingKeepsMutant(s, r) ==
  LET high == IF Size(r) >= EntryThresh THEN s.high + 1 ELSE s.high
  IN  IF high >= EntryN
      THEN [s EXCEPT !.active = TRUE, !.high = high, !.low = 0, !.worst = Size(r),
                     !.count = high]
      ELSE [s EXCEPT !.high = high]

\* update, while no spike is open.
Waiting(s, r) ==
  LET high == IF Size(r) >= EntryThresh THEN s.high + 1 ELSE 0
  IN  IF high >= EntryN
      THEN [s EXCEPT !.active = TRUE, !.high = high, !.low = 0, !.worst = Size(r),
                     !.count = high]
      ELSE [s EXCEPT !.high = high]

\* update, in a spike: the counters before the decision to close it.
Counted(s, r) ==
  [s EXCEPT !.count = @ + 1, !.worst = Larger(@, Size(r)),
            !.low = IF Size(r) < ExitThresh THEN @ + 1 ELSE 0,
            !.neg = IF r <= -NegThresh THEN @ + 1 ELSE 0]

Closure(s) ==
  IF s.low >= ExitN THEN "calmed"
  ELSE IF s.neg >= NegN THEN "predictor_margin_exceeded" ELSE "open"

SpikeUpdate ==
  \E r \in Residuals :
    /\ Len(seen) < MaxStream
    /\ seen' = Append(seen, r)
    /\ IF ~spike.active
       THEN /\ spike' = Waiting(spike, r)
            /\ opened' = IF spike'.active THEN Len(seen') ELSE 0
            /\ UNCHANGED spikes
       ELSE LET s == Counted(spike, r) IN
            IF Closure(s) = "open"
            THEN spike' = s /\ UNCHANGED <<opened, spikes>>
            ELSE /\ spike' = Fresh /\ opened' = 0
                 /\ spikes' = spikes \cup
                      {[from |-> opened, to |-> Len(seen'), why |-> Closure(s),
                        worst |-> s.worst, count |-> s.count]}

SpikeNext == SpikeUpdate

-----------------------------------------------------------------------------

\* The last n residuals up to i, all after the residual at start.
Streak(start, i, n, Holds(_)) ==
  i - n >= start /\ \A j \in i - n + 1 .. i : Holds(seen[j])

Large(r)  == Size(r) >= EntryThresh
Small(r)  == Size(r) < ExitThresh
Deep(r)   == r <= -NegThresh

Calm(start, i)   == Streak(start, i, ExitN, Small)
Margin(start, i) == Streak(start, i, NegN, Deep)

\* Where the stream was quiet before a spike: after the spike before it.
Before(from) ==
  LET ends == {s.to : s \in {t \in spikes : t.to < from}}
  IN  IF ends = {} THEN 0 ELSE CHOOSE e \in ends : \A f \in ends : f <= e

Entered(from) ==
  /\ Streak(Before(from), from, EntryN, Large)
  /\ \A i \in Before(from) + 1 .. from - 1 : ~Streak(Before(from), i, EntryN, Large)

\* Spikes are what the thresholds and streaks say (the comment above
\* SpikeState and the tests): from the first streak of large residuals since
\* the last spike to the first streak of small or deeply negative ones after
\* it, with the worst residual and the number of validations between, so that
\* neither a lone outlier opens one nor a lone calm residual closes one.
SpikesAsDefined ==
  /\ \A s \in spikes :
       /\ Entered(s.from)
       /\ \A i \in s.from + 1 .. s.to - 1 : ~Calm(s.from, i) /\ ~Margin(s.from, i)
       /\ IF Calm(s.from, s.to) THEN s.why = "calmed"
          ELSE Margin(s.from, s.to) /\ s.why = "predictor_margin_exceeded"
       /\ s.count = s.to - s.from + EntryN
       /\ \A i \in s.from .. s.to : Size(seen[i]) <= s.worst
       /\ \E i \in s.from .. s.to : Size(seen[i]) = s.worst
  /\ spike.active =>
       /\ Entered(opened)
       /\ \A i \in opened + 1 .. Len(seen) : ~Calm(opened, i) /\ ~Margin(opened, i)
  /\ ~spike.active =>
       \A i \in Before(Len(seen) + 1) + 1 .. Len(seen) :
         ~Streak(Before(Len(seen) + 1), i, EntryN, Large)
================================================================================
