------------------------------- MODULE MCForecast -------------------------------
(* The prediction loop and what its samples and frames are fed to, side by  *)
(* side: a behaviour is one of the five, the others rest.                   *)
EXTENDS Forecast, ResidualStore, SpikeDetector, EventSegmenter, Response

VARIABLE machine

MCDurations == {2, 4}
MCResiduals == {-6, 0, 3, 6}
MCFrames ==
  [load : {10, 14}, temp : {50, 99}, label : {"a"}]
    \cup {[load |-> 10, temp |-> 50, label |-> "b"], [load |-> 60, temp |-> 50, label |-> "a"]}

MCNoTemp == -1

MCWindows ==
  {<<-1, -1, -1>>, <<70, -1, -1>>, <<60, 60, 60>>, <<74, 74, 74>>, <<78, 79, 80>>,
   <<79, 79, 80>>, <<79, 80, 80>>, <<70, 76, 81>>, <<86, 86, 86>>, <<90, 85, 80>>,
   <<95, 92, 84>>, <<79, 80, -1>>, <<83, 83, 83>>, <<76, 76, 76>>}
MCVotes ==
  {Cold, [hot |-> 1, cool |-> 1, peak |-> 88], [hot |-> 0, cool |-> 20, peak |-> 0],
   [hot |-> 19, cool |-> 1, peak |-> 96], [hot |-> 6, cool |-> 5, peak |-> 88],
   [hot |-> 1, cool |-> 15, peak |-> 84]}
MCBanks ==
  {[n |-> 0, mean |-> 0, std |-> 2], [n |-> 9, mean |-> -6, std |-> 1],
   [n |-> 9, mean |-> 4, std |-> 6]}
MCBase == [t \in {45, 60, 72, 75, 80, 84, 90} |->
             CASE t = 45 -> 500 [] t = 60 -> 1000 [] t = 72 -> 1900 [] t = 75 -> 2000
               [] t = 80 -> 5000 [] t = 84 -> 8000 [] t = 90 -> 9500]

\* BOUND: every prediction and decision on one workload, every workload on a
\* few predictions.
MCScenes ==
  [window : MCWindows, indexed : BOOLEAN, votes : MCVotes, bucket : MCBanks,
   mode : {"cool", "quiet", "off"}, ready : BOOLEAN, labeled : {4, 5},
   profile : {"other"}, headroom : {FALSE}, recent : {0}, soak : {0}, base : {MCBase}]
  \cup
  [window : MCWindows, indexed : BOOLEAN, votes : MCVotes,
   bucket : {[n |-> 9, mean |-> 4, std |-> 1]},
   mode : {"cool", "quiet", "off"}, ready : {TRUE}, labeled : {5},
   profile : {"idle", "code", "game"}, headroom : BOOLEAN, recent : {0, 2},
   soak : {0, 100}, base : {MCBase}]

MCInit ==
  /\ machine \in {"forecast", "log", "spikes", "sessions", "response"}
  /\ Init /\ ResidualInit /\ SpikeInit /\ SegmenterInit /\ ResponseInit

\* BOUND: a stream that was fed to its end.
AtEnd ==
  \/ machine = "spikes" /\ Len(seen) = MaxStream
  \/ machine = "sessions" /\ Len(stream) = MaxFrames
  \/ machine = "response" /\ Shown

MCNext ==
  /\ \/ /\ machine = "forecast" /\ Next
        /\ UNCHANGED <<residualVars, spikeVars, segmenterVars, responseVars>>
     \/ /\ machine = "log" /\ ResidualNext
        /\ UNCHANGED <<vars, spikeVars, segmenterVars, responseVars>>
     \/ /\ machine = "spikes" /\ SpikeNext
        /\ UNCHANGED <<vars, residualVars, segmenterVars, responseVars>>
     \/ /\ machine = "sessions" /\ SegmenterNext
        /\ UNCHANGED <<vars, residualVars, spikeVars, responseVars>>
     \/ /\ machine = "response" /\ ResponseNext
        /\ UNCHANGED <<vars, residualVars, spikeVars, segmenterVars>>
     \/ AtEnd /\ UNCHANGED <<vars, residualVars, spikeVars, segmenterVars, responseVars>>
  /\ UNCHANGED machine

\* Every state of the machines is well typed.
WellTyped == TypeOK /\ ResidualTypeOK /\ SpikeTypeOK /\ SegmenterTypeOK

\* Spikes and sessions are what their definitions say of the whole stream,
\* though both are found by counters and a window (see the two modules).
StreamsAsDefined == SpikesAsDefined /\ SegmentsAsDefined
================================================================================
