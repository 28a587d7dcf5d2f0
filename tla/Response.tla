-------------------------------- MODULE Response --------------------------------
(***************************************************************************)
(* What one tick makes of its window of frames: features, the base         *)
(* prediction (neighbours, or the trajectory when there is no index) with  *)
(* the trajectory overlay, the bank's correction, the verbs of the         *)
(* decision engine and the fan curve of the policies.                      *)
(*                                                                         *)
(* Units: degrees; slopes, probabilities and confidences in hundredths;    *)
(* fan percents in hundredths.  Frames are a second apart.                 *)
(***************************************************************************)
EXTENDS Integers, Sequences, FiniteSetsExt

CONSTANTS
  NoTempR,    \* a frame without a reading
  ShortN,     \* _short_n, 5
  TopK,       \* top_k, 20
  Scenes      \* BOUND: what a tick can find

Cold == [hot |-> -1, cool |-> -1, peak |-> -1]
NoSlope == -100000

\* A scene: the temperatures of the window, the neighbours' votes (Cold if there are
\* none yet), the bank's bucket, the mode, the workload and the curve to start from.
SceneTypeOK(s) ==
  /\ s.window \in Seq(Int) /\ s.window # <<>>
  /\ {s.indexed, s.ready, s.headroom} \subseteq BOOLEAN
  /\ s.mode \in {"cool", "quiet", "off"} /\ s.bucket \in [n : Nat, mean : Int, std : Nat]
  /\ \/ s.votes = Cold
     \/ s.votes \in [hot : Nat, cool : Nat, peak : Int] /\ s.votes.hot + s.votes.cool <= TopK
  /\ {s.labeled, s.recent, s.soak} \subseteq Nat
  /\ s.base \in [DOMAIN s.base -> Int] /\ DOMAIN s.base \subseteq Int

ASSUME ResponseAssumption ==
  /\ NoTempR \in Int /\ NoTempR < 20 /\ ShortN \in Nat /\ TopK \in Nat \ {0}
  /\ \A s \in Scenes : SceneTypeOK(s)

VARIABLES
  scene,    \* what the tick found
  forecast, \* the prediction
  verbs,    \* the actions
  curve     \* what the curve would be

responseVars == <<scene, forecast, verbs, curve>>

Clamped(v, lo, hi) == IF v < lo THEN lo ELSE IF v > hi THEN hi ELSE v
AtMost(a, b)  == IF a < b THEN a ELSE b
AtLeast(a, b) == IF a > b THEN a ELSE b
Distance(a, b) == AtLeast(a - b, b - a)

-----------------------------------------------------------------------------
(* Features.                                                               *)

\* Least squares over the given places of a window, the means multiplied by their number.
SlopeOver(w, places) ==
  LET n  == Cardinality(places)
      sx == SumFunctionOnSet([i \in places |-> i], places)
      sy == SumFunctionOnSet(w, places)
      num == SumFunctionOnSet([i \in places |-> (n * i - sx) * (n * w[i] - sy)], places)
      den == SumFunctionOnSet([i \in places |-> (n * i - sx) * (n * i - sx)], places)
  IN  IF n < 2 \/ den = 0 THEN NoSlope ELSE (100 * num) \div den

\* One frame without a reading leaves the window without its long slope.
Features(w) ==
  LET read  == {i \in DOMAIN w : w[i] # NoTempR}
      short == {i \in read : Cardinality({j \in read : j > i}) < ShortN}
  IN  [now   |-> IF read = {} THEN NoTempR ELSE w[Max(read)],
       short |-> SlopeOver(w, short),
       long  |-> IF read = DOMAIN w THEN SlopeOver(w, read) ELSE NoSlope,
       live  |-> w[Len(w)]]

SlopeOf(f) ==
  IF f.short # NoSlope THEN f.short ELSE IF f.long # NoSlope THEN f.long ELSE 0

-----------------------------------------------------------------------------
(* The prediction.                                                         *)

\* trajectory_signal
Trajectory(f) ==
  IF f.now >= 78 /\ SlopeOf(f) >= 100 THEN 90
  ELSE IF f.now >= 78 /\ SlopeOf(f) >= 50 THEN 70
  ELSE IF f.now >= 85 THEN 65 ELSE 0

\* _slope_blended_expected
Blended(f, expected) ==
  LET apart   == Distance(f.short, f.long)
      weight  == AtMost(80, (apart - 150) \div 3)
      physics == Clamped(f.now + (4 * Clamped(f.short, -300, 300)) \div 100, 20, 120)
  IN  IF f.short = NoSlope \/ f.long = NoSlope \/ apart < 150 THEN expected
      ELSE (expected * (100 - weight) + physics * weight) \div 100

\* KnnPredictor.predict, before the overlay
Knn(f, v) ==
  LET labeled == v.hot + v.cool IN
  IF v = Cold THEN [prob |-> 0, conf |-> 0, temp |-> NoTempR]
  ELSE IF labeled < AtLeast(3, TopK \div 4)
  THEN [prob |-> 0, conf |-> 0, temp |-> f.now]
  ELSE [prob |-> (100 * v.hot) \div labeled,
        conf |-> (100 * AtLeast(v.hot, v.cool)) \div TopK,
        temp |-> LET raw == IF v.hot > 0 THEN v.peak ELSE f.now
                 IN  IF raw = NoTempR THEN raw ELSE Blended(f, raw)]

\* TrajectoryBaseline.predict, before the overlay
Baseline(f) ==
  [prob |-> 0, conf |-> 50,
   temp |-> IF f.now = NoTempR THEN NoTempR
            ELSE Clamped(f.now + (4 * 71 * Clamped(SlopeOf(f), -300, 300)) \div 10000,
                         20, 120)]

\* _merge_with_trajectory
Merged(p, f) ==
  IF Trajectory(f) <= p.prob THEN p
  ELSE [p EXCEPT !.prob = Trajectory(f), !.conf = AtMost(70, @ + 20)]

\* compose_confidence: the product of the odds.
ProductOfOdds(a, b) ==
  IF a = 0 THEN 0 ELSE (100 * a * b) \div (a * b + (100 - a) * (100 - b))

\* MetaPredictor.predict
Corrected(p, bucket) ==
  LET certainty == IF bucket.n < 5 THEN 40 ELSE AtLeast(50, 100 - 10 * bucket.std)
  IN  IF p.temp = NoTempR THEN p
      ELSE [p EXCEPT !.temp = Clamped(@ + bucket.mean, 20, 120),
                     !.conf = ProductOfOdds(@, certainty)]

Predicted(s) ==
  LET f == Features(s.window) IN
  Corrected(Merged(IF s.indexed THEN Knn(f, s.votes) ELSE Baseline(f), f), s.bucket)

-----------------------------------------------------------------------------
(* The decision.                                                           *)

RampAllowed(s, f, p) ==
  /\ s.mode # "off" /\ p.prob >= 70 /\ p.conf >= 50 /\ s.ready /\ s.labeled >= 5
  /\ ~ /\ f.live # NoTempR /\ p.temp # NoTempR /\ f.short # NoSlope
       /\ f.short <= -5 /\ p.temp <= f.live

ReduceNoiseAllowed(s, f, p) ==
  /\ s.mode = "quiet" /\ f.live # NoTempR /\ f.live < 75 /\ p.prob <= 15
  /\ p.conf >= 60 /\ s.ready /\ s.labeled >= 5

\* decide
Decided(s, f, p) ==
  IF p.conf < 50 THEN {}
  ELSE {v \in {"SHIFT_POWER_ENVELOPE", "CAP_BOOST", "NOTIFY_USER"} :
          /\ p.conf >= 60
          /\ v = "SHIFT_POWER_ENVELOPE" => s.mode # "off" /\ p.prob >= 90 /\ s.ready
          /\ v = "CAP_BOOST" => s.mode # "off" /\ p.prob >= 70 /\ s.ready
          /\ v = "NOTIFY_USER" => p.prob >= 40}
       \cup (IF RampAllowed(s, f, p) THEN {"RAMP_COOLING"} ELSE {})
       \cup (IF ReduceNoiseAllowed(s, f, p) THEN {"REDUCE_NOISE"} ELSE {})

-----------------------------------------------------------------------------
(* The curve.                                                              *)

Percent(v) == Clamped(v, 0, 10000)

\* _knee_weight, in fifths
Knee(t) ==
  IF t \in 75 .. 80 THEN 5 ELSE IF t \in 70 .. 74 THEN t - 70
  ELSE IF t \in 81 .. 85 THEN 85 - t ELSE 0

Lifted(c, amount) == [t \in DOMAIN c |-> Percent(c[t] + (amount * Knee(t)) \div 5)]

FloorTo49(c) == [t \in DOMAIN c |-> IF t < 49 THEN 0 ELSE Percent(c[t])]

QuietSubtract(c, x) ==
  IF x.mode = "quiet" /\ x.prob <= 15 /\ x.temp # NoTempR /\ x.temp < 75
  THEN [t \in DOMAIN c |-> AtMost(c[t], AtLeast(1200, c[t] - 200 * Knee(t)))]
  ELSE c

PredictivePreload(c, x) ==
  LET raw == IF x.conservative THEN 48 * (x.prob - 40) ELSE 40 * (x.prob - 50)
      lift == Clamped(raw, 0, 2000)
  IN  IF x.mode = "off" \/ x.prob < (IF x.conservative THEN 45 ELSE 60) \/ lift <= 50
      THEN c ELSE Lifted(c, lift)

SlopePreload(c, x) ==
  IF x.mode = "off" \/ x.temp = NoTempR \/ x.temp < 75 \/ x.slope < 30 THEN c
  ELSE Lifted(c, AtMost(30 * x.slope, 1200))

ProfileBump(profile) ==
  CASE profile = "code" -> -200 [] profile = "render" -> 400
    [] profile = "game" -> 800 [] profile = "browser" -> 300
    [] profile = "idle" -> -300 [] OTHER -> 0

WorkloadProfileShape(c, x) == Lifted(c, ProfileBump(x.profile))

WorkloadHeadroom(c, x) == IF x.headroom THEN Lifted(c, 500) ELSE c

RecentThrottleBump(c, x) ==
  IF x.recent < 2 THEN c
  ELSE [t \in DOMAIN c |-> IF t \in 65 .. 80 THEN Percent(c[t] + 800) ELSE c[t]]

HeatSoakBump(c, x) ==
  IF x.soak <= 50 THEN c ELSE Lifted(c, AtMost(6 * x.soak, 1000))

EmergencyRamp(c, x) ==
  IF x.temp = NoTempR \/ x.temp < 82 THEN c
  ELSE [t \in DOMAIN c |-> IF t >= x.temp - 1 THEN 10000 ELSE c[t]]

\* The emergency before the policies of the workload.
PipelineEarlyMutant(c, x) ==
  HeatSoakBump(RecentThrottleBump(WorkloadHeadroom(WorkloadProfileShape(
    EmergencyRamp(SlopePreload(PredictivePreload(QuietSubtract(FloorTo49(c), x),
      x), x), x), x), x), x), x)

\* compose_curve
Pipeline(c, x) ==
  EmergencyRamp(HeatSoakBump(RecentThrottleBump(WorkloadHeadroom(WorkloadProfileShape(
    SlopePreload(PredictivePreload(QuietSubtract(FloorTo49(c), x),
      x), x), x), x), x), x), x)

\* curve_ctx_payload
Context(s, f, p) ==
  [mode |-> s.mode, temp |-> f.live, prob |-> p.prob, slope |-> AtLeast(f.short, 0),
   conservative |-> p.conf < 45 /\ p.prob > 20, profile |-> s.profile,
   headroom |-> s.headroom, recent |-> s.recent, soak |-> s.soak]

-----------------------------------------------------------------------------

\* A scene the daemon can be in: without an index there are no votes, and a
\* window class with headroom is of a warm profile.
Possible(s) ==
  /\ ~s.indexed => s.votes = Cold
  /\ s.headroom => s.profile \in {"game", "render", "browser"}

NoScene == [window |-> <<>>]

ResponseInit ==
  /\ scene = NoScene /\ forecast = [prob |-> 0, conf |-> 0, temp |-> NoTempR]
  /\ verbs = {} /\ curve = <<>>

Respond ==
  \E s \in Scenes :
    /\ scene = NoScene /\ Possible(s)
    /\ scene' = s /\ forecast' = Predicted(s)
    /\ verbs' = Decided(s, Features(s.window), forecast')
    /\ curve' = Pipeline(s.base, Context(s, Features(s.window), forecast'))

ResponseNext == Respond

-----------------------------------------------------------------------------

Shown == scene # NoScene
Here  == Context(scene, Features(scene.window), forecast)

\* The overlay that does not depend on recognition is never outvoted, whatever
\* the neighbours and the bank say, and a sure vote is not lowered by it.
OverlayHolds ==
  /\ forecast.prob >= Trajectory(Features(scene.window))
  /\ scene.indexed => forecast.prob >= Knn(Features(scene.window), scene.votes).prob
  /\ forecast.conf \in 0 .. 100
  /\ forecast.temp = NoTempR \/ forecast.temp \in 20 .. 120

\* Off means off, and the two directions of the fan bias exclude each other.
VerbsAgree ==
  /\ scene.mode = "off" => verbs \subseteq {"NOTIFY_USER"}
  /\ "REDUCE_NOISE" \in verbs =>
       verbs = {"REDUCE_NOISE"} /\ Trajectory(Features(scene.window)) = 0

\* More signs of heat never mean less fan: a curve with a higher probability,
\* a steeper slope, more recent throttles or without the quiet mode is nowhere
\* lower; below 49 C it is 0, and in an emergency nothing is taken off 100 %.
CurveDominates ==
  LET here == Here
      NowhereLower(x) == LET other == Pipeline(scene.base, x)
                         IN  \A t \in DOMAIN curve : other[t] >= curve[t]
  IN  /\ \A p \in {16, 60, 100} : p >= here.prob => NowhereLower([here EXCEPT !.prob = p])
      /\ NowhereLower([here EXCEPT !.slope = @ + 30])
      /\ NowhereLower([here EXCEPT !.recent = 2])
      /\ NowhereLower([here EXCEPT !.mode = IF @ = "quiet" THEN "cool" ELSE @])
      /\ \A t \in DOMAIN curve :
           /\ t < 49 => curve[t] = 0
           /\ here.temp >= 82 /\ t >= here.temp - 1 => curve[t] = 10000

\* The policies of a tick fit together (the docstrings of _merge_with_trajectory
\* and curve.py).
RespondsSoundly == Shown => OverlayHolds /\ VerbsAgree /\ CurveDominates
================================================================================
