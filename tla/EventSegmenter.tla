----------------------------- MODULE EventSegmenter -----------------------------
(***************************************************************************)
(* The session segmenter: every frame is fed to it, and it starts a new    *)
(* session when the focus changes, when the load jumps, or when a plateau  *)
(* ends.  It compares with the last frame and with a sliding window; the   *)
(* stream itself is kept beside it for comparison.                         *)
(***************************************************************************)
EXTENDS Integers, Sequences

CONSTANTS
  Frames,        \* BOUND: records of load, temp (NoTemp if unread) and label
  NoTemp,
  PlateauWindow, \* plateau_window
  MaxFrames      \* BOUND: frames fed

\* The daemon's window has 30 frames.
ASSUME SegmenterAssumption ==
  /\ PlateauWindow \in Nat \ {0, 1} /\ MaxFrames \in Nat

JumpThreshold == 25
LoadTolerance == 5
TempTolerance == 1

VARIABLES
  current,   \* the last start: its place in the stream, its reason
  window,    \* _window: loads and temperatures
  inPlateau, \* _in_plateau
  stream,    \* history: the frames so far; its last one is _prev_load, _prev_label
  starts     \* history: the starts so far

segmenterVars == <<current, window, inPlateau, stream, starts>>

Reasons == {"initial", "focus_change", "load_jump", "plateau_collapse"}
Starts  == [at : 1 .. MaxFrames, why : Reasons]
None    == [at |-> 0, why |-> "none"]

SegmenterTypeOK ==
  /\ current \in Starts \cup {None} /\ inPlateau \in BOOLEAN
  /\ stream \in Seq(Frames) /\ Len(stream) <= MaxFrames
  /\ window \in Seq(Frames) /\ Len(window) <= PlateauWindow
  /\ starts \subseteq Starts

SegmenterInit ==
  /\ current = None /\ window = <<>> /\ inPlateau = FALSE /\ stream = <<>>
  /\ starts = {}

Apart(a, b) == IF a < b THEN b - a ELSE a - b

\* Loads and temperatures within their tolerances, the temperatures all read.
WindowIsPlateau(w) ==
  /\ Len(w) >= PlateauWindow
  /\ \A i \in DOMAIN w : w[i].temp # NoTemp
  /\ \A i, j \in DOMAIN w : /\ Apart(w[i].load, w[j].load) <= LoadTolerance
                            /\ Apart(w[i].temp, w[j].temp) <= TempTolerance

\* The deque keeps the newest frames.
Slid(w) == IF Len(w) > PlateauWindow THEN Tail(w) ELSE w

\* The window of the session before is kept.
StartSessionKeepsMutant(f, why) ==
  /\ current' = [at |-> Len(stream'), why |-> why]
  /\ starts' = starts \cup {current'}
  /\ window' = Slid(Append(window, f)) /\ inPlateau' = FALSE

StartSession(f, why) ==
  /\ current' = [at |-> Len(stream'), why |-> why]
  /\ starts' = starts \cup {current'}
  /\ window' = <<f>> /\ inPlateau' = FALSE

Feed ==
  \E f \in Frames :
    /\ Len(stream) < MaxFrames
    /\ stream' = Append(stream, f)
    /\ IF current = None THEN StartSession(f, "initial")
       ELSE LET prev == stream[Len(stream)]
                w    == Slid(Append(window, f))
            IN  IF f.label # prev.label THEN StartSession(f, "focus_change")
                ELSE IF Apart(f.load, prev.load) > JumpThreshold
                THEN StartSession(f, "load_jump")
                ELSE IF inPlateau /\ ~WindowIsPlateau(w)
                THEN StartSession(f, "plateau_collapse")
                ELSE /\ window' = w /\ inPlateau' = WindowIsPlateau(w)
                     /\ UNCHANGED <<current, starts>>

SegmenterNext == Feed

-----------------------------------------------------------------------------

\* The frames from i to j are one plateau of one session.
Flat(i, j) ==
  /\ i >= 1 /\ WindowIsPlateau(SubSeq(stream, i, j))
  /\ ~\E s \in starts : s.at \in i + 1 .. j

Regime(i) ==
  LET f == stream[i] prev == stream[i - 1] IN
  IF i = 1 THEN "initial"
  ELSE IF f.label # prev.label THEN "focus_change"
  ELSE IF Apart(f.load, prev.load) > JumpThreshold THEN "load_jump"
  ELSE IF Flat(i - PlateauWindow, i - 1)
          /\ ~WindowIsPlateau(SubSeq(stream, i - PlateauWindow + 1, i))
  THEN "plateau_collapse" ELSE "none"

\* The sessions are the regimes of the stream (the three rules of the module's
\* docstring): each start has its cause, each cause its start, and a plateau
\* that began in one session never ends another.
SegmentsAsDefined ==
  \A i \in DOMAIN stream :
    IF Regime(i) = "none" THEN ~\E s \in starts : s.at = i
    ELSE [at |-> i, why |-> Regime(i)] \in starts
================================================================================
