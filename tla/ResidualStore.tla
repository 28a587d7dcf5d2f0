------------------------------ MODULE ResidualStore ------------------------------
(***************************************************************************)
(* The residual log (live file and archives), what is appended to it, and  *)
(* the residual bank that learns from the same samples and is rebuilt from *)
(* the log at the next start.  Writes may fail or be cut short by a full   *)
(* disk or a kill, in the middle of a rotation too.  The mean of a bucket  *)
(* depends on the order of what it learned; the decays, which scale all    *)
(* weights of a life and are not stored, are left out.                     *)
(***************************************************************************)
EXTENDS Integers, Sequences, SequencesExt

CONSTANTS
  MaxLines,   \* max_bytes, in lines
  MaxSamples  \* BOUND: validated predictions

ASSUME ResidualAssumption ==
  /\ MaxLines \in Nat \ {0} /\ MaxSamples \in Nat

Gens == 3 \* DEFAULT_GENERATIONS

VARIABLES
  alive,   \* the daemon runs
  samples, \* number of predictions validated so far; a sample is its number
  touched, \* the samples flagged as intervened
  live,    \* the live file: its lines
  arch,    \* .1 and .2
  bank,    \* what the bank has learned, in that order
  written, \* history: every line there was, in order
  cut      \* history: a rotation was left half done

residualVars == <<alive, samples, touched, live, arch, bank, written, cut>>

\* A line is the sample it holds; TornLine has no newline yet, GarbageLine does.
TornLine    == -1
GarbageLine == 0
NoFile == <<-2>> \* a file that does not exist

LinesOf(file) == IF file = NoFile THEN <<>> ELSE file

ResidualTypeOK ==
  /\ alive \in BOOLEAN /\ cut \in BOOLEAN /\ samples \in 0 .. MaxSamples
  /\ touched \subseteq 1 .. samples
  /\ \A file \in {live, arch[1], arch[2]} :
       file = NoFile \/ (file \in Seq(-1 .. samples) /\ Len(file) <= MaxLines)
  /\ DOMAIN arch = 1 .. Gens - 1
  /\ bank \in Seq(1 .. samples)
  /\ written \in Seq(-1 .. samples)

ResidualInit ==
  /\ alive = TRUE /\ samples = 0 /\ touched = {} /\ live = NoFile
  /\ arch = [g \in 1 .. Gens - 1 |-> NoFile] /\ bank = <<>> /\ written = <<>>
  /\ cut = FALSE

-----------------------------------------------------------------------------
(* Files.                                                                  *)

\* What writing a sample's line leaves: a torn line takes it in, and neither
\* can be read.
Added(file, line) ==
  IF file # <<>> /\ Last(file) = TornLine
  THEN Append(Front(file), IF line = TornLine THEN TornLine ELSE GarbageLine)
  ELSE Append(file, line)

\* The size check: the next line would go past the cap.
LogFull == Len(Added(LinesOf(live), GarbageLine)) > MaxLines

\* The live file is renamed before .1 is out of its way.
RotatedFirstMutant(steps) ==
  [live |-> IF steps >= 1 THEN NoFile ELSE live,
   arch |-> [g \in 1 .. Gens - 1 |->
               IF g = 1 /\ steps >= 1 THEN live
               ELSE IF g = 2 /\ steps >= 2 /\ live # NoFile THEN live
               ELSE arch[g]]]

\* _rotate after its first steps: unlink .2, rename .1, rename the live file.
Rotated(steps) ==
  [live |-> IF steps >= 3 THEN NoFile ELSE live,
   arch |-> [g \in 1 .. Gens - 1 |->
               IF g = 2 THEN IF steps >= 2 THEN arch[1]
                             ELSE IF steps >= 1 THEN NoFile ELSE arch[2]
               ELSE IF steps >= 3 THEN live
               ELSE IF steps >= 2 THEN NoFile ELSE arch[1]]]

\* The lines of a file that are in S, in their order.
Among(S, file) ==
  FoldLeft(LAMBDA kept, line : IF line \in S THEN Append(kept, line) ELSE kept, <<>>, file)

\* _iter_file: lines that are no record are skipped.
Readable(file) == Among(Nat \ {GarbageLine}, LinesOf(file))

\* iter_all: oldest archive first.
IterAll == Readable(arch[2]) \o Readable(arch[1]) \o Readable(live)

\* from_log
Replayed == Among(Nat \ touched, IterAll)

-----------------------------------------------------------------------------
(* Steps.                                                                  *)

Rotation(steps) ==
  IF LogFull
  THEN /\ live' = Rotated(steps).live /\ arch' = Rotated(steps).arch
       /\ cut' = (cut \/ steps \in 1 .. 2)
  ELSE UNCHANGED <<live, arch, cut>>

\* The write of a line into what the rotation left.
WriteLine(line) ==
  LET base == IF LogFull THEN Rotated(3) ELSE [live |-> live, arch |-> arch]
  IN  /\ live' = Added(LinesOf(base.live), line) /\ arch' = base.arch
      /\ written' = Added(written, line)
      /\ UNCHANGED cut

\* A prediction is validated, appended and learned.
Validated ==
  \E intervened \in BOOLEAN :
    /\ alive /\ samples < MaxSamples
    /\ samples' = samples + 1
    /\ touched' = IF intervened THEN touched \cup {samples'} ELSE touched
    /\ WriteLine(samples')
    /\ bank' = IF intervened THEN bank ELSE Append(bank, samples')
    /\ UNCHANGED alive

\* append raises: in a rename, in open, or in a write that got part of the
\* line out.  The sample is not learned.
AppendFails ==
  /\ alive /\ samples < MaxSamples /\ samples' = samples + 1
  /\ \/ /\ \E steps \in 0 .. 3 : Rotation(steps)
        /\ UNCHANGED written
     \/ WriteLine(TornLine)
  /\ UNCHANGED <<alive, touched, bank>>

\* The end of a life, in the middle of an append or elsewhere; a line may be
\* whole although its sample was not learned yet.
ResidualKill ==
  /\ alive /\ alive' = FALSE /\ bank' = <<>>
  /\ \/ UNCHANGED <<samples, touched, live, arch, written, cut>>
     \/ /\ samples < MaxSamples /\ samples' = samples + 1
        /\ \/ /\ \E steps \in 0 .. 3 : Rotation(steps)
              /\ UNCHANGED <<touched, written>>
           \/ WriteLine(TornLine) /\ UNCHANGED touched
           \/ /\ WriteLine(samples')
              /\ \E intervened \in BOOLEAN :
                   touched' = IF intervened THEN touched \cup {samples'} ELSE touched

\* A start that learns from controlled samples too.
ResidualRestartAllMutant ==
  /\ ~alive /\ alive' = TRUE /\ bank' = IterAll
  /\ UNCHANGED <<samples, touched, live, arch, written, cut>>

ResidualRestart ==
  /\ ~alive /\ alive' = TRUE /\ bank' = Replayed
  /\ UNCHANGED <<samples, touched, live, arch, written, cut>>

ResidualNext == Validated \/ AppendFails \/ ResidualKill \/ ResidualRestart

-----------------------------------------------------------------------------
(* Properties.                                                             *)

\* What a rotation may not take: the newest lines of one file, of two when
\* every rotation was completed.
Kept ==
  LET n == Len(written)
      k == IF cut THEN MaxLines ELSE 2 * MaxLines
  IN  SubSeq(written, IF n > k THEN n - k + 1 ELSE 1, n)

\* Whatever fails or is killed, the newest whole lines can be read, in the
\* order they were written.
KeepsNewest == IsSuffix(Readable(Kept), IterAll)

\* The bank learns each sample at most once and in the order of time, no
\* sample an actuator had a hand in, and it knows all of the newest that can
\* be read, before and after a restart.
LearnsInOrder ==
  /\ \A i \in DOMAIN bank : bank[i] \notin touched
  /\ \A i, j \in DOMAIN bank : i < j => bank[i] < bank[j]
  /\ alive => \A i \in DOMAIN Kept :
             Kept[i] \in (1 .. samples) \ touched => \E j \in DOMAIN bank : bank[j] = Kept[i]
================================================================================
