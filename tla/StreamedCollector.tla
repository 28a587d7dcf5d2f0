--------------------------- MODULE StreamedCollector ---------------------------
(***************************************************************************)
(* perf stat (and, with one map per line, bpftrace) as a subprocess: it    *)
(* prints the events of an interval line by line, a reader thread gathers  *)
(* them and publishes an interval when the next one begins, sample() takes *)
(* a copy.  close() ends the subprocess, with force if it must, and waits  *)
(* a second for the reader.                                                *)
(***************************************************************************)
EXTENDS Integers, Sequences

CONSTANTS
  EventCount,   \* events counted, printed in that order
  PipeSize,     \* BOUND: lines in the pipe
  MaxIntervals  \* BOUND: intervals

ASSUME StreamedAssumption ==
  /\ EventCount \in Nat \ {0}
  /\ PipeSize \in Nat /\ MaxIntervals \in Nat

VARIABLES
  perf,    \* the subprocess: "runs", "deaf" to SIGTERM, "dead"
  printed, \* its last line: interval and event
  pipe,    \* lines not yet read
  acc,     \* the reader's current_ts and acc
  reader,  \* the reader thread runs
  latest,  \* _latest: event -> its interval, 0 if never published
  closing, \* close: "open", "term", "kill", "join", "closed"
  counted  \* history: interval -> events it printed a count for

streamedVars == <<perf, printed, pipe, acc, reader, latest, closing, counted>>

Events    == 1 .. EventCount
LastEvent == EventCount
NoEvents  == [ts |-> 0, events |-> {}]

StreamedTypeOK ==
  /\ perf \in {"runs", "deaf", "dead"} /\ reader \in BOOLEAN
  /\ printed.ts \in 0 .. MaxIntervals /\ printed.event \in Events
  /\ \A i \in DOMAIN pipe : pipe[i].ts \in 1 .. MaxIntervals /\ pipe[i].event \in Events
  /\ Len(pipe) <= PipeSize
  /\ acc.ts \in 0 .. MaxIntervals /\ acc.events \subseteq Events
  /\ latest \in [Events -> 0 .. MaxIntervals]
  /\ closing \in {"open", "term", "kill", "join", "closed"}
  /\ counted \in [1 .. MaxIntervals -> SUBSET Events]

StreamedInit ==
  /\ perf = "runs" /\ printed = [ts |-> 0, event |-> LastEvent] /\ pipe = <<>>
  /\ acc = NoEvents /\ reader = TRUE /\ latest = [e \in Events |-> 0]
  /\ closing = "open" /\ counted = [t \in 1 .. MaxIntervals |-> {}]

-----------------------------------------------------------------------------

\* The next line: a count, or "<not counted>", which the reader skips.
PrintLine ==
  \E ok \in BOOLEAN :
    LET next == IF printed.event = LastEvent
                THEN [ts |-> printed.ts + 1, event |-> 1]
                ELSE [ts |-> printed.ts, event |-> printed.event + 1]
    IN  /\ perf # "dead" /\ next.ts <= MaxIntervals
        /\ printed' = next
        /\ IF ok THEN /\ Len(pipe) < PipeSize /\ pipe' = Append(pipe, next)
                      /\ counted' = [counted EXCEPT ![next.ts] = @ \cup {next.event}]
           ELSE UNCHANGED <<pipe, counted>>
        /\ UNCHANGED <<perf, acc, reader, latest, closing>>

\* _publish
Published(a) == [e \in Events |-> IF e \in a.events THEN a.ts ELSE latest[e]]

\* The line that begins an interval is gathered before the last one is
\* published.
ReadLineLateMutant ==
  /\ reader /\ pipe # <<>>
  /\ LET line == Head(pipe)
         a    == [ts |-> line.ts, events |-> acc.events \cup {line.event}]
     IN  IF acc.ts # 0 /\ line.ts # acc.ts
         THEN latest' = Published(a) /\ acc' = [ts |-> line.ts, events |-> {}]
         ELSE latest' = latest /\ acc' = a
  /\ pipe' = Tail(pipe)
  /\ UNCHANGED <<perf, printed, reader, closing, counted>>

ReadLine ==
  /\ reader /\ pipe # <<>>
  /\ LET line == Head(pipe) IN
     IF acc.ts # 0 /\ line.ts # acc.ts /\ acc.events # {}
     THEN /\ latest' = Published(acc)
          /\ acc' = [ts |-> line.ts, events |-> {line.event}]
     ELSE /\ latest' = latest
          /\ acc' = [ts |-> line.ts, events |-> acc.events \cup {line.event}]
  /\ pipe' = Tail(pipe)
  /\ UNCHANGED <<perf, printed, reader, closing, counted>>

\* At the end of the stream what was gathered is published as it is.
ReaderEnds ==
  /\ reader /\ pipe = <<>> /\ perf = "dead"
  /\ reader' = FALSE /\ latest' = Published(acc)
  /\ UNCHANGED <<perf, printed, pipe, acc, closing, counted>>

PerfDies ==
  /\ perf # "dead" /\ perf' = "dead"
  /\ UNCHANGED <<printed, pipe, acc, reader, latest, closing, counted>>

\* SIGTERM, two seconds, SIGKILL, one second, the reader for one more.
Close ==
  /\ \/ /\ closing = "open" /\ closing' = "term"
        /\ perf' \in {perf, IF perf = "runs" THEN "deaf" ELSE perf}
     \/ /\ closing = "term" /\ perf = "dead" /\ closing' = "join" /\ UNCHANGED perf
     \/ /\ closing = "term" /\ perf # "dead" /\ closing' = "kill" /\ perf' \in {perf, "dead"}
     \/ /\ closing = "kill" /\ closing' = "join" /\ UNCHANGED perf
     \/ /\ closing = "join" /\ closing' = "closed" /\ UNCHANGED perf
  /\ UNCHANGED <<printed, pipe, acc, reader, latest, counted>>

StreamedNext == PrintLine \/ ReadLine \/ ReaderEnds \/ PerfDies \/ Close

-----------------------------------------------------------------------------

\* A copy of the latest counts, taken at any moment: intervals are published
\* in order and whole, so that a count older than the newest one stands only
\* for an event that later intervals up to that one did not count.
StreamWhole ==
  \A e, f \in Events :
    \A t \in latest[e] + 1 .. latest[f] : e \notin counted[t]
================================================================================
