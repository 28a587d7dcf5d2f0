------------------------------- MODULE HotState -------------------------------
(***************************************************************************)
(* The live record: a small file in tmpfs that the daemon maps and writes  *)
(* on every tick, header, body and header again, and that dashboard        *)
(* workers map and read meanwhile, without a lock.  The daemon may be      *)
(* killed at any step; the file stays and the next life counts from 0.     *)
(***************************************************************************)
EXTENDS Integers

CONSTANTS
  MaxWrites,   \* BOUND: records written
  MaxLives,    \* BOUND: lives of the daemon
  HotRetries,  \* read's retries (8)
  Backoff0,    \* _hot_state_retry_backoff_ticks at first (30)
  BackoffCap   \* its cap (1500)

ASSUME HotAssumption ==
  /\ MaxWrites \in Nat /\ MaxLives \in Nat /\ HotRetries \in Nat \ {0}
  /\ Backoff0 \in Nat \ {0} /\ BackoffCap \in Nat /\ Backoff0 <= BackoffCap

Words == 1 .. 2 \* two of the six doubles of the body

VARIABLES
  record,  \* the file: Absent, Empty, or its header and body
  hot,     \* the writer: pc, _seq, and the ticks and back-off of its setup
  wrote,   \* how many records were begun; a record is its number
  lives,
  glance,  \* a reader
  held     \* history: the records that were whole since the read began

hotVars == <<record, hot, wrote, lives, glance, held>>

Absent == [seq |-> -1, ts |-> 0, body |-> [w \in Words |-> 0]]
Empty  == [seq |-> -2, ts |-> 0, body |-> [w \in Words |-> 0]]
Zeros  == [seq |-> 0, ts |-> 0, body |-> [w \in Words |-> 0]]

Off   == [pc |-> "off", seq |-> 0, wait |-> 0, backoff |-> Backoff0]
Idle  == [pc |-> "idle", tries |-> 0, seq |-> 0, ts |-> 0, body |-> Zeros.body,
          got |-> 0, crossed |-> FALSE]

\* The number of the record that is whole in the file, 0 if none is.
Whole(r) == IF r.seq > 0 /\ r.seq % 2 = 0 /\ \A w \in Words : r.body[w] = r.ts
            THEN r.ts ELSE 0

HotTypeOK ==
  /\ record.seq \in -2 .. 2 * MaxWrites /\ record.ts \in 0 .. MaxWrites
  /\ record.body \in [Words -> 0 .. MaxWrites]
  /\ hot.pc \in {"off", "none", "creating", "ready", "odd", "body", "ended"}
  /\ hot.seq \in 0 .. 2 * MaxWrites /\ hot.wait \in 0 .. BackoffCap
  /\ wrote \in 0 .. MaxWrites /\ lives \in 0 .. MaxLives
  /\ glance.pc \in {"idle", "header", "body", "check", "done"}
  /\ glance.tries \in 0 .. HotRetries /\ glance.got \in 0 .. MaxWrites
  /\ held \subseteq 0 .. MaxWrites

HotInit ==
  /\ record = Absent /\ hot = Off /\ wrote = 0 /\ lives = 0
  /\ glance = Idle /\ held = {}

-----------------------------------------------------------------------------
(* The writer.  Writer() is tried when the daemon starts and, while there  *)
(* is none, on the ticks the back-off leaves.                              *)

\* The back-off doubles without end.
CapBackoffUnboundedMutant(n) == 2 * n

CapBackoff(n) == IF 2 * n < BackoffCap THEN 2 * n ELSE BackoffCap

Tries == hot.pc = "off" \/ (hot.pc = "none" /\ hot.wait = 0)

Refused ==
  IF hot.pc = "off" THEN [hot EXCEPT !.pc = "none"]
  ELSE [hot EXCEPT !.pc = "none", !.wait = hot.backoff,
                   !.backoff = CapBackoff(hot.backoff)]

Ready == [hot EXCEPT !.pc = "ready", !.seq = 0, !.backoff = Backoff0]

\* The file is created empty, filled, mapped.  A file that was left empty
\* cannot be mapped: mmap raises ValueError, which neither caller expects.
Setup ==
  /\ Tries \/ hot.pc = "creating"
  /\ lives' = IF hot.pc = "off" THEN lives + 1 ELSE lives
  /\ lives' <= MaxLives
  /\ \/ hot' = Refused /\ UNCHANGED record
     \/ /\ hot.pc # "creating" /\ record = Absent
        /\ record' = Empty /\ hot' = [hot EXCEPT !.pc = "creating"]
     \/ hot.pc = "creating" /\ record' = Zeros /\ hot' = Ready
     \/ /\ hot.pc # "creating" /\ record \notin {Absent, Empty}
        /\ hot' = Ready /\ UNCHANGED record
     \/ /\ hot.pc # "creating" /\ record = Empty
        /\ hot' = [hot EXCEPT !.pc = "ended"] /\ UNCHANGED record
  /\ UNCHANGED <<wrote, glance, held>>

RetryTick ==
  /\ hot.pc = "none" /\ hot.wait > 0
  /\ hot' = [hot EXCEPT !.wait = @ - 1]
  /\ UNCHANGED <<record, wrote, lives, glance, held>>

HotStep(pc, next) ==
  /\ hot.pc = pc
  /\ record' = next
  /\ held' = held \cup {Whole(record')}
  /\ glance' = [glance EXCEPT !.crossed = @ \/ record'.seq < record.seq]
  /\ UNCHANGED lives

WriteOdd ==
  /\ wrote < MaxWrites /\ wrote' = wrote + 1
  /\ hot' = [hot EXCEPT !.pc = "odd", !.seq = @ + 1]
  /\ HotStep("ready", [record EXCEPT !.seq = hot.seq + 1, !.ts = wrote'])

\* The words of the body, in any order the copy may take.
WriteWord ==
  \E w \in Words :
    /\ record.body[w] # wrote
    /\ HotStep("odd", [record EXCEPT !.body[w] = wrote])
    /\ UNCHANGED <<hot, wrote>>

WriteEven ==
  /\ \A w \in Words : record.body[w] = wrote
  /\ hot' = [hot EXCEPT !.pc = "ready", !.seq = @ + 1]
  /\ HotStep("odd", [record EXCEPT !.seq = hot.seq + 1])
  /\ UNCHANGED wrote

\* write raised: the daemon closes the writer and goes on without it.
WriteFails ==
  /\ hot.pc = "odd" /\ hot' = [hot EXCEPT !.pc = "none"]
  /\ UNCHANGED <<record, wrote, lives, glance, held>>

HotKill ==
  /\ hot.pc # "off" /\ hot' = Off
  /\ UNCHANGED <<record, wrote, lives, glance, held>>

-----------------------------------------------------------------------------
(* A reader.                                                               *)

\* The parity of the counter is not looked at.
AcceptsOddMutant(s1, s2) == s1 = s2 /\ s1 > 0

Accepts(s1, s2) == s1 = s2 /\ s1 % 2 = 0 /\ s1 > 0

ReadOpen ==
  /\ glance.pc \in {"idle", "done"}
  /\ glance' = IF record \in {Absent, Empty} THEN [Idle EXCEPT !.pc = "done"]
               ELSE [Idle EXCEPT !.pc = "header", !.tries = HotRetries]
  /\ held' = {0, Whole(record)}
  /\ UNCHANGED <<record, hot, wrote, lives>>

ReadHeader ==
  /\ glance.pc = "header"
  /\ glance' = [glance EXCEPT !.pc = "body", !.seq = record.seq, !.ts = record.ts,
                              !.body = [w \in Words |-> -1]]
  /\ UNCHANGED <<record, hot, wrote, lives, held>>

ReadWord ==
  /\ glance.pc = "body"
  /\ \E w \in Words :
       /\ glance.body[w] = -1
       /\ glance' = [glance EXCEPT !.body[w] = record.body[w],
            !.pc = IF \A v \in Words \ {w} : glance.body[v] # -1 THEN "check" ELSE "body"]
  /\ UNCHANGED <<record, hot, wrote, lives, held>>

\* What is returned is a whole record's number, or -1 for a mixed one.
ReadCheck ==
  /\ glance.pc = "check"
  /\ IF Accepts(glance.seq, record.seq)
     THEN glance' = [glance EXCEPT !.pc = "done", !.got = glance.ts]
     ELSE glance' = [glance EXCEPT !.tries = @ - 1,
                       !.pc = IF glance.tries = 1 THEN "done" ELSE "header"]
  /\ UNCHANGED <<record, hot, wrote, lives, held>>

HotNext ==
  \/ Setup \/ RetryTick \/ WriteOdd \/ WriteWord \/ WriteEven \/ WriteFails
  \/ HotKill \/ ReadOpen \/ ReadHeader \/ ReadWord \/ ReadCheck

-----------------------------------------------------------------------------

\* A reader gets nothing or one record, all of it, that was the whole content
\* of the file at some moment of its read: not a half-written one, not a mix of
\* two, not one that was gone before it began.  The counter starts again with
\* each life, so a read that spans a restart is not covered.
ReadsWhole ==
  (glance.pc = "done" /\ glance.got # 0 /\ ~glance.crossed) =>
     /\ \A w \in Words : glance.body[w] = glance.got
     /\ glance.got \in held
================================================================================
