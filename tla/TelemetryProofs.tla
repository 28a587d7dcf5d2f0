---------------------------- MODULE TelemetryProofs ----------------------------
(***************************************************************************)
(* What holds of the telemetry for any number of records, sessions,        *)
(* requests, sensors and domains: the live record is read whole or not at  *)
(* all, a cached answer is served while it is fresh, a costly endpoint is  *)
(* computed once per window, what a collector reads is true, and the       *)
(* install plan keeps its word on whatever host.                           *)
(***************************************************************************)
EXTENDS MCTelemetry, FiniteSetTheorems, SequenceTheorems, TLAPS

-----------------------------------------------------------------------------
(* The live record.                                                        *)

Hots == [pc : {"off", "none", "creating", "ready", "odd", "body", "ended"},
         seq : Nat, wait : Int, backoff : Int]
Glances == [pc : {"idle", "header", "body", "check", "done"}, tries : Int, seq : Int,
            ts : Nat, body : [Words -> Int], got : Nat, crossed : BOOLEAN]

HotRecords ==
  /\ record \in [seq : Int, ts : Nat, body : [Words -> Nat]]
  /\ hot \in Hots
  /\ wrote \in Nat
  /\ glance \in Glances

\* The counter is odd exactly while a record is being written, and a file with an even
\* counter holds a whole one.
Writer ==
  /\ record \in {Absent, Empty} \/ record.seq >= 0
  /\ hot.pc = "creating" => record = Empty
  /\ hot.pc = "ready" => hot.seq % 2 = 0
  /\ hot.pc = "odd" => hot.seq % 2 = 1 /\ record.seq = hot.seq /\ record.ts = wrote
  /\ record.seq > 0 /\ record.seq % 2 = 0 => \A w \in Words : record.body[w] = record.ts

\* While the counter has not gone back, it is past what the reader saw; and where it is
\* still the same and even, nothing the reader has copied was overwritten.
Reader ==
  /\ glance.pc \in {"header", "body", "check"} =>
       record.seq >= 0 /\ Whole(record) \in held /\ glance.got = 0
  /\ glance.pc \in {"body", "check"} /\ ~glance.crossed =>
       /\ glance.seq <= record.seq
       /\ glance.seq = record.seq /\ record.seq % 2 = 0 =>
            glance.ts = record.ts /\ \A w \in Words : glance.body[w] \in {-1, record.body[w]}
  /\ glance.pc = "check" => \A w \in Words : glance.body[w] # -1

HotInv == HotRecords /\ Writer /\ Reader /\ ReadsWhole

LEMMA Parity ==
  /\ 0 % 2 = 0
  /\ \A n \in Nat : n % 2 = 0 => (n + 1) % 2 = 1
  /\ \A n \in Nat : n % 2 = 1 => (n + 1) % 2 = 0
OBVIOUS

LEMMA FilesAre ==
  /\ Absent.seq = -1 /\ Empty.seq = -2 /\ Zeros.seq = 0 /\ Zeros.ts = 0
  /\ {Absent, Empty, Zeros} \subseteq [seq : Int, ts : Nat, body : [Words -> Nat]]
BY DEF Absent, Empty, Zeros

\* A step of the writer's: the counter changes, unless it is odd.
LEMMA WriterStep ==
  ASSUME HotInv, HotRecords', record'.seq >= 0,
         held' = held \cup {Whole(record')},
         glance' = [glance EXCEPT !.crossed = @ \/ record'.seq < record.seq],
         record'.seq = record.seq => record.seq % 2 = 1
  PROVE  Reader' /\ ReadsWhole'
<1> USE DEF HotInv
<1>1. /\ glance'.pc = glance.pc /\ glance'.seq = glance.seq /\ glance'.ts = glance.ts
      /\ glance'.body = glance.body /\ glance'.got = glance.got
      /\ glance'.crossed = (glance.crossed \/ record'.seq < record.seq)
  BY DEF HotRecords, Hots, Glances
<1>2. record.seq \in Int /\ record'.seq \in Int /\ glance.seq \in Int
  BY DEF HotRecords, Hots, Glances
<1>3. ASSUME glance.pc \in {"body", "check"}, ~glance'.crossed
      PROVE  glance.seq <= record'.seq /\ ~(glance.seq = record'.seq /\ record'.seq % 2 = 0)
  <2>1. ~glance.crossed /\ record'.seq >= record.seq
    <3>1. ~glance.crossed /\ ~(record'.seq < record.seq)
      BY <1>1, <1>3
    <3>. QED
      BY <1>2, <3>1
  <2>2. glance.seq <= record.seq
    BY <1>3, <2>1 DEF Reader
  <2>3. glance.seq <= record'.seq
    BY <1>2, <2>1, <2>2
  <2>4. glance.seq = record'.seq => record'.seq = record.seq
    BY <1>2, <2>1, <2>2
  <2>5. record'.seq = record.seq => record'.seq % 2 # 0
    <3> SUFFICES ASSUME record'.seq = record.seq PROVE record'.seq % 2 # 0
      OBVIOUS
    <3>1. record'.seq % 2 = 1
      OBVIOUS
    <3>. QED
      BY <3>1
  <2>. QED
    BY <2>3, <2>4, <2>5
<1>4. Reader'
  BY <1>1, <1>3 DEF Reader
<1>5. ReadsWhole'
  <2>1. ~glance'.crossed => ~glance.crossed
    BY <1>1
  <2>. QED
    BY <1>1, <2>1 DEF ReadsWhole
<1>. QED
  BY <1>4, <1>5


LEMMA HotWriter ==
  ASSUME HotInv, WriteOdd \/ WriteWord \/ WriteEven
  PROVE  HotInv'
<1> USE DEF HotInv
<1>0. /\ record.seq \in Int /\ hot.seq \in Nat /\ wrote \in Nat
      /\ record.body \in [Words -> Nat] /\ record.ts \in Nat
      /\ record = [seq |-> record.seq, ts |-> record.ts, body |-> record.body]
  BY DEF HotRecords, Hots, Glances
<1>1. CASE WriteOdd
  <2>1. /\ wrote' = wrote + 1 /\ hot.pc = "ready"
        /\ hot' = [hot EXCEPT !.pc = "odd", !.seq = hot.seq + 1]
        /\ record' = [record EXCEPT !.seq = hot.seq + 1, !.ts = wrote']
        /\ held' = held \cup {Whole(record')}
        /\ glance' = [glance EXCEPT !.crossed = glance.crossed \/ record'.seq < record.seq]
    BY <1>1 DEF WriteOdd, HotStep
  <2>2. /\ hot'.pc = "odd" /\ hot'.seq = hot.seq + 1 /\ record'.seq = hot.seq + 1
        /\ record'.ts = wrote' /\ record'.body = record.body
    BY <2>1 DEF HotRecords, Hots, Glances
  <2>3. HotRecords'
    <3>1. (glance.crossed \/ record'.seq < record.seq) \in BOOLEAN
      OBVIOUS
    <3>2. hot.seq + 1 \in Nat /\ hot.seq + 1 \in Int /\ wrote + 1 \in Nat
      BY <1>0
    <3>3. record' \in [seq : Int, ts : Nat, body : [Words -> Nat]] /\ wrote' \in Nat
      BY <1>0, <2>1, <3>2
    <3>4. hot' \in Hots
      BY <2>1, <3>2 DEF HotRecords, Hots
    <3>5. glance' \in Glances
      BY <2>1, <3>1 DEF HotRecords, Glances
    <3>. QED
      BY <3>3, <3>4, <3>5 DEF HotRecords
  <2>4. hot'.seq % 2 = 1
    BY <1>0, <2>1, <2>2, Parity DEF Writer
  <2>5. record'.seq >= 0 /\ record'.seq % 2 = 1
    BY <1>0, <2>2, <2>4
  <2>6. Writer'
    BY <2>2, <2>4, <2>5 DEF Writer
  <2>. QED
    BY <2>1, <2>3, <2>5, <2>6, WriterStep
<1>2. CASE WriteWord
  <2>1. PICK w \in Words :
          /\ hot.pc = "odd" /\ UNCHANGED <<hot, wrote>>
          /\ record' = [record EXCEPT !.body[w] = wrote]
          /\ held' = held \cup {Whole(record')}
          /\ glance' = [glance EXCEPT !.crossed = glance.crossed \/ record'.seq < record.seq]
    BY <1>2 DEF WriteWord, HotStep
  <2>2. /\ record'.seq = record.seq /\ record'.ts = record.ts
        /\ record'.body = [record.body EXCEPT ![w] = wrote]
    BY <2>1 DEF HotRecords, Hots, Glances
  <2>3. record.seq = hot.seq /\ hot.seq % 2 = 1
    BY <2>1 DEF Writer
  <2>4. HotRecords'
    <3>1. (glance.crossed \/ record'.seq < record.seq) \in BOOLEAN
      OBVIOUS
    <3>2. [record.body EXCEPT ![w] = wrote] \in [Words -> Nat]
      BY <1>0
    <3>. QED
      BY <1>0, <2>1, <3>1, <3>2 DEF HotRecords, Hots, Glances
  <2>5. record'.seq >= 0 /\ record'.seq % 2 = 1
    BY <1>0, <2>2, <2>3
  <2>6. Writer'
    BY <2>1, <2>2, <2>3, <2>5 DEF Writer
  <2>. QED
    BY <2>1, <2>2, <2>3, <2>4, <2>5, <2>6, WriterStep
<1>3. CASE WriteEven
  <2>1. /\ hot.pc = "odd" /\ wrote' = wrote /\ \A w \in Words : record.body[w] = wrote
        /\ hot' = [hot EXCEPT !.pc = "ready", !.seq = hot.seq + 1]
        /\ record' = [record EXCEPT !.seq = hot.seq + 1]
        /\ held' = held \cup {Whole(record')}
        /\ glance' = [glance EXCEPT !.crossed = glance.crossed \/ record'.seq < record.seq]
    BY <1>3 DEF WriteEven, HotStep
  <2>2. /\ hot'.pc = "ready" /\ hot'.seq = hot.seq + 1 /\ record'.seq = hot.seq + 1
        /\ record'.ts = record.ts /\ record'.body = record.body
    BY <2>1 DEF HotRecords, Hots, Glances
  <2>3. record.seq = hot.seq /\ hot.seq % 2 = 1 /\ record.ts = wrote
    BY <2>1 DEF Writer
  <2>4. HotRecords'
    <3>1. (glance.crossed \/ record'.seq < record.seq) \in BOOLEAN
      OBVIOUS
    <3>2. hot.seq + 1 \in Nat /\ hot.seq + 1 \in Int /\ wrote + 1 \in Nat
      BY <1>0
    <3>3. record' \in [seq : Int, ts : Nat, body : [Words -> Nat]] /\ wrote' \in Nat
      BY <1>0, <2>1, <3>2
    <3>4. hot' \in Hots
      BY <2>1, <3>2 DEF HotRecords, Hots
    <3>5. glance' \in Glances
      BY <2>1, <3>1 DEF HotRecords, Glances
    <3>. QED
      BY <3>3, <3>4, <3>5 DEF HotRecords
  <2>5. hot'.seq % 2 = 0 /\ record'.seq >= 0 /\ record'.seq # record.seq
    BY <1>0, <2>2, <2>3, Parity
  <2>6. Writer'
    BY <2>1, <2>2, <2>3, <2>5 DEF Writer
  <2>. QED
    BY <2>1, <2>4, <2>5, <2>6, WriterStep
<1>. QED
  BY <1>1, <1>2, <1>3

LEMMA HotSetup ==
  ASSUME HotInv, Setup \/ RetryTick \/ WriteFails \/ HotKill
  PROVE  HotInv'
<1> USE DEF HotInv
<1>0. hot.seq \in Nat /\ hot.wait \in Int /\ hot.backoff \in Int /\ record.seq \in Int
      /\ Backoff0 \in Int /\ BackoffCap \in Int
  BY HotAssumption DEF HotRecords, Hots, Glances
<1>1. UNCHANGED <<wrote, glance, held>>
  BY DEF Setup, RetryTick, WriteFails, HotKill
<1>2. ReadsWhole'
  BY <1>1 DEF ReadsWhole
<1>3. CASE record' = record /\ hot'.pc \in {"off", "none", "ended"}
           /\ hot' \in Hots
  <2>1. HotRecords' /\ Writer' /\ Reader'
    BY <1>1, <1>3 DEF HotRecords, Hots, Glances, Writer, Reader
  <2>. QED
    BY <1>2, <2>1
<1>4. CASE record' = Empty /\ hot.pc # "creating" /\ hot' = [hot EXCEPT !.pc = "creating"]
           /\ record = Absent
  <2>1. hot'.pc = "creating" /\ hot' \in Hots
    BY <1>4 DEF HotRecords, Hots, Glances
  <2>2. HotRecords'
    BY <1>1, <1>4, <2>1, FilesAre DEF HotRecords, Hots, Glances
  <2>3. Writer'
    BY <1>4, <2>1, FilesAre DEF Writer
  <2>4. Reader'
    <3>1. ~(record.seq >= 0)
      BY <1>4, FilesAre
    <3>. QED
      BY <1>1, <3>1 DEF Reader
  <2>. QED
    BY <1>2, <2>2, <2>3, <2>4
<1>5. CASE record' = Zeros /\ hot.pc = "creating" /\ hot' = Ready
  <2>1. hot'.pc = "ready" /\ hot'.seq = 0
        /\ hot' \in Hots
    BY <1>0, <1>5 DEF HotRecords, Hots, Glances, Ready
  <2>2. HotRecords'
    BY <1>1, <1>5, <2>1, FilesAre DEF HotRecords, Hots, Glances
  <2>3. Writer'
    BY <1>5, <2>1, FilesAre, Parity DEF Writer
  <2>4. Reader'
    <3>1. record = Empty
      BY <1>5 DEF Writer
    <3>2. ~(record.seq >= 0)
      BY <3>1, FilesAre
    <3>. QED
      BY <1>1, <3>2 DEF Reader
  <2>. QED
    BY <1>2, <2>2, <2>3, <2>4
<1>6. CASE record' = record /\ record \notin {Absent, Empty} /\ hot' = Ready
  <2>1. hot'.pc = "ready" /\ hot'.seq = 0
        /\ hot' \in Hots
    BY <1>0, <1>6 DEF HotRecords, Hots, Glances, Ready
  <2>2. HotRecords'
    BY <1>1, <1>6, <2>1 DEF HotRecords, Hots, Glances
  <2>3. Writer'
    BY <1>6, <2>1, Parity DEF Writer
  <2>4. Reader'
    BY <1>1, <1>6 DEF Reader
  <2>. QED
    BY <1>2, <2>2, <2>3, <2>4
<1>7. CASE Setup
  <2>1. CASE hot' = Refused /\ record' = record
    <3>1. CapBackoff(hot.backoff) \in Int
      BY <1>0 DEF CapBackoff
    <3>2. hot'.pc = "none" /\ hot' \in Hots
      BY <1>0, <2>1, <3>1 DEF HotRecords, Hots, Refused
    <3>. QED
      BY <1>3, <2>1, <3>2
  <2>2. CASE hot' = [hot EXCEPT !.pc = "ended"] /\ record' = record
    <3>1. hot'.pc = "ended" /\ hot' \in Hots
      BY <2>2 DEF HotRecords, Hots, Glances
    <3>. QED
      BY <1>3, <2>2, <3>1
  <2>. QED
    BY <1>4, <1>5, <1>6, <1>7, <2>1, <2>2 DEF Setup
<1>8. CASE RetryTick
  <2>1. record' = record /\ hot'.pc = "none"
        /\ hot' \in Hots
    BY <1>0, <1>8 DEF RetryTick, HotRecords, Hots
  <2>. QED
    BY <1>3, <2>1
<1>9. CASE WriteFails
  <2>1. record' = record /\ hot'.pc = "none"
        /\ hot' \in Hots
    BY <1>9 DEF WriteFails, HotRecords, Hots
  <2>. QED
    BY <1>3, <2>1
<1>10. CASE HotKill
  <2>1. record' = record /\ hot'.pc = "off"
        /\ hot' \in Hots
    BY <1>0, <1>10 DEF HotKill, Off, Hots
  <2>. QED
    BY <1>3, <2>1
<1>. QED
  BY <1>7, <1>8, <1>9, <1>10

LEMMA HotReader ==
  ASSUME HotInv, ReadOpen \/ ReadHeader \/ ReadWord \/ ReadCheck
  PROVE  HotInv'
<1> USE DEF HotInv
<1>0. /\ glance \in Glances /\ record.seq \in Int /\ record.ts \in Nat
      /\ \A w \in Words : record.body[w] \in Nat
      /\ HotRetries \in Nat
  BY HotAssumption DEF HotRecords, Hots, Glances
<1>1. UNCHANGED <<record, hot, wrote>>
  BY DEF ReadOpen, ReadHeader, ReadWord, ReadCheck
<1>2. Writer'
  BY <1>1 DEF Writer
<1>3. glance' \in Glances => HotRecords'
  BY <1>1 DEF HotRecords, Hots, Glances
<1>4. CASE ReadOpen
  <2>1. Idle \in Glances /\ Idle.got = 0
    BY DEF Idle, Zeros, Glances
  <2>2. CASE record \in {Absent, Empty}
    <3>1. glance' = [Idle EXCEPT !.pc = "done"]
      BY <1>4, <2>2 DEF ReadOpen
    <3>2. glance' \in Glances /\ glance'.pc = "done" /\ glance'.got = 0
      BY <2>1, <3>1 DEF Glances, Idle
    <3>. QED
      BY <1>2, <1>3, <3>2 DEF Reader, ReadsWhole
  <2>3. CASE record \notin {Absent, Empty}
    <3>1. glance' = [Idle EXCEPT !.pc = "header", !.tries = HotRetries]
          /\ held' = {0, Whole(record)}
      BY <1>4, <2>3 DEF ReadOpen
    <3>2. glance' \in Glances /\ glance'.pc = "header" /\ glance'.got = 0
      <4>1. HotRetries \in Int
        BY <1>0
      <4>2. glance' \in Glances
        BY <2>1, <3>1, <4>1 DEF Glances
      <4>. QED
        BY <2>1, <3>1, <4>2 DEF Glances
    <3>3. record'.seq >= 0 /\ Whole(record') \in held'
      BY <1>1, <2>3, <3>1 DEF Writer
    <3>. QED
      BY <1>2, <1>3, <3>2, <3>3 DEF Reader, ReadsWhole
  <2>. QED
    BY <2>2, <2>3
<1>5. CASE ReadHeader
  <2>1. /\ glance.pc = "header" /\ held' = held
        /\ glance' = [glance EXCEPT !.pc = "body", !.seq = record.seq, !.ts = record.ts,
                                    !.body = [w \in Words |-> -1]]
    BY <1>5 DEF ReadHeader
  <2>2. [w \in Words |-> -1] \in [Words -> Int]
    OBVIOUS
  <2>3. glance' \in Glances
    BY <1>0, <2>1, <2>2 DEF Glances
  <2>4. /\ glance'.pc = "body" /\ glance'.seq = record.seq /\ glance'.ts = record.ts
        /\ glance'.got = glance.got /\ \A w \in Words : glance'.body[w] = -1
    BY <1>0, <2>1 DEF Glances
  <2>5. Reader' /\ ReadsWhole'
    BY <1>0, <1>1, <2>1, <2>4 DEF Reader, ReadsWhole
  <2>. QED
    BY <1>2, <1>3, <2>3, <2>5
<1>6. CASE ReadWord
  <2>1. PICK w \in Words :
          /\ glance.pc = "body" /\ held' = held
          /\ glance' = [glance EXCEPT !.body[w] = record.body[w],
               !.pc = IF \A v \in Words \ {w} : glance.body[v] # -1 THEN "check" ELSE "body"]
    BY <1>6 DEF ReadWord
  <2>2. [glance.body EXCEPT ![w] = record.body[w]] \in [Words -> Int]
    BY <1>0 DEF Glances
  <2>3. glance' \in Glances
    BY <1>0, <2>1, <2>2 DEF Glances
  <2>4. /\ glance'.pc = IF \A v \in Words \ {w} : glance.body[v] # -1 THEN "check" ELSE "body"
        /\ glance'.seq = glance.seq /\ glance'.ts = glance.ts /\ glance'.got = glance.got
        /\ glance'.crossed = glance.crossed
        /\ \A v \in Words : glance'.body[v] = IF v = w THEN record.body[v] ELSE glance.body[v]
    BY <1>0, <2>1 DEF Glances
  <2>5. record.body[w] # -1
    BY <1>0
  <2>6. Reader'
    BY <1>1, <2>1, <2>4, <2>5 DEF Reader
  <2>7. ReadsWhole'
    BY <2>4 DEF ReadsWhole
  <2>. QED
    BY <1>2, <1>3, <2>3, <2>6, <2>7
<1>7. CASE ReadCheck
  <2>1. glance.pc = "check" /\ held' = held
    BY <1>7 DEF ReadCheck
  <2>2. CASE Accepts(glance.seq, record.seq)
    <3>1. glance' = [glance EXCEPT !.pc = "done", !.got = glance.ts]
      BY <1>7, <2>2 DEF ReadCheck
    <3>2. /\ glance' \in Glances /\ glance'.pc = "done" /\ glance'.got = glance.ts
          /\ glance'.body = glance.body /\ glance'.crossed = glance.crossed
      BY <1>0, <3>1 DEF Glances
    <3>3. glance.seq = record.seq /\ record.seq % 2 = 0 /\ record.seq > 0
      BY <2>2 DEF Accepts
    <3>4. ASSUME ~glance.crossed
          PROVE  (\A w \in Words : glance.body[w] = glance.ts) /\ glance.ts \in held
      <4>1. glance.ts = record.ts /\ \A w \in Words : glance.body[w] = record.body[w]
        BY <2>1, <3>3, <3>4 DEF Reader
      <4>2. \A w \in Words : record.body[w] = record.ts
        BY <3>3 DEF Writer
      <4>3. Whole(record) = record.ts
        BY <3>3, <4>2 DEF Whole
      <4>. QED
        BY <2>1, <4>1, <4>2, <4>3 DEF Reader
    <3>5. Reader'
      BY <3>2 DEF Reader
    <3>6. ReadsWhole'
      BY <2>1, <3>2, <3>4 DEF ReadsWhole
    <3>. QED
      BY <1>2, <1>3, <3>2, <3>5, <3>6
  <2>3. CASE ~Accepts(glance.seq, record.seq)
    <3>1. glance' = [glance EXCEPT !.tries = glance.tries - 1,
                       !.pc = IF glance.tries = 1 THEN "done" ELSE "header"]
      BY <1>7, <2>3 DEF ReadCheck
    <3>2. glance' \in Glances
      <4>1. glance.tries - 1 \in Int
        BY <1>0 DEF Glances
      <4>. QED
        BY <1>0, <3>1, <4>1 DEF Glances
    <3>3. glance'.got = glance.got /\ glance'.pc \in {"done", "header"}
      BY <1>0, <3>1 DEF Glances
    <3>4. Reader' /\ ReadsWhole'
      BY <1>1, <2>1, <3>3 DEF Reader, ReadsWhole
    <3>. QED
      BY <1>2, <1>3, <3>2, <3>4
  <2>. QED
    BY <2>2, <2>3
<1>. QED
  BY <1>4, <1>5, <1>6, <1>7

\* A reader gets nothing or one record, whole and current, however often the writer is
\* killed or fails between two words, as long as no restart falls in the read.
THEOREM RecordsWhole == HotInit /\ [][HotNext]_hotVars => []ReadsWhole
<1>1. HotInit => HotInv
  <2> SUFFICES ASSUME HotInit PROVE HotInv
    OBVIOUS
  <2>1. record = Absent /\ hot = Off /\ wrote = 0 /\ glance = Idle
    BY DEF HotInit
  <2>2. Off \in Hots /\ Off.pc = "off"
    BY HotAssumption DEF Off, Hots
  <2>3. Idle \in Glances /\ Idle.pc = "idle"
    BY DEF Idle, Zeros, Glances
  <2>4. HotRecords
    BY <2>1, <2>2, <2>3, FilesAre DEF HotRecords, Hots, Glances
  <2>5. Writer /\ Reader /\ ReadsWhole
    BY <2>1, <2>2, <2>3, FilesAre DEF Writer, Reader, ReadsWhole
  <2>. QED
    BY <2>4, <2>5 DEF HotInv
<1>2. HotInv /\ [HotNext]_hotVars => HotInv'
  <2>1. CASE UNCHANGED hotVars
    BY <2>1 DEF hotVars, HotInv, HotRecords, Hots, Glances, Writer, Reader, ReadsWhole
  <2>. QED
    BY <2>1, HotWriter, HotSetup, HotReader DEF HotNext
<1>3. HotInv => ReadsWhole
  BY DEF HotInv
<1>. QED
  BY <1>1, <1>2, <1>3, PTL


-----------------------------------------------------------------------------
(* A cached answer.                                                        *)

Sessions == Sigs \cup {NoSig}
Samples  == [out : BOOLEAN, began : Nat, sig : Sessions]

PolledRecords ==
  /\ clock \in Nat /\ session \in Sessions
  /\ cache \in [val : Answers, at : Nat]
  /\ heard \in [alive : BOOLEAN, sig : Sessions]
  /\ threads \in [1 .. PoolSlots -> Samples]
  /\ lapped \in BOOLEAN
  /\ frame \in [val : Answers, at : Nat, sig : Sessions, began : Nat]

\* As long as no sample overtook another, what is cached and what is being asked are of
\* the session that was live at the last tick that found one.
OneSession ==
  kind = "hyprctl" /\ ~lapped =>
    /\ cache.val # NoAnswer => cache.val = heard.sig
    /\ \A t \in Out : threads[t].sig = heard.sig /\ threads[t].sig # NoSig

PolledInv == PolledRecords /\ OneSession /\ ServedFresh

LEMMA TimesAre ==
  /\ CacheSec \in Nat /\ FreshFor \in Int /\ StaleFor \in Int
  /\ 0 < FreshFor /\ FreshFor <= StaleFor
BY PolledAssumption DEF FreshFor, StaleFor

LEMMA NoSessionIs == NoSig \notin Sigs /\ NoSig \in Sessions /\ NoAnswer \in Answers
BY PolledAssumption DEF Sessions, Answers

\* What is left of the cache is all of it or nothing; all of it only if it is of the
\* session that is live.
LEMMA DroppedIs ==
  ASSUME PolledInv
  PROVE  /\ Dropped \in {cache, Nothing} /\ Dropped \in [val : Answers, at : Nat]
         /\ Nothing.val = NoAnswer
         /\ kind = "hyprctl" /\ session # NoSig /\ Dropped # Nothing =>
              heard.sig \in {NoSig, session}
<1>1. Nothing \in [val : Answers, at : Nat] /\ Nothing.val = NoAnswer
  BY NoSessionIs DEF Nothing
<1>. QED
  BY <1>1 DEF Dropped, PolledInv, PolledRecords

\* A frame is fresh.
FrameIs(f) ==
  f.val # NoAnswer =>
    /\ kind = "hyprctl" => f.began - f.at < StaleFor
    /\ kind = "dbus"    => f.began - f.at < FreshFor
    /\ kind = "hyprctl" /\ ~lapped => f.val = f.sig

LEMMA PollTickIs ==
  ASSUME PolledInv, PollTick
  PROVE  PolledInv'
<1> USE DEF PolledInv
<1> DEFINE c == Dropped
<1>0. /\ clock \in Nat /\ session \in Sessions /\ cache \in [val : Answers, at : Nat]
      /\ heard \in [alive : BOOLEAN, sig : Sessions]
      /\ threads \in [1 .. PoolSlots -> Samples] /\ lapped \in BOOLEAN
  BY DEF PolledRecords
<1>1. /\ UNCHANGED <<kind, clock, session>> /\ heard' = Heard /\ cache' = c
      /\ c \in {cache, Nothing} /\ c \in [val : Answers, at : Nat] /\ Nothing.val = NoAnswer
      /\ kind = "hyprctl" /\ session # NoSig /\ c # Nothing => heard.sig \in {NoSig, session}
  BY DroppedIs DEF PollTick
<1>2. heard' \in [alive : BOOLEAN, sig : Sessions]
  <2>1. (session # NoSig) \in BOOLEAN
    OBVIOUS
  <2>. QED
    BY <1>0, <1>1, <2>1 DEF Heard
<1>3. kind = "hyprctl" => heard'.sig = IF session = NoSig THEN heard.sig ELSE session
  BY <1>1 DEF Heard
\* The three ways of a tick.
<1>4. \/ kind = "hyprctl" /\ session = NoSig /\ Serves(Nothing, clock)
           /\ UNCHANGED <<threads, lapped>>
      \/ ~(kind = "hyprctl" /\ session = NoSig) /\ c.val # NoAnswer /\ clock - c.at < FreshFor
           /\ Serves(c, clock) /\ UNCHANGED <<threads, lapped>>
      \/ /\ ~(kind = "hyprctl" /\ session = NoSig) /\ UNCHANGED frame
         /\ lapped' = (lapped \/ Out # {})
         /\ \E t \in (1 .. PoolSlots) \ Out :
              threads' = [threads EXCEPT ![t] = [out |-> TRUE, began |-> clock, sig |-> session]]
  BY DEF PollTick
<1> HIDE DEF c
<1>5. CASE kind = "hyprctl" /\ session = NoSig /\ Serves(Nothing, clock)
           /\ UNCHANGED <<threads, lapped>>
  <2>1. frame' = [val |-> NoAnswer, at |-> 0, began |-> clock, sig |-> session]
    BY <1>5 DEF Serves, Nothing
  <2>2. PolledRecords'
    BY <1>0, <1>1, <1>2, <1>5, <2>1, NoSessionIs DEF PolledRecords
  <2>3. ServedFresh'
    BY <2>1 DEF ServedFresh
  <2>4. OneSession'
    BY <1>1, <1>3, <1>5 DEF OneSession, Out
  <2>. QED
    BY <2>2, <2>3, <2>4
<1>6. CASE ~(kind = "hyprctl" /\ session = NoSig) /\ c.val # NoAnswer /\ clock - c.at < FreshFor
           /\ Serves(c, clock) /\ UNCHANGED <<threads, lapped>>
  <2>1. frame' = [val |-> c.val, at |-> c.at, began |-> clock, sig |-> session]
    BY <1>6 DEF Serves
  <2>2. PolledRecords'
    BY <1>0, <1>1, <1>2, <1>6, <2>1 DEF PolledRecords
  <2>3. ASSUME kind = "hyprctl", ~lapped
        PROVE  c.val = session /\ heard'.sig = session /\ heard.sig = session
    <3>1. c = cache /\ c # Nothing /\ session # NoSig
      BY <1>1, <1>6, <2>3
    <3>2. cache.val = heard.sig /\ heard.sig \in {NoSig, session}
      BY <1>1, <1>6, <2>3, <3>1 DEF OneSession
    <3>3. heard.sig # NoSig
      <4>1. cache.val \in Sigs
        BY <1>0, <1>6, <3>1 DEF Answers
      <4>. QED
        BY <3>2, <4>1, NoSessionIs
    <3>. QED
      BY <1>3, <2>3, <3>1, <3>2, <3>3
  <2>4. ServedFresh'
    <3>1. c.at \in Int /\ clock \in Int
      BY <1>0, <1>1
    <3>2. clock - c.at < StaleFor
      BY <1>6, <3>1, TimesAre
    <3>. QED
      BY <1>1, <1>6, <2>1, <2>3, <3>2 DEF ServedFresh, FreshFor, StaleFor
  <2>5. OneSession'
    BY <1>1, <1>6, <2>3 DEF OneSession, Out
  <2>. QED
    BY <2>2, <2>4, <2>5
<1>7. ASSUME ~(kind = "hyprctl" /\ session = NoSig), UNCHANGED frame,
             lapped' = (lapped \/ Out # {}),
             NEW t \in (1 .. PoolSlots) \ Out,
             threads' = [threads EXCEPT ![t] = [out |-> TRUE, began |-> clock, sig |-> session]]
      PROVE  PolledInv'
  <2>1. PolledRecords'
    <3>1. [out |-> TRUE, began |-> clock, sig |-> session] \in Samples
      BY <1>0 DEF Samples
    <3>2. threads' \in [1 .. PoolSlots -> Samples]
      BY <1>0, <1>7, <3>1
    <3>3. lapped' \in BOOLEAN
      BY <1>7
    <3>. QED
      BY <1>0, <1>1, <1>2, <1>7, <3>2, <3>3 DEF PolledRecords
  <2>2. ServedFresh'
    <3>1. ~lapped' => ~lapped
      BY <1>7
    <3>. QED
      BY <1>1, <1>7, <3>1 DEF ServedFresh, FreshFor, StaleFor
  <2>3. OneSession'
    <3> SUFFICES ASSUME kind = "hyprctl", ~lapped'
                 PROVE  /\ cache'.val # NoAnswer => cache'.val = heard'.sig
                        /\ \A u \in Out' : threads'[u].sig = heard'.sig /\ threads'[u].sig # NoSig
      BY <1>1 DEF OneSession
    <3>1. ~lapped /\ Out = {} /\ session # NoSig /\ heard'.sig = session
      BY <1>3, <1>7
    <3>2. ASSUME NEW u \in Out' PROVE threads'[u].sig = session
      <4>1. u \in 1 .. PoolSlots /\ threads'[u].out
        BY DEF Out
      <4>2. u = t
        BY <1>0, <1>7, <3>1, <4>1 DEF Out
      <4>. QED
        BY <1>0, <1>7, <4>2
    <3>3. ASSUME cache'.val # NoAnswer PROVE cache'.val = session
      <4>1. c = cache /\ c # Nothing
        BY <1>1, <3>3
      <4>2. cache.val = heard.sig /\ heard.sig \in {NoSig, session}
        BY <1>1, <3>1, <3>3, <4>1 DEF OneSession
      <4>3. cache.val \in Sigs
        BY <1>0, <1>1, <3>3, <4>1 DEF Answers
      <4>. QED
        BY <1>1, <4>1, <4>2, <4>3, NoSessionIs
    <3>. QED
      BY <3>1, <3>2, <3>3
  <2>. QED
    BY <2>1, <2>2, <2>3
<1>. QED
  BY <1>4, <1>5, <1>6, <1>7

\* The end of a sample whose result is the cache's own, or new, or nothing.
LEMMA EndsIs ==
  ASSUME PolledInv, NEW t \in Out, NEW c \in [val : Answers, at : Nat],
         NEW r \in [val : Answers, at : Nat], Ends(t, c, r),
         FrameIs([val |-> r.val, at |-> r.at, began |-> threads[t].began, sig |-> threads[t].sig]),
         kind = "hyprctl" /\ ~lapped /\ c.val # NoAnswer => c.val = heard.sig
  PROVE  PolledInv'
<1> USE DEF PolledInv
<1>0. /\ threads \in [1 .. PoolSlots -> Samples] /\ t \in 1 .. PoolSlots
      /\ threads[t] \in Samples /\ Rest \in Samples /\ ~Rest.out
  BY NoSessionIs DEF PolledRecords, Out, Rest, Samples
<1>1. /\ threads' = [threads EXCEPT ![t] = Rest] /\ cache' = c
      /\ UNCHANGED <<kind, clock, session, heard, lapped>>
      /\ \/ frame' = [val |-> r.val, at |-> r.at, began |-> threads[t].began,
                      sig |-> threads[t].sig]
         \/ frame' = frame
  BY DEF Ends
<1>2. PolledRecords'
  <2>1. threads' \in [1 .. PoolSlots -> Samples]
    BY <1>0, <1>1
  <2>2. frame' \in [val : Answers, at : Nat, sig : Sessions, began : Nat]
    BY <1>0, <1>1 DEF PolledRecords, Samples
  <2>. QED
    BY <1>1, <2>1, <2>2 DEF PolledRecords
<1>3. ServedFresh'
  <2>1. FrameIs(frame')
    BY <1>1 DEF ServedFresh, FrameIs
  <2>. QED
    BY <1>1, <2>1 DEF ServedFresh, FrameIs, FreshFor, StaleFor
<1>4. OneSession'
  <2>1. \A u \in Out' : u \in Out /\ threads'[u] = threads[u]
    BY <1>0, <1>1 DEF Out
  <2>. QED
    BY <1>1, <2>1 DEF OneSession
<1>. QED
  BY <1>2, <1>3, <1>4

LEMMA AnsweredIs ==
  ASSUME PolledInv, Answered \/ Unanswered
  PROVE  PolledInv'
<1> USE DEF PolledInv
<1>0. /\ cache \in [val : Answers, at : Nat] /\ session \in Sessions
      /\ \A t \in Out : threads[t] \in Samples
  BY DEF PolledRecords, Out
<1>1. CASE Answered
  <2>1. PICK t \in Out :
          /\ kind = "hyprctl" => threads[t].sig = session
          /\ session # NoSig
          /\ Ends(t, [val |-> session, at |-> threads[t].began],
                  [val |-> session, at |-> threads[t].began])
    BY <1>1 DEF Answered
  <2>2. threads[t].began \in Nat
    BY <1>0 DEF Samples
  <2> DEFINE c == [val |-> session, at |-> threads[t].began]
  <2>3. c \in [val : Answers, at : Nat]
    BY <1>0, <2>1, <2>2 DEF Answers, Sessions
  <2>4. threads[t].began - threads[t].began = 0
    BY <2>2
  <2>5. FrameIs([val |-> c.val, at |-> c.at, began |-> threads[t].began,
                 sig |-> threads[t].sig])
    BY <2>1, <2>4, TimesAre DEF FrameIs
  <2>6. kind = "hyprctl" /\ ~lapped /\ c.val # NoAnswer => c.val = heard.sig
    BY <2>1 DEF OneSession
  <2>7. Ends(t, c, c)
    BY <2>1
  <2> HIDE DEF c
  <2>. QED
    BY <2>3, <2>5, <2>6, <2>7, EndsIs
<1>2. CASE Unanswered
  <2>1. PICK t \in Out :
          \/ /\ kind = "hyprctl"
             /\ Ends(t, cache, IF threads[t].began - cache.at < StaleFor THEN cache ELSE Nothing)
          \/ kind \in {"dbus", "bmc"} /\ Ends(t, [val |-> NoAnswer, at |-> threads[t].began],
                                            [val |-> NoAnswer, at |-> threads[t].began])
          \/ kind = "bmc" /\ Ends(t, cache, cache)
    BY <1>2 DEF Unanswered
  <2>2. threads[t].began \in Nat
    BY <1>0 DEF Samples
  <2>3. CASE kind = "hyprctl" /\ Ends(t, cache, IF threads[t].began - cache.at < StaleFor
                                                THEN cache ELSE Nothing)
    <3> DEFINE r == IF threads[t].began - cache.at < StaleFor THEN cache ELSE Nothing
    <3>1. r \in [val : Answers, at : Nat]
      BY <1>0, NoSessionIs DEF Nothing
    <3>2. FrameIs([val |-> r.val, at |-> r.at, began |-> threads[t].began,
                   sig |-> threads[t].sig])
      <4>1. CASE threads[t].began - cache.at < StaleFor
        BY <2>3, <4>1 DEF FrameIs, OneSession
      <4>2. CASE ~(threads[t].began - cache.at < StaleFor)
        BY <4>2 DEF FrameIs, Nothing
      <4>. QED
        BY <4>1, <4>2
    <3>3. kind = "hyprctl" /\ ~lapped /\ cache.val # NoAnswer => cache.val = heard.sig
      BY DEF OneSession
    <3>4. Ends(t, cache, r)
      BY <2>3
    <3> HIDE DEF r
    <3>. QED
      BY <1>0, <3>1, <3>2, <3>3, <3>4, EndsIs
  <2>4. CASE /\ kind \in {"dbus", "bmc"}
             /\ Ends(t, [val |-> NoAnswer, at |-> threads[t].began],
                     [val |-> NoAnswer, at |-> threads[t].began])
    <3> DEFINE none == [val |-> NoAnswer, at |-> threads[t].began]
    <3>1. none \in [val : Answers, at : Nat] /\ none.val = NoAnswer
      BY <2>2, NoSessionIs
    <3>2. Ends(t, none, none)
      BY <2>4
    <3> HIDE DEF none
    <3>3. FrameIs([val |-> none.val, at |-> none.at, began |-> threads[t].began,
                   sig |-> threads[t].sig])
      BY <3>1 DEF FrameIs
    <3>. QED
      BY <3>1, <3>2, <3>3, EndsIs
  <2>5. CASE kind = "bmc" /\ Ends(t, cache, cache)
    <3>1. FrameIs([val |-> cache.val, at |-> cache.at, began |-> threads[t].began,
                   sig |-> threads[t].sig])
      BY <2>5 DEF FrameIs
    <3>. QED
      BY <1>0, <2>5, <3>1, EndsIs
  <2>. QED
    BY <2>1, <2>3, <2>4, <2>5
<1>. QED
  BY <1>1, <1>2

\* An answer out of the cache is never older than its kind allows, and with one sample
\* at a time it is of the session that was live, whatever sessions come and go and
\* however late the answers are.
THEOREM AnswersFresh == PolledInit /\ [][PolledNext]_polledVars => []ServedFresh
<1>1. PolledInit => PolledInv
  <2> SUFFICES ASSUME PolledInit PROVE PolledInv
    OBVIOUS
  <2>1. Nothing \in [val : Answers, at : Nat] /\ Nothing.val = NoAnswer
        /\ Rest \in Samples /\ ~Rest.out
    BY NoSessionIs DEF Nothing, Rest, Samples
  <2>2. PolledRecords
    BY <2>1, NoSessionIs DEF PolledInit, PolledRecords, Sessions
  <2>3. OneSession /\ ServedFresh
    BY <2>1 DEF PolledInit, OneSession, Out, ServedFresh
  <2>. QED
    BY <2>2, <2>3 DEF PolledInv
<1>2. PolledInv /\ [PolledNext]_polledVars => PolledInv'
  <2> SUFFICES ASSUME PolledInv, [PolledNext]_polledVars PROVE PolledInv'
    OBVIOUS
  <2>1. CASE GiveUp \/ SessionChanges \/ PollClock \/ UNCHANGED polledVars
    <3>1. UNCHANGED <<kind, cache, heard, threads, frame, lapped>>
      BY <2>1 DEF GiveUp, SessionChanges, PollClock, polledVars
    <3>2. clock' \in Nat
      BY <2>1 DEF GiveUp, SessionChanges, PollClock, polledVars, PolledInv, PolledRecords
    <3>3. session' \in Sessions
      BY <2>1 DEF GiveUp, SessionChanges, PollClock, polledVars, PolledInv, PolledRecords,
                  Sessions
    <3>. QED
      BY <3>1, <3>2, <3>3
         DEF PolledInv, PolledRecords, OneSession, Out, ServedFresh, FreshFor, StaleFor
  <2>. QED
    BY <2>1, PollTickIs, AnsweredIs DEF PolledNext
<1>3. PolledInv => ServedFresh
  BY DEF PolledInv
<1>. QED
  BY <1>1, <1>2, <1>3, PTL


-----------------------------------------------------------------------------
(* An endpoint.                                                            *)

EndpointRecords ==
  /\ serveAt \in Nat /\ longest \in Nat /\ report \in Int /\ queue \in Seq(Askers)
  /\ kept \in [born : Int, stamp : Int]
  /\ asker \in [Askers -> [pc : {"none", "waits", "computes", "warmed"}, began : Nat]]
  /\ reply \in [from : {"none", "cache", "own", "daemon"}, age : Int]

\* Who computes a costly body has the lock, and began when the last body was out of date.
Computing ==
  \A a \in Askers : asker[a].pc = "computes" =>
    /\ asker[a].began <= serveAt
    /\ Locked => holder = a /\ (kept.born # -1 => asker[a].began - kept.born >= KeptFor)

\* A body is stamped when it was begun or when it was done.
Stamped ==
  kept.born # -1 =>
    /\ kept.born <= kept.stamp /\ kept.stamp - kept.born <= longest
    /\ StampedEarly /\ asker[Warm].pc = "none" => kept.stamp = kept.born

\* The last reply is as old as it may be.
ReplyGood ==
  reply.from = "cache" =>
    reply.age < KeptFor + (IF StampedEarly /\ asker[Warm].pc = "none" THEN 0 ELSE longest)

EndpointInv ==
  EndpointRecords /\ Computing /\ Stamped /\ ReplyGood /\ (Locked => ~twice)

LEMMA AskersAre ==
  /\ Warm \in Askers /\ Nobody \notin Askers
  /\ KeptFor \in Int /\ KeptFor > 0
BY EndpointAssumption DEF Askers, Warm, Nobody

\* A request is answered without the lock's changing hands.
LEMMA ServedIs ==
  ASSUME EndpointInv, NEW a \in Askers, NEW born \in Int,
         NEW from \in {"none", "cache", "own", "daemon"},
         Served(a, born, from), from = "cache" => Hit /\ born = kept.born,
         UNCHANGED <<endpoint, serveAt, kept, report, longest, twice, holder>>,
         queue' \in Seq(Askers)
  PROVE  EndpointInv'
<1> USE DEF EndpointInv
<1> DEFINE Gone1 == [pc |-> IF a = Warm THEN "warmed" ELSE "none", began |-> 0]
<1>0. /\ serveAt \in Int /\ longest \in Int /\ longest >= 0 /\ kept.born \in Int
      /\ kept.stamp \in Int
      /\ asker \in [Askers -> [pc : {"none", "waits", "computes", "warmed"}, began : Nat]]
  BY DEF EndpointRecords
<1>1. /\ asker' = [asker EXCEPT ![a] = Gone1]
      /\ reply' = IF a = Warm THEN reply ELSE [from |-> from, age |-> serveAt - born]
  BY DEF Served, Left
<1>2. \A b \in Askers : asker'[b] = IF b = a THEN Gone1 ELSE asker[b]
  BY <1>0, <1>1
<1>3. EndpointRecords'
  <2>1. asker' \in [Askers -> [pc : {"none", "waits", "computes", "warmed"}, began : Nat]]
    BY <1>0, <1>1
  <2>2. serveAt - born \in Int
    BY <1>0
  <2>. QED
    BY <1>1, <2>1, <2>2 DEF EndpointRecords
<1>4. Computing'
  <2>1. \A b \in Askers : asker'[b].pc = "computes" => b # a /\ asker'[b] = asker[b]
    BY <1>2
  <2>. QED
    BY <2>1 DEF Computing, Locked
<1>5. asker'[Warm].pc = "none" => asker[Warm].pc = "none"
  BY <1>2, AskersAre
<1>6. Stamped'
  BY <1>5 DEF Stamped, StampedEarly
<1>7. ReplyGood'
  <2>0. CASE a = Warm
    <3>1. longest \in Nat /\ reply.age \in Int
      BY DEF EndpointRecords
    <3>. QED
      BY <1>1, <1>5, <2>0, <3>1, AskersAre DEF ReplyGood, StampedEarly
  <2>1. CASE a # Warm /\ from = "cache"
    <3>1. kept.born # -1 /\ serveAt - kept.stamp < KeptFor /\ born = kept.born
      BY <2>1 DEF Hit
    <3>2. CASE StampedEarly /\ asker'[Warm].pc = "none"
      <4>1. kept.stamp = kept.born
        BY <1>5, <3>1, <3>2 DEF Stamped
      <4>2. serveAt - born < KeptFor + 0
        BY <1>0, <3>1, <4>1, AskersAre
      <4>. QED
        BY <1>1, <2>1, <3>2, <4>2 DEF ReplyGood, StampedEarly
    <3>3. CASE ~(StampedEarly /\ asker'[Warm].pc = "none")
      <4>1. kept.stamp - kept.born <= longest
        BY <3>1 DEF Stamped
      <4>2. serveAt - born < KeptFor + longest
        BY <1>0, <3>1, <4>1, AskersAre, SMTT(30)
      <4>. QED
        BY <1>1, <2>1, <3>3, <4>2 DEF ReplyGood, StampedEarly
    <3>. QED
      BY <3>2, <3>3
  <2>2. CASE a # Warm /\ from # "cache"
    BY <1>1, <2>2 DEF ReplyGood
  <2>. QED
    BY <2>0, <2>1, <2>2
<1>. QED
  BY <1>3, <1>4, <1>6, <1>7 DEF Locked

\* A computation begins, of a costly endpoint under the lock and on an old body.
LEMMA ComputesIs ==
  ASSUME EndpointInv, NEW a \in Askers, Computes(a),
         Locked => holder = Nobody /\ holder' = a /\ ~Hit,
         UNCHANGED <<endpoint, serveAt, kept, report, longest, twice>>,
         queue' \in Seq(Askers)
  PROVE  EndpointInv'
<1> USE DEF EndpointInv
<1>0. /\ serveAt \in Nat /\ kept.born \in Int /\ kept.stamp \in Int
      /\ asker \in [Askers -> [pc : {"none", "waits", "computes", "warmed"}, began : Nat]]
  BY DEF EndpointRecords
<1>1. /\ asker' = [asker EXCEPT ![a] = [pc |-> "computes", began |-> serveAt]]
      /\ reply' = reply
  BY DEF Computes
<1>2. \A b \in Askers :
        asker'[b] = IF b = a THEN [pc |-> "computes", began |-> serveAt] ELSE asker[b]
  BY <1>0, <1>1
<1>3. EndpointRecords'
  <2>1. asker' \in [Askers -> [pc : {"none", "waits", "computes", "warmed"}, began : Nat]]
    BY <1>0, <1>1
  <2>. QED
    BY <1>1, <2>1 DEF EndpointRecords
<1>4. Computing'
  <2>1. ASSUME Locked, kept.born # -1 PROVE serveAt - kept.born >= KeptFor
    <3>1. kept.born <= kept.stamp /\ ~(serveAt - kept.stamp < KeptFor)
      BY <2>1 DEF Stamped, Hit
    <3>. QED
      BY <1>0, <3>1, AskersAre
  <2>2. Locked => \A b \in Askers : asker[b].pc # "computes"
    BY AskersAre DEF Computing
  <2>3. ASSUME NEW b \in Askers, asker'[b].pc = "computes"
        PROVE  /\ asker'[b].began <= serveAt'
               /\ Locked' => holder' = b /\ (kept'.born # -1 => asker'[b].began - kept'.born >= KeptFor)
    <3>1. CASE b = a
      BY <1>0, <1>2, <2>1, <3>1 DEF Locked
    <3>2. CASE b # a
      BY <1>2, <2>2, <2>3, <3>2 DEF Computing, Locked
    <3>. QED
      BY <3>1, <3>2
  <2>. QED
    BY <2>3 DEF Computing
<1>5. asker'[Warm].pc = "none" => asker[Warm].pc = "none"
  BY <1>2, AskersAre
<1>6. Stamped'
  BY <1>5 DEF Stamped, StampedEarly
<1>7. ReplyGood'
  <2>1. longest \in Nat /\ reply.age \in Int
    BY DEF EndpointRecords
  <2>. QED
    BY <1>1, <1>5, <2>1, AskersAre DEF ReplyGood, StampedEarly
<1>. QED
  BY <1>3, <1>4, <1>6, <1>7 DEF Locked

\* The lock is taken by one who asks or waited.
LEMMA LockTakenIs ==
  ASSUME EndpointInv, NEW a \in Askers, holder = Nobody, LockTaken(a),
         UNCHANGED <<endpoint, serveAt, kept, report, longest, twice>>,
         queue' \in Seq(Askers)
  PROVE  EndpointInv'
<1>1. CASE Hit
  <2>1. Served(a, kept.born, "cache") /\ holder' = holder
    BY <1>1 DEF LockTaken
  <2>2. kept.born \in Int
    BY DEF EndpointInv, EndpointRecords
  <2>. QED
    BY <1>1, <2>1, <2>2, ServedIs
<1>2. CASE ~Hit
  <2>1. Computes(a) /\ holder' = a
    BY <1>2 DEF LockTaken
  <2>. QED
    BY <1>2, <2>1, ComputesIs
<1>. QED
  BY <1>1, <1>2

LEMMA AskIs ==
  ASSUME EndpointInv, Ask
  PROVE  EndpointInv'
<1>1. PICK a \in Askers :
        /\ asker[a].pc = "none"
        /\ IF a # Warm /\ endpoint = "calibration" /\ ReportGood
           THEN Served(a, report, "daemon") /\ UNCHANGED <<holder, queue>>
           ELSE IF Hit /\ a # Warm
           THEN Served(a, kept.born, "cache") /\ UNCHANGED <<holder, queue>>
           ELSE IF ~Locked THEN Computes(a) /\ UNCHANGED <<holder, queue>>
           ELSE IF holder = Nobody /\ queue = <<>>
           THEN LockTaken(a) /\ UNCHANGED queue
           ELSE /\ asker' = [asker EXCEPT ![a].pc = "waits"]
                /\ queue' = Append(queue, a) /\ UNCHANGED <<holder, reply>>
        /\ UNCHANGED <<endpoint, serveAt, kept, report, longest, twice>>
  BY DEF Ask
<1>2. kept.born \in Int /\ report \in Int /\ queue \in Seq(Askers)
      /\ asker \in [Askers -> [pc : {"none", "waits", "computes", "warmed"}, began : Nat]]
  BY DEF EndpointInv, EndpointRecords
<1>3. CASE Served(a, report, "daemon") /\ UNCHANGED <<holder, queue>>
  BY <1>1, <1>2, <1>3, ServedIs
<1>4. CASE Hit /\ Served(a, kept.born, "cache") /\ UNCHANGED <<holder, queue>>
  BY <1>1, <1>2, <1>4, ServedIs
<1>5. CASE ~Locked /\ Computes(a) /\ UNCHANGED <<holder, queue>>
  BY <1>1, <1>2, <1>5, ComputesIs
<1>6. CASE Locked /\ holder = Nobody /\ LockTaken(a) /\ UNCHANGED queue
  BY <1>1, <1>2, <1>6, LockTakenIs
<1>7. CASE /\ asker' = [asker EXCEPT ![a].pc = "waits"]
           /\ queue' = Append(queue, a) /\ UNCHANGED <<holder, reply>>
  <2>1. asker' \in [Askers -> [pc : {"none", "waits", "computes", "warmed"}, began : Nat]]
    BY <1>2, <1>7
  <2>2. queue' \in Seq(Askers)
    BY <1>2, <1>7
  <2>3. EndpointRecords'
    BY <1>1, <1>7, <2>1, <2>2 DEF EndpointInv, EndpointRecords
  <2>4. \A b \in Askers : /\ asker'[b].pc = "computes" => asker'[b] = asker[b]
                          /\ asker'[b].pc = "none" => asker[b].pc = "none"
    BY <1>2, <1>7
  <2>5. Computing'
    BY <1>1, <1>7, <2>4 DEF EndpointInv, Computing, Locked
  <2>6. Stamped'
    BY <1>1, <2>4, AskersAre DEF EndpointInv, Stamped, StampedEarly
  <2>7. ReplyGood'
    <3>1. longest \in Nat /\ reply.age \in Int
      BY DEF EndpointInv, EndpointRecords
    <3>. QED
      BY <1>1, <1>7, <2>4, <3>1, AskersAre DEF EndpointInv, ReplyGood, StampedEarly
  <2>. QED
    BY <1>1, <2>3, <2>5, <2>6, <2>7 DEF EndpointInv, Locked
<1>. QED
  BY <1>1, <1>3, <1>4, <1>5, <1>6, <1>7

\* The end of a computation leaves no other one of a costly endpoint.
LEMMA PutIs ==
  ASSUME EndpointInv, Put \/ ComputeFails
  PROVE  EndpointInv'
<1> USE DEF EndpointInv
<1>0. /\ serveAt \in Nat /\ longest \in Nat /\ kept.born \in Int /\ kept.stamp \in Int
      /\ asker \in [Askers -> [pc : {"none", "waits", "computes", "warmed"}, began : Nat]]
      /\ reply.age \in Int
  BY DEF EndpointRecords
<1>1. PICK a \in Askers :
        /\ asker[a].pc = "computes"
        /\ asker' = [asker EXCEPT ![a] = [pc |-> IF a = Warm THEN "warmed" ELSE "none",
                                          began |-> 0]]
        /\ UNCHANGED <<endpoint, serveAt, queue, report>>
        /\ LET began == asker[a].began
               took  == serveAt - began
           IN  \/ /\ kept' = [born |-> began,
                              stamp |-> IF StampedEarly /\ a # Warm THEN began ELSE serveAt]
                  /\ longest' = IF took > longest THEN took ELSE longest
                  /\ twice' = (twice \/ (kept.born # -1 /\ began - kept.born < KeptFor))
                  /\ reply' = IF a = Warm THEN reply ELSE [from |-> "own", age |-> took]
               \/ UNCHANGED <<kept, longest, twice, reply>>
  BY DEF Put, ComputeFails, Served, Left
<1>2. \A b \in Askers :
        asker'[b] = IF b = a THEN [pc |-> IF a = Warm THEN "warmed" ELSE "none", began |-> 0]
                    ELSE asker[b]
  BY <1>0, <1>1
<1>3. asker[a].began \in Nat /\ asker[a].began <= serveAt
  BY <1>0, <1>1 DEF Computing
<1>4. asker' \in [Askers -> [pc : {"none", "waits", "computes", "warmed"}, began : Nat]]
  BY <1>0, <1>1
<1>5. Computing'
  <2>1. Locked => \A b \in Askers : asker[b].pc = "computes" => b = a
    BY <1>1 DEF Computing
  <2>2. \A b \in Askers : asker'[b].pc = "computes" =>
          asker'[b] = asker[b] /\ ~Locked
    BY <1>2, <2>1
  <2>. QED
    BY <1>1, <2>2 DEF Computing, Locked
<1>6. asker'[Warm].pc = "none" => asker[Warm].pc = "none" /\ a # Warm
  BY <1>2, AskersAre
<1>7. CASE UNCHANGED <<kept, longest, twice, reply>>
  <2>1. EndpointRecords'
    BY <1>1, <1>4, <1>7 DEF EndpointRecords
  <2>2. Stamped'
    BY <1>1, <1>6, <1>7 DEF Stamped, StampedEarly
  <2>3. ReplyGood'
    BY <1>0, <1>1, <1>6, <1>7, AskersAre DEF ReplyGood, StampedEarly
  <2>. QED
    BY <1>1, <1>5, <1>7, <2>1, <2>2, <2>3 DEF Locked
<1>8. ASSUME kept' = [born |-> asker[a].began,
                      stamp |-> IF StampedEarly /\ a # Warm THEN asker[a].began ELSE serveAt],
             longest' = IF serveAt - asker[a].began > longest
                        THEN serveAt - asker[a].began ELSE longest,
             twice' = (twice \/ (kept.born # -1 /\ asker[a].began - kept.born < KeptFor)),
             reply' = IF a = Warm THEN reply
                      ELSE [from |-> "own", age |-> serveAt - asker[a].began]
      PROVE  EndpointInv'
  <2>1. /\ longest' \in Nat /\ serveAt - asker[a].began <= longest'
        /\ serveAt - asker[a].began \in Int
    BY <1>0, <1>3, <1>8
  <2>2. /\ kept'.born = asker[a].began /\ kept'.born \in Int /\ kept'.stamp \in Int
        /\ kept' \in [born : Int, stamp : Int]
        /\ kept'.stamp = kept'.born \/ kept'.stamp = serveAt
    BY <1>0, <1>3, <1>8
  <2>3. EndpointRecords'
    BY <1>1, <1>4, <1>8, <2>1, <2>2 DEF EndpointRecords
  <2>4. Stamped'
    <3>1. kept'.born <= kept'.stamp /\ kept'.stamp - kept'.born <= longest'
      BY <1>0, <1>3, <2>1, <2>2
    <3>2. StampedEarly' /\ asker'[Warm].pc = "none" => kept'.stamp = kept'.born
      BY <1>1, <1>6, <1>8 DEF StampedEarly
    <3>. QED
      BY <3>1, <3>2 DEF Stamped
  <2>5. ReplyGood'
    <3>1. CASE a # Warm
      BY <1>8, <3>1 DEF ReplyGood
    <3>2. CASE a = Warm
      <4>1. asker'[Warm].pc # "none" /\ longest' >= longest
        BY <1>0, <1>3, <1>6, <1>8, <3>2
      <4>. QED
        BY <1>0, <1>1, <1>8, <2>1, <3>2, <4>1, AskersAre DEF ReplyGood, StampedEarly
    <3>. QED
      BY <3>1, <3>2
  <2>6. Locked' => ~twice'
    <3>1. Locked /\ kept.born # -1 => asker[a].began - kept.born >= KeptFor
      BY <1>1 DEF Computing
    <3>2. Locked => ~(kept.born # -1 /\ asker[a].began - kept.born < KeptFor)
      BY <1>0, <1>3, <3>1, AskersAre
    <3>. QED
      BY <1>1, <1>8, <3>2 DEF Locked
  <2>. QED
    BY <1>5, <2>3, <2>4, <2>5, <2>6
<1>. QED
  BY <1>1, <1>7, <1>8

\* However requests, the warm-up, failures and the clock interleave: one computation of
\* a costly endpoint at a time and one per window, and no body served past its time.
THEOREM EndpointsKept == EndpointInit /\ [][EndpointNext]_endpointVars => []EndpointsSound
<1>1. EndpointInit => EndpointInv
  <2> SUFFICES ASSUME EndpointInit PROVE EndpointInv
    OBVIOUS
  <2>1. NoBody \in [born : Int, stamp : Int] /\ NoBody.born = -1
    BY DEF NoBody
  <2>2. <<>> \in Seq(Askers) /\ report = -1 /\ -1 \in Int
    BY DEF EndpointInit
  <2>3. \A a \in Askers : asker[a] = [pc |-> "none", began |-> 0]
    BY DEF EndpointInit
  <2>4. EndpointRecords
    BY <2>1, <2>2 DEF EndpointInit, EndpointRecords
  <2>5. Computing /\ Stamped /\ ReplyGood /\ ~twice
    BY <2>1, <2>3 DEF EndpointInit, Computing, Stamped, ReplyGood
  <2>. QED
    BY <2>4, <2>5 DEF EndpointInv
<1>2. EndpointInv /\ [EndpointNext]_endpointVars => EndpointInv'
  <2> SUFFICES ASSUME EndpointInv, [EndpointNext]_endpointVars PROVE EndpointInv'
    OBVIOUS
  <2>1. CASE NextAsker
    <3>1. /\ holder = Nobody /\ queue # <<>> /\ LockTaken(Head(queue)) /\ queue' = Tail(queue)
          /\ UNCHANGED <<endpoint, serveAt, kept, report, longest, twice>>
      BY <2>1 DEF NextAsker
    <3>2. queue \in Seq(Askers)
      BY DEF EndpointInv, EndpointRecords
    <3>3. Head(queue) \in Askers /\ Tail(queue) \in Seq(Askers)
      BY <3>1, <3>2, HeadTailProperties
    <3>. QED
      BY <3>1, <3>3, LockTakenIs
  <2>2. CASE DaemonReports \/ ServeClock \/ UNCHANGED endpointVars
    <3>1. /\ UNCHANGED <<endpoint, kept, asker, holder, queue, reply, longest, twice>>
          /\ report' \in Int /\ serveAt' \in Nat /\ serveAt' >= serveAt
      BY <2>2 DEF DaemonReports, ServeClock, endpointVars, EndpointInv, EndpointRecords
    <3>2. EndpointRecords'
      BY <3>1 DEF EndpointInv, EndpointRecords
    <3>3. Computing'
      <4>1. \A a \in Askers : asker[a].pc = "computes" =>
              asker[a].began \in Nat /\ asker[a].began <= serveAt /\ serveAt \in Nat
        BY DEF EndpointInv, EndpointRecords, Computing
      <4>2. \A a \in Askers : asker[a].pc = "computes" => asker[a].began <= serveAt'
        BY <3>1, <4>1
      <4>. QED
        BY <3>1, <4>2 DEF EndpointInv, Computing, Locked
    <3>4. Stamped' /\ ReplyGood' /\ (Locked' => ~twice')
      BY <3>1 DEF EndpointInv, Stamped, ReplyGood, StampedEarly, Locked
    <3>. QED
      BY <3>2, <3>3, <3>4 DEF EndpointInv
  <2>. QED
    BY <2>1, <2>2, AskIs, PutIs DEF EndpointNext
<1>3. EndpointInv => EndpointsSound
  BY DEF EndpointInv, EndpointsSound, Computing, ReplyGood
<1>. QED
  BY <1>1, <1>2, <1>3, PTL


-----------------------------------------------------------------------------
(* Power.                                                                  *)

EnergyRecords ==
  /\ spent \in [Domains -> Nat] /\ meterAt \in Nat /\ lastTs = before.at
  /\ before.spent \in [Domains -> Nat] /\ before.at \in Nat
  /\ \A d \in Domains : before.spent[d] <= spent[d]
  /\ DOMAIN last \subseteq Domains

\* What a counter shows of the energy that was used.
Shows(d, e) == e % Wrap[d]

\* The last counters are those of the sample before.
Remembered == \A d \in DOMAIN last : last[d] = Shows(d, before.spent[d])

EnergyInv == EnergyRecords /\ Remembered /\ PowerIsTrue

LEMMA ModuloIs ==
  ASSUME NEW a \in Nat, NEW m \in Nat \ {0}
  PROVE  /\ a % m \in Nat /\ a % m < m /\ a \div m \in Nat
         /\ a = (m * (a \div m)) + (a % m)
OBVIOUS

\* A number is a multiple and a rest in one way only.
LEMMA RestIs ==
  ASSUME NEW a \in Nat, NEW m \in Nat \ {0}
  PROVE  \A u \in Int, x \in Nat : x < m /\ a = (m * u) + x => a % m = x
<1> DEFINE p == a \div m
           s == a % m
<1>1. s \in Nat /\ s < m /\ p \in Nat /\ a = (m * p) + s
  BY ModuloIs
<1> HIDE DEF p, s
<1>2. ASSUME NEW u \in Int, NEW x \in Nat, x < m, a = (m * u) + x
      PROVE  s = x
  <2>1. CASE p > u
    <3>1. m * (p - u) >= m /\ m * (p - u) = m * p - m * u
      BY <1>1, <2>1
    <3>. QED
      BY <1>1, <1>2, <3>1
  <2>2. CASE p < u
    <3>1. m * (u - p) >= m /\ m * (u - p) = m * u - m * p
      BY <1>1, <2>2
    <3>. QED
      BY <1>1, <1>2, <3>1
  <2>. QED
    BY <1>1, <1>2, <2>1, <2>2
<1>. QED
  BY <1>2 DEF s

\* A counter that wrapped at most once gives the difference back, or shows that it
\* cannot.
LEMMA DeltaIs ==
  ASSUME NEW d \in Domains, NEW a \in Nat, NEW b \in Nat, b <= a, a - b < Wrap[d],
         Shows(d, a) >= Shows(d, b) \/ MaxUj(d) > 0
  PROVE  Delta(d, Shows(d, a), Shows(d, b)) = a - b
<1> DEFINE m == Wrap[d]
           q == b \div m
           r == b % m
           e == a - b
           p == a \div m
           s == a % m
<1>1. m \in Nat \ {0} /\ e \in Nat /\ e < m
  BY EnergyAssumption
<1>2. r \in Nat /\ r < m /\ q \in Nat /\ b = (m * q) + r
  BY <1>1, ModuloIs
<1>3. s \in Nat /\ s < m /\ p \in Nat /\ a = (m * p) + s
  BY <1>1, ModuloIs
<1>4. Shows(d, a) = s /\ Shows(d, b) = r
  BY DEF Shows
<1>5. MaxUj(d) > 0 => MaxUj(d) = m
  BY DEF MaxUj
<1> HIDE DEF m, q, r, e, p, s
<1>6. a = (m * q) + (r + e) /\ m * q \in Int
  BY <1>1, <1>2 DEF e
<1>7. \A u \in Int, x \in Nat : x < m /\ a = (m * u) + x => s = x
  BY <1>1, RestIs DEF s
<1>8. CASE r + e < m
  <2> DEFINE x == r + e
  <2>1. x \in Nat /\ x < m /\ a = (m * q) + x /\ q \in Int /\ x - r = e /\ x >= r
    BY <1>1, <1>2, <1>6, <1>8
  <2> HIDE DEF x
  <2>2. s = x
    BY <1>7, <2>1
  <2>. QED
    BY <1>1, <1>2, <1>4, <2>1, <2>2 DEF Delta, e
<1>9. CASE r + e >= m
  <2> DEFINE x == r + e - m
             u == q + 1
  <2>1. x \in Nat /\ x < m /\ x < r /\ m - r + x = e /\ u \in Int
    BY <1>1, <1>2, <1>9
  <2>2. a = (m * u) + x
    <3>1. m * (q + 1) = (m * q) + m
      BY <1>1, <1>2
    <3>. QED
      BY <1>1, <1>2, <1>6, <3>1
  <2> HIDE DEF x, u
  <2>3. s = x
    BY <1>7, <2>1, <2>2
  <2>4. MaxUj(d) = m
    BY <1>2, <1>4, <1>5, <2>1, <2>3
  <2>. QED
    BY <1>1, <1>2, <1>4, <2>1, <2>3, <2>4 DEF Delta, e
<1>. QED
  BY <1>1, <1>2, <1>8, <1>9

LEMMA MeterSampleIs ==
  ASSUME EnergyInv, MeterSample
  PROVE  EnergyInv'
<1> USE DEF EnergyInv
<1>1. PICK readable \in SUBSET Domains :
        LET now == [d \in readable |-> Counter(d)] IN
        /\ \/ UNCHANGED power
           \/ power' = [energy |-> [d \in Usable(now) |-> Delta(d, now[d], last[d])],
                        over |-> meterAt - lastTs,
                        true |-> [d \in Usable(now) |-> spent[d] - before.spent[d]],
                        took |-> meterAt - before.at]
        /\ last' = now /\ lastTs' = meterAt /\ before' = [spent |-> spent, at |-> meterAt]
        /\ UNCHANGED <<spent, meterAt>>
  BY DEF MeterSample
<1> DEFINE now == [d \in readable |-> Counter(d)]
<1>2. spent \in [Domains -> Nat] /\ meterAt \in Nat
  BY DEF EnergyRecords
<1>3. \A d \in Domains : Counter(d) = Shows(d, spent[d])
  BY DEF Counter, Shows
<1>4. EnergyRecords'
  <2>1. \A d \in Domains : spent[d] <= spent[d]
    BY <1>2
  <2>. QED
    BY <1>1, <1>2, <2>1 DEF EnergyRecords
<1>5. Remembered'
  BY <1>1, <1>3 DEF Remembered, Shows
<1>6. CASE UNCHANGED power
  BY <1>4, <1>5, <1>6 DEF PowerIsTrue
<1>7. CASE power' = [energy |-> [d \in Usable(now) |-> Delta(d, now[d], last[d])],
                     over |-> meterAt - lastTs,
                     true |-> [d \in Usable(now) |-> spent[d] - before.spent[d]],
                     took |-> meterAt - before.at]
  <2>1. /\ DOMAIN power'.energy = Usable(now)
        /\ \A d \in Usable(now) : power'.energy[d] = Delta(d, now[d], last[d])
        /\ \A d \in Usable(now) : power'.true[d] = spent[d] - before.spent[d]
        /\ power'.over = power'.took
    BY <1>7 DEF EnergyRecords
  <2>2. ASSUME NEW d \in Usable(now), power'.true[d] < Wrap[d]
        PROVE  power'.energy[d] = power'.true[d]
    <3>1. d \in readable /\ d \in Domains /\ d \in DOMAIN last
          /\ (now[d] >= last[d] \/ MaxUj(d) > 0)
      BY DEF Usable
    <3>2. now[d] = Shows(d, spent[d]) /\ last[d] = Shows(d, before.spent[d])
      BY <1>3, <3>1 DEF Remembered
    <3>3. spent[d] \in Nat /\ before.spent[d] \in Nat /\ before.spent[d] <= spent[d]
      BY <3>1 DEF EnergyRecords
    <3>4. spent[d] - before.spent[d] < Wrap[d]
      BY <2>1, <2>2
    <3>5. Delta(d, Shows(d, spent[d]), Shows(d, before.spent[d])) = spent[d] - before.spent[d]
      BY <3>1, <3>2, <3>3, <3>4, DeltaIs
    <3> HIDE DEF now
    <3>. QED
      BY <2>1, <3>2, <3>5
  <2> HIDE DEF now
  <2>3. PowerIsTrue'
    BY <2>1, <2>2 DEF PowerIsTrue
  <2>. QED
    BY <1>4, <1>5, <2>3
<1>. QED
  BY <1>1, <1>6, <1>7

LEMMA PowerHolds == EnergyInit /\ [][EnergyNext]_energyVars => []PowerIsTrue
<1>1. EnergyInit => EnergyInv
  <2> SUFFICES ASSUME EnergyInit PROVE EnergyInv
    OBVIOUS
  <2>1. DOMAIN NoReading = {}
    BY DEF NoReading
  <2>2. EnergyRecords
    BY <2>1 DEF EnergyInit, EnergyRecords
  <2>3. Remembered /\ PowerIsTrue
    BY <2>1 DEF EnergyInit, Remembered, PowerIsTrue
  <2>. QED
    BY <2>2, <2>3 DEF EnergyInv
<1>2. EnergyInv /\ [EnergyNext]_energyVars => EnergyInv'
  <2> SUFFICES ASSUME EnergyInv, [EnergyNext]_energyVars PROVE EnergyInv'
    OBVIOUS
  <2>1. CASE Spend
    <3>1. PICK d \in Domains, e \in 1 .. 2 :
            /\ spent' = [spent EXCEPT ![d] = spent[d] + e]
            /\ UNCHANGED <<meterAt, last, lastTs, power, before>>
      BY <2>1 DEF Spend
    <3>2. spent \in [Domains -> Nat] /\ before.spent \in [Domains -> Nat]
          /\ \A c \in Domains : before.spent[c] <= spent[c]
      BY DEF EnergyInv, EnergyRecords
    <3>3. spent' \in [Domains -> Nat] /\ \A c \in Domains : before.spent[c] <= spent'[c]
      BY <3>1, <3>2
    <3>. QED
      BY <3>1, <3>3 DEF EnergyInv, EnergyRecords, Remembered, PowerIsTrue, Shows
  <2>2. CASE MeterClock \/ UNCHANGED energyVars
    <3>1. UNCHANGED <<spent, last, lastTs, power, before>> /\ meterAt' \in Nat
      BY <2>2 DEF MeterClock, energyVars, EnergyInv, EnergyRecords
    <3>. QED
      BY <3>1 DEF EnergyInv, EnergyRecords, Remembered, PowerIsTrue, Shows
  <2>. QED
    BY <2>1, <2>2, MeterSampleIs DEF EnergyNext
<1>3. EnergyInv => PowerIsTrue
  BY DEF EnergyInv
<1>. QED
  BY <1>1, <1>2, <1>3, PTL


-----------------------------------------------------------------------------
(* The sysfs collector, while samples do not overlap.                      *)

Jobs == [pc : {"parked", "next", "open", "read"}, list : [Paths -> Sensors \cup {Blank}],
         todo : SUBSET Paths, at : Paths \cup {Blank}, fd : {0} \cup Descriptors,
         out : [Sensors -> Sensors \cup {Blank}], tick : Nat]

SysfsRecords ==
  /\ occupant \in [Paths -> Sensors \cup {Gone}]
  /\ device \in [Paths -> Sensors \cup {Blank}]
  /\ fds \in [Paths -> {0} \cup Descriptors]
  /\ files \in [Descriptors -> Sensors \cup {Shut, Gone}]
  /\ job \in [Workers -> Jobs] /\ slow \in Nat /\ ticks \in Nat /\ astray \subseteq Sensors

\* The descriptors that are open are those of the cache, each for what is at its path.
FdsKnown ==
  /\ \A d \in Descriptors : files[d] # Shut => \E p \in Paths : fds[p] = d
  /\ \A p \in Paths : fds[p] # 0 => files[fds[p]] \in {occupant[p], Gone}
  /\ \A p, q \in Paths : fds[p] # 0 /\ fds[p] = fds[q] => p = q

\* A path is read for what is there, unless its number changed hands.
Listed == \A p \in Paths : device[p] # Blank =>
            occupant[p] \in {device[p], Gone} \/ device[p] \in astray

\* One sample is out, with what the cache has for the path it is at.
Alone ==
  /\ \A v, w \in Running : v = w
  /\ \A w \in Running :
       /\ job[w].tick = ticks /\ ticks > 0 /\ job[w].list = device
       /\ \A p \in job[w].todo : device[p] # Blank
       /\ job[w].pc \in {"open", "read"} =>
            /\ job[w].at \in Paths /\ job[w].fd = fds[job[w].at] /\ device[job[w].at] # Blank
       /\ job[w].pc = "read" => job[w].fd # 0
       /\ job[w].pc = "open" => job[w].fd = 0

\* A sample took the slow readings among the last RefreshEach of those that ended.
Recent(t) == t > 0 => slow > 0 /\ slow % RefreshEach = 1 /\ slow <= t /\ t - slow < RefreshEach

SlowFresh ==
  /\ Running = {} => Recent(ticks)
  /\ Running # {} => Recent(ticks - 1)

\* A worker between two samples has read nothing.
Resting == \A w \in Workers : job[w].pc = "parked" => \A s \in Sensors : job[w].out[s] = Blank

SysfsGood ==
  SysfsRecords /\ FdsKnown /\ Listed /\ Alone /\ Resting /\ ReadsOwnSensor /\ SlowFresh

SysfsInv == ~mixed => SysfsGood

LEMMA NamesDiffer ==
  /\ Shut \notin Sensors /\ Gone \notin Sensors /\ Blank \notin Sensors
  /\ Shut # Gone /\ 0 \notin Descriptors /\ Blank \notin Paths
BY SysfsAssumption DEF Shut, Gone, Blank, Descriptors

\* A round later the rest is the same.
LEMMA RoundIs ==
  ASSUME NEW a \in Nat, NEW m \in Nat \ {0}
  PROVE  (a + m) % m = a % m
<1> DEFINE x == a % m
           u == a \div m + 1
           b == a + m
<1>1. x \in Nat /\ x < m /\ u \in Int /\ b \in Nat
  BY ModuloIs
<1>2. b = (m * u) + x
  <2>1. a = (m * (a \div m)) + (a % m) /\ a \div m \in Nat
    BY ModuloIs
  <2>2. m * ((a \div m) + 1) = (m * (a \div m)) + m
    BY <2>1
  <2>. QED
    BY <2>1, <2>2
<1> HIDE DEF x, u, b
<1>3. b % m = x
  BY <1>1, <1>2, RestIs
<1>. QED
  BY <1>3 DEF x, b

LEMMA FirstIs == 1 % RefreshEach = 1
BY SysfsAssumption


\* A step of the sample that is out.
LEMMA SampleStep ==
  ASSUME SysfsGood, NEW w \in Running, NEW j \in Jobs, job' = [job EXCEPT ![w] = j],
         UNCHANGED <<occupant, device, slow, ticks, astray>>,
         fds' \in [Paths -> {0} \cup Descriptors],
         files' \in [Descriptors -> Sensors \cup {Shut, Gone}], FdsKnown',
         j.pc # "parked", j.tick = job[w].tick, j.list = job[w].list,
         j.todo \subseteq job[w].todo,
         \A s \in Sensors : j.out[s] \in {s, Blank} \/ s \in astray,
         j.pc \in {"open", "read"} =>
           j.at \in Paths /\ j.fd = fds'[j.at] /\ device[j.at] # Blank,
         j.pc = "read" => j.fd # 0, j.pc = "open" => j.fd = 0
  PROVE  SysfsGood'
<1>1. w \in Workers /\ job \in [Workers -> Jobs]
  BY DEF Running, SysfsGood, SysfsRecords
<1>2. job' \in [Workers -> Jobs] /\ job'[w] = j /\ \A v \in Workers \ {w} : job'[v] = job[v]
  BY <1>1
<1>3. SysfsRecords' /\ Listed'
  BY <1>2 DEF SysfsGood, SysfsRecords, Listed
<1>4. Running = {w} /\ Running' = {w}
  <2>1. \A v \in Running : v = w
    BY DEF SysfsGood, Alone
  <2>2. Running = {w}
    BY <2>1
  <2>. QED
    BY <1>1, <1>2, <2>2 DEF Running
<1>5. Alone'
  <2>1. /\ job'[w].tick = ticks' /\ ticks' > 0 /\ job'[w].list = device'
        /\ \A p \in job'[w].todo : device'[p] # Blank
    BY <1>2 DEF SysfsGood, Alone
  <2>2. /\ job'[w].pc \in {"open", "read"} =>
             /\ job'[w].at \in Paths /\ job'[w].fd = fds'[job'[w].at]
             /\ device'[job'[w].at] # Blank
        /\ job'[w].pc = "read" => job'[w].fd # 0
        /\ job'[w].pc = "open" => job'[w].fd = 0
    BY <1>2
  <2>. QED
    BY <1>4, <2>1, <2>2 DEF Alone
<1>6. ReadsOwnSensor' /\ Resting'
  BY <1>2 DEF SysfsGood, ReadsOwnSensor, Resting
<1>7. SlowFresh'
  BY <1>4 DEF SysfsGood, SlowFresh, Recent
<1>. QED
  BY <1>3, <1>5, <1>6, <1>7 DEF SysfsGood

\* With the paths found again the cache is empty, and so are the descriptors, and
\* the list says what is where.
LEMMA RefreshPathsIs ==
  ASSUME SysfsGood, RefreshPaths, UNCHANGED occupant
  PROVE  /\ fds' \in [Paths -> {0} \cup Descriptors]
         /\ files' \in [Descriptors -> Sensors \cup {Shut, Gone}]
         /\ device' \in [Paths -> Sensors \cup {Blank}]
         /\ FdsKnown' /\ Listed' /\ astray' = {}
<1>1. /\ fds \in [Paths -> {0} \cup Descriptors]
      /\ files \in [Descriptors -> Sensors \cup {Shut, Gone}]
      /\ occupant \in [Paths -> Sensors \cup {Gone}]
  BY DEF SysfsGood, SysfsRecords
<1>2. \A d \in Descriptors : files'[d] = Shut
  BY <1>1 DEF RefreshPaths, SysfsGood, FdsKnown
<1>3. fds' = [p \in Paths |-> 0] /\ files' = [d \in Descriptors |-> Shut]
  BY <1>1, <1>2 DEF RefreshPaths
<1>4. device' = [p \in Paths |-> IF occupant[p] = Gone THEN Blank ELSE occupant[p]]
      /\ astray' = {}
  BY DEF RefreshPaths
<1>5. FdsKnown'
  BY <1>3, NamesDiffer DEF FdsKnown
<1>6. device' \in [Paths -> Sensors \cup {Blank}] /\ Listed'
  BY <1>1, <1>4 DEF Listed
<1>. QED
  BY <1>3, <1>4, <1>5, <1>6

LEMMA BeginSampleIs ==
  ASSUME SysfsGood, BeginSample, ~mixed'
  PROVE  SysfsGood'
<1>1. PICK w \in Workers, due \in BOOLEAN :
        /\ w \notin Running
        /\ IF due \/ Unfound THEN RefreshPaths ELSE UNCHANGED <<fds, files, device, astray>>
        /\ ticks' = ticks + 1 /\ mixed' = (mixed \/ Running # {})
        /\ job' = [job EXCEPT ![w] =
             [Parked EXCEPT !.pc = "next", !.tick = ticks', !.list = device',
                !.todo = {p \in Paths : /\ device'[p] # Blank
                                        /\ \/ ticks' % RefreshEach = 1
                                           \/ device'[p] \notin SlowSensors}]]
        /\ UNCHANGED <<occupant, slow>>
  BY DEF BeginSample
<1> DEFINE todo == {p \in Paths : /\ device'[p] # Blank
                                  /\ \/ ticks' % RefreshEach = 1
                                     \/ device'[p] \notin SlowSensors}
           j == [Parked EXCEPT !.pc = "next", !.tick = ticks', !.list = device', !.todo = todo]
<1>2. Running = {}
  BY <1>1
<1>3. job \in [Workers -> Jobs] /\ slow \in Nat /\ ticks \in Nat
  BY DEF SysfsGood, SysfsRecords
<1>4. /\ fds' \in [Paths -> {0} \cup Descriptors]
      /\ files' \in [Descriptors -> Sensors \cup {Shut, Gone}]
      /\ device' \in [Paths -> Sensors \cup {Blank}]
      /\ FdsKnown' /\ Listed' /\ astray' \subseteq Sensors /\ astray' \in {{}, astray}
  <2>1. CASE due \/ Unfound
    <3>1. RefreshPaths /\ UNCHANGED occupant
      BY <1>1, <2>1
    <3>. QED
      BY <3>1, RefreshPathsIs
  <2>2. CASE ~(due \/ Unfound)
    <3>1. UNCHANGED <<occupant, fds, files, device, astray>>
      BY <1>1, <2>2
    <3>. QED
      BY <3>1 DEF SysfsGood, SysfsRecords, FdsKnown, Listed
  <2>. QED
    BY <2>1, <2>2
<1>5. /\ j \in Jobs /\ j.pc = "next" /\ j.tick = ticks + 1 /\ j.list = device' /\ j.todo = todo
      /\ \A s \in Sensors : j.out[s] = Blank
  <2>1. /\ Parked.out \in [Sensors -> Sensors \cup {Blank}]
        /\ \A s \in Sensors : Parked.out[s] = Blank
    BY DEF Parked
  <2>2. Parked \in Jobs
    BY <2>1 DEF Parked, Jobs
  <2>3. ticks' \in Nat /\ ticks' = ticks + 1
    BY <1>1, <1>3
  <2>4. todo \in SUBSET Paths
    OBVIOUS
  <2> HIDE DEF todo
  <2>. QED
    BY <1>4, <2>1, <2>2, <2>3, <2>4 DEF Jobs
<1> HIDE DEF j
<1>6. job' = [job EXCEPT ![w] = j]
  BY <1>1 DEF j
<1>7. /\ job' \in [Workers -> Jobs] /\ job'[w] = j
      /\ \A v \in Workers \ {w} : job'[v] = job[v]
  BY <1>3, <1>5, <1>6
<1>8. Running' = {w}
  BY <1>2, <1>5, <1>7 DEF Running
<1>9. SysfsRecords'
  BY <1>1, <1>3, <1>4, <1>7 DEF SysfsGood, SysfsRecords
<1>10. Alone'
  <2>1. \A p \in job'[w].todo : device'[p] # Blank
    BY <1>5, <1>7
  <2>2. ticks' = ticks + 1 /\ ticks + 1 > 0
    BY <1>1, <1>3
  <2>3. job'[w].pc = "next" /\ job'[w].tick = ticks' /\ job'[w].list = device'
    BY <1>5, <1>7, <2>2
  <2>. QED
    BY <1>8, <2>1, <2>2, <2>3 DEF Alone
<1>11. ReadsOwnSensor'
  <2>1. ASSUME NEW v \in Workers, NEW s \in Sensors PROVE job'[v].out[s] \in {s, Blank} \/ s \in astray'
    <3>1. CASE v = w
      BY <1>5, <1>7, <3>1
    <3>2. CASE v # w /\ astray' = astray
      BY <1>7, <3>2 DEF SysfsGood, ReadsOwnSensor
    <3>3. CASE v # w /\ astray' # astray
      <4>1. job[v].pc = "parked"
        BY <1>2 DEF Running
      <4>. QED
        BY <1>7, <3>3, <4>1 DEF SysfsGood, Resting
    <3>. QED
      BY <3>1, <3>2, <3>3
  <2>. QED
    BY <2>1 DEF ReadsOwnSensor
<1>13. Resting'
  BY <1>5, <1>7 DEF SysfsGood, Resting
<1>12. SlowFresh'
  <2>1. Recent(ticks)
    BY <1>2 DEF SysfsGood, SlowFresh
  <2>2. ticks' - 1 = ticks
    BY <1>1, <1>3
  <2>. QED
    BY <1>1, <1>8, <2>1, <2>2 DEF SlowFresh, Recent
<1>. QED
  BY <1>4, <1>9, <1>10, <1>11, <1>12, <1>13 DEF SysfsGood

LEMMA LookUpIs ==
  ASSUME SysfsGood, LookUp
  PROVE  SysfsGood'
<1>1. PICK w \in Running, p \in Paths :
        /\ job[w].pc = "next" /\ p \in job[w].todo
        /\ job' = [job EXCEPT ![w].pc = IF fds[p] = 0 THEN "open" ELSE "read",
                              ![w].at = p, ![w].fd = fds[p], ![w].todo = @ \ {p}]
        /\ UNCHANGED <<occupant, device, fds, files, slow, ticks, astray>>
  BY DEF LookUp
<1> DEFINE j == [job[w] EXCEPT !.pc = IF fds[p] = 0 THEN "open" ELSE "read",
                               !.at = p, !.fd = fds[p], !.todo = @ \ {p}]
<1>2. job \in [Workers -> Jobs] /\ w \in Workers /\ fds[p] \in {0} \cup Descriptors
  BY DEF SysfsGood, SysfsRecords, Running
<1>3. job' = [job EXCEPT ![w] = j]
  BY <1>1, <1>2
<1>4. j \in Jobs
  BY <1>2 DEF Jobs
<1>5. /\ j.pc = (IF fds[p] = 0 THEN "open" ELSE "read") /\ j.at = p /\ j.fd = fds[p]
      /\ j.tick = job[w].tick /\ j.out = job[w].out /\ j.list = job[w].list
      /\ j.todo \subseteq job[w].todo
  BY <1>2 DEF Jobs
<1>6. /\ \A t \in Sensors : j.out[t] \in {t, Blank} \/ t \in astray
      /\ device[p] # Blank
  BY <1>1, <1>2, <1>5 DEF SysfsGood, ReadsOwnSensor, Alone
<1>7. /\ fds' \in [Paths -> {0} \cup Descriptors]
      /\ files' \in [Descriptors -> Sensors \cup {Shut, Gone}] /\ FdsKnown'
  BY <1>1 DEF SysfsGood, SysfsRecords, FdsKnown
<1> HIDE DEF j
<1>. QED
  BY <1>1, <1>3, <1>4, <1>5, <1>6, <1>7, SampleStep


\* A set of numbers has a least one.
LEMMA LeastIs ==
  ASSUME NEW S \in SUBSET Nat, S # {}
  PROVE  \E m \in S : \A k \in S : m <= k
<1> DEFINE R == StrictSubsetOrdering(Nat)
           T == {1 .. k : k \in S}
<1>1. IsWellFoundedOn(R, FiniteSubsetsOf(Nat))
  BY FS_StrictSubsetOrderingWellFounded
<1>2. T \subseteq FiniteSubsetsOf(Nat) /\ T # {}
  <2>1. ASSUME NEW k \in S PROVE IsFiniteSet(1 .. k)
    BY FS_Interval
  <2>2. ASSUME NEW x \in T PROVE x \in FiniteSubsetsOf(Nat)
    <3>1. PICK k \in S : x = 1 .. k
      OBVIOUS
    <3>2. x \subseteq Nat
      BY <3>1
    <3>. QED
      BY <2>1, <3>1, <3>2 DEF FiniteSubsetsOf
  <2>3. PICK k \in S : TRUE
    OBVIOUS
  <2>4. 1 .. k \in T
    OBVIOUS
  <2>. QED
    BY <2>2, <2>4
<1>3. \A x, y \in T : y \subseteq x /\ y # x => <<y, x>> \in R
  BY DEF StrictSubsetOrdering
<1> HIDE DEF R, T
<1>4. PICK x \in T : \A y \in T : ~(<<y, x>> \in R)
  BY <1>1, <1>2, WFMin
<1>5. PICK m \in S : x = 1 .. m
  BY <1>4 DEF T
<1>6. ASSUME NEW k \in S, k < m PROVE FALSE
  <2>1. 1 .. k \subseteq x /\ 1 .. k # x /\ 1 .. k \in T
    <3>1. m \in x /\ m \notin 1 .. k
      BY <1>5, <1>6
    <3>. QED
      BY <3>1, <1>5, <1>6 DEF T
  <2>. QED
    BY <1>3, <1>4, <2>1
<1>. QED
  BY <1>5, <1>6

LEMMA LeastFree ==
  ASSUME FreeFds # {}
  PROVE  FreeFd \in Descriptors /\ files[FreeFd] = Shut
<1>1. FreeFds \in SUBSET Nat
  BY DEF FreeFds, Descriptors
<1>2. \E d \in FreeFds : \A e \in FreeFds : d <= e
  BY <1>1, LeastIs
<1>3. FreeFd \in FreeFds
  BY <1>2 DEF FreeFd
<1>. QED
  BY <1>3 DEF FreeFds

\* A sensor is done: what was read under its label is its own or astray.
LEMMA DoneIs ==
  ASSUME SysfsGood, NEW w \in Running, NEW o \in [Sensors -> Sensors \cup {Blank}], Done(w, o),
         UNCHANGED <<occupant, device, slow, ticks, astray>>,
         fds' \in [Paths -> {0} \cup Descriptors],
         files' \in [Descriptors -> Sensors \cup {Shut, Gone}], FdsKnown',
         \A s \in Sensors : o[s] \in {s, Blank} \/ s \in astray
  PROVE  SysfsGood'
<1> DEFINE j == [job[w] EXCEPT !.pc = "next", !.at = Blank, !.fd = 0, !.out = o]
<1>1. job \in [Workers -> Jobs] /\ w \in Workers
  BY DEF SysfsGood, SysfsRecords, Running
<1>2. job' = [job EXCEPT ![w] = j]
  BY <1>1 DEF Done
<1>3. /\ j \in Jobs /\ j.pc = "next" /\ j.tick = job[w].tick /\ j.out = o
      /\ j.list = job[w].list /\ j.todo = job[w].todo
  <2>1. job[w] \in Jobs
    BY <1>1
  <2>. QED
    BY <2>1 DEF Jobs
<1> HIDE DEF j
<1>. QED
  BY <1>2, <1>3, SampleStep

LEMMA OpenFdIs ==
  ASSUME SysfsGood, OpenFd
  PROVE  SysfsGood'
<1>1. PICK w \in Running :
        LET p == job[w].at IN
        /\ job[w].pc = "open"
        /\ IF occupant[p] # Gone /\ FreeFds # {}
           THEN /\ files' = [files EXCEPT ![FreeFd] = occupant[p]]
                /\ fds' = [fds EXCEPT ![p] = FreeFd]
                /\ job' = [job EXCEPT ![w].pc = "read", ![w].fd = FreeFd]
           ELSE Done(w, job[w].out) /\ UNCHANGED <<files, fds>>
        /\ UNCHANGED <<occupant, device, slow, ticks, astray>>
  BY DEF OpenFd
<1>0. UNCHANGED <<occupant, device, slow, ticks, astray>>
  BY <1>1
<1> DEFINE s == job[w].at
<1>2. /\ job \in [Workers -> Jobs] /\ w \in Workers
      /\ fds \in [Paths -> {0} \cup Descriptors]
      /\ files \in [Descriptors -> Sensors \cup {Shut, Gone}]
      /\ occupant \in [Paths -> Sensors \cup {Gone}]
  BY DEF SysfsGood, SysfsRecords, Running
<1>3. s \in Paths /\ fds[s] = 0 /\ device[s] # Blank
  BY <1>1 DEF SysfsGood, Alone
<1>4. \A t \in Sensors : job[w].out[t] \in {t, Blank} \/ t \in astray
  BY <1>2 DEF SysfsGood, ReadsOwnSensor
<1>5. CASE occupant[s] # Gone /\ FreeFds # {}
  <2> DEFINE j == [job[w] EXCEPT !.pc = "read", !.fd = FreeFd]
  <2>1. FreeFd \in Descriptors /\ files[FreeFd] = Shut
    BY <1>5, LeastFree
  <2>2. /\ files' = [files EXCEPT ![FreeFd] = occupant[s]] /\ fds' = [fds EXCEPT ![s] = FreeFd]
        /\ job' = [job EXCEPT ![w] = j]
    BY <1>1, <1>2, <1>5
  <2>3. /\ fds' \in [Paths -> {0} \cup Descriptors] /\ fds'[s] = FreeFd
        /\ \A t \in Paths \ {s} : fds'[t] = fds[t]
    BY <1>2, <1>3, <2>1, <2>2
  <2>4. /\ files' \in [Descriptors -> Sensors \cup {Shut, Gone}] /\ files'[FreeFd] = occupant[s]
        /\ \A d \in Descriptors \ {FreeFd} : files'[d] = files[d]
    BY <1>2, <1>3, <1>5, <2>1, <2>2
  <2>5. \A t \in Paths : fds[t] # FreeFd
    BY <1>2, <2>1, NamesDiffer DEF SysfsGood, FdsKnown
  <2>6. FdsKnown'
    <3>1. ASSUME NEW d \in Descriptors, files'[d] # Shut PROVE \E t \in Paths : fds'[t] = d
      <4>1. CASE d = FreeFd
        BY <1>3, <2>3, <4>1
      <4>2. CASE d # FreeFd
        <5>1. PICK t \in Paths : fds[t] = d
          BY <2>4, <3>1, <4>2 DEF SysfsGood, FdsKnown
        <5>2. t # s
          BY <1>3, <5>1, NamesDiffer
        <5>. QED
          BY <2>3, <5>1, <5>2
      <4>. QED
        BY <4>1, <4>2
    <3>2. ASSUME NEW t \in Paths, fds'[t] # 0 PROVE files'[fds'[t]] \in {occupant'[t], Gone}
      BY <1>0, <1>2, <2>3, <2>4, <2>5, <3>2 DEF SysfsGood, FdsKnown
    <3>3. ASSUME NEW t \in Paths, NEW u \in Paths, fds'[t] # 0, fds'[t] = fds'[u]
          PROVE  t = u
      BY <2>3, <2>5, <3>3 DEF SysfsGood, FdsKnown
    <3>. QED
      BY <3>1, <3>2, <3>3 DEF FdsKnown
  <2>7. j \in Jobs
    BY <1>2, <2>1, ZenonT(30) DEF Jobs
  <2>8. /\ j.pc = "read" /\ j.at = s /\ j.fd = FreeFd /\ j.list = job[w].list
        /\ j.tick = job[w].tick /\ j.out = job[w].out /\ j.todo = job[w].todo
    BY <1>2 DEF Jobs
  <2>9. j.at \in Paths /\ j.fd = fds'[j.at] /\ j.fd # 0 /\ device[j.at] # Blank
    BY <1>3, <2>1, <2>3, <2>8, NamesDiffer
  <2>10. \A t \in Sensors : j.out[t] \in {t, Blank} \/ t \in astray
    BY <1>4, <2>8
  <2>11. /\ j.pc = "read" /\ j.tick = job[w].tick /\ job' = [job EXCEPT ![w] = j]
         /\ j.list = job[w].list /\ j.todo \subseteq job[w].todo
    BY <2>2, <2>8
  <2>12. /\ fds' \in [Paths -> {0} \cup Descriptors]
         /\ files' \in [Descriptors -> Sensors \cup {Shut, Gone}]
    BY <2>3, <2>4
  <2> HIDE DEF j, s
  <2>. QED
    BY <1>0, <2>6, <2>7, <2>9, <2>10, <2>11, <2>12, SampleStep
<1>6. CASE ~(occupant[s] # Gone /\ FreeFds # {})
  <2>1. UNCHANGED <<files, fds>> /\ Done(w, job[w].out)
    BY <1>1, <1>6
  <2>2. FdsKnown'
    BY <1>0, <2>1 DEF SysfsGood, FdsKnown
  <2>3. job[w].out \in [Sensors -> Sensors \cup {Blank}]
    BY <1>2 DEF Jobs
  <2>. QED
    BY <1>0, <1>2, <1>4, <2>1, <2>2, <2>3, DoneIs
<1>. QED
  BY <1>5, <1>6

LEMMA PreadIs ==
  ASSUME SysfsGood, Pread
  PROVE  SysfsGood'
<1>1. PICK w \in Running :
        LET f == files[job[w].fd]
            p == job[w].at
        IN  /\ job[w].pc = "read"
            /\ IF f \in Sensors
               THEN /\ Done(w, [job[w].out EXCEPT ![job[w].list[p]] = f])
                    /\ UNCHANGED <<fds, files>>
               ELSE Done(w, job[w].out) /\ Evict(p)
            /\ UNCHANGED <<occupant, device, slow, ticks, astray>>
  BY DEF Pread
<1>0. UNCHANGED <<occupant, device, slow, ticks, astray>>
  BY <1>1
<1> DEFINE s == job[w].at
           d == job[w].fd
           f == files[d]
<1>2. /\ job \in [Workers -> Jobs] /\ w \in Workers
      /\ fds \in [Paths -> {0} \cup Descriptors]
      /\ files \in [Descriptors -> Sensors \cup {Shut, Gone}]
      /\ device \in [Paths -> Sensors \cup {Blank}]
  BY DEF SysfsGood, SysfsRecords, Running
<1>3. /\ s \in Paths /\ d = fds[s] /\ d # 0 /\ f \in {occupant[s], Gone}
      /\ device[s] # Blank /\ job[w].list = device
  BY <1>1 DEF SysfsGood, Alone, FdsKnown
<1>4. d \in Descriptors
  BY <1>2, <1>3
<1>5. \A t \in Sensors : job[w].out[t] \in {t, Blank} \/ t \in astray
  BY <1>2 DEF SysfsGood, ReadsOwnSensor
<1>8. job[w].out \in [Sensors -> Sensors \cup {Blank}]
  BY <1>2 DEF Jobs
<1>6. CASE f \in Sensors
  <2> DEFINE o == [job[w].out EXCEPT ![device[s]] = f]
  <2>1. UNCHANGED <<files, fds>> /\ Done(w, o)
    BY <1>1, <1>3, <1>6
  <2>2. FdsKnown'
    BY <1>0, <2>1 DEF SysfsGood, FdsKnown
  <2>3. f = device[s] \/ device[s] \in astray
    BY <1>3, <1>6, NamesDiffer DEF SysfsGood, Listed
  <2>4. /\ o \in [Sensors -> Sensors \cup {Blank}]
        /\ \A t \in Sensors : o[t] \in {t, Blank} \/ t \in astray
    BY <1>2, <1>3, <1>5, <1>6, <1>8, <2>3
  <2>5. /\ fds' \in [Paths -> {0} \cup Descriptors]
        /\ files' \in [Descriptors -> Sensors \cup {Shut, Gone}]
    BY <1>2, <2>1
  <2> HIDE DEF o
  <2>. QED
    BY <1>0, <2>1, <2>2, <2>4, <2>5, DoneIs
<1>7. CASE f \notin Sensors
  <2>1. /\ fds' = [fds EXCEPT ![s] = 0] /\ files' = [files EXCEPT ![d] = Shut]
        /\ Done(w, job[w].out)
    BY <1>1, <1>2, <1>3, <1>7 DEF Evict
  <2>2. /\ fds' \in [Paths -> {0} \cup Descriptors] /\ fds'[s] = 0
        /\ \A t \in Paths \ {s} : fds'[t] = fds[t]
    BY <1>2, <1>3, <2>1
  <2>3. /\ files' \in [Descriptors -> Sensors \cup {Shut, Gone}] /\ files'[d] = Shut
        /\ \A c \in Descriptors \ {d} : files'[c] = files[c]
    BY <1>2, <1>4, <2>1
  <2>4. FdsKnown'
    <3>1. \A t \in Paths \ {s} : fds[t] # d
      BY <1>3 DEF SysfsGood, FdsKnown
    <3>2. ASSUME NEW c \in Descriptors, files'[c] # Shut PROVE \E t \in Paths : fds'[t] = c
      <4>1. c # d /\ files[c] # Shut
        BY <2>3, <3>2
      <4>2. PICK t \in Paths : fds[t] = c
        BY <4>1 DEF SysfsGood, FdsKnown
      <4>. QED
        BY <1>3, <2>2, <4>1, <4>2
    <3>3. ASSUME NEW t \in Paths, fds'[t] # 0 PROVE files'[fds'[t]] \in {occupant'[t], Gone}
      <4>1. t # s /\ fds'[t] = fds[t] /\ fds[t] # d /\ fds[t] \in Descriptors
        BY <1>2, <2>2, <3>1, <3>3
      <4>. QED
        BY <1>0, <2>3, <3>3, <4>1 DEF SysfsGood, FdsKnown
    <3>4. ASSUME NEW t \in Paths, NEW u \in Paths, fds'[t] # 0, fds'[t] = fds'[u]
          PROVE  t = u
      BY <2>2, <3>4 DEF SysfsGood, FdsKnown
    <3>. QED
      BY <3>2, <3>3, <3>4 DEF FdsKnown
  <2>. QED
    BY <1>0, <1>5, <1>8, <2>1, <2>2, <2>3, <2>4, DoneIs
<1>. QED
  BY <1>6, <1>7


LEMMA EndSampleIs ==
  ASSUME SysfsGood, EndSample
  PROVE  SysfsGood'
<1>1. PICK w \in Running :
        /\ slow' = IF job[w].tick % RefreshEach = 1 THEN job[w].tick ELSE slow
        /\ job' = [job EXCEPT ![w] = Parked]
        /\ UNCHANGED <<occupant, device, fds, files, ticks, astray>>
  BY DEF EndSample
<1>2. /\ job \in [Workers -> Jobs] /\ w \in Workers /\ slow \in Nat /\ ticks \in Nat
      /\ job[w].tick = ticks /\ ticks > 0
  BY DEF SysfsGood, SysfsRecords, Running, Alone
<1>3. Parked \in Jobs /\ Parked.pc = "parked" /\ \A s \in Sensors : Parked.out[s] = Blank
  BY DEF Parked, Jobs
<1>4. /\ job' \in [Workers -> Jobs] /\ job'[w] = Parked
      /\ \A v \in Workers \ {w} : job'[v] = job[v]
  BY <1>1, <1>2, <1>3
<1>5. Running' = {}
  <2>1. \A v \in Running : v = w
    BY DEF SysfsGood, Alone
  <2>. QED
    BY <1>3, <1>4, <2>1 DEF Running
<1>6. SysfsRecords'
  BY <1>1, <1>2, <1>4 DEF SysfsGood, SysfsRecords
<1>7. FdsKnown' /\ Listed' /\ Alone'
  BY <1>1, <1>5 DEF SysfsGood, FdsKnown, Listed, Alone
<1>8. ReadsOwnSensor' /\ Resting'
  BY <1>1, <1>2, <1>3, <1>4 DEF SysfsGood, ReadsOwnSensor, Resting
<1>9. SlowFresh'
  <2>1. Running # {} /\ Recent(ticks - 1)
    BY DEF SysfsGood, SlowFresh
  <2>2. RefreshEach \in Nat \ {0} /\ RefreshEach > 1
    BY SysfsAssumption
  <2>3. CASE ticks % RefreshEach = 1
    <3>1. slow' = ticks /\ ticks' = ticks
      BY <1>1, <1>2, <2>3
    <3>. QED
      BY <1>2, <1>5, <2>2, <2>3, <3>1 DEF SlowFresh, Recent
  <2>4. CASE ticks % RefreshEach # 1
    <3>1. slow' = slow /\ ticks' = ticks
      BY <1>1, <1>2, <2>4
    <3>2. ticks # 1
      BY <2>4, FirstIs
    <3>3. slow > 0 /\ slow % RefreshEach = 1 /\ slow <= ticks - 1 /\ ticks - 1 - slow < RefreshEach
      BY <1>2, <2>1, <3>2 DEF Recent
    <3>4. (slow + RefreshEach) % RefreshEach = 1
      BY <1>2, <2>2, <3>3, RoundIs
    <3>5. ticks # slow + RefreshEach
      BY <2>4, <3>4
    <3>6. slow <= ticks /\ ticks - slow < RefreshEach
      BY <1>2, <2>2, <3>3, <3>5
    <3>. QED
      BY <1>5, <3>1, <3>3, <3>6 DEF SlowFresh, Recent
  <2>. QED
    BY <2>3, <2>4
<1>. QED
  BY <1>6, <1>7, <1>8, <1>9 DEF SysfsGood

LEMMA PlugsAre ==
  ASSUME SysfsGood, Unplug \/ Replug \/ UNCHANGED sysfsVars
  PROVE  SysfsGood'
<1>1. UNCHANGED <<device, fds, job, slow, ticks>>
  BY DEF Unplug, Replug, sysfsVars
<1>2. /\ fds \in [Paths -> {0} \cup Descriptors]
      /\ files \in [Descriptors -> Sensors \cup {Shut, Gone}]
      /\ occupant \in [Paths -> Sensors \cup {Gone}] /\ device \in [Paths -> Sensors \cup {Blank}]
      /\ astray \subseteq Sensors
  BY DEF SysfsGood, SysfsRecords
<1>3. /\ files' \in [Descriptors -> Sensors \cup {Shut, Gone}]
      /\ occupant' \in [Paths -> Sensors \cup {Gone}]
      /\ astray \subseteq astray' /\ astray' \subseteq Sensors
      /\ FdsKnown' /\ Listed'
  <2>1. CASE Unplug
    <3>1. PICK p \in Paths :
            /\ occupant[p] # Gone /\ occupant' = [occupant EXCEPT ![p] = Gone]
            /\ files' = [d \in Descriptors |-> IF files[d] = occupant[p] THEN Gone ELSE files[d]]
            /\ UNCHANGED astray
      BY <2>1 DEF Unplug
    <3>2. /\ files' \in [Descriptors -> Sensors \cup {Shut, Gone}]
          /\ occupant' \in [Paths -> Sensors \cup {Gone}]
      BY <1>2, <3>1
    <3>3. \A d \in Descriptors :
            /\ files'[d] \in {files[d], Gone} /\ (files[d] = occupant[p] => files'[d] = Gone)
      BY <3>1
    <3>4. \A d \in Descriptors : files'[d] # Shut => files[d] # Shut
      <4>1. occupant[p] # Shut
        BY <1>2, <3>1, NamesDiffer
      <4>. QED
        BY <3>1, <4>1
    <3>5. \A t \in Paths : fds[t] # 0 => fds[t] \in Descriptors
      BY <1>2
    <3>6. \A t \in Paths : occupant'[t] = IF t = p THEN Gone ELSE occupant[t]
      BY <1>2, <3>1
    <3>7. ASSUME NEW t \in Paths, fds'[t] # 0 PROVE files'[fds'[t]] \in {occupant'[t], Gone}
      <4>1. fds[t] \in Descriptors /\ fds'[t] = fds[t] /\ files[fds[t]] \in {occupant[t], Gone}
        BY <1>1, <3>5, <3>7 DEF SysfsGood, FdsKnown
      <4>. QED
        BY <3>3, <3>6, <4>1
    <3>8. FdsKnown'
      BY <1>1, <3>4, <3>7 DEF SysfsGood, FdsKnown
    <3>9. Listed'
      BY <1>1, <3>1, <3>6 DEF SysfsGood, Listed
    <3>. QED
      BY <1>2, <3>1, <3>2, <3>8, <3>9
  <2>2. CASE Replug
    <3>1. PICK p \in Paths, s \in Sensors :
            /\ occupant[p] = Gone /\ occupant' = [occupant EXCEPT ![p] = s]
            /\ astray' = astray \cup ({device[p]} \ {s, Blank})
            /\ UNCHANGED <<fds, files>>
      BY <2>2 DEF Replug
    <3>2. /\ occupant' \in [Paths -> Sensors \cup {Gone}]
          /\ \A t \in Paths : occupant'[t] = IF t = p THEN s ELSE occupant[t]
      BY <1>2, <3>1
    <3>3. astray \subseteq astray' /\ astray' \subseteq Sensors
      BY <1>2, <3>1
    <3>4. FdsKnown'
      BY <1>2, <3>1, <3>2 DEF SysfsGood, FdsKnown
    <3>5. Listed'
      BY <1>1, <1>2, <3>1, <3>2 DEF SysfsGood, Listed
    <3>. QED
      BY <1>2, <3>1, <3>2, <3>3, <3>4, <3>5
  <2>3. CASE UNCHANGED sysfsVars
    BY <1>2, <2>3 DEF sysfsVars, SysfsGood, FdsKnown, Listed
  <2>. QED
    BY <2>1, <2>2, <2>3
<1>4. SysfsRecords'
  BY <1>1, <1>3 DEF SysfsGood, SysfsRecords
<1>5. Running' = Running /\ ReadsOwnSensor' /\ Resting'
  BY <1>1, <1>3 DEF SysfsGood, Running, ReadsOwnSensor, Resting
<1>6. Alone' /\ SlowFresh'
  BY <1>1, <1>5 DEF SysfsGood, Alone, SlowFresh, Recent
<1>. QED
  BY <1>3, <1>4, <1>5, <1>6 DEF SysfsGood

LEMMA SensorsHold == SysfsInit /\ [][SysfsNext]_sysfsVars => []SensorsOwn
<1>1. SysfsInit => SysfsInv
  <2> SUFFICES ASSUME SysfsInit PROVE SysfsGood
    BY DEF SysfsInv
  <2>1. /\ Parked \in Jobs /\ Parked.pc = "parked"
        /\ \A s \in Sensors : Parked.out[s] = Blank
        /\ Parked.list \in [Paths -> Sensors \cup {Blank}]
        /\ \A p \in Paths : Parked.list[p] = Blank
    BY DEF Parked, Jobs
  <2>2. Running = {}
    BY <2>1 DEF SysfsInit, Running
  <2>3. SysfsRecords
    BY <2>1 DEF SysfsInit, SysfsRecords
  <2>4. FdsKnown /\ Listed /\ Alone /\ ReadsOwnSensor /\ Resting
    BY <2>1, <2>2 DEF SysfsInit, FdsKnown, Listed, Alone, ReadsOwnSensor, Resting
  <2>5. SlowFresh
    BY <2>2 DEF SysfsInit, SlowFresh, Recent
  <2>. QED
    BY <2>3, <2>4, <2>5 DEF SysfsGood
<1>2. SysfsInv /\ [SysfsNext]_sysfsVars => SysfsInv'
  <2> SUFFICES ASSUME SysfsInv, [SysfsNext]_sysfsVars, ~mixed' PROVE SysfsGood'
    BY DEF SysfsInv
  <2>1. ~mixed
    BY DEF SysfsNext, BeginSample, LookUp, OpenFd, Pread, EndSample, Unplug, Replug, sysfsVars
  <2>2. SysfsGood
    BY <2>1 DEF SysfsInv
  <2>. QED
    BY <2>2, BeginSampleIs, LookUpIs, OpenFdIs, PreadIs, EndSampleIs, PlugsAre DEF SysfsNext
<1>3. SysfsInv => SensorsOwn
  BY DEF SysfsInv, SensorsOwn, SysfsGood, FdsKnown, SlowFresh, Recent
<1>. QED
  BY <1>1, <1>2, <1>3, PTL


-----------------------------------------------------------------------------
(* The streamed collector.                                                 *)

Lines == [ts : Nat \ {0}, event : Events]

StreamedRecords ==
  /\ printed \in [ts : Nat, event : Events] /\ printed.ts <= MaxIntervals
  /\ pipe \in Seq(Lines) /\ acc \in [ts : Nat, events : SUBSET Events]
  /\ latest \in [Events -> Nat] /\ counted \in [1 .. MaxIntervals -> SUBSET Events]

\* Lines come in the order of their intervals.
InOrder ==
  /\ \A i, j \in 1 .. Len(pipe) : i <= j => pipe[i].ts <= pipe[j].ts
  /\ \A i \in 1 .. Len(pipe) : acc.ts <= pipe[i].ts /\ pipe[i].ts <= printed.ts
  /\ acc.ts <= printed.ts
  /\ acc.ts = 0 <=> acc.events = {}
  /\ printed.ts = 0 => printed.event = LastEvent

\* A count is published, or gathered, or still in the pipe.
OnItsWay ==
  \A t \in 1 .. MaxIntervals : \A e \in counted[t] :
    \/ latest[e] >= t
    \/ acc.ts = t /\ e \in acc.events
    \/ \E i \in 1 .. Len(pipe) : pipe[i] = [ts |-> t, event |-> e]

\* What is gathered is newer than what is published, until the reader ends.
Behind ==
  /\ \A e \in Events : latest[e] <= acc.ts
  /\ reader => \A e \in Events : latest[e] < acc.ts \/ latest[e] = 0
  /\ ~reader => /\ perf = "dead" /\ Len(pipe) = 0
                /\ \A e \in acc.events : latest[e] = acc.ts

StreamedInv == StreamedRecords /\ InOrder /\ OnItsWay /\ Behind

LEMMA EventsAre == Events \subseteq Nat /\ 1 \in Events /\ LastEvent \in Events
BY StreamedAssumption DEF Events, LastEvent

LEMMA PrintLineIs ==
  ASSUME StreamedInv, PrintLine
  PROVE  StreamedInv'
<1> DEFINE next == IF printed.event = LastEvent
                   THEN [ts |-> printed.ts + 1, event |-> 1]
                   ELSE [ts |-> printed.ts, event |-> printed.event + 1]
<1>1. /\ perf # "dead" /\ next.ts <= MaxIntervals /\ printed' = next
      /\ \/ pipe' = Append(pipe, next)
            /\ counted' = [counted EXCEPT ![next.ts] = @ \cup {next.event}]
         \/ UNCHANGED <<pipe, counted>>
      /\ UNCHANGED <<perf, acc, reader, latest>>
  BY DEF PrintLine
<1>2. /\ printed.ts \in Nat /\ printed.event \in Events /\ pipe \in Seq(Lines)
      /\ acc \in [ts : Nat, events : SUBSET Events] /\ latest \in [Events -> Nat]
      /\ counted \in [1 .. MaxIntervals -> SUBSET Events] /\ MaxIntervals \in Nat
  BY StreamedAssumption DEF StreamedInv, StreamedRecords
<1>3. next \in Lines /\ next.ts >= printed.ts /\ next.ts \in 1 .. MaxIntervals
  <2>1. CASE printed.event = LastEvent
    BY <1>1, <1>2, <2>1, EventsAre DEF Lines
  <2>2. CASE printed.event # LastEvent
    <3>1. printed.event + 1 \in Events
      BY <1>2, <2>2, StreamedAssumption DEF Events, LastEvent
    <3>2. printed.ts # 0
      BY <2>2 DEF StreamedInv, InOrder
    <3>. QED
      BY <1>1, <1>2, <2>2, <3>1, <3>2 DEF Lines
  <2>. QED
    BY <2>1, <2>2
<1> HIDE DEF next
<1>4. next \in [ts : Nat, event : Events] /\ next.ts # 0 /\ next = [ts |-> next.ts, event |-> next.event]
  BY <1>3 DEF Lines
<1>5. reader
  BY <1>1 DEF StreamedInv, Behind
<1>6. CASE UNCHANGED <<pipe, counted>>
  <2>1. StreamedRecords'
    BY <1>1, <1>2, <1>4, <1>6 DEF StreamedInv, StreamedRecords
  <2>2. InOrder'
    <3>1. \A i \in 1 .. Len(pipe) : pipe[i].ts <= printed.ts /\ pipe[i].ts \in Nat
      <4>1. \A i \in 1 .. Len(pipe) : pipe[i] \in Lines
        BY <1>2, ElementOfSeq
      <4>. QED
        BY <4>1 DEF StreamedInv, InOrder, Lines
    <3>2. \A i \in 1 .. Len(pipe) : pipe[i].ts <= next.ts
      BY <1>2, <1>3, <1>4, <3>1
    <3>3. acc.ts <= next.ts
      BY <1>2, <1>3, <1>4 DEF StreamedInv, InOrder
    <3>. QED
      BY <1>1, <1>4, <1>6, <3>2, <3>3 DEF StreamedInv, InOrder
  <2>3. OnItsWay' /\ Behind'
    BY <1>1, <1>6 DEF StreamedInv, OnItsWay, Behind
  <2>. QED
    BY <2>1, <2>2, <2>3 DEF StreamedInv
<1>7. CASE pipe' = Append(pipe, next)
           /\ counted' = [counted EXCEPT ![next.ts] = @ \cup {next.event}]
  <2> DEFINE n == Len(pipe)
  <2>1. /\ pipe' \in Seq(Lines) /\ n \in Nat /\ Len(pipe') = n + 1 /\ pipe'[n + 1] = next
        /\ \A i \in 1 .. n : pipe'[i] = pipe[i] /\ pipe[i] \in Lines
    BY <1>2, <1>3, <1>7, AppendProperties, ElementOfSeq, LenProperties
  <2> HIDE DEF n
  <2>2. \A i \in 1 .. n + 1 : i \in 1 .. n \/ i = n + 1
    BY <2>1
  <2>3. counted' \in [1 .. MaxIntervals -> SUBSET Events]
    BY <1>2, <1>3, <1>4, <1>7
  <2>4. StreamedRecords'
    BY <1>1, <1>2, <1>4, <2>1, <2>3 DEF StreamedInv, StreamedRecords
  <2>5. \A i \in 1 .. n : pipe[i].ts \in Nat /\ acc.ts <= pipe[i].ts /\ pipe[i].ts <= next.ts
    <3>1. \A i \in 1 .. n : pipe[i].ts \in Nat
      BY <2>1 DEF Lines
    <3>2. \A i \in 1 .. n : acc.ts <= pipe[i].ts /\ pipe[i].ts <= printed.ts
      BY DEF StreamedInv, InOrder, n
    <3>. QED
      BY <1>2, <1>3, <1>4, <3>1, <3>2
  <2>6. acc.ts <= next.ts
    BY <1>2, <1>3, <1>4 DEF StreamedInv, InOrder
  <2>7. InOrder'
    <3>1. ASSUME NEW i \in 1 .. n + 1, NEW j \in 1 .. n + 1, i <= j
          PROVE  pipe'[i].ts <= pipe'[j].ts
      <4>1. CASE j \in 1 .. n
        <5>1. i \in 1 .. n
          BY <2>1, <3>1, <4>1
        <5>. QED
          BY <2>1, <3>1, <4>1, <5>1 DEF StreamedInv, InOrder, n
      <4>2. CASE j = n + 1 /\ i \in 1 .. n
        BY <2>1, <2>5, <4>2
      <4>3. CASE j = n + 1 /\ i = n + 1
        BY <1>4, <2>1, <4>3
      <4>. QED
        BY <2>2, <4>1, <4>2, <4>3
    <3>2. ASSUME NEW i \in 1 .. n + 1
          PROVE  acc.ts <= pipe'[i].ts /\ pipe'[i].ts <= next.ts
      <4>1. CASE i \in 1 .. n
        BY <2>1, <2>5, <4>1
      <4>2. CASE i = n + 1
        BY <1>4, <2>1, <2>6, <4>2
      <4>. QED
        BY <2>2, <4>1, <4>2
    <3>. QED
      BY <1>1, <1>4, <2>1, <2>6, <3>1, <3>2 DEF StreamedInv, InOrder
  <2>8. OnItsWay'
    <3>1. ASSUME NEW t \in 1 .. MaxIntervals, NEW e \in counted'[t]
          PROVE  \/ latest[e] >= t
                 \/ acc.ts = t /\ e \in acc.events
                 \/ \E i \in 1 .. n + 1 : pipe'[i] = [ts |-> t, event |-> e]
      <4>1. CASE e \in counted[t]
        <5>1. CASE \E i \in 1 .. n : pipe[i] = [ts |-> t, event |-> e]
          BY <2>1, <5>1
        <5>2. CASE ~\E i \in 1 .. n : pipe[i] = [ts |-> t, event |-> e]
          BY <4>1, <5>2 DEF StreamedInv, OnItsWay, n
        <5>. QED
          BY <5>1, <5>2
      <4>2. CASE e \notin counted[t]
        <5>1. t = next.ts /\ e = next.event
          BY <1>2, <1>3, <1>7, <3>1, <4>2
        <5>2. pipe'[n + 1] = [ts |-> t, event |-> e] /\ n + 1 \in 1 .. n + 1
          BY <1>4, <2>1, <5>1
        <5>. QED
          BY <5>2
      <4>. QED
        BY <4>1, <4>2
    <3>. QED
      BY <1>1, <2>1, <3>1 DEF OnItsWay
  <2>9. Behind'
    BY <1>1, <1>5 DEF StreamedInv, Behind
  <2>. QED
    BY <2>4, <2>7, <2>8, <2>9 DEF StreamedInv
<1>. QED
  BY <1>1, <1>6, <1>7


LEMMA PublishedIs ==
  ASSUME StreamedInv
  PROVE  /\ Published(acc) \in [Events -> Nat]
         /\ \A e \in Events : Published(acc)[e] >= latest[e] /\ Published(acc)[e] <= acc.ts
         /\ \A e \in acc.events : Published(acc)[e] = acc.ts
<1>1. acc.ts \in Nat /\ acc.events \subseteq Events /\ latest \in [Events -> Nat]
  BY DEF StreamedInv, StreamedRecords
<1>2. \A e \in Events : latest[e] <= acc.ts /\ latest[e] \in Nat
  BY <1>1 DEF StreamedInv, Behind
<1>. QED
  BY <1>1, <1>2 DEF Published

LEMMA ReadLineIs ==
  ASSUME StreamedInv, ReadLine
  PROVE  StreamedInv'
<1> DEFINE line == Head(pipe)
           whole == acc.ts # 0 /\ line.ts # acc.ts /\ acc.events # {}
<1>1. /\ reader /\ pipe # <<>> /\ pipe' = Tail(pipe)
      /\ UNCHANGED <<perf, printed, reader, counted>>
  BY DEF ReadLine
<1>2. /\ latest' = IF whole THEN Published(acc) ELSE latest
      /\ acc' = [ts |-> line.ts,
                 events |-> IF whole THEN {line.event} ELSE acc.events \cup {line.event}]
  BY DEF ReadLine
<1>3. /\ printed.ts \in Nat /\ pipe \in Seq(Lines)
      /\ acc.ts \in Nat /\ acc.events \subseteq Events /\ latest \in [Events -> Nat]
      /\ counted \in [1 .. MaxIntervals -> SUBSET Events]
  BY DEF StreamedInv, StreamedRecords
<1> DEFINE n == Len(pipe)
<1>4. /\ n \in Nat /\ n > 0 /\ line = pipe[1] /\ line \in Lines /\ 1 \in 1 .. n
      /\ pipe' \in Seq(Lines) /\ Len(pipe') = n - 1
      /\ \A i \in 1 .. n - 1 : pipe'[i] = pipe[i + 1] /\ i + 1 \in 1 .. n
      /\ \A i \in 1 .. n : pipe[i] \in Lines
  <2>1. n \in Nat /\ n > 0
    BY <1>1, <1>3, EmptySeq, LenProperties
  <2>2. /\ line = pipe[1] /\ line \in Lines /\ pipe' \in Seq(Lines) /\ Len(pipe') = n - 1
        /\ \A i \in 1 .. n - 1 : pipe'[i] = pipe[i + 1]
    BY <1>1, <1>3, <2>1, HeadTailProperties
  <2>3. \A i \in 1 .. n : pipe[i] \in Lines
    BY <1>3, ElementOfSeq
  <2>. QED
    BY <2>1, <2>2, <2>3
<1> HIDE DEF line, n
<1>5. /\ line.ts \in Nat /\ line.ts # 0 /\ line.event \in Events
      /\ acc.ts <= line.ts /\ line.ts <= printed.ts
      /\ \A i \in 1 .. n : pipe[i].ts \in Nat /\ line.ts <= pipe[i].ts /\ pipe[i].ts <= printed.ts
  <2>1. line.ts \in Nat /\ line.ts # 0 /\ line.event \in Events
        /\ \A i \in 1 .. n : pipe[i].ts \in Nat
    BY <1>4 DEF Lines
  <2>2. /\ \A i \in 1 .. n : acc.ts <= pipe[i].ts /\ pipe[i].ts <= printed.ts
        /\ \A i, j \in 1 .. n : i <= j => pipe[i].ts <= pipe[j].ts
    BY DEF StreamedInv, InOrder, n
  <2>3. \A i \in 1 .. n : 1 <= i
    BY <1>4
  <2>. QED
    BY <1>4, <2>1, <2>2, <2>3
<1>6. /\ acc'.ts = line.ts /\ line.event \in acc'.events /\ acc'.events \subseteq Events
      /\ acc' \in [ts : Nat, events : SUBSET Events]
      /\ ~whole => acc.events \subseteq acc'.events
  BY <1>2, <1>3, <1>5
<1>7. /\ latest' \in [Events -> Nat]
      /\ \A e \in Events : latest'[e] >= latest[e] /\ latest'[e] <= acc.ts
      /\ whole => \A e \in acc.events : latest'[e] = acc.ts
  <2>1. \A e \in Events : latest[e] <= acc.ts /\ latest[e] \in Nat
    BY <1>3 DEF StreamedInv, Behind
  <2> HIDE DEF whole
  <2>2. CASE whole
    BY <1>2, <2>2, PublishedIs
  <2>3. CASE ~whole
    BY <1>2, <1>3, <2>1, <2>3
  <2>. QED
    BY <2>2, <2>3
<1>8. StreamedRecords'
  BY <1>1, <1>3, <1>4, <1>6, <1>7 DEF StreamedInv, StreamedRecords
<1>9. InOrder'
  <2>1. ASSUME NEW i \in 1 .. n - 1, NEW j \in 1 .. n - 1, i <= j
        PROVE  pipe'[i].ts <= pipe'[j].ts
    <3>1. pipe'[i] = pipe[i + 1] /\ pipe'[j] = pipe[j + 1] /\ i + 1 \in 1 .. n /\ j + 1 \in 1 .. n
      BY <1>4
    <3>2. i + 1 <= j + 1
      BY <1>4, <2>1
    <3>. QED
      BY <3>1, <3>2 DEF StreamedInv, InOrder, n
  <2>2. \A i \in 1 .. n - 1 : line.ts <= pipe'[i].ts /\ pipe'[i].ts <= printed.ts
    BY <1>4, <1>5
  <2>. QED
    BY <1>1, <1>4, <1>5, <1>6, <2>1, <2>2 DEF StreamedInv, InOrder
<1>10. OnItsWay'
  <2>1. ASSUME NEW t \in 1 .. MaxIntervals, NEW e \in counted[t]
        PROVE  \/ latest'[e] >= t
               \/ acc'.ts = t /\ e \in acc'.events
               \/ \E i \in 1 .. n - 1 : pipe'[i] = [ts |-> t, event |-> e]
    <3>1. e \in Events /\ t \in Nat /\ latest[e] \in Nat /\ latest'[e] \in Nat
      BY <1>3, <1>7
    <3>2. CASE latest[e] >= t
      BY <1>7, <3>1, <3>2
    <3>3. CASE acc.ts = t /\ e \in acc.events
      <4>1. CASE whole
        BY <1>3, <1>7, <3>3, <4>1
      <4>2. CASE ~whole
        <5>1. line.ts = acc.ts
          BY <3>3, <4>2
        <5>. QED
          BY <1>6, <3>3, <4>2, <5>1
      <4>. QED
        BY <4>1, <4>2
    <3>4. CASE \E i \in 1 .. n : pipe[i] = [ts |-> t, event |-> e]
      <4>1. PICK i \in 1 .. n : pipe[i] = [ts |-> t, event |-> e]
        BY <3>4
      <4>2. CASE i = 1
        BY <1>4, <1>6, <4>1, <4>2
      <4>3. CASE i # 1
        <5>1. i - 1 \in 1 .. n - 1 /\ (i - 1) + 1 = i
          BY <1>4, <4>3
        <5>2. pipe'[i - 1] = pipe[i]
          BY <1>4, <5>1
        <5>. QED
          BY <4>1, <5>1, <5>2
      <4>. QED
        BY <4>2, <4>3
    <3>. QED
      BY <3>2, <3>3, <3>4 DEF StreamedInv, OnItsWay, n
  <2>. QED
    BY <1>1, <1>4, <2>1 DEF OnItsWay
<1>11. Behind'
  <2>1. \A e \in Events : latest'[e] <= line.ts
    BY <1>3, <1>5, <1>7
  <2>2. ASSUME NEW e \in Events PROVE latest'[e] < line.ts \/ latest'[e] = 0
    <3>1. latest'[e] \in Nat /\ latest'[e] <= acc.ts
      BY <1>7
    <3>2. CASE whole
      BY <1>3, <1>5, <3>1, <3>2
    <3>3. CASE ~whole
      <4>1. latest' = latest
        BY <1>2, <3>3
      <4>2. latest[e] < acc.ts \/ latest[e] = 0
        BY <1>1 DEF StreamedInv, Behind
      <4>. QED
        BY <1>3, <1>5, <3>1, <4>1, <4>2
    <3>. QED
      BY <3>2, <3>3
  <2>. QED
    BY <1>1, <1>6, <2>1, <2>2 DEF Behind
<1>. QED
  BY <1>8, <1>9, <1>10, <1>11 DEF StreamedInv

LEMMA ReaderEndsIs ==
  ASSUME StreamedInv, ReaderEnds
  PROVE  StreamedInv'
<1>1. /\ pipe = <<>> /\ perf = "dead" /\ ~reader' /\ latest' = Published(acc)
      /\ UNCHANGED <<perf, printed, pipe, acc, counted>>
  BY DEF ReaderEnds
<1>2. /\ acc.ts \in Nat /\ acc.events \subseteq Events /\ latest \in [Events -> Nat]
      /\ counted \in [1 .. MaxIntervals -> SUBSET Events]
  BY DEF StreamedInv, StreamedRecords
<1>3. /\ latest' \in [Events -> Nat]
      /\ \A e \in Events : latest'[e] >= latest[e] /\ latest'[e] <= acc.ts
      /\ \A e \in acc.events : latest'[e] = acc.ts
  BY <1>1, PublishedIs
<1>4. StreamedRecords' /\ InOrder'
  BY <1>1, <1>3 DEF StreamedInv, StreamedRecords, InOrder
<1>5. Behind'
  BY <1>1, <1>3 DEF Behind
<1>6. OnItsWay'
  <2>1. ASSUME NEW t \in 1 .. MaxIntervals, NEW e \in counted[t]
        PROVE  latest'[e] >= t \/ (acc.ts = t /\ e \in acc.events)
    <3>1. e \in Events /\ t \in Nat /\ latest[e] \in Nat /\ latest'[e] \in Nat
      BY <1>2, <1>3
    <3>2. latest[e] >= t \/ (acc.ts = t /\ e \in acc.events)
      BY <1>1 DEF StreamedInv, OnItsWay
    <3>. QED
      BY <1>3, <3>1, <3>2
  <2>. QED
    BY <1>1, <2>1 DEF OnItsWay
<1>. QED
  BY <1>4, <1>5, <1>6 DEF StreamedInv

LEMMA StreamHolds == StreamedInit /\ [][StreamedNext]_streamedVars => []StreamWhole
<1>1. StreamedInit => StreamedInv
  <2> SUFFICES ASSUME StreamedInit PROVE StreamedInv
    OBVIOUS
  <2>1. MaxIntervals \in Nat
    BY StreamedAssumption
  <2>2. StreamedRecords
    BY <2>1, EventsAre DEF StreamedInit, StreamedRecords, NoEvents
  <2>3. InOrder
    BY DEF StreamedInit, InOrder, NoEvents
  <2>4. OnItsWay /\ Behind
    BY DEF StreamedInit, OnItsWay, Behind, NoEvents
  <2>. QED
    BY <2>2, <2>3, <2>4 DEF StreamedInv
<1>2. StreamedInv /\ [StreamedNext]_streamedVars => StreamedInv'
  <2> SUFFICES ASSUME StreamedInv, [StreamedNext]_streamedVars PROVE StreamedInv'
    OBVIOUS
  <2>1. CASE PerfDies \/ Close \/ UNCHANGED streamedVars
    <3>1. UNCHANGED <<printed, pipe, acc, reader, latest, counted>>
      BY <2>1 DEF PerfDies, Close, streamedVars
    <3>2. perf = "dead" => perf' = "dead"
      BY <2>1 DEF PerfDies, Close, streamedVars
    <3>. QED
      BY <3>1, <3>2 DEF StreamedInv, StreamedRecords, InOrder, OnItsWay, Behind
  <2>. QED
    BY <2>1, PrintLineIs, ReadLineIs, ReaderEndsIs DEF StreamedNext
<1>3. StreamedInv => StreamWhole
  <2> SUFFICES ASSUME StreamedInv, NEW e \in Events, NEW f \in Events,
                      NEW t \in latest[e] + 1 .. latest[f], e \in counted[t]
               PROVE  FALSE
    BY DEF StreamWhole
  <2>1. /\ latest[e] \in Nat /\ latest[f] \in Nat /\ acc.ts \in Nat /\ printed.ts \in Nat
        /\ pipe \in Seq(Lines) /\ MaxIntervals \in Nat
    BY StreamedAssumption DEF StreamedInv, StreamedRecords
  <2>2. acc.ts <= printed.ts /\ printed.ts <= MaxIntervals /\ latest[f] <= acc.ts
    BY DEF StreamedInv, StreamedRecords, InOrder, Behind
  <2>3. t \in 1 .. MaxIntervals /\ latest[e] < t /\ t <= latest[f]
    BY <2>1, <2>2
  <2>4. reader => latest[f] < acc.ts
    BY <2>1, <2>3 DEF StreamedInv, Behind
  <2>5. CASE acc.ts = t /\ e \in acc.events
    <3>1. CASE reader
      BY <2>1, <2>3, <2>4, <2>5, <3>1
    <3>2. CASE ~reader
      BY <2>1, <2>3, <2>5, <3>2 DEF StreamedInv, Behind
    <3>. QED
      BY <3>1, <3>2
  <2>6. CASE \E i \in 1 .. Len(pipe) : pipe[i] = [ts |-> t, event |-> e]
    <3>1. PICK i \in 1 .. Len(pipe) : pipe[i] = [ts |-> t, event |-> e]
      BY <2>6
    <3>2. acc.ts <= t
      BY <3>1 DEF StreamedInv, InOrder
    <3>3. reader
      BY <2>1, LenProperties DEF StreamedInv, Behind
    <3>. QED
      BY <2>1, <2>3, <2>4, <3>2, <3>3
  <2>. QED
    BY <2>1, <2>3, <2>5, <2>6 DEF StreamedInv, OnItsWay
<1>. QED
  BY <1>1, <1>2, <1>3, PTL

-----------------------------------------------------------------------------

\* However samples, drivers, lines and counters interleave, what the collectors read
\* themselves is what it is taken for: a sensor's value is its own and no descriptor is
\* lost while samples do not overlap, counts are whole intervals published in order, and
\* power is the energy that was used unless the counter wrapped twice.
THEOREM ReadingsHold ==
  /\ SysfsInit /\ StreamedInit /\ EnergyInit
  /\ [][SysfsNext]_sysfsVars /\ [][StreamedNext]_streamedVars /\ [][EnergyNext]_energyVars
  => []ReadingsTrue
<1>1. SensorsOwn /\ StreamWhole /\ PowerIsTrue => ReadingsTrue
  BY DEF ReadingsTrue
<1>. QED
  BY <1>1, SensorsHold, StreamHolds, PowerHolds, PTL

-----------------------------------------------------------------------------
(* The install plan.                                                       *)

\* A host with facts, all of them and no other, that is not impossible.
Shaped(h) == DOMAIN h = DOMAIN Options /\ Real(h)

\* A host that packages were installed on: everything else is as it was.
GrownFrom(h, h0) ==
  /\ \A f \in DOMAIN Options \ {"path", "python", "active"} : h[f] = h0[f]
  /\ h0.path \subseteq h.path /\ h.path \subseteq h0.path \cup Packages
  /\ h0.python \subseteq h.python /\ h0.active \subseteq h.active

CapsOf(h) == Caps(h, h.session)

LEMMA FactsAre ==
  {"id", "like", "cpu", "hwmon", "cards", "mods", "session", "imported", "socket", "path",
   "package", "info", "active", "profile", "epp", "rapl", "zones", "paranoid", "perfmon",
   "bpf", "python", "nvml", "redfish", "ipmi", "sudoers", "virtual"} = DOMAIN Options
BY DEF Options

\* The first rule decides if it applies.
LEMMA FirstRuleFirst ==
  ASSUME NEW rules, 1 \in DOMAIN rules, DOMAIN rules \subseteq Nat \ {0}, rules[1][1]
  PROVE  FirstRule(rules) = rules[1][2]
<1> DEFINE P(i) == rules[i][1] /\ \A j \in 1 .. i - 1 : ~rules[j][1]
<1>1. P(1)
  OBVIOUS
<1>2. \A i \in DOMAIN rules : P(i) => i = 1
  <2> SUFFICES ASSUME NEW i \in DOMAIN rules, P(i), i # 1 PROVE FALSE
    OBVIOUS
  <2>1. i \in Nat /\ i > 1
    OBVIOUS
  <2>2. 1 \in 1 .. i - 1
    BY <2>1
  <2>. QED
    BY <2>2
<1> HIDE DEF P
<1>3. (CHOOSE i \in DOMAIN rules : P(i)) = 1
  BY <1>1, <1>2
<1>. QED
  BY <1>3 DEF FirstRule, P

\* The facet of a host is one of three.
LEMMA FacetIs ==
  ASSUME NEW c
  PROVE  Facet(c) \in {"server", "desktop", "ambiguous"}
<1> DEFINE rules == <<
    <<"ipmi" \in c.mods \/ "ipmitool" \in c.path \/ c.redfish, "server">>,
    <<(c.virtual \/ c.compositor = "none") /\ ~c.profile, "server">>,
    <<c.compositor \notin {"none", "unknown"} \/ c.profile, "desktop">>,
    <<TRUE, "ambiguous">> >>
<1> DEFINE P(i) == rules[i][1] /\ \A j \in 1 .. i - 1 : ~rules[j][1]
<1>1. DOMAIN rules = {1, 2, 3, 4}
  OBVIOUS
<1>2. \E i \in DOMAIN rules : P(i)
  <2>1. 1 .. 1 - 1 = {} /\ 1 .. 2 - 1 = {1} /\ 1 .. 3 - 1 = {1, 2} /\ 1 .. 4 - 1 = {1, 2, 3}
    OBVIOUS
  <2>2. rules[4][1]
    OBVIOUS
  <2> HIDE DEF rules
  <2>. QED
    BY <1>1, <2>1, <2>2
<1>3. \A i \in DOMAIN rules : rules[i][2] \in {"server", "desktop", "ambiguous"}
  BY <1>1
<1>4. Facet(c) = rules[CHOOSE i \in DOMAIN rules : P(i)][2]
  BY DEF Facet, FirstRule
<1> HIDE DEF P, rules
<1>. QED
  BY <1>2, <1>3, <1>4

\* No plan is the one that was not printed.
LEMMA PlanIsOne ==
  ASSUME NEW c, asked \in {"auto", "desktop", "server"}
  PROVE  PlanOf(c, asked) # NoPlan
BY FacetIs DEF PlanOf, NoPlan

-----------------------------------------------------------------------------
\* Packages do not make another desktop of a host.
LEMMA SameCompositor ==
  ASSUME NEW h, NEW h0, GrownFrom(h, h0)
  PROVE  /\ CapsOf(h).compositor = CapsOf(h0).compositor
         /\ CapsOf(h).clan = CapsOf(h0).clan /\ CapsOf(h).gpus = CapsOf(h0).gpus
<1>1. /\ h.session = h0.session /\ h.socket = h0.socket /\ h.id = h0.id /\ h.like = h0.like
      /\ h.cards = h0.cards /\ h.mods = h0.mods
  BY FactsAre DEF GrownFrom
<1>2. ("hyprctl" \in h.path <=> "hyprctl" \in h0.path)
      /\ ("swaymsg" \in h.path <=> "swaymsg" \in h0.path)
  BY DEF GrownFrom, Packages
<1>3. CompositorOf(h, h.session) = CompositorOf(h0, h0.session)
  BY <1>1, <1>2, ZenonT(30) DEF CompositorOf
<1>4. Clan(h) = Clan(h0)
  BY <1>1 DEF Clan
<1>5. Gpus(h) = Gpus(h0)
  BY <1>1 DEF Gpus
<1>. QED
  BY <1>3, <1>4, <1>5 DEF Caps, CapsOf

LEMMA GrownCaps ==
  ASSUME NEW h, NEW h0, GrownFrom(h, h0)
  PROVE  LET c == CapsOf(h) c0 == CapsOf(h0) IN
         /\ c.cpu = c0.cpu /\ c.hwmon = c0.hwmon /\ c.bus = c0.bus /\ c.profile = c0.profile
         /\ c.rapl = c0.rapl /\ c.raplRead = c0.raplRead /\ c.zones = c0.zones
         /\ c.paranoid = c0.paranoid /\ c.mods = c0.mods /\ c.redfish = c0.redfish
         /\ c.virtual = c0.virtual /\ c.epp = c0.epp /\ c.eppWrite = c0.eppWrite
         /\ c0.path \subseteq c.path /\ c.path \subseteq c0.path \cup Packages
         /\ c0.python \subseteq c.python /\ c0.active \subseteq c.active
         /\ c0.version => c.version
<1>1. \A f \in DOMAIN Options \ {"path", "python", "active"} : h[f] = h0[f]
  BY DEF GrownFrom
<1>2. /\ h.cpu = h0.cpu /\ h.hwmon = h0.hwmon /\ h.session = h0.session
      /\ h.profile = h0.profile /\ h.rapl = h0.rapl /\ h.zones = h0.zones
      /\ h.paranoid = h0.paranoid /\ h.mods = h0.mods /\ h.redfish = h0.redfish
      /\ h.virtual = h0.virtual /\ h.epp = h0.epp /\ h.package = h0.package
  BY <1>1, FactsAre
<1>. QED
  BY <1>2, ZenonT(30) DEF GrownFrom, CapsOf, Caps, RaplReadable, ZoneSeen, EppReadable, VersionOK

\* What is asked for, package by package.
LEMMA WantsAre ==
  ASSUME NEW c
  PROVE  /\ Wants(c) \subseteq Packages
         /\ \A p \in {"python3", "python3-pip", "lm-sensors"} : p \in Wants(c)
         /\ "nvidia-utils" \in Wants(c) <=> "nvidia" \in c.gpus
         /\ "pynvml" \in Wants(c) <=> "nvidia" \in c.gpus /\ "pynvml" \notin c.python
         /\ "intel-gpu-tools" \in Wants(c) <=> "intel" \in c.gpus
         /\ "ipmitool" \in Wants(c) <=> ServerLike(c) /\ "ipmitool" \notin c.path
         /\ "perf" \in Wants(c) <=> "perf" \notin c.path
         /\ \A p \in {"bpftrace", "bcc"} :
              p \in Wants(c) <=> "bpftrace" \notin c.path /\ "bcc" \notin c.python
         /\ "asusctl" \in Wants(c)
              <=> ("amd" \in c.gpus \/ "k10temp" \in c.hwmon) /\ "asusctl" \notin c.path
         /\ \A p \in {"thinkfan", "nbfc"} : p \in Wants(c) <=> ~HasFanControl(c)
         /\ "ryzenadj" \in Wants(c) <=> c.cpu = "amd" /\ "ryzenadj" \notin c.path
         /\ "ppd" \in Wants(c) <=> c.active = {}
BY DEF Wants, Packages

\* What is asked for on a host that packages were installed on was asked for before.
LEMMA WantsShrink ==
  ASSUME NEW h, NEW h0, GrownFrom(h, h0)
  PROVE  Wants(CapsOf(h)) \subseteq Wants(CapsOf(h0))
<1> DEFINE c == CapsOf(h)
           c0 == CapsOf(h0)
<1>1. /\ c.gpus = c0.gpus /\ c.mods = c0.mods /\ c.virtual = c0.virtual
      /\ c.profile = c0.profile /\ c.hwmon = c0.hwmon /\ c.cpu = c0.cpu
      /\ c0.path \subseteq c.path /\ c0.python \subseteq c.python /\ c0.active \subseteq c.active
  BY SameCompositor, GrownCaps
<1>2. HasFanControl(c0) => HasFanControl(c)
  BY <1>1 DEF HasFanControl
<1>3. ServerLike(c) <=> ServerLike(c0)
  BY <1>1 DEF ServerLike
<1> HIDE DEF c, c0
<1>4. ASSUME NEW p \in Packages, p \in Wants(c) PROVE p \in Wants(c0)
  BY <1>1, <1>2, <1>3, <1>4, WantsAre DEF Packages
<1>. QED
  BY <1>4, WantsAre DEF c, c0

\* What is announced, adapter by adapter.
LEMMA PromisesAre ==
  ASSUME NEW c
  PROVE  LET promised == PromisedCollectors(c) \cup PromisedActuators(c) IN
         /\ promised \subseteq Collectors \cup Actuators
         /\ "linux_sysfs" \in promised
         /\ "arm_thermal" \in promised <=> c.zones
         /\ "amdgpu" \in promised <=> "amd" \in c.gpus
         /\ "nvidia_nvml" \in promised <=> "nvidia" \in c.gpus /\ "pynvml" \in c.python
         /\ "intel_i915" \in promised <=> "intel" \in c.gpus
         /\ "rapl_energy" \in promised <=> c.rapl /\ c.raplRead
         /\ "hyprctl" \in promised <=> "hyprctl" \in c.path
         /\ "dbus_session" \in promised <=> c.compositor \in {"kwin", "mutter"} /\ c.bus
         /\ "redfish" \in promised <=> c.redfish
         /\ "ipmi" \in promised <=> "ipmitool" \in c.path
         /\ "perf_events" \in promised <=> "perf" \in c.path /\ c.paranoid <= 2
         /\ "ebpf_sched" \in promised <=> "bpftrace" \in c.path \/ "bcc" \in c.python
         /\ "asusctl_fan_curve_bias" \in promised <=> "asusctl" \in c.path /\ c.version
         /\ "epp_shift" \in promised <=> c.eppWrite
         /\ "ryzenadj_cap" \in promised <=> "ryzenadj" \in c.path
<1>1. \A a \in Collectors : a \notin Actuators
  BY DEF Collectors, Actuators
<1>2. /\ PromisedCollectors(c) \subseteq Collectors /\ PromisedActuators(c) \subseteq Actuators
      /\ "linux_sysfs" \in PromisedCollectors(c)
      /\ "arm_thermal" \in PromisedCollectors(c) <=> c.zones
      /\ "amdgpu" \in PromisedCollectors(c) <=> "amd" \in c.gpus
      /\ "nvidia_nvml" \in PromisedCollectors(c)
           <=> "nvidia" \in c.gpus /\ "pynvml" \in c.python
      /\ "intel_i915" \in PromisedCollectors(c) <=> "intel" \in c.gpus
      /\ "rapl_energy" \in PromisedCollectors(c) <=> c.rapl /\ c.raplRead
  BY DEF PromisedCollectors, PromisedActuators, Collectors
<1>3. /\ "hyprctl" \in PromisedCollectors(c) <=> "hyprctl" \in c.path
      /\ "dbus_session" \in PromisedCollectors(c)
           <=> c.compositor \in {"kwin", "mutter"} /\ c.bus
      /\ "redfish" \in PromisedCollectors(c) <=> c.redfish
      /\ "ipmi" \in PromisedCollectors(c) <=> "ipmitool" \in c.path
      /\ "perf_events" \in PromisedCollectors(c) <=> "perf" \in c.path /\ c.paranoid <= 2
      /\ "ebpf_sched" \in PromisedCollectors(c)
           <=> "bpftrace" \in c.path \/ "bcc" \in c.python
  BY DEF PromisedCollectors, Collectors
<1>4. /\ "asusctl_fan_curve_bias" \in PromisedActuators(c) <=> "asusctl" \in c.path /\ c.version
      /\ "epp_shift" \in PromisedActuators(c) <=> c.eppWrite
      /\ "ryzenadj_cap" \in PromisedActuators(c) <=> "ryzenadj" \in c.path
  BY DEF PromisedActuators, Actuators
<1>5. /\ \A a \in Collectors :
           a \in PromisedCollectors(c) \cup PromisedActuators(c) <=> a \in PromisedCollectors(c)
      /\ \A a \in Actuators :
           a \in PromisedCollectors(c) \cup PromisedActuators(c) <=> a \in PromisedActuators(c)
  BY <1>1, <1>2
<1>6. /\ {"linux_sysfs", "arm_thermal", "amdgpu", "nvidia_nvml", "intel_i915", "rapl_energy",
          "hyprctl", "dbus_session", "redfish", "ipmi", "perf_events", "ebpf_sched"}
           \subseteq Collectors
      /\ {"asusctl_fan_curve_bias", "epp_shift", "ryzenadj_cap"} \subseteq Actuators
  BY DEF Collectors, Actuators
<1>. QED
  BY <1>2, <1>3, <1>4, <1>5, <1>6

\* No adapter that was announced is lost.
LEMMA PromisesGrow ==
  ASSUME NEW h, NEW h0, GrownFrom(h, h0)
  PROVE  PlanOf(CapsOf(h0), asked).promised \subseteq PlanOf(CapsOf(h), asked).promised
<1> DEFINE c == CapsOf(h)
           c0 == CapsOf(h0)
<1>1. /\ c.gpus = c0.gpus /\ c.zones = c0.zones /\ c.rapl = c0.rapl /\ c.raplRead = c0.raplRead
      /\ c.compositor = c0.compositor /\ c.bus = c0.bus /\ c.redfish = c0.redfish
      /\ c.paranoid = c0.paranoid /\ c.eppWrite = c0.eppWrite /\ (c0.version => c.version)
      /\ c0.path \subseteq c.path /\ c0.python \subseteq c.python
  BY SameCompositor, GrownCaps
<1> HIDE DEF c, c0
<1>2. ASSUME NEW a \in Collectors \cup Actuators,
             a \in PromisedCollectors(c0) \cup PromisedActuators(c0)
      PROVE  a \in PromisedCollectors(c) \cup PromisedActuators(c)
  BY <1>1, <1>2, PromisesAre DEF Collectors, Actuators
<1>3. PromisedCollectors(c0) \cup PromisedActuators(c0)
        \subseteq PromisedCollectors(c) \cup PromisedActuators(c)
  BY <1>2, PromisesAre
<1>. QED
  BY <1>3 DEF PlanOf, c, c0

\* A host with BMC tooling is taken for a server, whatever else it has.
LEMMA ToolIsServer ==
  ASSUME NEW c, "ipmitool" \in c.path
  PROVE  Facet(c) = "server"
<1> DEFINE rules ==
      <<<<"ipmi" \in c.mods \/ "ipmitool" \in c.path \/ c.redfish, "server">>,
        <<(c.virtual \/ c.compositor = "none") /\ ~c.profile, "server">>,
        <<c.compositor \notin {"none", "unknown"} \/ c.profile, "desktop">>,
        <<TRUE, "ambiguous">>>>
<1>1. 1 \in DOMAIN rules /\ DOMAIN rules \subseteq Nat \ {0}
  OBVIOUS
<1>2. rules[1][1] /\ rules[1][2] = "server"
  OBVIOUS
<1>3. Facet(c) = FirstRule(rules)
  BY DEF Facet
<1> HIDE DEF rules
<1>. QED
  BY <1>1, <1>2, <1>3, FirstRuleFirst

\* The deployment target stays, if no BMC tool was installed.
LEMMA FacetStays ==
  ASSUME NEW h, NEW h0, GrownFrom(h, h0), "ipmitool" \in h.path <=> "ipmitool" \in h0.path
  PROVE  Facet(CapsOf(h)) = Facet(CapsOf(h0))
<1> DEFINE c == CapsOf(h)
           c0 == CapsOf(h0)
<1>1. /\ c.mods = c0.mods /\ c.redfish = c0.redfish /\ c.virtual = c0.virtual
      /\ c.compositor = c0.compositor /\ c.profile = c0.profile
  BY SameCompositor, GrownCaps
<1>2. "ipmitool" \in c.path <=> "ipmitool" \in c0.path
  BY DEF CapsOf, Caps
<1> HIDE DEF c, c0
<1>. QED
  BY <1>1, <1>2 DEF Facet, c, c0

-----------------------------------------------------------------------------
\* What detect.py sees of an installed package.
Installed(h, p) ==
  CASE p \in {"pynvml", "bcc"} -> p \in h.python
    [] p = "ppd"               -> p \in h.active
    [] OTHER                   -> p \in h.path

\* The host is one that could be, all that was installed is seen, and the first plan
\* was made for a host that has grown into this one by what was installed since.
AdviceInv ==
  /\ HostOK(host) /\ Real(host)
  /\ asked \in {"auto", "desktop", "server"}
  /\ followed \subseteq Packages \ Unseen
  /\ \A p \in followed : Installed(host, p)
  /\ first = NoPlan => plan = NoPlan /\ followed = {}
  /\ first # NoPlan => \E h0 : /\ first = PlanOf(CapsOf(h0), asked)
                               /\ GrownFrom(host, h0)
                               /\ host.path \subseteq h0.path \cup followed

\* What is installed is not asked for.
LEMMA InstalledIs ==
  ASSUME NEW h, NEW p \in Packages \ Unseen, Installed(h, p)
  PROVE  p \notin Wants(CapsOf(h))
<1> DEFINE c == CapsOf(h)
<1>1. c.path = h.path /\ c.python = h.python /\ c.active = h.active
  BY DEF CapsOf, Caps
<1> HIDE DEF c
<1>2. /\ p \in {"pynvml", "bcc"} => p \in c.python
      /\ p = "ppd" => p \in c.active
      /\ p \notin {"pynvml", "bcc", "ppd"} => p \in c.path
  BY <1>1 DEF Installed
<1>3. {"thinkfan", "nbfc"} \cap c.path # {} => HasFanControl(c)
  BY DEF HasFanControl
<1>. QED
  BY <1>2, <1>3, WantsAre DEF c, Packages, Unseen

\* What an installation makes of a host.
LEMMA FollowIs ==
  ASSUME HostOK(host), Real(host), NEW p \in Packages \ Unseen, Follow(p)
  PROVE  /\ HostOK(host') /\ Real(host') /\ GrownFrom(host', host)
         /\ Installed(host', p) /\ host'.path \subseteq host.path \cup {p}
         /\ \A q \in Packages : Installed(host, q) => Installed(host', q)
<1>1. /\ DOMAIN host' = DOMAIN Options
      /\ \A f \in DOMAIN Options \ {"path", "python", "active"} : host'[f] = host[f]
      /\ p \in {"pynvml", "bcc"} => /\ host'.python = host.python \cup {p}
                                    /\ host'.path = host.path /\ host'.active = host.active
      /\ p = "ppd" => /\ host'.active = host.active \cup {p}
                      /\ host'.path = host.path /\ host'.python = host.python
      /\ p \notin {"pynvml", "bcc", "ppd"} =>
           /\ host'.path = host.path \cup {p}
           /\ host'.python = host.python /\ host'.active = host.active
  <2>1. "path" \in DOMAIN host /\ "python" \in DOMAIN host /\ "active" \in DOMAIN host
        /\ DOMAIN host = DOMAIN Options
    BY FactsAre DEF HostOK
  <2>. QED
    BY <2>1 DEF Follow
<1>2. \A f \in DOMAIN host' : host'[f] \in Options[f]
  <2>1. /\ host.path \in Options.path /\ host.python \in Options.python
        /\ host.active \in Options.active
    BY FactsAre DEF HostOK
  <2>2. /\ host'.path \in Options.path /\ host'.python \in Options.python
        /\ host'.active \in Options.active
    BY <1>1, <2>1 DEF Options, Packages, Unseen
  <2>3. \A f \in DOMAIN Options \ {"path", "python", "active"} : host'[f] \in Options[f]
    BY <1>1 DEF HostOK
  <2>. QED
    BY <1>1, <2>2, <2>3
<1>3. Real(host')
  BY <1>1, FactsAre DEF Real
<1>4. GrownFrom(host', host)
  BY <1>1 DEF GrownFrom
<1>5. Installed(host', p) /\ host'.path \subseteq host.path \cup {p}
  BY <1>1 DEF Installed
<1>6. \A q \in Packages : Installed(host, q) => Installed(host', q)
  BY <1>1 DEF Installed
<1>. QED
  BY <1>1, <1>2, <1>3, <1>4, <1>5, <1>6 DEF HostOK

LEMMA GrownFurther ==
  ASSUME NEW h, NEW h1, NEW h0, GrownFrom(h, h1), GrownFrom(h1, h0)
  PROVE  GrownFrom(h, h0)
BY DEF GrownFrom

LEMMA AdviceInits == InstallInit => AdviceInv
BY HostAssumption DEF InstallInit, AdviceInv

LEMMA AdviceStep ==
  ASSUME AdviceInv, [InstallNext]_planVars
  PROVE  AdviceInv'
<1>1. CASE Compat
  <2>1. plan' # NoPlan
    BY <1>1, PlanIsOne DEF Compat, AdviceInv
  <2>2. first' # NoPlan
    BY <1>1, <2>1 DEF Compat
  <2>3. CASE first = NoPlan
    <3>1. /\ first' = PlanOf(CapsOf(host), asked) /\ GrownFrom(host, host)
          /\ host.path \subseteq host.path \cup followed
      BY <1>1, <2>3 DEF Compat, CapsOf, GrownFrom
    <3>. QED
      BY <1>1, <2>2, <3>1 DEF Compat, AdviceInv
  <2>4. CASE first # NoPlan
    BY <1>1, <2>2, <2>4 DEF Compat, AdviceInv
  <2>. QED
    BY <2>3, <2>4
<1>2. ASSUME NEW p \in Packages, Follow(p) PROVE AdviceInv'
  <2>1. /\ plan # NoPlan /\ p \notin Unseen
        /\ followed' = followed \cup {p} /\ UNCHANGED <<asked, plan, first>>
    BY <1>2 DEF Follow, NoPlan
  <2>2. first # NoPlan
    BY <2>1 DEF AdviceInv
  <2>3. /\ HostOK(host') /\ Real(host') /\ GrownFrom(host', host)
        /\ Installed(host', p) /\ host'.path \subseteq host.path \cup {p}
        /\ \A q \in Packages : Installed(host, q) => Installed(host', q)
    BY <1>2, <2>1, FollowIs DEF AdviceInv
  <2>4. PICK h0 : /\ first = PlanOf(CapsOf(h0), asked) /\ GrownFrom(host, h0)
                  /\ host.path \subseteq h0.path \cup followed
    BY <2>2 DEF AdviceInv
  <2>5. /\ first' = PlanOf(CapsOf(h0), asked') /\ GrownFrom(host', h0)
        /\ host'.path \subseteq h0.path \cup followed'
    BY <2>1, <2>3, <2>4, GrownFurther
  <2>6. followed' \subseteq Packages \ Unseen /\ \A q \in followed' : Installed(host', q)
    BY <2>1, <2>3 DEF AdviceInv
  <2>. QED
    BY <2>1, <2>2, <2>3, <2>5, <2>6 DEF AdviceInv
<1>3. CASE UNCHANGED <<host, asked, plan, first, followed>>
  BY <1>3 DEF AdviceInv
<1>. QED
  BY <1>1, <1>2, <1>3 DEF InstallNext, planVars, Configure, StartDaemon

LEMMA AdviceIs == AdviceInv => AdviceSettles
<1> SUFFICES ASSUME AdviceInv, plan # NoPlan, plan = PlanOf(CapsOf(host), asked)
             PROVE  /\ plan.install \cap followed = {}
                    /\ plan.install \subseteq first.install
                    /\ first.promised \subseteq plan.promised
                    /\ plan.facet # first.facet =>
                         /\ "ipmitool" \in followed /\ asked = "auto"
                         /\ first.facet \in {"desktop", "ambiguous"}
                         /\ plan.facet = "server"
  BY DEF AdviceSettles, CapsOf
<1>1. PICK h0 : /\ first = PlanOf(CapsOf(h0), asked) /\ GrownFrom(host, h0)
                /\ host.path \subseteq h0.path \cup followed
  BY DEF AdviceInv
<1>2. plan.install \cap followed = {}
  BY InstalledIs DEF AdviceInv, PlanOf
<1>3. plan.install \subseteq first.install
  <2>1. Wants(CapsOf(host)) \subseteq Wants(CapsOf(h0))
        /\ CapsOf(host).clan = CapsOf(h0).clan
    BY <1>1, WantsShrink, SameCompositor
  <2>. QED
    BY <1>1, <2>1 DEF PlanOf
<1>4. first.promised \subseteq plan.promised
  BY <1>1, PromisesGrow
<1>5. ASSUME plan.facet # first.facet
      PROVE  /\ "ipmitool" \in followed /\ asked = "auto"
             /\ first.facet \in {"desktop", "ambiguous"} /\ plan.facet = "server"
  <2>1. asked = "auto" /\ plan.facet = Facet(CapsOf(host)) /\ first.facet = Facet(CapsOf(h0))
    BY <1>1, <1>5 DEF PlanOf
  <2>2. ~("ipmitool" \in host.path <=> "ipmitool" \in h0.path)
    BY <1>1, <1>5, <2>1, FacetStays
  <2>3. "ipmitool" \in host.path /\ "ipmitool" \in followed
    BY <1>1, <2>2 DEF GrownFrom
  <2>4. Facet(CapsOf(host)) = "server"
    BY <2>3, ToolIsServer DEF CapsOf, Caps
  <2>5. Facet(CapsOf(h0)) \in {"server", "desktop", "ambiguous"}
    BY FacetIs
  <2>. QED
    BY <1>5, <2>1, <2>3, <2>4, <2>5
<1>. QED
  BY <1>2, <1>3, <1>4, <1>5

\* AdviceSettles, for whatever hosts, clans and however many packages: to follow
\* caps_to_install_plan only improves the host, in any order, and no package but
\* ipmitool changes the deployment target.
THEOREM AdviceHolds == InstallInit /\ [][InstallNext]_planVars => []AdviceSettles
BY AdviceInits, AdviceStep, AdviceIs, PTL

-----------------------------------------------------------------------------
\* What a daemon runs, adapter by adapter.
LEMMA ProbedAre ==
  ASSUME NEW h, NEW s
  PROVE  /\ Probed(h, s) \subseteq Collectors \cup Actuators
         /\ "linux_sysfs" \in Probed(h, s)
         /\ "arm_thermal" \in Probed(h, s) <=> h.zones = "read"
         /\ "amdgpu" \in Probed(h, s) <=> "amd" \in h.cards
         /\ "nvidia_nvml" \in Probed(h, s) <=> "pynvml" \in h.python /\ h.nvml
         /\ "intel_i915" \in Probed(h, s) <=> "intel" \in h.cards
         /\ "rapl_energy" \in Probed(h, s) <=> h.rapl \in {"locked", "readable"}
         /\ "hyprctl" \in Probed(h, s) <=> "hyprctl" \in h.path
         /\ "dbus_session" \in Probed(h, s) <=> s.bus /\ "gdbus" \in h.path /\ ~s.sig
         /\ "redfish" \in Probed(h, s) <=> h.redfish = "answers"
         /\ "ipmi" \in Probed(h, s) <=> "ipmitool" \in h.path /\ h.ipmi = "answers"
         /\ "perf_events" \in Probed(h, s)
              <=> h.paranoid <= 2 /\ "perf" \in h.path /\ h.perfmon
         /\ "ebpf_sched" \in Probed(h, s) <=> h.bpf /\ "bpftrace" \in h.path
         /\ "asusctl_fan_curve_bias" \in Probed(h, s)
              <=> "asusctl" \in h.path /\ h.info = "new"
         /\ "epp_shift" \in Probed(h, s) <=> h.epp = "writable"
         /\ "ryzenadj_cap" \in Probed(h, s) <=> "ryzenadj" \in h.path /\ h.sudoers
<1>1. /\ Probed(h, s) \subseteq Collectors \cup Actuators
      /\ "linux_sysfs" \in Probed(h, s)
      /\ "arm_thermal" \in Probed(h, s) <=> h.zones = "read"
      /\ "amdgpu" \in Probed(h, s) <=> "amd" \in h.cards
      /\ "nvidia_nvml" \in Probed(h, s) <=> "pynvml" \in h.python /\ h.nvml
      /\ "intel_i915" \in Probed(h, s) <=> "intel" \in h.cards
  BY DEF Probed, Collectors, SysfsProbe, ThermalProbe, AmdProbe, NvmlProbe, IntelProbe
<1>2. /\ "rapl_energy" \in Probed(h, s) <=> h.rapl \in {"locked", "readable"}
      /\ "hyprctl" \in Probed(h, s) <=> "hyprctl" \in h.path
      /\ "dbus_session" \in Probed(h, s) <=> s.bus /\ "gdbus" \in h.path /\ ~s.sig
      /\ "redfish" \in Probed(h, s) <=> h.redfish = "answers"
      /\ "ipmi" \in Probed(h, s) <=> "ipmitool" \in h.path /\ h.ipmi = "answers"
  BY DEF Probed, Collectors, RaplProbe, HyprProbe, DbusProbe, RedfishProbe, IpmiProbe
<1>3. /\ "perf_events" \in Probed(h, s)
           <=> h.paranoid <= 2 /\ "perf" \in h.path /\ h.perfmon
      /\ "ebpf_sched" \in Probed(h, s) <=> h.bpf /\ "bpftrace" \in h.path
  BY DEF Probed, Collectors, PerfProbe, BpfProbe
<1>4. /\ "asusctl_fan_curve_bias" \in Probed(h, s)
           <=> "asusctl" \in h.path /\ h.info = "new"
      /\ "epp_shift" \in Probed(h, s) <=> h.epp = "writable"
      /\ "ryzenadj_cap" \in Probed(h, s) <=> "ryzenadj" \in h.path /\ h.sudoers
  BY DEF Probed, Actuators, AsusProbe, EppProbe, RyzenProbe
<1>. QED
  BY <1>1, <1>2, <1>3, <1>4

\* The facts the adapters and the capabilities read in different ways.
LEMMA HostFacts ==
  ASSUME NEW h, HostOK(h), Real(h)
  PROVE  /\ h.zones \in {"none", "mute", "read"} /\ h.paranoid \in {1, 3, 99}
         /\ h.rapl \in {"absent", "empty", "locked", "readable"}
         /\ h.package \in {"old", "new", "silent"} /\ h.info \in {"old", "new", "fails"}
         /\ h.redfish \in {"none", "url", "dead", "answers"}
         /\ h.ipmi \in {"none", "dead", "answers"}
         /\ h.session \in [sig : BOOLEAN, sway : BOOLEAN, type : {"wayland", "x11", "none"},
                           desktop : {"KDE", "GNOME", "XFCE", "none"}, bus : BOOLEAN]
         /\ h.nvml \in BOOLEAN /\ h.imported \in BOOLEAN
<1>1. \A f \in DOMAIN Options : h[f] \in Options[f]
  BY DEF HostOK
<1>2. {"zones", "paranoid", "rapl", "package", "info", "redfish", "ipmi",
        "session", "nvml", "imported"} \subseteq DOMAIN Options
  BY FactsAre
<1>3. /\ Options.zones = {"none", "mute", "read"} /\ Options.paranoid = {1, 3, 99}
      /\ Options.rapl = {"absent", "empty", "locked", "readable"}
      /\ Options.package = {"old", "new", "silent"} /\ Options.info = {"old", "new", "fails"}
      /\ Options.redfish = {"none", "url", "dead", "answers"}
      /\ Options.ipmi = {"none", "dead", "answers"}
      /\ Options.session = [sig : BOOLEAN, sway : BOOLEAN, type : {"wayland", "x11", "none"},
                            desktop : {"KDE", "GNOME", "XFCE", "none"}, bus : BOOLEAN]
      /\ Options.nvml = BOOLEAN /\ Options.imported = BOOLEAN
  BY DEF Options
<1>4. /\ h.zones \in Options.zones /\ h.paranoid \in Options.paranoid
      /\ h.rapl \in Options.rapl /\ h.package \in Options.package
      /\ h.info \in Options.info
      /\ h.redfish \in Options.redfish /\ h.ipmi \in Options.ipmi
      /\ h.session \in Options.session /\ h.nvml \in Options.nvml
      /\ h.imported \in Options.imported
  BY <1>1, <1>2
<1>. QED
  BY <1>3, <1>4

\* A card of a vendor's is seen as one.
LEMMA CardsSeen ==
  ASSUME NEW h, Real(h)
  PROVE  /\ "amd" \in h.cards => "amd" \in Gpus(h)
         /\ "intel" \in h.cards => "intel" \in Gpus(h)
         /\ h.nvml => "nvidia" \in Gpus(h)
BY DEF Gpus, Real

\* The daemon has the session's bus, and no more of the session's desktop than it.
LEMMA SessionOfDaemon ==
  ASSUME NEW h, HostOK(h), Real(h)
  PROVE  /\ DaemonSession(h).bus = h.session.bus
         /\ DaemonSession(h).sig => h.session.sig
BY HostFacts DEF DaemonSession

LEMMA HyprlandFirst ==
  ASSUME NEW h, NEW s, s.sig
  PROVE  CompositorOf(h, s) = "hyprland"
<1> DEFINE rules ==
      <<<<s.sig, "hyprland">>, <<s.sway, "sway">>,
        <<s.desktop = "KDE", "kwin">>, <<s.desktop = "GNOME", "mutter">>,
        <<s.desktop = "XFCE", "xfwm4">>,
        <<"hyprctl" \in h.path /\ h.socket, "hyprland">>,
        <<"swaymsg" \in h.path /\ s.type = "wayland", "sway">>,
        <<s.type = "wayland", "unknown">>, <<s.type = "x11", "x11_generic">>,
        <<TRUE, "none">>>>
<1>1. 1 \in DOMAIN rules /\ DOMAIN rules \subseteq Nat \ {0}
  OBVIOUS
<1>2. rules[1][1] /\ rules[1][2] = "hyprland"
  OBVIOUS
<1>3. CompositorOf(h, s) = FirstRule(rules)
  BY DEF CompositorOf
<1> HIDE DEF rules
<1>. QED
  BY <1>1, <1>2, <1>3, FirstRuleFirst

\* What runs though it was not announced.
LEMMA RunsAnnounced ==
  ASSUME NEW h, HostOK(h), Real(h), NEW a \in Probed(h, DaemonSession(h)),
         a \notin PromisedCollectors(CapsOf(h)) \cup PromisedActuators(CapsOf(h))
  PROVE  \/ a = "dbus_session"
         \/ a = "rapl_energy" /\ h.rapl = "locked"
         \/ a = "asusctl_fan_curve_bias" /\ h.package = "old"
<1> DEFINE c == CapsOf(h)
<1>1. /\ c.zones <=> h.zones # "none"
      /\ c.gpus = Gpus(h) /\ c.python = h.python /\ c.path = h.path
      /\ c.rapl <=> h.rapl # "absent"
      /\ c.raplRead <=> h.rapl = "readable"
      /\ c.redfish <=> h.redfish # "none"
      /\ c.paranoid = h.paranoid
      /\ c.version <=> "asusctl" \in h.path /\ h.package \in {"new", "silent"}
      /\ c.eppWrite <=> h.epp = "writable"
  BY DEF CapsOf, Caps, ZoneSeen, RaplReadable, VersionOK
<1> HIDE DEF c
<1>2. a \in Collectors \cup Actuators
  BY ProbedAre
<1>3. a \notin PromisedCollectors(c) \cup PromisedActuators(c)
  BY DEF c
<1> DEFINE s == DaemonSession(h)
<1>4. a \in Probed(h, s)
  OBVIOUS
<1> HIDE DEF s
<1>5. CASE a \in {"linux_sysfs", "arm_thermal", "amdgpu", "nvidia_nvml", "intel_i915"}
  BY <1>1, <1>3, <1>4, <1>5, CardsSeen, ProbedAre, PromisesAre
<1>6. CASE a \in {"rapl_energy", "hyprctl", "dbus_session", "redfish"}
  BY <1>1, <1>3, <1>4, <1>6, ProbedAre, PromisesAre
<1>7. CASE a \in {"ipmi", "perf_events", "ebpf_sched"}
  BY <1>1, <1>3, <1>4, <1>7, ProbedAre, PromisesAre
<1>8. CASE a \in Actuators
  BY <1>1, <1>3, <1>4, <1>8, HostFacts, ProbedAre, PromisesAre DEF Actuators
<1>. QED
  BY <1>2, <1>5, <1>6, <1>7, <1>8 DEF Collectors

\* What was announced and does not run.
LEMMA AnnouncedRuns ==
  ASSUME NEW h, HostOK(h), Real(h),
         NEW a \in PromisedCollectors(CapsOf(h)) \cup PromisedActuators(CapsOf(h)),
         a \notin Probed(h, DaemonSession(h))
  PROVE  a \in Unrecorded(h) \cup Contradicted(CapsOf(h))
<1> DEFINE c == CapsOf(h)
<1>1. /\ c.zones <=> h.zones # "none"
      /\ c.gpus = Gpus(h) /\ (c.redfish <=> h.redfish # "none")
      /\ c.python = h.python /\ c.path = h.path
      /\ c.raplRead <=> h.rapl = "readable"
      /\ c.paranoid = h.paranoid
      /\ c.version <=> "asusctl" \in h.path /\ h.package \in {"new", "silent"}
      /\ c.eppWrite <=> h.epp = "writable"
      /\ c.bus = h.session.bus /\ c.compositor = CompositorOf(h, h.session)
  BY DEF CapsOf, Caps, ZoneSeen, RaplReadable, VersionOK
<1>2. a \in PromisedCollectors(c) \cup PromisedActuators(c)
  OBVIOUS
<1> HIDE DEF c
<1>3. a \in Collectors \cup Actuators
  BY <1>2, PromisesAre
<1> DEFINE s == DaemonSession(h)
<1>4. a \notin Probed(h, s) /\ s.bus = h.session.bus /\ (s.sig => h.session.sig)
  BY SessionOfDaemon
<1> HIDE DEF s
<1>5. CASE a \in {"linux_sysfs", "arm_thermal", "nvidia_nvml"}
  BY <1>1, <1>2, <1>4, <1>5, HostFacts, ProbedAre, PromisesAre DEF Unrecorded, Collectors
<1>6. CASE a \in {"amdgpu", "intel_i915"}
  BY <1>1, <1>2, <1>4, <1>6, ProbedAre, PromisesAre DEF Unrecorded, Collectors, Gpus
<1>7. CASE a \in {"rapl_energy", "hyprctl"}
  BY <1>1, <1>2, <1>4, <1>7, ProbedAre, PromisesAre
<1>8. CASE a \in {"redfish", "ipmi", "perf_events"}
  BY <1>1, <1>2, <1>4, <1>8, HostFacts, ProbedAre, PromisesAre DEF Unrecorded, Collectors
<1>9. CASE a = "dbus_session"
  <2>1. c.compositor \in {"kwin", "mutter"} /\ c.bus
    BY <1>2, <1>9, PromisesAre
  <2>2. ~h.session.sig
    BY <1>1, <2>1, HyprlandFirst
  <2>3. "gdbus" \notin h.path
    BY <1>1, <1>4, <1>9, <2>1, <2>2, ProbedAre
  <2>. QED
    BY <1>9, <2>3 DEF Unrecorded, Collectors
<1>10. CASE a = "ebpf_sched"
  <2>1. "bpftrace" \in h.path \/ "bcc" \in h.python
    BY <1>1, <1>2, <1>10, PromisesAre
  <2>2. ~h.bpf \/ "bpftrace" \notin h.path
    BY <1>4, <1>10, ProbedAre
  <2>3. CASE ~h.bpf
    BY <1>10, <2>3 DEF Unrecorded, Collectors
  <2>4. CASE "bcc" \in h.python /\ "bpftrace" \notin h.path
    BY <1>10, <2>4 DEF Contradicted, CapsOf, Caps
  <2>. QED
    BY <2>1, <2>2, <2>3, <2>4
<1>11. CASE a \in Actuators
  BY <1>1, <1>2, <1>4, <1>11, HostFacts, ProbedAre, PromisesAre DEF Unrecorded, Actuators
<1>. QED
  BY <1>3, <1>5, <1>6, <1>7, <1>8, <1>9, <1>10, <1>11 DEF Collectors

\* A collector whose probe succeeds would pass the look at the capabilities, whatever
\* session they were asked for in.
LEMMA FastPathSound ==
  ASSUME NEW h, HostOK(h), Real(h), NEW s, NEW a \in Probed(h, s) \cap Collectors,
         Gated(a, Caps(h, s))
  PROVE  a = "dbus_session"
<1> DEFINE c == Caps(h, s)
<1>1. /\ c.gpus = Gpus(h) /\ c.python = h.python /\ c.path = h.path
      /\ c.rapl <=> h.rapl # "absent"
      /\ c.paranoid = h.paranoid
  BY DEF Caps
<1>2. Gated(a, c)
  OBVIOUS
<1> HIDE DEF c
<1>3. CASE a \in {"linux_sysfs", "arm_thermal", "amdgpu", "nvidia_nvml", "intel_i915"}
  BY <1>1, <1>2, <1>3, CardsSeen, ProbedAre DEF Gated
<1>4. CASE a \in {"rapl_energy", "hyprctl", "redfish", "ipmi"}
  BY <1>1, <1>2, <1>4, ProbedAre DEF Gated
<1>5. CASE a \in {"perf_events", "ebpf_sched"}
  BY <1>1, <1>2, <1>5, HostFacts, ProbedAre DEF Gated
<1>. QED
  BY <1>3, <1>4, <1>5 DEF Collectors

\* What a daemon that starts on the planned host runs.
LEMMA StartIs ==
  ASSUME AdviceInv, StartDaemon, plan = PlanOf(CapsOf(host), asked)
  PROVE  /\ started' \ plan.promised \subseteq
              {"dbus_session"} \cup (IF host.rapl = "locked" THEN {"rapl_energy"} ELSE {})
                \cup (IF host.package = "old" THEN {"asusctl_fan_curve_bias"} ELSE {})
         /\ plan.promised \ started' \subseteq
              (IF enable = "false" THEN Actuators ELSE {})
                \cup Unrecorded(host) \cup Contradicted(Caps(host, host.session))
         /\ LET s == DaemonSession(host) IN
              (started' \ Discovered(host, s, enable, Caps(host, s))) \cap Collectors
                \subseteq {"dbus_session"}
<1> DEFINE s == DaemonSession(host)
<1>1. HostOK(host) /\ Real(host)
  BY DEF AdviceInv
<1>2. plan.promised = PromisedCollectors(CapsOf(host)) \cup PromisedActuators(CapsOf(host))
  BY DEF PlanOf
<1>3. started' = {a \in Probed(host, s) : a \in Actuators => enable # "false"}
  BY DEF StartDaemon, Discovered, DaemonCaps, Gated
<1>4. ASSUME NEW a \in started' \ plan.promised
      PROVE  a \in {"dbus_session"}
                     \cup (IF host.rapl = "locked" THEN {"rapl_energy"} ELSE {})
                     \cup (IF host.package = "old" THEN {"asusctl_fan_curve_bias"} ELSE {})
  <2>1. a \in Probed(host, s)
        /\ a \notin PromisedCollectors(CapsOf(host)) \cup PromisedActuators(CapsOf(host))
    BY <1>2, <1>3
  <2>. QED
    BY <1>1, <2>1, RunsAnnounced
<1>5. ASSUME NEW a \in plan.promised \ started'
      PROVE  a \in (IF enable = "false" THEN Actuators ELSE {})
                     \cup Unrecorded(host) \cup Contradicted(Caps(host, host.session))
  <2>1. CASE a \in Probed(host, s)
    BY <1>3, <2>1
  <2>2. CASE a \notin Probed(host, s)
    BY <1>1, <1>2, <2>2, AnnouncedRuns DEF CapsOf
  <2>. QED
    BY <2>1, <2>2
<1>6. ASSUME NEW a \in (started' \ Discovered(host, s, enable, Caps(host, s))) \cap Collectors
      PROVE  a = "dbus_session"
  <2>1. a \in Probed(host, s) \cap Collectors /\ Gated(a, Caps(host, s))
    BY <1>3 DEF Discovered
  <2>. QED
    BY <1>1, <2>1, FastPathSound
<1>. QED
  BY <1>4, <1>5, <1>6

\* PlanHolds, for whatever hosts and clans: the adapters a plan announces are those of
\* the daemon that starts, but for those Unrecorded and Contradicted name.
THEOREM PlansKept == InstallInit /\ [][InstallNext]_planVars => PlanHolds
<1>1. ASSUME AdviceInv, [InstallNext]_planVars, started' # started
      PROVE  StartDaemon
  BY <1>1 DEF InstallNext, planVars, Compat, Follow, Configure
<1>2. AdviceInv /\ [InstallNext]_planVars =>
        [started' # started /\ plan = PlanOf(Caps(host, host.session), asked) =>
           /\ started' \ plan.promised \subseteq
                {"dbus_session"} \cup (IF host.rapl = "locked" THEN {"rapl_energy"} ELSE {})
                  \cup (IF host.package = "old" THEN {"asusctl_fan_curve_bias"} ELSE {})
           /\ plan.promised \ started' \subseteq
                (IF enable = "false" THEN Actuators ELSE {})
                  \cup Unrecorded(host) \cup Contradicted(Caps(host, host.session))
           /\ LET s == DaemonSession(host) IN
                (started' \ Discovered(host, s, enable, Caps(host, s))) \cap Collectors
                  \subseteq {"dbus_session"}]_planVars
  BY <1>1, StartIs DEF CapsOf
<1>. QED
  BY <1>2, AdviceInits, AdviceStep, PTL DEF PlanHolds

\* PlanSound, for whatever hosts and clans: but for the exceptions it names, what
\* `coolstep compat` announces is what the daemon loads, and following its advice only
\* improves the plan.
THEOREM PlanIsSound == InstallInit /\ [][InstallNext]_planVars => PlanSound
<1>1. InstallInit /\ [][InstallNext]_planVars => []AdviceSettles
  BY AdviceHolds
<1>2. InstallInit /\ [][InstallNext]_planVars => PlanHolds
  BY PlansKept
<1>. QED
  BY <1>1, <1>2, PTL DEF PlanSound
-----------------------------------------------------------------------------
(* Types and bounds.                                                       *)

\* The counter of the file and of the writer count two for a record; a reader that looks
\* again has tries left.
HotBounds ==
  /\ record \in [seq : Int, ts : 0 .. MaxWrites, body : [Words -> 0 .. MaxWrites]]
  /\ record.seq >= -2 /\ record.seq <= 2 * wrote
  /\ hot \in [pc : {"off", "none", "creating", "ready", "odd", "body", "ended"},
              seq : Nat, wait : 0 .. BackoffCap, backoff : 0 .. BackoffCap]
  /\ hot.seq <= 2 * wrote /\ (hot.pc = "odd" => hot.seq + 1 <= 2 * wrote)
  /\ wrote \in 0 .. MaxWrites /\ lives \in 0 .. MaxLives
  /\ glance \in [pc : {"idle", "header", "body", "check", "done"}, tries : 0 .. HotRetries,
                 seq : Int, ts : 0 .. MaxWrites, body : [Words -> Int],
                 got : 0 .. MaxWrites, crossed : BOOLEAN]
  /\ glance.pc \in {"header", "body", "check"} => glance.tries >= 1
  /\ held \subseteq 0 .. MaxWrites

LEMMA HotSizes ==
  /\ MaxWrites \in Nat /\ MaxLives \in Nat /\ HotRetries \in Nat /\ HotRetries >= 1
  /\ Backoff0 \in Nat /\ BackoffCap \in Nat /\ Backoff0 <= BackoffCap
  /\ {Absent, Empty, Zeros} \subseteq
       [seq : Int, ts : 0 .. MaxWrites, body : [Words -> 0 .. MaxWrites]]
  /\ Absent.seq = -1 /\ Empty.seq = -2 /\ Zeros.seq = 0
  /\ Zeros.body \in [Words -> Int]
<1>1. MaxWrites \in Nat /\ 0 \in 0 .. MaxWrites
  BY HotAssumption
<1>. QED
  BY <1>1, HotAssumption DEF Absent, Empty, Zeros

LEMMA WholeIs ==
  ASSUME NEW r \in [seq : Int, ts : 0 .. MaxWrites, body : [Words -> 0 .. MaxWrites]]
  PROVE  Whole(r) \in 0 .. MaxWrites
BY HotSizes DEF Whole

LEMMA NextSeq ==
  ASSUME NEW pcs, NEW waits, NEW h \in [pc : pcs, seq : Nat, wait : waits, backoff : waits],
         NEW pc \in pcs
  PROVE  LET next == [h EXCEPT !.pc = pc, !.seq = @ + 1] IN
         /\ next \in [pc : pcs, seq : Nat, wait : waits, backoff : waits]
         /\ next.seq = h.seq + 1 /\ next.pc = pc
<1>1. h.seq + 1 \in Nat
  OBVIOUS
<1> DEFINE n == h.seq + 1
           next == [h EXCEPT !.pc = pc, !.seq = n]
<1>2. n \in Nat
  BY <1>1
<1> HIDE DEF n
<1>3. next \in [pc : pcs, seq : Nat, wait : waits, backoff : waits]
      /\ next.seq = n /\ next.pc = pc
  BY <1>2
<1>. QED
  BY <1>3 DEF n

LEMMA HotBegins == HotInit => HotBounds
<1> SUFFICES ASSUME HotInit PROVE HotBounds
  OBVIOUS
<1>1. /\ record = Absent /\ hot = Off /\ wrote = 0 /\ lives = 0 /\ glance = Idle /\ held = {}
  BY DEF HotInit
<1>2. 0 \in 0 .. MaxWrites /\ 0 \in 0 .. MaxLives /\ 0 \in 0 .. HotRetries
      /\ 0 \in 0 .. BackoffCap /\ Backoff0 \in 0 .. BackoffCap
  BY HotSizes
<1>3. hot \in [pc : {"off", "none", "creating", "ready", "odd", "body", "ended"},
               seq : Nat, wait : 0 .. BackoffCap, backoff : 0 .. BackoffCap]
      /\ hot.seq = 0 /\ hot.pc = "off"
  BY <1>1, <1>2 DEF Off
<1>4. glance \in [pc : {"idle", "header", "body", "check", "done"}, tries : 0 .. HotRetries,
                  seq : Int, ts : 0 .. MaxWrites, body : [Words -> Int],
                  got : 0 .. MaxWrites, crossed : BOOLEAN]
      /\ glance.pc = "idle"
  BY <1>1, <1>2, HotSizes DEF Idle
<1>. QED
  BY <1>1, <1>2, <1>3, <1>4, HotSizes DEF HotBounds

LEMMA HotBounded ==
  ASSUME HotBounds, [HotNext]_hotVars
  PROVE  HotBounds'
<1> DEFINE Files == [seq : Int, ts : 0 .. MaxWrites, body : [Words -> 0 .. MaxWrites]]
           Writers == [pc : {"off", "none", "creating", "ready", "odd", "body", "ended"},
                       seq : Nat, wait : 0 .. BackoffCap, backoff : 0 .. BackoffCap]
           Readers == [pc : {"idle", "header", "body", "check", "done"},
                       tries : 0 .. HotRetries, seq : Int, ts : 0 .. MaxWrites,
                       body : [Words -> Int], got : 0 .. MaxWrites, crossed : BOOLEAN]
<1>1. /\ record \in Files /\ record.seq >= -2 /\ record.seq <= 2 * wrote
      /\ hot \in Writers /\ hot.seq <= 2 * wrote
      /\ hot.pc = "odd" => hot.seq + 1 <= 2 * wrote
      /\ wrote \in 0 .. MaxWrites /\ lives \in 0 .. MaxLives
      /\ glance \in Readers /\ (glance.pc \in {"header", "body", "check"} => glance.tries >= 1)
      /\ held \subseteq 0 .. MaxWrites
  BY DEF HotBounds
<1>2. wrote \in Nat /\ hot.seq \in Nat /\ hot.wait \in 0 .. BackoffCap
      /\ hot.backoff \in 0 .. BackoffCap /\ record.seq \in Int /\ lives \in Nat
  BY <1>1, HotSizes
\* The reader and what it may find are left alone by Setup, RetryTick and HotKill.
<1>3. ASSUME UNCHANGED <<wrote, glance, held>>, record' \in {record, Empty, Zeros},
             hot' \in Writers, hot'.seq \in {0, hot.seq}, hot'.pc # "odd",
             lives' \in 0 .. MaxLives
      PROVE  HotBounds'
  <2>1. record' \in Files /\ record'.seq >= -2 /\ record'.seq <= 2 * wrote
    BY <1>1, <1>2, <1>3, HotSizes
  <2>2. hot'.seq <= 2 * wrote
    BY <1>1, <1>2, <1>3
  <2>. QED
    BY <1>1, <1>3, <2>1, <2>2 DEF HotBounds
<1>4. CASE Setup
  <2>1. lives' \in 0 .. MaxLives
    BY <1>2, <1>4, HotSizes DEF Setup
  <2>2. CapBackoff(hot.backoff) \in 0 .. BackoffCap
    BY <1>2, HotSizes DEF CapBackoff
  <2>3. Refused \in Writers /\ Refused.seq = hot.seq /\ Refused.pc = "none"
    BY <1>1, <1>2, <2>2 DEF Refused
  <2>4. Ready \in Writers /\ Ready.seq = 0 /\ Ready.pc = "ready"
    <3>1. Backoff0 \in 0 .. BackoffCap
      BY HotSizes
    <3>. QED
      BY <1>1, <3>1 DEF Ready
  <2>5. /\ [hot EXCEPT !.pc = "creating"] \in Writers
        /\ [hot EXCEPT !.pc = "creating"].seq = hot.seq
        /\ [hot EXCEPT !.pc = "creating"].pc = "creating"
        /\ [hot EXCEPT !.pc = "ended"] \in Writers
        /\ [hot EXCEPT !.pc = "ended"].seq = hot.seq
        /\ [hot EXCEPT !.pc = "ended"].pc = "ended"
    BY <1>1
  <2>6. /\ UNCHANGED <<wrote, glance, held>> /\ record' \in {record, Empty, Zeros}
        /\ hot' \in {Refused, Ready, [hot EXCEPT !.pc = "creating"], [hot EXCEPT !.pc = "ended"]}
    BY <1>4 DEF Setup
  <2> HIDE DEF Writers
  <2>. QED
    BY <1>3, <2>1, <2>3, <2>4, <2>5, <2>6
<1>5. CASE RetryTick \/ WriteFails \/ HotKill
  <2>1. Off \in Writers /\ Off.seq = 0 /\ Off.pc = "off"
    <3>1. Backoff0 \in 0 .. BackoffCap /\ 0 \in 0 .. BackoffCap
      BY HotSizes
    <3>. QED
      BY <3>1 DEF Off
  <2>2. UNCHANGED <<record, wrote, lives, glance, held>>
    BY <1>5 DEF RetryTick, WriteFails, HotKill
  <2>3. hot' \in Writers /\ hot'.seq \in {0, hot.seq} /\ hot'.pc # "odd"
    <3>1. CASE RetryTick
      <4>1. hot.wait - 1 \in 0 .. BackoffCap
        BY <1>2, <3>1, HotSizes DEF RetryTick
      <4>. QED
        BY <1>1, <3>1, <4>1 DEF RetryTick
    <3>2. CASE WriteFails
      BY <1>1, <3>2 DEF WriteFails
    <3>3. CASE HotKill
      BY <2>1, <3>3 DEF HotKill
    <3>. QED
      BY <1>5, <3>1, <3>2, <3>3
  <2>. QED
    BY <1>1, <1>3, <2>2, <2>3
\* A word of the record, its counter included.
<1>6. ASSUME NEW next, record' = next, next \in Files, next.seq >= -2,
             next.seq <= 2 * wrote', wrote' \in 0 .. MaxWrites,
             hot' \in Writers, hot'.seq <= 2 * wrote', hot'.pc = "odd" => hot'.seq + 1 <= 2 * wrote',
             held' = held \cup {Whole(record')}, UNCHANGED lives,
             glance' = [glance EXCEPT !.crossed = @ \/ record'.seq < record.seq]
      PROVE  HotBounds'
  <2>1. held' \subseteq 0 .. MaxWrites
    BY <1>1, <1>6, WholeIs
  <2>2. glance' \in Readers /\ glance'.pc = glance.pc /\ glance'.tries = glance.tries
    <3>1. (glance.crossed \/ record'.seq < record.seq) \in BOOLEAN
      BY <1>1
    <3>2. glance' = [glance EXCEPT !.crossed = (glance.crossed \/ record'.seq < record.seq)]
      BY <1>6
    <3> DEFINE b == (glance.crossed \/ record'.seq < record.seq)
    <3> HIDE DEF b
    <3>. QED
      BY <1>1, <3>1, <3>2 DEF b
  <2>. QED
    BY <1>1, <1>6, <2>1, <2>2 DEF HotBounds
<1>7. CASE WriteOdd
  <2>1. wrote' = wrote + 1 /\ wrote' \in 0 .. MaxWrites /\ hot.pc = "ready"
    BY <1>2, <1>7, HotSizes DEF WriteOdd, HotStep
  <2> DEFINE next == [record EXCEPT !.seq = hot.seq + 1, !.ts = wrote']
  <2>2. next \in Files /\ next.seq = hot.seq + 1
    <3>1. hot.seq + 1 \in Int
      BY <1>2
    <3> DEFINE n == hot.seq + 1
    <3> HIDE DEF n
    <3>. QED
      BY <1>1, <2>1, <3>1 DEF n
  <2>3. hot' \in Writers /\ hot'.seq = hot.seq + 1 /\ hot'.pc = "odd"
    <3> DEFINE pcs == {"off", "none", "creating", "ready", "odd", "body", "ended"}
               waits == 0 .. BackoffCap
    <3>1. hot' = [hot EXCEPT !.pc = "odd", !.seq = @ + 1] /\ "odd" \in pcs
      BY <1>7 DEF WriteOdd
    <3>2. hot \in [pc : pcs, seq : Nat, wait : waits, backoff : waits]
      BY <1>1
    <3>3. Writers = [pc : pcs, seq : Nat, wait : waits, backoff : waits]
      OBVIOUS
    <3> HIDE DEF pcs, waits, Writers
    <3>. QED
      BY <3>1, <3>2, <3>3, NextSeq, ZenonT(30)
  <2>4. next.seq >= -2 /\ next.seq <= 2 * wrote' /\ hot'.seq <= 2 * wrote'
        /\ hot'.seq + 1 <= 2 * wrote'
    <3> HIDE DEF next
    <3>. QED
      BY <1>1, <1>2, <2>1, <2>2, <2>3
  <2>5. /\ record' = next /\ held' = held \cup {Whole(record')} /\ UNCHANGED lives
        /\ glance' = [glance EXCEPT !.crossed = @ \/ record'.seq < record.seq]
    BY <1>7 DEF WriteOdd, HotStep
  <2> HIDE DEF next
  <2>. QED
    BY <1>6, <2>1, <2>2, <2>3, <2>4, <2>5
<1>8. CASE WriteWord
  <2>1. PICK w \in Words :
          /\ HotStep("odd", [record EXCEPT !.body[w] = wrote]) /\ UNCHANGED <<hot, wrote>>
    BY <1>8 DEF WriteWord
  <2> DEFINE next == [record EXCEPT !.body[w] = wrote]
  <2>2. next \in Files /\ next.seq = record.seq
    BY <1>1
  <2>3. /\ record' = next /\ held' = held \cup {Whole(record')} /\ UNCHANGED lives
        /\ glance' = [glance EXCEPT !.crossed = @ \/ record'.seq < record.seq]
    BY <2>1 DEF HotStep
  <2> HIDE DEF next
  <2>. QED
    BY <1>1, <1>6, <2>1, <2>2, <2>3
<1>9. CASE WriteEven
  <2> DEFINE next == [record EXCEPT !.seq = hot.seq + 1]
  <2>1. hot.pc = "odd" /\ UNCHANGED wrote
    BY <1>9 DEF WriteEven, HotStep
  <2>2. next \in Files /\ next.seq = hot.seq + 1
    BY <1>1, <1>2
  <2>3. hot' \in Writers /\ hot'.seq = hot.seq + 1 /\ hot'.pc = "ready"
    <3> DEFINE pcs == {"off", "none", "creating", "ready", "odd", "body", "ended"}
               waits == 0 .. BackoffCap
    <3>1. hot' = [hot EXCEPT !.pc = "ready", !.seq = @ + 1] /\ "ready" \in pcs
      BY <1>9 DEF WriteEven
    <3>2. hot \in [pc : pcs, seq : Nat, wait : waits, backoff : waits]
      BY <1>1
    <3>3. Writers = [pc : pcs, seq : Nat, wait : waits, backoff : waits]
      OBVIOUS
    <3> HIDE DEF pcs, waits, Writers
    <3>. QED
      BY <3>1, <3>2, <3>3, NextSeq, ZenonT(30)
  <2>4. /\ record' = next /\ held' = held \cup {Whole(record')} /\ UNCHANGED lives
        /\ glance' = [glance EXCEPT !.crossed = @ \/ record'.seq < record.seq]
    BY <1>9 DEF WriteEven, HotStep
  <2>5. next.seq >= -2 /\ next.seq <= 2 * wrote' /\ hot'.seq <= 2 * wrote'
    <3> HIDE DEF next
    <3>. QED
      BY <1>1, <1>2, <2>1, <2>2, <2>3
  <2> HIDE DEF next
  <2>. QED
    BY <1>1, <1>6, <2>1, <2>2, <2>3, <2>4, <2>5
\* A reader writes nothing.
<1>10. ASSUME UNCHANGED <<record, hot, wrote, lives>>, glance' \in Readers,
              glance'.pc \in {"header", "body", "check"} => glance'.tries >= 1,
              held' \subseteq 0 .. MaxWrites
       PROVE  HotBounds'
  BY <1>1, <1>10 DEF HotBounds
<1>11. CASE ReadOpen
  <2>1. UNCHANGED <<record, hot, wrote, lives>> /\ held' = {0, Whole(record)}
        /\ glance' \in {[Idle EXCEPT !.pc = "done"],
                        [Idle EXCEPT !.pc = "header", !.tries = HotRetries]}
    BY <1>11 DEF ReadOpen
  <2>2. held' \subseteq 0 .. MaxWrites
    BY <1>1, <2>1, WholeIs, HotSizes
  <2>3. Idle \in Readers
    <3>1. 0 \in 0 .. MaxWrites /\ 0 \in 0 .. HotRetries
      BY HotSizes
    <3>. QED
      BY <3>1, HotSizes DEF Idle
  <2>4. HotRetries \in 0 .. HotRetries /\ HotRetries >= 1
    BY HotSizes
  <2>5. glance' \in Readers /\ (glance'.pc = "header" => glance'.tries = HotRetries)
        /\ glance'.pc \in {"header", "done"}
    BY <2>1, <2>3, <2>4
  <2>. QED
    BY <1>10, <2>1, <2>2, <2>4, <2>5
<1>12. CASE ReadHeader
  <2>1. [w \in Words |-> -1] \in [Words -> Int]
    OBVIOUS
  <2>2. glance' \in Readers /\ glance'.pc = "body" /\ glance'.tries = glance.tries
    BY <1>1, <1>12, <2>1 DEF ReadHeader
  <2>. QED
    BY <1>1, <1>10, <1>12, <2>2 DEF ReadHeader
<1>13. CASE ReadWord
  <2>1. PICK w \in Words, pc \in {"check", "body"} :
          glance' = [glance EXCEPT !.body[w] = record.body[w], !.pc = pc]
    BY <1>13 DEF ReadWord
  <2>2. record.body[w] \in Int
    BY <1>1, HotSizes
  <2>3. glance' \in Readers /\ glance'.pc \in {"check", "body"} /\ glance'.tries = glance.tries
    BY <1>1, <2>1, <2>2
  <2>4. glance.pc = "body"
    BY <1>13 DEF ReadWord
  <2>. QED
    BY <1>1, <1>10, <1>13, <2>3, <2>4 DEF ReadWord
<1>14. CASE ReadCheck
  <2>1. glance.pc = "check" /\ glance.tries \in 0 .. HotRetries /\ glance.tries >= 1
        /\ UNCHANGED <<record, hot, wrote, lives, held>>
    BY <1>1, <1>14 DEF ReadCheck
  <2>2. \/ glance' = [glance EXCEPT !.pc = "done", !.got = glance.ts]
        \/ /\ glance' = [glance EXCEPT !.tries = glance.tries - 1,
                           !.pc = IF glance.tries = 1 THEN "done" ELSE "header"]
    BY <1>14 DEF ReadCheck
  <2>3. glance.tries - 1 \in 0 .. HotRetries /\ (glance.tries # 1 => glance.tries - 1 >= 1)
    BY <2>1, HotSizes
  <2>4. CASE glance' = [glance EXCEPT !.pc = "done", !.got = glance.ts]
    BY <1>1, <1>10, <2>1, <2>4
  <2>5. CASE glance' = [glance EXCEPT !.tries = glance.tries - 1,
                          !.pc = IF glance.tries = 1 THEN "done" ELSE "header"]
    <3>1. glance' \in Readers /\ glance'.tries = glance.tries - 1
          /\ (glance'.pc = "header" => glance.tries # 1) /\ glance'.pc \in {"done", "header"}
      BY <1>1, <2>3, <2>5
    <3>. QED
      BY <1>1, <1>10, <2>1, <2>3, <3>1
  <2>. QED
    BY <2>2, <2>4, <2>5
<1>15. CASE UNCHANGED hotVars
  BY <1>15 DEF hotVars, HotBounds
<1>. QED
  BY <1>4, <1>5, <1>7, <1>8, <1>9, <1>11, <1>12, <1>13, <1>14, <1>15 DEF HotNext

LEMMA HotTyped == HotInit /\ [][HotNext]_hotVars => []HotTypeOK
<1>1. HotBounds => HotTypeOK
  <2> SUFFICES ASSUME HotBounds PROVE HotTypeOK
    OBVIOUS
  <2>1. wrote \in 0 .. MaxWrites /\ hot.seq \in Nat /\ hot.seq <= 2 * wrote
        /\ record.seq \in Int /\ record.seq >= -2 /\ record.seq <= 2 * wrote
    BY DEF HotBounds
  <2>2. record.seq \in -2 .. 2 * MaxWrites /\ hot.seq \in 0 .. 2 * MaxWrites
    BY <2>1, HotSizes
  <2>. QED
    BY <2>2 DEF HotBounds, HotTypeOK
<1>. QED
  BY <1>1, HotBegins, HotBounded, PTL

LEMMA EnergyTyped == EnergyInit /\ [][EnergyNext]_energyVars => []EnergyTypeOK
<1>1. EnergyInit => EnergyTypeOK
  <2>1. 0 \in 0 .. MaxSpend /\ 0 \in 0 .. MaxMeter
    BY EnergyAssumption
  <2>. QED
    BY <2>1 DEF EnergyInit, EnergyTypeOK, NoReading
<1>2. EnergyTypeOK /\ [EnergyNext]_energyVars => EnergyTypeOK'
  <2> SUFFICES ASSUME EnergyTypeOK, [EnergyNext]_energyVars PROVE EnergyTypeOK'
    OBVIOUS
  <2>1. /\ spent \in [Domains -> 0 .. MaxSpend] /\ meterAt \in 0 .. MaxMeter
        /\ DOMAIN last \subseteq Domains /\ lastTs \in 0 .. MaxMeter
        /\ DOMAIN power.energy \subseteq Domains /\ power.over \in 0 .. MaxMeter
    BY DEF EnergyTypeOK
  <2>2. MaxSpend \in Nat /\ MaxMeter \in Nat
    BY EnergyAssumption
  <2>3. CASE MeterSample
    <3>1. PICK readable \in SUBSET Domains :
            LET now == [d \in readable |-> Counter(d)] IN
            /\ \/ last = NoReading /\ UNCHANGED power
               \/ /\ last # NoReading /\ meterAt > lastTs
                  /\ power' = [energy |-> [d \in Usable(now) |-> Delta(d, now[d], last[d])],
                               over |-> meterAt - lastTs,
                               true |-> [d \in Usable(now) |-> spent[d] - before.spent[d]],
                               took |-> meterAt - before.at]
            /\ last' = now /\ lastTs' = meterAt /\ UNCHANGED <<spent, meterAt>>
      BY <2>3 DEF MeterSample
    <3> DEFINE now == [d \in readable |-> Counter(d)]
    <3>2. DOMAIN now = readable /\ Usable(now) \subseteq readable /\ last' = now
      BY <3>1 DEF Usable
    <3>3. DOMAIN power'.energy \subseteq Domains /\ power'.over \in 0 .. MaxMeter
      <4>1. CASE UNCHANGED power
        BY <2>1, <4>1
      <4>2. CASE /\ meterAt > lastTs
                 /\ power' = [energy |-> [d \in Usable(now) |-> Delta(d, now[d], last[d])],
                              over |-> meterAt - lastTs,
                              true |-> [d \in Usable(now) |-> spent[d] - before.spent[d]],
                              took |-> meterAt - before.at]
        <5>1. meterAt - lastTs \in 0 .. MaxMeter
          BY <2>1, <2>2, <4>2
        <5>2. power'.over = meterAt - lastTs /\ DOMAIN power'.energy = Usable(now)
          BY <4>2
        <5>. QED
          BY <3>2, <5>1, <5>2
      <4>. QED
        BY <3>1, <4>1, <4>2
    <3>. QED
      BY <2>1, <3>1, <3>2, <3>3 DEF EnergyTypeOK
  <2>4. CASE Spend
    <3>1. PICK d \in Domains, e \in 1 .. 2 :
            /\ spent[d] + e <= MaxSpend /\ spent' = [spent EXCEPT ![d] = spent[d] + e]
            /\ UNCHANGED <<meterAt, last, lastTs, power>>
      BY <2>4 DEF Spend
    <3>2. spent[d] + e \in 0 .. MaxSpend
      BY <2>1, <2>2, <3>1
    <3>. QED
      BY <2>1, <3>1, <3>2 DEF EnergyTypeOK
  <2>5. CASE MeterClock
    <3>1. meterAt' \in 0 .. MaxMeter
      BY <2>1, <2>2, <2>5 DEF MeterClock
    <3>. QED
      BY <2>1, <2>5, <3>1 DEF EnergyTypeOK, MeterClock
  <2>6. CASE UNCHANGED energyVars
    BY <2>6 DEF energyVars, EnergyTypeOK
  <2>. QED
    BY <2>3, <2>4, <2>5, <2>6 DEF EnergyNext
<1>. QED
  BY <1>1, <1>2, PTL

\* The lines in the pipe are no more than fit, each of an interval that was printed.
StreamedBounds ==
  /\ perf \in {"runs", "deaf", "dead"} /\ reader \in BOOLEAN
  /\ printed \in [ts : 0 .. MaxIntervals, event : Events]
  /\ pipe \in Seq([ts : 1 .. MaxIntervals, event : Events]) /\ Len(pipe) <= PipeSize
  /\ acc \in [ts : 0 .. MaxIntervals, events : SUBSET Events]
  /\ latest \in [Events -> 0 .. MaxIntervals]
  /\ closing \in {"open", "term", "kill", "join", "closed"}
  /\ counted \in [1 .. MaxIntervals -> SUBSET Events]
  /\ printed.ts = 0 => printed.event = LastEvent

LEMMA StreamedTyped == StreamedInit /\ [][StreamedNext]_streamedVars => []StreamedTypeOK
<1> DEFINE Printed == [ts : 1 .. MaxIntervals, event : Events]
<1>0. /\ EventCount \in Nat \ {0} /\ PipeSize \in Nat /\ MaxIntervals \in Nat
      /\ LastEvent = EventCount /\ Events = 1 .. EventCount
      /\ 1 \in Events /\ LastEvent \in Events /\ 0 \in 0 .. MaxIntervals
  BY StreamedAssumption DEF LastEvent, Events
<1>1. StreamedInit => StreamedBounds
  <2> SUFFICES ASSUME StreamedInit PROVE StreamedBounds
    OBVIOUS
  <2>1. pipe \in Seq(Printed) /\ Len(pipe) <= PipeSize
    BY <1>0 DEF StreamedInit
  <2>. QED
    BY <1>0, <2>1 DEF StreamedInit, StreamedBounds, NoEvents
<1>2. ASSUME StreamedBounds, [StreamedNext]_streamedVars PROVE StreamedBounds'
  <2>1. /\ perf \in {"runs", "deaf", "dead"} /\ reader \in BOOLEAN
        /\ printed \in [ts : 0 .. MaxIntervals, event : Events]
        /\ pipe \in Seq(Printed) /\ Len(pipe) <= PipeSize /\ Len(pipe) \in Nat
        /\ acc \in [ts : 0 .. MaxIntervals, events : SUBSET Events]
        /\ latest \in [Events -> 0 .. MaxIntervals]
        /\ closing \in {"open", "term", "kill", "join", "closed"}
        /\ counted \in [1 .. MaxIntervals -> SUBSET Events]
        /\ printed.ts = 0 => printed.event = LastEvent
    BY <1>2, LenProperties DEF StreamedBounds
  <2>2. CASE PrintLine
    <3> DEFINE next == IF printed.event = LastEvent
                       THEN [ts |-> printed.ts + 1, event |-> 1]
                       ELSE [ts |-> printed.ts, event |-> printed.event + 1]
    <3>1. /\ next.ts <= MaxIntervals /\ printed' = next
          /\ UNCHANGED <<perf, acc, reader, latest, closing>>
          /\ \/ /\ Len(pipe) < PipeSize /\ pipe' = Append(pipe, next)
                /\ counted' = [counted EXCEPT ![next.ts] = counted[next.ts] \cup {next.event}]
             \/ UNCHANGED <<pipe, counted>>
      BY <2>2 DEF PrintLine
    <3>2. next \in Printed
      <4>1. printed.ts \in Nat /\ printed.event \in Events
        BY <1>0, <2>1
      <4>2. CASE printed.event = LastEvent
        <5>1. next = [ts |-> printed.ts + 1, event |-> 1]
          BY <4>2
        <5>2. printed.ts + 1 \in 1 .. MaxIntervals
          BY <1>0, <3>1, <4>1, <5>1
        <5>. QED
          BY <1>0, <5>1, <5>2
      <4>3. CASE printed.event # LastEvent
        <5>1. next = [ts |-> printed.ts, event |-> printed.event + 1]
          BY <4>3
        <5>2. printed.ts \in 1 .. MaxIntervals /\ printed.event + 1 \in Events
          BY <1>0, <2>1, <4>1, <4>3
        <5>. QED
          BY <5>1, <5>2
      <4>. QED
        BY <4>2, <4>3
    <3> HIDE DEF next
    <3>3. printed' \in [ts : 0 .. MaxIntervals, event : Events] /\ printed'.ts # 0
      <4>1. 1 .. MaxIntervals \subseteq 0 .. MaxIntervals /\ 0 \notin 1 .. MaxIntervals
        BY <1>0
      <4>. QED
        BY <3>1, <3>2, <4>1
    <3>4. pipe' \in Seq(Printed) /\ Len(pipe') <= PipeSize
      <4>1. CASE Len(pipe) < PipeSize /\ pipe' = Append(pipe, next)
        <5>1. Append(pipe, next) \in Seq(Printed) /\ Len(Append(pipe, next)) = Len(pipe) + 1
          BY <2>1, <3>2, AppendProperties
        <5>. QED
          BY <1>0, <2>1, <4>1, <5>1
      <4>2. CASE UNCHANGED pipe
        BY <2>1, <4>2
      <4>. QED
        BY <3>1, <4>1, <4>2
    <3>5. counted' \in [1 .. MaxIntervals -> SUBSET Events]
      <4>1. CASE UNCHANGED counted
        BY <2>1, <4>1
      <4>2. CASE counted' = [counted EXCEPT ![next.ts] = counted[next.ts] \cup {next.event}]
        <5>1. next.ts \in 1 .. MaxIntervals /\ next.event \in Events
          BY <3>2
        <5>2. counted[next.ts] \cup {next.event} \in SUBSET Events
          BY <2>1, <5>1
        <5>. QED
          BY <2>1, <4>2, <5>1, <5>2
      <4>. QED
        BY <3>1, <4>1, <4>2
    <3>. QED
      BY <2>1, <3>1, <3>3, <3>4, <3>5 DEF StreamedBounds
  <2>3. CASE ReadLine
    <3>1. /\ pipe # <<>> /\ pipe' = Tail(pipe)
          /\ UNCHANGED <<perf, printed, reader, closing, counted>>
          /\ latest' \in {latest, Published(acc)}
          /\ \/ acc' = [ts |-> Head(pipe).ts, events |-> {Head(pipe).event}]
             \/ acc' = [ts |-> Head(pipe).ts, events |-> acc.events \cup {Head(pipe).event}]
      BY <2>3 DEF ReadLine
    <3>2. /\ Head(pipe) \in Printed /\ Tail(pipe) \in Seq(Printed)
          /\ Len(Tail(pipe)) = Len(pipe) - 1
      BY <2>1, <3>1, HeadTailProperties
    <3>3. acc' \in [ts : 0 .. MaxIntervals, events : SUBSET Events]
      <4>1. Head(pipe).ts \in 0 .. MaxIntervals /\ Head(pipe).event \in Events
        BY <1>0, <3>2
      <4>. QED
        BY <2>1, <3>1, <4>1
    <3>4. latest' \in [Events -> 0 .. MaxIntervals]
      BY <2>1, <3>1 DEF Published
    <3>5. pipe' \in Seq(Printed) /\ Len(pipe') <= PipeSize
      BY <1>0, <2>1, <3>1, <3>2
    <3>. QED
      BY <2>1, <3>1, <3>3, <3>4, <3>5 DEF StreamedBounds
  <2>4. CASE ReaderEnds
    <3>1. Published(acc) \in [Events -> 0 .. MaxIntervals]
      BY <2>1 DEF Published
    <3>. QED
      BY <2>1, <2>4, <3>1 DEF ReaderEnds, StreamedBounds
  <2>5. CASE PerfDies \/ Close \/ UNCHANGED streamedVars
    <3>1. UNCHANGED <<printed, pipe, acc, reader, latest, counted>>
      BY <2>5 DEF PerfDies, Close, streamedVars
    <3>2. perf' \in {"runs", "deaf", "dead"}
          /\ closing' \in {"open", "term", "kill", "join", "closed"}
      BY <2>1, <2>5 DEF PerfDies, Close, streamedVars
    <3>. QED
      BY <2>1, <3>1, <3>2 DEF StreamedBounds
  <2>. QED
    BY <1>2, <2>2, <2>3, <2>4, <2>5 DEF StreamedNext
<1>3. StreamedBounds => StreamedTypeOK
  <2> SUFFICES ASSUME StreamedBounds PROVE StreamedTypeOK
    OBVIOUS
  <2>1. \A i \in DOMAIN pipe : pipe[i] \in Printed
    <3>1. pipe \in Seq(Printed)
      BY DEF StreamedBounds
    <3> HIDE DEF Printed
    <3>2. DOMAIN pipe = 1 .. Len(pipe)
      BY <3>1, LenProperties
    <3>. QED
      BY <3>1, <3>2, ElementOfSeq
  <2>. QED
    BY <2>1 DEF StreamedBounds, StreamedTypeOK
<1>. QED
  BY <1>1, <1>2, <1>3, PTL

LEMMA PolledTyped == PolledInit /\ [][PolledNext]_polledVars => []PolledTypeOK
<1> DEFINE Times == 0 .. MaxClock
           Cached == [val : Answers, at : Times]
           Asked == [out : BOOLEAN, began : Times, sig : Sessions]
           Frames == [val : Answers, at : Times, sig : Sessions, began : Times]
<1>0. /\ 0 \in Times /\ PoolSlots \in Nat /\ NoSig \in Sessions /\ Sigs \subseteq Sessions
      /\ Nothing \in Cached /\ Rest \in Asked
      /\ Sigs \subseteq Answers /\ NoAnswer \in Answers
  BY PolledAssumption DEF Nothing, Rest, Answers, Sessions
<1>1. PolledInit => PolledTypeOK
  <2> SUFFICES ASSUME PolledInit PROVE PolledTypeOK
    OBVIOUS
  <2>1. frame \in Frames /\ heard \in [alive : BOOLEAN, sig : Sessions]
        /\ threads \in [1 .. PoolSlots -> Asked] /\ waiting \in 0 .. PoolSlots
        /\ session \in Sessions
    BY <1>0 DEF PolledInit
  <2>. QED
    BY <1>0, <2>1 DEF PolledInit, PolledTypeOK, Sessions
<1>2. ASSUME PolledTypeOK, [PolledNext]_polledVars PROVE PolledTypeOK'
  <2>1. /\ kind \in Kinds /\ clock \in Times /\ session \in Sessions /\ cache \in Cached
        /\ heard \in [alive : BOOLEAN, sig : Sessions]
        /\ threads \in [1 .. PoolSlots -> Asked] /\ waiting \in 0 .. PoolSlots
        /\ lapped \in BOOLEAN /\ frame \in Frames
    BY <1>2 DEF PolledTypeOK, Sessions
  \* What a step has to show.
  <2>2. ASSUME kind' \in Kinds, clock' \in Times, session' \in Sessions, cache' \in Cached,
               heard' \in [alive : BOOLEAN, sig : Sessions],
               threads' \in [1 .. PoolSlots -> Asked], waiting' \in 0 .. PoolSlots,
               lapped' \in BOOLEAN, frame' \in Frames
        PROVE  PolledTypeOK'
    BY <2>2 DEF PolledTypeOK, Sessions
  <2> HIDE DEF Times, Cached, Asked, Frames
  <2>3. CASE PollTick
    <3>1. Dropped \in Cached
      BY <1>0, <2>1 DEF Dropped
    <3>2. Heard \in [alive : BOOLEAN, sig : Sessions]
      <4>1. (session # NoSig) \in BOOLEAN
        OBVIOUS
      <4>2. (IF session = NoSig THEN heard.sig ELSE session) \in Sessions
        BY <2>1
      <4>. QED
        BY <2>1, <4>1, <4>2 DEF Heard
    <3>3. UNCHANGED <<kind, clock, session>> /\ heard' = Heard /\ cache' = Dropped
      BY <2>3 DEF PollTick
    <3>4. \/ /\ Serves(Nothing, clock) \/ Serves(Dropped, clock)
             /\ UNCHANGED <<threads, waiting, lapped>>
          \/ /\ UNCHANGED frame /\ lapped' = (lapped \/ Out # {})
             /\ \E t \in 1 .. PoolSlots :
                  /\ threads' = [threads EXCEPT ![t] =
                                   [out |-> TRUE, began |-> clock, sig |-> session]]
                  /\ waiting' = t
      BY <2>3 DEF PollTick
    <3>5. CASE /\ Serves(Nothing, clock) \/ Serves(Dropped, clock)
               /\ UNCHANGED <<threads, waiting, lapped>>
      <4>1. PICK c \in Cached :
              frame' = [val |-> c.val, at |-> c.at, began |-> clock, sig |-> session]
        BY <1>0, <3>1, <3>5 DEF Serves
      <4>2. frame' \in Frames
        BY <2>1, <4>1 DEF Frames, Cached
      <4>. QED
        BY <2>1, <2>2, <3>1, <3>2, <3>3, <3>5, <4>2
    <3>6. ASSUME UNCHANGED frame, lapped' = (lapped \/ Out # {}), NEW t \in 1 .. PoolSlots,
                 threads' = [threads EXCEPT ![t] =
                               [out |-> TRUE, began |-> clock, sig |-> session]],
                 waiting' = t
          PROVE  PolledTypeOK'
      <4>1. [out |-> TRUE, began |-> clock, sig |-> session] \in Asked
        BY <2>1 DEF Asked
      <4>2. threads' \in [1 .. PoolSlots -> Asked]
        BY <2>1, <3>6, <4>1
      <4>3. waiting' \in 0 .. PoolSlots
        BY <1>0, <3>6
      <4>4. lapped' \in BOOLEAN
        BY <3>6
      <4>. QED
        BY <2>1, <2>2, <3>1, <3>2, <3>3, <3>6, <4>2, <4>3, <4>4
    <3>. QED
      BY <3>4, <3>5, <3>6
  <2>4. ASSUME NEW t \in Out, NEW c \in Cached, NEW r \in Cached, Ends(t, c, r)
        PROVE  PolledTypeOK'
    <3>1. t \in 1 .. PoolSlots /\ threads[t] \in Asked
      BY <2>1 DEF Out
    <3>2. /\ threads' = [threads EXCEPT ![t] = Rest] /\ cache' = c
          /\ UNCHANGED <<kind, clock, session, heard, lapped>>
          /\ \/ /\ waiting' = 0
                /\ frame' = [val |-> r.val, at |-> r.at, began |-> threads[t].began,
                             sig |-> threads[t].sig]
             \/ UNCHANGED <<waiting, frame>>
      BY <2>4 DEF Ends
    <3>3. threads' \in [1 .. PoolSlots -> Asked]
      BY <1>0, <2>1, <3>1, <3>2
    <3>4. [val |-> r.val, at |-> r.at, began |-> threads[t].began, sig |-> threads[t].sig]
            \in Frames
      BY <3>1 DEF Frames, Cached, Asked
    <3>5. waiting' \in 0 .. PoolSlots /\ frame' \in Frames
      BY <1>0, <2>1, <3>2, <3>4
    <3>. QED
      BY <2>1, <2>2, <2>4, <3>2, <3>3, <3>5
  <2>5. \A t \in Out : threads[t].began \in Times
    BY <2>1 DEF Out, Asked
  <2>6. CASE Answered
    <3>1. PICK t \in Out :
            /\ session # NoSig
            /\ Ends(t, [val |-> session, at |-> threads[t].began],
                    [val |-> session, at |-> threads[t].began])
      BY <2>6 DEF Answered
    <3>2. [val |-> session, at |-> threads[t].began] \in Cached
      <4>1. session \in Answers
        BY <2>1, <3>1 DEF Sessions, Answers
      <4>. QED
        BY <2>5, <4>1 DEF Cached
    <3>. QED
      BY <2>4, <3>1, <3>2
  <2>7. CASE Unanswered
    <3>1. PICK t \in Out :
            \/ Ends(t, cache, IF threads[t].began - cache.at < StaleFor THEN cache ELSE Nothing)
            \/ Ends(t, [val |-> NoAnswer, at |-> threads[t].began],
                    [val |-> NoAnswer, at |-> threads[t].began])
            \/ Ends(t, cache, cache)
      BY <2>7 DEF Unanswered
    <3>2. [val |-> NoAnswer, at |-> threads[t].began] \in Cached
      BY <1>0, <2>5 DEF Cached
    <3>3. (IF threads[t].began - cache.at < StaleFor THEN cache ELSE Nothing) \in Cached
      BY <1>0, <2>1
    <3>. QED
      BY <2>1, <2>4, <3>1, <3>2, <3>3
  <2>8. CASE GiveUp
    BY <1>0, <2>1, <2>2, <2>8 DEF GiveUp
  <2>9. CASE SessionChanges
    <3>1. session' \in Sessions
      BY <2>9 DEF SessionChanges, Sessions
    <3>. QED
      BY <2>1, <2>2, <2>9, <3>1 DEF SessionChanges
  <2>10. CASE PollClock
    <3>1. clock' \in Times
      BY <2>1, <2>10, PolledAssumption DEF PollClock, Times
    <3>. QED
      BY <2>1, <2>2, <2>10, <3>1 DEF PollClock
  <2>11. CASE UNCHANGED polledVars
    BY <2>1, <2>2, <2>11 DEF polledVars
  <2>. QED
    BY <1>2, <2>3, <2>6, <2>7, <2>8, <2>9, <2>10, <2>11 DEF PolledNext
<1>. QED
  BY <1>1, <1>2, PTL

\* Nothing was begun, stamped or reported after now, and no body is older than the process.
EndpointBounds ==
  /\ endpoint \in Endpoints /\ serveAt \in 0 .. MaxServe
  /\ kept \in [born : -1 .. serveAt, stamp : -1 .. serveAt]
  /\ asker \in [Askers -> [pc : {"none", "waits", "computes", "warmed"}, began : 0 .. serveAt]]
  /\ holder \in Askers \cup {Nobody} /\ queue \in Seq(Askers)
  /\ report \in -1 .. serveAt /\ longest \in 0 .. serveAt /\ twice \in BOOLEAN
  /\ reply \in [from : {"none", "cache", "own", "daemon"}, age : 0 .. serveAt]

\* A request that is answered, one that computes, and one that gets the lock.
LEMMA AnswerBounds ==
  ASSUME EndpointBounds, NEW a \in Askers
  PROVE  /\ Left(a) => asker' \in [Askers -> [pc : {"none", "waits", "computes", "warmed"},
                                             began : 0 .. serveAt]]
         /\ \A born \in 0 .. serveAt, from \in {"none", "cache", "own", "daemon"} :
              Served(a, born, from) =>
                reply' \in [from : {"none", "cache", "own", "daemon"}, age : 0 .. serveAt]
         /\ Computes(a) =>
              /\ asker' \in [Askers -> [pc : {"none", "waits", "computes", "warmed"},
                                        began : 0 .. serveAt]]
              /\ UNCHANGED reply
         /\ Hit => kept.born \in 0 .. serveAt
         /\ ReportGood => report \in 0 .. serveAt
<1> DEFINE Requested == [pc : {"none", "waits", "computes", "warmed"}, began : 0 .. serveAt]
<1>1. /\ asker \in [Askers -> Requested] /\ serveAt \in Nat /\ serveAt \in 0 .. serveAt
      /\ 0 \in 0 .. serveAt
  BY EndpointAssumption DEF EndpointBounds
<1>2. ASSUME Left(a) PROVE asker' \in [Askers -> Requested]
  <2>1. [pc |-> IF a = Warm THEN "warmed" ELSE "none", began |-> 0] \in Requested
    BY <1>1
  <2>. QED
    BY <1>1, <1>2, <2>1 DEF Left
<1>3. ASSUME NEW born \in 0 .. serveAt, NEW from \in {"none", "cache", "own", "daemon"},
             Served(a, born, from)
      PROVE  reply' \in [from : {"none", "cache", "own", "daemon"}, age : 0 .. serveAt]
  <2>1. serveAt - born \in 0 .. serveAt
    BY <1>1
  <2>2. reply \in [from : {"none", "cache", "own", "daemon"}, age : 0 .. serveAt]
    BY DEF EndpointBounds
  <2>. QED
    BY <1>3, <2>1, <2>2 DEF Served
<1>4. ASSUME Computes(a) PROVE asker' \in [Askers -> Requested] /\ UNCHANGED reply
  <2>1. [pc |-> "computes", began |-> serveAt] \in Requested
    BY <1>1
  <2>. QED
    BY <1>1, <1>4, <2>1 DEF Computes
<1>5. Hit => kept.born \in 0 .. serveAt
  BY <1>1 DEF Hit, EndpointBounds
<1>6. ReportGood => report \in 0 .. serveAt
  BY <1>1 DEF ReportGood, EndpointBounds
<1>. QED
  BY <1>2, <1>3, <1>4, <1>5, <1>6

LEMMA EndpointBounded ==
  ASSUME EndpointBounds, [EndpointNext]_endpointVars
  PROVE  EndpointBounds'
<1> DEFINE Requested == [pc : {"none", "waits", "computes", "warmed"}, began : 0 .. serveAt]
           Replies == [from : {"none", "cache", "own", "daemon"}, age : 0 .. serveAt]
<1>1. /\ endpoint \in Endpoints /\ serveAt \in 0 .. MaxServe /\ serveAt \in Nat
      /\ kept \in [born : -1 .. serveAt, stamp : -1 .. serveAt]
      /\ asker \in [Askers -> Requested]
      /\ holder \in Askers \cup {Nobody} /\ queue \in Seq(Askers)
      /\ report \in -1 .. serveAt /\ longest \in 0 .. serveAt /\ twice \in BOOLEAN
      /\ reply \in Replies
  BY EndpointAssumption DEF EndpointBounds
\* At one time.
<1>2. ASSUME UNCHANGED <<endpoint, serveAt>>,
             kept' \in [born : -1 .. serveAt, stamp : -1 .. serveAt],
             asker' \in [Askers -> Requested], holder' \in Askers \cup {Nobody},
             queue' \in Seq(Askers), report' \in -1 .. serveAt, longest' \in 0 .. serveAt,
             twice' \in BOOLEAN, reply' \in Replies
      PROVE  EndpointBounds'
  BY <1>1, <1>2 DEF EndpointBounds
<1> HIDE DEF Requested, Replies
<1>3. ASSUME NEW a \in Askers
      PROVE  /\ Left(a) => asker' \in [Askers -> Requested]
             /\ \A born \in 0 .. serveAt, from \in {"none", "cache", "own", "daemon"} :
                  Served(a, born, from) => asker' \in [Askers -> Requested] /\ reply' \in Replies
             /\ Computes(a) => asker' \in [Askers -> Requested] /\ reply' \in Replies
             /\ LockTaken(a) => /\ asker' \in [Askers -> Requested] /\ reply' \in Replies
                                /\ holder' \in Askers \cup {Nobody}
  <2>1. Left(a) => asker' \in [Askers -> Requested]
    BY AnswerBounds DEF Requested
  <2>2. ASSUME NEW born \in 0 .. serveAt, NEW from \in {"none", "cache", "own", "daemon"},
               Served(a, born, from)
        PROVE  asker' \in [Askers -> Requested] /\ reply' \in Replies
    <3>1. Left(a)
      BY <2>2 DEF Served
    <3>. QED
      BY <2>1, <2>2, <3>1, AnswerBounds DEF Replies
  <2>3. Computes(a) => asker' \in [Askers -> Requested] /\ reply' \in Replies
    BY <1>1, AnswerBounds DEF Requested
  <2>4. ASSUME LockTaken(a)
        PROVE  /\ asker' \in [Askers -> Requested] /\ reply' \in Replies
               /\ holder' \in Askers \cup {Nobody}
    <3>1. CASE Hit
      <4>1. kept.born \in 0 .. serveAt
        BY <3>1, AnswerBounds
      <4>2. Served(a, kept.born, "cache") /\ holder' = Nobody
        BY <2>4, <3>1 DEF LockTaken
      <4>. QED
        BY <2>2, <4>1, <4>2
    <3>2. CASE ~Hit
      BY <2>3, <2>4, <3>2 DEF LockTaken
    <3>. QED
      BY <3>1, <3>2
  <2>. QED
    BY <2>1, <2>2, <2>3, <2>4
<1>4. CASE Ask
  <2>1. PICK a \in Askers :
          /\ IF a # Warm /\ endpoint = "calibration" /\ ReportGood
             THEN Served(a, report, "daemon") /\ UNCHANGED <<holder, queue>>
             ELSE IF Hit /\ a # Warm
             THEN Served(a, kept.born, "cache") /\ UNCHANGED <<holder, queue>>
             ELSE IF ~Locked THEN Computes(a) /\ UNCHANGED <<holder, queue>>
             ELSE IF holder = Nobody /\ queue = <<>>
             THEN LockTaken(a) /\ UNCHANGED queue
             ELSE /\ asker' = [asker EXCEPT ![a].pc = "waits"]
                  /\ queue' = Append(queue, a) /\ UNCHANGED <<holder, reply>>
          /\ UNCHANGED <<endpoint, serveAt, kept, report, longest, twice>>
    BY <1>4 DEF Ask
  <2>2. /\ ReportGood => report \in 0 .. serveAt
        /\ Hit => kept.born \in 0 .. serveAt
    BY AnswerBounds
  <2>3. [asker EXCEPT ![a].pc = "waits"] \in [Askers -> Requested]
    BY <1>1 DEF Requested
  <2>4. Append(queue, a) \in Seq(Askers)
    BY <1>1, AppendProperties
  <2>5. asker' \in [Askers -> Requested] /\ reply' \in Replies
        /\ holder' \in Askers \cup {Nobody} /\ queue' \in Seq(Askers)
    <3>1. CASE Served(a, report, "daemon") /\ ReportGood /\ UNCHANGED <<holder, queue>>
      BY <1>1, <1>3, <2>2, <3>1
    <3>2. CASE Served(a, kept.born, "cache") /\ Hit /\ UNCHANGED <<holder, queue>>
      BY <1>1, <1>3, <2>2, <3>2
    <3>3. CASE Computes(a) /\ UNCHANGED <<holder, queue>>
      BY <1>1, <1>3, <3>3
    <3>4. CASE LockTaken(a) /\ UNCHANGED queue
      BY <1>1, <1>3, <3>4
    <3>5. CASE /\ asker' = [asker EXCEPT ![a].pc = "waits"]
               /\ queue' = Append(queue, a) /\ UNCHANGED <<holder, reply>>
      BY <1>1, <2>3, <2>4, <3>5
    <3>. QED
      BY <2>1, <3>1, <3>2, <3>3, <3>4, <3>5
  <2>. QED
    BY <1>1, <1>2, <2>1, <2>5
<1>5. CASE NextAsker
  <2>1. /\ queue # <<>> /\ LockTaken(Head(queue)) /\ queue' = Tail(queue)
        /\ UNCHANGED <<endpoint, serveAt, kept, report, longest, twice>>
    BY <1>5 DEF NextAsker
  <2>2. Head(queue) \in Askers /\ Tail(queue) \in Seq(Askers)
    BY <1>1, <2>1, HeadTailProperties
  <2>. QED
    BY <1>1, <1>2, <1>3, <2>1, <2>2
<1>6. CASE Put
  <2>1. PICK a \in Askers :
          /\ kept' = [born |-> asker[a].began,
                      stamp |-> IF StampedEarly /\ a # Warm THEN asker[a].began ELSE serveAt]
          /\ longest' = IF serveAt - asker[a].began > longest
                        THEN serveAt - asker[a].began ELSE longest
          /\ twice' = (twice \/ (kept.born # -1 /\ asker[a].began - kept.born < KeptFor))
          /\ Served(a, asker[a].began, "own") /\ Released(a)
          /\ UNCHANGED <<endpoint, serveAt, queue, report>>
    BY <1>6 DEF Put
  <2>2. asker[a].began \in 0 .. serveAt
    BY <1>1 DEF Requested
  <2>3. /\ asker[a].began \in -1 .. serveAt /\ serveAt \in -1 .. serveAt
        /\ serveAt - asker[a].began \in 0 .. serveAt
    BY <1>1, <2>2
  <2>4. kept' \in [born : -1 .. serveAt, stamp : -1 .. serveAt] /\ longest' \in 0 .. serveAt
    BY <1>1, <2>1, <2>3
  <2>5. twice' \in BOOLEAN
    BY <2>1
  <2>6. holder' \in Askers \cup {Nobody}
    BY <1>1, <2>1 DEF Released
  <2>. QED
    BY <1>1, <1>2, <1>3, <2>1, <2>2, <2>4, <2>5, <2>6
<1>7. CASE ComputeFails
  <2>1. PICK a \in Askers :
          /\ Left(a) /\ Released(a)
          /\ UNCHANGED <<endpoint, serveAt, kept, queue, report, reply, longest, twice>>
    BY <1>7 DEF ComputeFails
  <2>2. holder' \in Askers \cup {Nobody}
    BY <1>1, <2>1 DEF Released
  <2>. QED
    BY <1>1, <1>2, <1>3, <2>1, <2>2
<1>8. CASE DaemonReports
  <2>1. report' \in -1 .. serveAt
    BY <1>1, <1>8 DEF DaemonReports
  <2>. QED
    BY <1>1, <1>2, <1>8, <2>1 DEF DaemonReports
<1>9. CASE ServeClock
  <2>1. /\ serveAt' = serveAt + 1 /\ serveAt' \in 0 .. MaxServe
        /\ UNCHANGED <<endpoint, kept, asker, holder, queue, report, reply, longest, twice>>
    BY <1>1, <1>9, EndpointAssumption DEF ServeClock
  <2>2. 0 .. serveAt \subseteq 0 .. serveAt' /\ -1 .. serveAt \subseteq -1 .. serveAt'
    BY <1>1, <2>1
  <2>3. asker' \in [Askers -> [pc : {"none", "waits", "computes", "warmed"},
                               began : 0 .. serveAt']]
        /\ reply' \in [from : {"none", "cache", "own", "daemon"}, age : 0 .. serveAt']
    BY <1>1, <2>1, <2>2 DEF Requested, Replies
  <2>4. kept' \in [born : -1 .. serveAt', stamp : -1 .. serveAt']
    BY <1>1, <2>1, <2>2
  <2>. QED
    BY <1>1, <2>1, <2>2, <2>3, <2>4 DEF EndpointBounds
<1>10. CASE UNCHANGED endpointVars
  BY <1>10 DEF endpointVars, EndpointBounds
<1>. QED
  BY <1>4, <1>5, <1>6, <1>7, <1>8, <1>9, <1>10 DEF EndpointNext

LEMMA EndpointTyped == EndpointInit /\ [][EndpointNext]_endpointVars => []EndpointTypeOK
<1>1. EndpointInit => EndpointBounds
  <2> SUFFICES ASSUME EndpointInit PROVE EndpointBounds
    OBVIOUS
  <2>1. serveAt = 0 /\ 0 \in 0 .. MaxServe /\ 0 \in 0 .. 0 /\ -1 \in -1 .. 0
    BY EndpointAssumption DEF EndpointInit
  <2>2. kept \in [born : -1 .. serveAt, stamp : -1 .. serveAt]
    BY <2>1 DEF EndpointInit, NoBody
  <2>3. asker \in [Askers -> [pc : {"none", "waits", "computes", "warmed"}, began : 0 .. serveAt]]
    <3>1. [pc |-> "none", began |-> 0] \in
            [pc : {"none", "waits", "computes", "warmed"}, began : 0 .. serveAt]
      BY <2>1
    <3>. QED
      BY <3>1 DEF EndpointInit
  <2>4. reply \in [from : {"none", "cache", "own", "daemon"}, age : 0 .. serveAt]
    BY <2>1 DEF EndpointInit
  <2>5. queue \in Seq(Askers) /\ holder \in Askers \cup {Nobody}
    BY DEF EndpointInit
  <2>6. /\ endpoint \in Endpoints /\ serveAt \in 0 .. MaxServe /\ report \in -1 .. serveAt
        /\ longest \in 0 .. serveAt /\ twice \in BOOLEAN
    BY <2>1 DEF EndpointInit
  <2>. QED
    BY <2>2, <2>3, <2>4, <2>5, <2>6 DEF EndpointBounds
<1>2. EndpointBounds => EndpointTypeOK
  <2> SUFFICES ASSUME EndpointBounds PROVE EndpointTypeOK
    OBVIOUS
  <2>1. 0 .. serveAt \subseteq 0 .. MaxServe /\ -1 .. serveAt \subseteq -1 .. MaxServe
    BY EndpointAssumption DEF EndpointBounds
  <2>2. asker \in [Askers -> [pc : {"none", "waits", "computes", "warmed"},
                              began : 0 .. MaxServe]]
    BY <2>1 DEF EndpointBounds
  <2>. QED
    BY <2>1, <2>2 DEF EndpointBounds, EndpointTypeOK
<1>. QED
  BY <1>1, <1>2, EndpointBounded, PTL


\* What holds of samples that overlap as well.
SysfsBounds ==
  /\ occupant \in [Paths -> Sensors \cup {Gone}]
  /\ device \in [Paths -> Sensors \cup {Blank}]
  /\ fds \in [Paths -> {0} \cup Descriptors]
  /\ files \in [Descriptors -> Sensors \cup {Shut, Gone}]
  /\ job \in [Workers -> Jobs]
  /\ \A w \in Workers :
       /\ job[w].tick \in 0 .. MaxSamplesS
       /\ \A p \in job[w].todo : job[w].list[p] # Blank
       /\ job[w].pc \in {"open", "read"} => job[w].at \in Paths /\ job[w].list[job[w].at] # Blank
       /\ job[w].pc = "read" => job[w].fd \in Descriptors
  /\ ticks \in 0 .. MaxSamplesS /\ slow \in 0 .. MaxSamplesS
  /\ astray \subseteq Sensors /\ mixed \in BOOLEAN

\* What a worker is between two samples.
ParkedIs ==
  /\ Parked \in Jobs /\ Parked.list \in [Paths -> Sensors \cup {Blank}]
  /\ Parked.pc = "parked" /\ Parked.tick = 0 /\ Parked.todo = {}

LEMMA ParkedFits == ParkedIs
<1>1. /\ [s \in Sensors |-> Blank] \in [Sensors -> Sensors \cup {Blank}]
      /\ [p \in Paths |-> Blank] \in [Paths -> Sensors \cup {Blank}]
  OBVIOUS
<1>. QED
  BY <1>1 DEF ParkedIs, Parked, Jobs

\* A step of one sample, in whatever order the two take theirs.
LEMMA SampleBounded ==
  ASSUME SysfsBounds, NEW w \in Workers, NEW j \in Jobs, job' = [job EXCEPT ![w] = j],
         j.tick \in 0 .. MaxSamplesS, \A p \in j.todo : j.list[p] # Blank,
         j.pc \in {"open", "read"} => j.at \in Paths /\ j.list[j.at] # Blank,
         j.pc = "read" => j.fd \in Descriptors,
         occupant' = occupant, device' \in [Paths -> Sensors \cup {Blank}],
         fds' \in [Paths -> {0} \cup Descriptors],
         files' \in [Descriptors -> Sensors \cup {Shut, Gone}],
         ticks' \in 0 .. MaxSamplesS, slow' \in 0 .. MaxSamplesS,
         astray' \subseteq Sensors, mixed' \in BOOLEAN
  PROVE  SysfsBounds'
<1>1. job \in [Workers -> Jobs] /\ occupant \in [Paths -> Sensors \cup {Gone}]
  BY DEF SysfsBounds
<1>2. /\ job' \in [Workers -> Jobs] /\ job'[w] = j
      /\ \A v \in Workers \ {w} : job'[v] = job[v]
  BY <1>1
<1>3. ASSUME NEW v \in Workers
      PROVE  /\ job'[v].tick \in 0 .. MaxSamplesS
             /\ \A p \in job'[v].todo : job'[v].list[p] # Blank
             /\ job'[v].pc \in {"open", "read"} =>
                  job'[v].at \in Paths /\ job'[v].list[job'[v].at] # Blank
             /\ job'[v].pc = "read" => job'[v].fd \in Descriptors
  <2>1. CASE v = w
    BY <1>2, <2>1
  <2>2. CASE v # w
    <3>1. job'[v] = job[v]
      BY <1>2, <2>2
    <3>. QED
      BY <3>1 DEF SysfsBounds
  <2>. QED
    BY <2>1, <2>2
<1>. QED
  BY <1>1, <1>2, <1>3 DEF SysfsBounds

\* A sensor that is done leaves the worker at the next one.
LEMMA DoneBounded ==
  ASSUME SysfsBounds, NEW w \in Workers, NEW o \in [Sensors -> Sensors \cup {Blank}], Done(w, o),
         UNCHANGED <<occupant, device, slow, ticks, astray, mixed>>,
         fds' \in [Paths -> {0} \cup Descriptors],
         files' \in [Descriptors -> Sensors \cup {Shut, Gone}]
  PROVE  SysfsBounds'
<1> DEFINE j == [job[w] EXCEPT !.pc = "next", !.at = Blank, !.fd = 0, !.out = o]
<1>1. job \in [Workers -> Jobs] /\ job[w] \in Jobs
  BY DEF SysfsBounds
<1>2. job' = [job EXCEPT ![w] = j]
  BY <1>1 DEF Done
<1>3. /\ j \in Jobs /\ j.pc = "next" /\ j.tick = job[w].tick
      /\ j.list = job[w].list /\ j.todo = job[w].todo
  BY <1>1 DEF Jobs
<1>4. /\ job[w].tick \in 0 .. MaxSamplesS /\ \A p \in job[w].todo : job[w].list[p] # Blank
      /\ device \in [Paths -> Sensors \cup {Blank}] /\ astray \subseteq Sensors
      /\ ticks \in 0 .. MaxSamplesS /\ slow \in 0 .. MaxSamplesS /\ mixed \in BOOLEAN
  BY DEF SysfsBounds
<1> HIDE DEF j
<1>. QED
  BY <1>2, <1>3, <1>4, SampleBounded

LEMMA SysfsBounded ==
  ASSUME SysfsBounds, [SysfsNext]_sysfsVars
  PROVE  SysfsBounds'
<1>1. /\ occupant \in [Paths -> Sensors \cup {Gone}] /\ device \in [Paths -> Sensors \cup {Blank}]
      /\ fds \in [Paths -> {0} \cup Descriptors]
      /\ files \in [Descriptors -> Sensors \cup {Shut, Gone}]
      /\ job \in [Workers -> Jobs]
      /\ ticks \in 0 .. MaxSamplesS /\ slow \in 0 .. MaxSamplesS
      /\ astray \subseteq Sensors /\ mixed \in BOOLEAN
  BY DEF SysfsBounds
<1>2. ASSUME NEW w \in Workers
      PROVE  /\ job[w] \in Jobs /\ job[w].todo \subseteq Paths
             /\ job[w].list \in [Paths -> Sensors \cup {Blank}]
             /\ job[w].out \in [Sensors -> Sensors \cup {Blank}]
             /\ job[w].tick \in 0 .. MaxSamplesS
             /\ \A p \in job[w].todo : job[w].list[p] # Blank
             /\ job[w].pc \in {"open", "read"} =>
                  job[w].at \in Paths /\ job[w].list[job[w].at] # Blank
             /\ job[w].pc = "read" => job[w].fd \in Descriptors
  BY DEF SysfsBounds, Jobs
<1>3. CASE BeginSample
  <2>1. PICK w \in Workers, due \in BOOLEAN :
          /\ ticks < MaxSamplesS
          /\ IF due \/ Unfound THEN RefreshPaths ELSE UNCHANGED <<fds, files, device, astray>>
          /\ ticks' = ticks + 1 /\ mixed' = (mixed \/ Running # {})
          /\ job' = [job EXCEPT ![w] =
               [Parked EXCEPT !.pc = "next", !.tick = ticks', !.list = device',
                  !.todo = {p \in Paths : /\ device'[p] # Blank
                                          /\ \/ ticks' % RefreshEach = 1
                                             \/ device'[p] \notin SlowSensors}]]
          /\ UNCHANGED <<occupant, slow>>
    BY <1>3 DEF BeginSample
  <2> DEFINE todo == {p \in Paths : /\ device'[p] # Blank
                                    /\ \/ ticks' % RefreshEach = 1
                                       \/ device'[p] \notin SlowSensors}
             j == [Parked EXCEPT !.pc = "next", !.tick = ticks', !.list = device', !.todo = todo]
  <2>2. ticks' \in 0 .. MaxSamplesS /\ ticks' \in Nat
    BY <1>1, <2>1, SysfsAssumption
  <2>3. todo \subseteq Paths /\ \A p \in todo : device'[p] # Blank
    OBVIOUS
  <2>5. /\ fds' \in [Paths -> {0} \cup Descriptors]
        /\ files' \in [Descriptors -> Sensors \cup {Shut, Gone}]
        /\ device' \in [Paths -> Sensors \cup {Blank}] /\ astray' \subseteq Sensors
    <3>1. CASE due \/ Unfound
      BY <1>1, <2>1, <3>1 DEF RefreshPaths
    <3>2. CASE ~(due \/ Unfound)
      BY <1>1, <2>1, <3>2
    <3>. QED
      BY <3>1, <3>2
  <2>4. j \in Jobs /\ j.pc = "next" /\ j.tick = ticks' /\ j.list = device' /\ j.todo = todo
    <3> HIDE DEF todo
    <3>. QED
      BY <2>2, <2>3, <2>5, ParkedFits DEF ParkedIs, Jobs
  <2>6. mixed' \in BOOLEAN
    BY <1>1, <2>1
  <2>7. job' = [job EXCEPT ![w] = j]
    BY <2>1
  <2>8. occupant' = occupant /\ slow' \in 0 .. MaxSamplesS
    BY <1>1, <2>1
  <2> HIDE DEF j, todo
  <2>. QED
    BY <2>2, <2>3, <2>4, <2>5, <2>6, <2>7, <2>8, SampleBounded, ZenonT(30)
<1>4. CASE LookUp
  <2>1. PICK w \in Running, p \in Paths :
          /\ p \in job[w].todo
          /\ job' = [job EXCEPT ![w].pc = IF fds[p] = 0 THEN "open" ELSE "read",
                                ![w].at = p, ![w].fd = fds[p], ![w].todo = @ \ {p}]
          /\ UNCHANGED <<occupant, device, fds, files, slow, ticks, astray, mixed>>
    BY <1>4 DEF LookUp
  <2> DEFINE pc == IF fds[p] = 0 THEN "open" ELSE "read"
             j == [job[w] EXCEPT !.pc = pc, !.at = p, !.fd = fds[p], !.todo = @ \ {p}]
  <2>2. w \in Workers
    BY DEF Running
  <2>3. job' = [job EXCEPT ![w] = j]
    BY <1>1, <2>1, <2>2
  <2>4. /\ fds[p] \in {0} \cup Descriptors /\ pc \in {"open", "read"}
        /\ pc = "read" => fds[p] \in Descriptors
    BY <1>1
  <2>5. /\ j \in Jobs /\ j.tick = job[w].tick /\ j.at = p /\ j.fd = fds[p] /\ j.pc = pc
        /\ j.list = job[w].list /\ j.todo = job[w].todo \ {p}
    <3>1. job[w] \in Jobs /\ job[w].todo \ {p} \subseteq Paths
      BY <1>2, <2>2
    <3> HIDE DEF pc
    <3>. QED
      BY <2>4, <3>1 DEF Jobs
  <2>6. /\ j.tick \in 0 .. MaxSamplesS /\ j.at \in Paths /\ j.list[j.at] # Blank
        /\ \A q \in j.todo : j.list[q] # Blank
        /\ j.pc = "read" => j.fd \in Descriptors
    BY <1>2, <2>1, <2>2, <2>4, <2>5
  <2>7. UNCHANGED <<occupant, device, fds, files, slow, ticks, astray, mixed>>
    BY <2>1
  <2>8. /\ fds' \in [Paths -> {0} \cup Descriptors]
        /\ files' \in [Descriptors -> Sensors \cup {Shut, Gone}]
        /\ device' \in [Paths -> Sensors \cup {Blank}]
        /\ ticks' \in 0 .. MaxSamplesS /\ slow' \in 0 .. MaxSamplesS
        /\ astray' \subseteq Sensors /\ mixed' \in BOOLEAN
    BY <1>1, <2>7
  <2>9. j \in Jobs
    BY <2>5
  <2> HIDE DEF j, pc
  <2>. QED
    BY <2>2, <2>3, <2>6, <2>7, <2>8, <2>9, SampleBounded
<1>5. CASE OpenFd
  <2>1. PICK w \in Running :
          LET p == job[w].at IN
          /\ job[w].pc = "open"
          /\ IF occupant[p] # Gone /\ FreeFds # {}
             THEN /\ files' = [files EXCEPT ![FreeFd] = occupant[p]]
                  /\ fds' = [fds EXCEPT ![p] = FreeFd]
                  /\ job' = [job EXCEPT ![w].pc = "read", ![w].fd = FreeFd]
             ELSE Done(w, job[w].out) /\ UNCHANGED <<files, fds>>
          /\ UNCHANGED <<occupant, device, slow, ticks, astray, mixed>>
    BY <1>5 DEF OpenFd
  <2> DEFINE p == job[w].at
  <2>2. w \in Workers /\ p \in Paths /\ job[w] \in Jobs
    BY <1>2, <2>1 DEF Running
  <2>3. CASE occupant[p] # Gone /\ FreeFds # {}
    <3> DEFINE j == [job[w] EXCEPT !.pc = "read", !.fd = FreeFd]
    <3>1. FreeFd \in Descriptors /\ occupant[p] \in Sensors
      BY <1>1, <2>2, <2>3, LeastFree
    <3>2. job' = [job EXCEPT ![w] = j]
      BY <1>1, <2>1, <2>2, <2>3
    <3>3. /\ j \in Jobs /\ j.tick = job[w].tick /\ j.at = p /\ j.fd = FreeFd
          /\ j.list = job[w].list /\ j.todo = job[w].todo
      BY <2>2, <3>1 DEF Jobs
    <3>4. /\ fds' \in [Paths -> {0} \cup Descriptors]
          /\ files' \in [Descriptors -> Sensors \cup {Shut, Gone}]
      BY <1>1, <2>1, <2>2, <2>3, <3>1
    <3>5. job[w].list[p] # Blank
      BY <1>2, <2>1, <2>2
    <3>6. /\ occupant' = occupant /\ device' \in [Paths -> Sensors \cup {Blank}]
          /\ ticks' \in 0 .. MaxSamplesS /\ slow' \in 0 .. MaxSamplesS
          /\ astray' \subseteq Sensors /\ mixed' \in BOOLEAN
      BY <1>1, <2>1
    <3>7. /\ j.tick \in 0 .. MaxSamplesS /\ j.at \in Paths /\ j.list[j.at] # Blank
          /\ \A q \in j.todo : j.list[q] # Blank
          /\ j.fd \in Descriptors
      BY <1>2, <2>2, <3>1, <3>3, <3>5
    <3>8. j \in Jobs
      BY <3>3
    <3> HIDE DEF j, p
    <3>. QED
      BY <2>2, <3>2, <3>4, <3>6, <3>7, <3>8, SampleBounded
  <2>4. CASE ~(occupant[p] # Gone /\ FreeFds # {})
    <3>1. Done(w, job[w].out) /\ UNCHANGED <<files, fds>>
      BY <2>1, <2>4
    <3>2. UNCHANGED <<occupant, device, slow, ticks, astray, mixed>>
      BY <2>1
    <3>. QED
      BY <1>1, <1>2, <2>2, <3>1, <3>2, DoneBounded
  <2>. QED
    BY <2>3, <2>4
<1>6. CASE Pread
  <2>1. PICK w \in Running :
          LET f == files[job[w].fd]
              p == job[w].at
          IN  /\ job[w].pc = "read"
              /\ IF f \in Sensors
                 THEN /\ Done(w, [job[w].out EXCEPT ![job[w].list[p]] = f])
                      /\ UNCHANGED <<fds, files>>
                 ELSE Done(w, job[w].out) /\ Evict(p)
              /\ UNCHANGED <<occupant, device, slow, ticks, astray, mixed>>
    BY <1>6 DEF Pread
  <2> DEFINE p == job[w].at
             f == files[job[w].fd]
  <2>2. w \in Workers /\ p \in Paths
    BY <1>2, <2>1 DEF Running
  <2>5. UNCHANGED <<occupant, device, slow, ticks, astray, mixed>>
    BY <2>1
  <2>3. CASE f \in Sensors
    <3> DEFINE o == [job[w].out EXCEPT ![job[w].list[p]] = f]
    <3>1. Done(w, o) /\ UNCHANGED <<fds, files>>
      BY <2>1, <2>3
    <3>2. o \in [Sensors -> Sensors \cup {Blank}]
      BY <1>2, <2>2, <2>3
    <3>3. /\ fds' \in [Paths -> {0} \cup Descriptors]
          /\ files' \in [Descriptors -> Sensors \cup {Shut, Gone}]
      BY <1>1, <3>1
    <3> HIDE DEF o
    <3>. QED
      BY <2>2, <2>5, <3>1, <3>2, <3>3, DoneBounded
  <2>4. CASE f \notin Sensors
    <3>1. Done(w, job[w].out) /\ Evict(p)
      BY <2>1, <2>4
    <3>2. /\ fds' \in [Paths -> {0} \cup Descriptors]
          /\ files' \in [Descriptors -> Sensors \cup {Shut, Gone}]
      <4>1. fds[p] # 0 => fds[p] \in Descriptors
        BY <1>1, <2>2
      <4>. QED
        BY <1>1, <2>2, <3>1, <4>1 DEF Evict
    <3>. QED
      BY <1>2, <2>2, <2>5, <3>1, <3>2, DoneBounded
  <2>. QED
    BY <2>3, <2>4
<1>7. CASE EndSample
  <2>1. PICK w \in Running :
          /\ slow' = IF job[w].tick % RefreshEach = 1 THEN job[w].tick ELSE slow
          /\ job' = [job EXCEPT ![w] = Parked]
          /\ UNCHANGED <<occupant, device, fds, files, ticks, astray, mixed>>
    BY <1>7 DEF EndSample
  <2>2. w \in Workers
    BY DEF Running
  <2>3. slow' \in 0 .. MaxSamplesS /\ 0 \in 0 .. MaxSamplesS
    BY <1>1, <1>2, <2>1, <2>2, SysfsAssumption
  <2>. QED
    BY <1>1, <2>1, <2>2, <2>3, SampleBounded, ParkedFits DEF ParkedIs
<1>8. CASE Unplug
  <2>1. PICK p \in Paths :
          /\ occupant' = [occupant EXCEPT ![p] = Gone]
          /\ files' = [d \in Descriptors |-> IF files[d] = occupant[p] THEN Gone ELSE files[d]]
          /\ UNCHANGED <<device, fds, job, slow, ticks, astray, mixed>>
    BY <1>8 DEF Unplug
  <2>2. /\ occupant' \in [Paths -> Sensors \cup {Gone}]
        /\ files' \in [Descriptors -> Sensors \cup {Shut, Gone}]
    BY <1>1, <2>1
  <2>. QED
    BY <1>1, <2>1, <2>2 DEF SysfsBounds
<1>9. CASE Replug
  <2>1. PICK p \in Paths, s \in Sensors :
          /\ occupant' = [occupant EXCEPT ![p] = s]
          /\ astray' = astray \cup ({device[p]} \ {s, Blank})
          /\ UNCHANGED <<device, fds, files, job, slow, ticks, mixed>>
    BY <1>9 DEF Replug
  <2>2. occupant' \in [Paths -> Sensors \cup {Gone}] /\ astray' \subseteq Sensors
    BY <1>1, <2>1
  <2>. QED
    BY <1>1, <2>1, <2>2 DEF SysfsBounds
<1>10. CASE UNCHANGED sysfsVars
  BY <1>10 DEF sysfsVars, SysfsBounds
<1>. QED
  BY <1>3, <1>4, <1>5, <1>6, <1>7, <1>8, <1>9, <1>10 DEF SysfsNext

LEMMA SysfsTyped == SysfsInit /\ [][SysfsNext]_sysfsVars => []SysfsTypeOK
<1>1. SysfsInit => SysfsBounds
  <2> SUFFICES ASSUME SysfsInit PROVE SysfsBounds
    OBVIOUS
  <2>1. 0 \in 0 .. MaxSamplesS
    BY SysfsAssumption
  <2>2. job \in [Workers -> Jobs] /\ \A w \in Workers : job[w] = Parked
    BY ParkedFits DEF SysfsInit, ParkedIs
  <2>3. /\ occupant \in [Paths -> Sensors \cup {Gone}] /\ fds \in [Paths -> {0} \cup Descriptors]
        /\ files \in [Descriptors -> Sensors \cup {Shut, Gone}]
        /\ device \in [Paths -> Sensors \cup {Blank}]
    BY ParkedFits DEF SysfsInit, ParkedIs
  <2>4. /\ ticks \in 0 .. MaxSamplesS /\ slow \in 0 .. MaxSamplesS
        /\ astray \subseteq Sensors /\ mixed \in BOOLEAN
    BY <2>1 DEF SysfsInit
  <2>. QED
    BY <2>1, <2>2, <2>3, <2>4, ParkedFits DEF SysfsBounds, ParkedIs
<1>2. SysfsBounds => SysfsTypeOK
  BY DEF SysfsBounds, SysfsTypeOK, Jobs
<1>. QED
  BY <1>1, <1>2, SysfsBounded, PTL


Plans ==
  [facet : {"none", "desktop", "server", "ambiguous"}, install : SUBSET Packages,
   promised : SUBSET (Collectors \cup Actuators), enable : {"unset", "false"},
   pointers : SUBSET {"asusctl", "ryzenadj", "nct6687", "perf_paranoid", "rapl_perm",
                      "bpftrace", "ipmitool_server"}]

\* Whatever the capabilities, the plan has the parts a plan has.
LEMMA PlansAre ==
  ASSUME NEW c, NEW target \in {"auto", "desktop", "server"}
  PROVE  PlanOf(c, target) \in Plans
<1> DEFINE facet == IF target = "auto" THEN Facet(c) ELSE target
<1>1. facet \in {"none", "desktop", "server", "ambiguous"}
  BY FacetIs
<1>2. {p \in Wants(c) : Packaged(p, c.clan)} \in SUBSET Packages
  BY DEF Wants
<1>3. PromisedCollectors(c) \cup PromisedActuators(c) \in SUBSET (Collectors \cup Actuators)
  BY DEF PromisedCollectors, PromisedActuators
<1>4. Suggested(c, facet) \in {"unset", "false"}
  BY DEF Suggested
<1>5. Pointers(c) \in SUBSET {"asusctl", "ryzenadj", "nct6687", "perf_paranoid", "rapl_perm",
                              "bpftrace", "ipmitool_server"}
  BY DEF Pointers
<1>6. PlanOf(c, target) =
        [facet |-> facet, install |-> {p \in Wants(c) : Packaged(p, c.clan)},
         promised |-> PromisedCollectors(c) \cup PromisedActuators(c),
         enable |-> Suggested(c, facet), pointers |-> Pointers(c)]
  BY DEF PlanOf
<1> HIDE DEF facet
<1>. QED
  BY <1>1, <1>2, <1>3, <1>4, <1>5, <1>6 DEF Plans

\* With what AdviceInv says of the rest.
PlanTyped ==
  /\ AdviceInv /\ plan \in Plans /\ first \in Plans
  /\ enable \in {"unset", "false", "true"}
  /\ started = Down \/ started \subseteq Collectors \cup Actuators

LEMMA InstallTyped == InstallInit /\ [][InstallNext]_planVars => []InstallTypeOK
<1>1. InstallInit => PlanTyped
  <2>1. NoPlan \in Plans
    BY DEF NoPlan, Plans
  <2>. QED
    BY <2>1, AdviceInits DEF InstallInit, PlanTyped
<1>2. PlanTyped /\ [InstallNext]_planVars => PlanTyped'
  <2> SUFFICES ASSUME PlanTyped, [InstallNext]_planVars PROVE PlanTyped'
    OBVIOUS
  <2>1. AdviceInv' /\ AdviceInv
    BY AdviceStep DEF PlanTyped
  <2>2. CASE Compat
    <3>1. plan' \in Plans
      BY <2>1, <2>2, PlansAre DEF Compat, AdviceInv
    <3>2. first' \in Plans
      BY <2>2, <3>1 DEF Compat, PlanTyped
    <3>. QED
      BY <2>1, <2>2, <3>1, <3>2 DEF Compat, PlanTyped
  <2>3. CASE StartDaemon
    <3>1. started' \subseteq Collectors \cup Actuators
      BY <2>3, ProbedAre DEF StartDaemon, Discovered
    <3>. QED
      BY <2>1, <2>3, <3>1 DEF StartDaemon, PlanTyped
  <2>4. ASSUME NEW p \in Packages, Follow(p) PROVE PlanTyped'
    BY <2>1, <2>4 DEF Follow, PlanTyped
  <2>5. ASSUME NEW e \in {"unset", "false", "true"}, Configure(e) PROVE PlanTyped'
    BY <2>1, <2>5 DEF Configure, PlanTyped
  <2>6. CASE UNCHANGED planVars
    BY <2>1, <2>6 DEF planVars, PlanTyped
  <2>. QED
    BY <2>2, <2>3, <2>4, <2>5, <2>6 DEF InstallNext
<1>3. PlanTyped => InstallTypeOK
  <2> SUFFICES ASSUME PlanTyped PROVE InstallTypeOK
    OBVIOUS
  <2>1. {plan, first} \subseteq Plans
    BY DEF PlanTyped
  <2>2. HostOK(host) /\ asked \in {"auto", "desktop", "server"} /\ followed \subseteq Packages
    BY DEF PlanTyped, AdviceInv
  <2>. QED
    BY <2>1, <2>2 DEF PlanTyped, InstallTypeOK, Plans
<1>. QED
  BY <1>1, <1>2, <1>3, PTL

\* Whatever is interrupted, overlaps or comes late, the hot record, the readings of the
\* collectors, the bodies the endpoints keep and the plans stay of their kinds, with no
\* time ahead of the clock: mmap_writer and mmap_reader, _read_with_timeout and the
\* collectors, the caches of dashboard/server.py, and caps_to_install_plan.
THEOREM TelemetryWellTyped ==
  /\ HotInit /\ PolledInit /\ SysfsInit /\ StreamedInit /\ EnergyInit /\ EndpointInit
  /\ InstallInit
  /\ [][HotNext]_hotVars /\ [][PolledNext]_polledVars /\ [][SysfsNext]_sysfsVars
  /\ [][StreamedNext]_streamedVars /\ [][EnergyNext]_energyVars
  /\ [][EndpointNext]_endpointVars /\ [][InstallNext]_planVars
  => []WellTyped
<1>1. /\ HotTypeOK /\ PolledTypeOK /\ SysfsTypeOK /\ StreamedTypeOK /\ EnergyTypeOK
      /\ EndpointTypeOK /\ InstallTypeOK
      => WellTyped
  BY DEF WellTyped
<1>. QED
  BY <1>1, HotTyped, PolledTyped, SysfsTyped, StreamedTyped, EnergyTyped, EndpointTyped,
     InstallTyped, PTL


\* A run of the machines one at a time is a run of each.
machines ==
  <<machine, hotVars, polledVars, sysfsVars, streamedVars, energyVars, endpointVars, planVars>>

LEMMA EachMachineRuns ==
  MCInit /\ [][MCNext]_machines =>
    /\ HotInit /\ PolledInit /\ SysfsInit /\ StreamedInit /\ EnergyInit /\ EndpointInit
    /\ InstallInit
    /\ [][HotNext]_hotVars /\ [][PolledNext]_polledVars /\ [][SysfsNext]_sysfsVars
    /\ [][StreamedNext]_streamedVars /\ [][EnergyNext]_energyVars
    /\ [][EndpointNext]_endpointVars /\ [][InstallNext]_planVars
<1>1. MCInit => /\ HotInit /\ PolledInit /\ SysfsInit /\ StreamedInit /\ EnergyInit
                /\ EndpointInit /\ InstallInit
  BY DEF MCInit
<1>2. [MCNext]_machines =>
        /\ [HotNext]_hotVars /\ [PolledNext]_polledVars /\ [SysfsNext]_sysfsVars
        /\ [StreamedNext]_streamedVars /\ [EnergyNext]_energyVars
        /\ [EndpointNext]_endpointVars /\ [InstallNext]_planVars
  BY DEF MCNext, machines
<1>. QED
  BY <1>1, <1>2, PTL

\* The run of Telemetry.cfg, with whatever constants: the machines' theorems together.
THEOREM TelemetrySound ==
  MCInit /\ [][MCNext]_machines =>
    /\ [](WellTyped /\ ReadsWhole /\ ServedFresh /\ ReadingsTrue /\ EndpointsSound)
    /\ PlanSound
BY EachMachineRuns, TelemetryWellTyped, RecordsWhole, AnswersFresh, ReadingsHold,
   EndpointsKept, PlanIsSound, PTL
===============================================================================
