----------------------------- MODULE EndpointCache -----------------------------
(***************************************************************************)
(* An endpoint of the dashboard: requests of many tiles interleave on one  *)
(* event loop, the body is computed in a thread and kept for a while.  The *)
(* costly endpoints take an asyncio lock first and look again; calibration *)
(* prefers the daemon's own report while that is not too old.  The warm-up *)
(* computes three of them once more: calibration under its lock, adapters  *)
(* and discoveries without a look at cache or lock.                        *)
(***************************************************************************)
EXTENDS Integers, Sequences

CONSTANTS
  Endpoints,     \* subset of {"plain", "adapters", "efficiency", "calibration",
                 \* "discoveries"}
  Requests,      \* requests
  KeptFor,       \* ttl_sec
  ReportMaxAge,  \* _DAEMON_CALIBRATION_MAX_AGE_SEC
  MaxServe       \* BOUND: end of time

ASSUME EndpointAssumption ==
  /\ Endpoints \subseteq {"plain", "adapters", "efficiency", "calibration", "discoveries"}
  /\ KeptFor \in Nat \ {0} /\ ReportMaxAge \in Nat /\ MaxServe \in Nat
  /\ "nobody" \notin Requests

Warm   == "warm" \* the warm-up, a requester of its own
Askers == Requests \cup {Warm}
Nobody == "nobody"

VARIABLES
  endpoint, \* which endpoint this is
  serveAt,  \* time.monotonic()
  kept,     \* the cache: when its body was begun and the time it is stamped with
  asker,    \* the requests that are out
  holder,   \* who has the lock
  queue,    \* who waits for it, in order
  report,   \* when the daemon last wrote its report, -1 if never
  reply,    \* the last answer: where its body is from, how old it is
  longest,  \* history: the longest computation
  twice     \* history: a computation began in the window of the one before

endpointVars ==
  <<endpoint, serveAt, kept, asker, holder, queue, report, reply, longest, twice>>

NoBody == [born |-> -1, stamp |-> -1]

EndpointTypeOK ==
  /\ endpoint \in Endpoints /\ serveAt \in 0 .. MaxServe
  /\ kept \in [born : -1 .. MaxServe, stamp : -1 .. MaxServe]
  /\ asker \in [Askers -> [pc : {"none", "waits", "computes", "warmed"},
                           began : 0 .. MaxServe]]
  /\ holder \in Askers \cup {Nobody} /\ queue \in Seq(Askers)
  /\ report \in -1 .. MaxServe /\ longest \in 0 .. MaxServe /\ twice \in BOOLEAN
  /\ reply \in [from : {"none", "cache", "own", "daemon"}, age : 0 .. MaxServe]

EndpointInit ==
  /\ endpoint \in Endpoints /\ serveAt = 0 /\ kept = NoBody
  /\ asker = [a \in Askers |-> [pc |-> "none", began |-> 0]]
  /\ holder = Nobody /\ queue = <<>> /\ report = -1
  /\ reply = [from |-> "none", age |-> 0] /\ longest = 0 /\ twice = FALSE

-----------------------------------------------------------------------------

Locked       == endpoint \in {"efficiency", "calibration"}
StampedEarly == endpoint \in {"calibration", "discoveries"}
Warmed       == endpoint \in {"adapters", "calibration", "discoveries"}
Hit          == kept.born # -1 /\ serveAt - kept.stamp < KeptFor

\* A request is over; the warm-up does not come again.
Left(a) ==
  asker' = [asker EXCEPT ![a] = [pc |-> IF a = Warm THEN "warmed" ELSE "none",
                                 began |-> 0]]

\* The warm-up answers nobody.
Served(a, born, from) ==
  /\ Left(a)
  /\ reply' = IF a = Warm THEN reply ELSE [from |-> from, age |-> serveAt - born]

Computes(a) ==
  /\ asker' = [asker EXCEPT ![a] = [pc |-> "computes", began |-> serveAt]]
  /\ UNCHANGED reply

\* The lock is taken and the cache not looked at again.
LockTakenMutant(a) == Computes(a) /\ holder' = a

\* The lock is taken: someone may have computed the body meanwhile.
LockTaken(a) ==
  IF Hit THEN Served(a, kept.born, "cache") /\ holder' = Nobody
  ELSE Computes(a) /\ holder' = a

ReportGood == report # -1 /\ serveAt - report <= ReportMaxAge

\* A request, or a thread of the warm-up, up to its first await.
Ask ==
  \E a \in Askers :
    /\ asker[a].pc = "none" /\ (a = Warm => Warmed)
    /\ IF a # Warm /\ endpoint = "calibration" /\ ReportGood
       THEN Served(a, report, "daemon") /\ UNCHANGED <<holder, queue>>
       ELSE IF Hit /\ a # Warm
       THEN Served(a, kept.born, "cache") /\ UNCHANGED <<holder, queue>>
       ELSE IF ~Locked THEN Computes(a) /\ UNCHANGED <<holder, queue>>
       ELSE IF holder = Nobody /\ queue = <<>>
       THEN LockTaken(a) /\ UNCHANGED queue
       ELSE /\ asker' = [asker EXCEPT ![a].pc = "waits"]
            /\ queue' = Append(queue, a) /\ UNCHANGED <<holder, reply>>
    /\ UNCHANGED <<endpoint, serveAt, kept, report, longest, twice>>

\* The first in the queue gets the lock.
NextAsker ==
  /\ holder = Nobody /\ queue # <<>>
  /\ LockTaken(Head(queue)) /\ queue' = Tail(queue)
  /\ UNCHANGED <<endpoint, serveAt, kept, report, longest, twice>>

Released(a) == holder' = IF holder = a THEN Nobody ELSE holder

\* The body is there; the warm-up stamps at the end whatever the endpoint.
Put ==
  \E a \in Askers :
    /\ asker[a].pc = "computes"
    /\ LET began == asker[a].began
           took  == serveAt - began
       IN  /\ kept' = [born |-> began,
                       stamp |-> IF StampedEarly /\ a # Warm THEN began ELSE serveAt]
           /\ longest' = IF took > longest THEN took ELSE longest
           /\ twice' = (twice \/ (kept.born # -1 /\ began - kept.born < KeptFor))
           /\ Served(a, began, "own")
    /\ Released(a)
    /\ UNCHANGED <<endpoint, serveAt, queue, report>>

\* The computation raises: the lock is released, the cache is as it was.
ComputeFails ==
  \E a \in Askers :
    /\ asker[a].pc = "computes" /\ Left(a) /\ Released(a)
    /\ UNCHANGED <<endpoint, serveAt, kept, queue, report, reply, longest, twice>>

DaemonReports ==
  /\ endpoint = "calibration" /\ report' = serveAt
  /\ UNCHANGED <<endpoint, serveAt, kept, asker, holder, queue, reply, longest, twice>>

ServeClock ==
  /\ serveAt < MaxServe /\ serveAt' = serveAt + 1
  /\ UNCHANGED <<endpoint, kept, asker, holder, queue, report, reply, longest, twice>>

EndpointNext ==
  \/ Ask \/ NextAsker \/ Put \/ ComputeFails \/ DaemonReports \/ ServeClock

-----------------------------------------------------------------------------

\* However requests interleave, answers come late and computations fail: of a
\* costly endpoint one computation runs at a time, and those that succeed begin
\* a cache time apart (the comments at the two locks: one compute per window, the
\* rest is served from the cache, which for calibration means while a computation
\* is shorter than the cache time); what a request gets from the cache is not older
\* than the cache time and, where the body is stamped at its end, as the warm-up
\* always does, the longest computation.
EndpointsSound ==
  /\ Locked => /\ ~twice
               /\ \A a, b \in Askers :
                    asker[a].pc = "computes" /\ asker[b].pc = "computes" => a = b
  /\ reply.from = "cache" =>
       reply.age < KeptFor + (IF StampedEarly /\ asker[Warm].pc = "none"
                              THEN 0 ELSE longest)
================================================================================
