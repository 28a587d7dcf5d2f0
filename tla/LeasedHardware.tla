---------------------------- MODULE LeasedHardware ----------------------------
(***************************************************************************)
(* What the safety belt promises, without its loops, its file and its      *)
(* cleanup script: hardware is biased under a lease, which runs out in     *)
(* time, is renewed near its end only, and which a death of the daemon     *)
(* neither prolongs nor, unless a write was going on or had failed,        *)
(* forgets.                                                                *)
(***************************************************************************)
EXTENDS Integers

CONSTANTS
  Actuator, Verb, NoVerb,
  Serves,    \* Serves[v]: the actuator verb v biases
  Duration,  \* Duration[v]: the term of a lease for v
  Gap,       \* a lease that has more than this to run is not renewed
  Recover,   \* a lease that has less to run is ended by the next start
  Floor      \* the latest a running daemon ends a lease

VARIABLES
  up,       \* the daemon runs
  lease,    \* lease[a]: the verb a is biased for, and the time left
  biased,   \* actuators that do not hold the user's setting
  asked,    \* the verb that is being written to its actuator
  leftover, \* leases a start found near their end
  safe      \* no write of the leases is going on or has failed

vars == <<up, lease, biased, asked, leftover, safe>>

NoLease == [verb |-> NoVerb, ttl |-> 0]
Nothing == [a \in Actuator |-> NoLease]
On(a)   == lease[a].verb # NoVerb

\* The leases actuator a may have.
Terms(a) ==
  {l \in [verb : {v \in Verb : Serves[v] = a}, ttl : Int] : l.ttl <= Duration[l.verb]}

Init ==
  /\ up = TRUE /\ lease = Nothing /\ biased = {}
  /\ asked = NoVerb /\ leftover = {} /\ safe = TRUE

\* The bias is written, perhaps in vain.
Ask(v) ==
  /\ up /\ asked = NoVerb /\ leftover = {}
  /\ ~(On(Serves[v]) /\ lease[Serves[v]].ttl > Gap)
  /\ asked' = v
  /\ biased' \in {biased, biased \cup {Serves[v]}}
  /\ UNCHANGED <<up, lease, leftover, safe>>

\* A bias that was written gets its lease, for the full term ...
Grant ==
  /\ asked # NoVerb /\ asked' = NoVerb
  /\ lease' = [lease EXCEPT ![Serves[asked]] = [verb |-> asked, ttl |-> Duration[asked]]]
  /\ safe' = FALSE
  /\ UNCHANGED <<up, biased, leftover>>

\* ... or an error is reported and there is none.
Refuse ==
  /\ asked # NoVerb /\ asked' = NoVerb
  /\ UNCHANGED <<up, lease, biased, leftover, safe>>

\* A lease ends, and with it the bias unless the revert fails.
End(a) ==
  /\ up /\ On(a) /\ asked = NoVerb
  /\ lease' = [lease EXCEPT ![a] = NoLease]
  /\ biased' \in {biased, biased \ {a}}
  /\ leftover' = leftover \ {a}
  /\ UNCHANGED <<up, asked, safe>>

Save ==
  /\ up /\ asked = NoVerb /\ leftover = {}
  /\ safe' = ~safe
  /\ UNCHANGED <<up, lease, biased, asked, leftover>>

\* Time passes.  A running daemon lets no lease but a leftover one pass the floor.
\* BOUND: a ttl stops counting one below the floor.
Elapse ==
  /\ asked = NoVerb
  /\ lease' = [a \in Actuator |->
                 IF On(a) /\ lease[a].ttl >= Floor THEN [lease[a] EXCEPT !.ttl = @ - 1]
                 ELSE lease[a]]
  /\ up => \A a \in Actuator \ leftover : On(a) => lease'[a].ttl >= Floor
  /\ UNCHANGED <<up, biased, asked, leftover, safe>>

\* The daemon stops, having ended every lease.
Stop ==
  /\ up /\ lease = Nothing /\ asked = NoVerb
  /\ up' = FALSE /\ safe' = TRUE
  /\ UNCHANGED <<lease, biased, asked, leftover>>

\* The daemon is killed.  What is safe survives as it is; a lease that had ended may be
\* back, for no longer than its term.
Die ==
  /\ up /\ up' = FALSE
  /\ \A a \in Actuator :
       IF ~safe THEN lease'[a] = NoLease
       ELSE IF On(a) THEN lease'[a] = lease[a] ELSE lease'[a] \in Terms(a) \cup {NoLease}
  /\ lease' = [a \in Actuator |-> lease'[a]]
  /\ asked' = NoVerb /\ leftover' = {} /\ safe' = TRUE
  /\ UNCHANGED biased

\* The cleanup script takes biases back and forgets every lease.
CleanUp ==
  /\ ~up /\ lease' = Nothing /\ biased' \subseteq biased
  /\ UNCHANGED <<up, asked, leftover, safe>>

\* A start takes the leases over as they are.
Start ==
  /\ ~up /\ up' = TRUE
  /\ leftover' = {a \in Actuator : On(a) /\ lease[a].ttl < Recover}
  /\ UNCHANGED <<lease, biased, asked, safe>>

Next ==
  \/ \E v \in Verb : Ask(v)
  \/ Grant \/ Refuse \/ Save \/ Elapse \/ Stop \/ Die \/ CleanUp \/ Start
  \/ \E a \in Actuator : End(a)

Spec == Init /\ [][Next]_vars
================================================================================
