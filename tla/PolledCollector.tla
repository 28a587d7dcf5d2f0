---------------------------- MODULE PolledCollector ----------------------------
(***************************************************************************)
(* A collector that asks someone else (hyprctl, the session bus, a BMC by  *)
(* Redfish or IPMI) and keeps the last answer.  Each tick of the daemon    *)
(* runs sample() in a thread of the default pool and waits a while for it; *)
(* a thread that is late runs on, its result is dropped, but what it puts  *)
(* in the cache stays, and the next ticks start samples beside it.         *)
(***************************************************************************)
EXTENDS Integers

CONSTANTS
  Kinds,      \* subset of {"hyprctl", "dbus", "bmc"}
  Sigs,       \* sessions that can be live
  NoSig, NoAnswer,
  CacheSec,   \* CACHE_SEC, _CACHE_SEC, _interval
  PoolSlots,  \* threads of the pool
  MaxClock    \* BOUND: end of time

ASSUME PolledAssumption ==
  /\ Kinds \subseteq {"hyprctl", "dbus", "bmc"} /\ NoSig \notin Sigs
  /\ CacheSec \in Nat \ {0} /\ PoolSlots \in Nat /\ MaxClock \in Nat

VARIABLES
  kind,    \* which collector this is
  clock,
  session, \* the live session, NoSig if none; for a BMC there is just one
  cache,   \* the cached answer and its time: [val, at]
  heard,   \* _env_alive and _last_sig
  threads, \* the samples that are out
  waiting, \* the one the daemon waits for, 0 if none
  frame,   \* what the last sample put into the frame
  lapped   \* history: a sample was started while another was out

polledVars == <<kind, clock, session, cache, heard, threads, waiting, frame, lapped>>

Nothing == [val |-> NoAnswer, at |-> 0]
Rest    == [out |-> FALSE, began |-> 0, sig |-> NoSig]
Answers == Sigs \cup {NoAnswer}

PolledTypeOK ==
  /\ kind \in Kinds /\ clock \in 0 .. MaxClock /\ session \in Sigs \cup {NoSig}
  /\ cache \in [val : Answers, at : 0 .. MaxClock]
  /\ heard \in [alive : BOOLEAN, sig : Sigs \cup {NoSig}]
  /\ threads \in [1 .. PoolSlots ->
                    [out : BOOLEAN, began : 0 .. MaxClock, sig : Sigs \cup {NoSig}]]
  /\ waiting \in 0 .. PoolSlots /\ lapped \in BOOLEAN
  /\ frame \in [val : Answers, at : 0 .. MaxClock, sig : Sigs \cup {NoSig},
                began : 0 .. MaxClock]

PolledInit ==
  /\ kind \in Kinds /\ clock = 0 /\ session \in Sigs /\ cache = Nothing
  /\ heard = [alive |-> FALSE, sig |-> NoSig]
  /\ threads = [t \in 1 .. PoolSlots |-> Rest] /\ waiting = 0
  /\ frame = [val |-> NoAnswer, at |-> 0, sig |-> NoSig, began |-> 0]
  /\ lapped = FALSE

-----------------------------------------------------------------------------

Out == {t \in 1 .. PoolSlots : threads[t].out}

\* hyprctl's sample before it asks: the cache goes dark with the session and is
\* dropped when another session is live.
Dropped ==
  IF kind = "hyprctl" /\ \/ heard.alive /\ session = NoSig
                         \/ session # NoSig /\ heard.sig \notin {NoSig, session}
  THEN Nothing ELSE cache

Heard ==
  IF kind # "hyprctl" THEN heard
  ELSE [alive |-> session # NoSig, sig |-> IF session = NoSig THEN heard.sig ELSE session]

\* How old a cached answer may be when it is served without asking, and when
\* the one who was asked did not answer.
FreshFor == CacheSec
StaleFor == 3 * CacheSec

Serves(c, began) ==
  frame' = [val |-> c.val, at |-> c.at, began |-> began, sig |-> session]

\* A tick: the sample finds the session dark, serves the cache or asks; without
\* a free thread it is queued until the daemon stops waiting.
PollTick ==
  /\ waiting = 0 /\ Out # 1 .. PoolSlots
  /\ LET c == Dropped IN
     /\ heard' = Heard /\ cache' = c
     /\ IF kind = "hyprctl" /\ session = NoSig
        THEN Serves(Nothing, clock) /\ UNCHANGED <<threads, waiting, lapped>>
        ELSE IF c.val # NoAnswer /\ clock - c.at < FreshFor
        THEN Serves(c, clock) /\ UNCHANGED <<threads, waiting, lapped>>
        ELSE \E t \in (1 .. PoolSlots) \ Out :
               /\ \A u \in (1 .. PoolSlots) \ Out : t <= u
               /\ threads' = [threads EXCEPT ![t] =
                                [out |-> TRUE, began |-> clock, sig |-> session]]
               /\ waiting' = t /\ lapped' = (lapped \/ Out # {})
               /\ UNCHANGED frame
  /\ UNCHANGED <<kind, clock, session>>

\* The end of a sample: the daemon takes what it returns if it still waits.
Ends(t, c, returned) ==
  /\ threads' = [threads EXCEPT ![t] = Rest]
  /\ cache' = c
  /\ IF waiting = t
     THEN /\ waiting' = 0
          /\ frame' = [val |-> returned.val, at |-> returned.at,
                       began |-> threads[t].began, sig |-> threads[t].sig]
     ELSE UNCHANGED <<waiting, frame>>
  /\ UNCHANGED <<kind, clock, session, heard, lapped>>

\* An answer comes from the session that was asked, if it is still there.
Answered ==
  \E t \in Out :
    /\ kind = "hyprctl" => threads[t].sig = session
    /\ session # NoSig
    /\ LET c == [val |-> session, at |-> threads[t].began] IN Ends(t, c, c)

\* Without an age limit on what is served in place of an answer.
UnansweredMutant ==
  \E t \in Out : Ends(t, cache, cache)

\* No answer: hyprctl serves its cache while it is not too old, a BMC collector
\* as long as it lasts, and the session bus collector caches that there is none; so
\* does a BMC collector when the BMC turned every request down or listed nothing.
\* What it got of an answer turned down in part counts as the answer.
Unanswered ==
  \E t \in Out :
    LET none == [val |-> NoAnswer, at |-> threads[t].began] IN
    \/ /\ kind = "hyprctl"
       /\ Ends(t, cache, IF threads[t].began - cache.at < StaleFor THEN cache ELSE Nothing)
    \/ kind \in {"dbus", "bmc"} /\ Ends(t, none, none)
    \/ kind = "bmc" /\ Ends(t, cache, cache)

\* _sample_with_timeout gives up.
GiveUp ==
  /\ waiting # 0 /\ waiting' = 0
  /\ UNCHANGED <<kind, clock, session, cache, heard, threads, frame, lapped>>

SessionChanges ==
  /\ kind # "bmc" /\ session' \in (Sigs \cup {NoSig}) \ {session}
  /\ UNCHANGED <<kind, clock, cache, heard, threads, waiting, frame, lapped>>

PollClock ==
  /\ clock < MaxClock /\ clock' = clock + 1
  /\ UNCHANGED <<kind, session, cache, heard, threads, waiting, frame, lapped>>

PolledNext ==
  PollTick \/ Answered \/ Unanswered \/ GiveUp \/ SessionChanges \/ PollClock

-----------------------------------------------------------------------------

\* What a sample puts into the frame was asked for less than three cache times
\* before the sample began (one for the session bus), however late the answers
\* come, and, as long as no sample overtook another, it is the windows of the
\* session that was live when the sample began.  A BMC's last answer is served
\* without a limit when it does not answer any more.
ServedFresh ==
  frame.val # NoAnswer =>
    /\ kind = "hyprctl" => frame.began - frame.at < StaleFor
    /\ kind = "dbus"    => frame.began - frame.at < FreshFor
    /\ (kind = "hyprctl" /\ ~lapped) => frame.val = frame.sig
================================================================================
