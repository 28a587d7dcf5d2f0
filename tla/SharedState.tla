------------------------------ MODULE SharedState ------------------------------
(***************************************************************************)
(* runtime-state.json as the channel between two processes: the daemon     *)
(* rewrites the whole file from memory, the dashboard's POST /api/mode     *)
(* reads it, changes one field and writes it back.  Neither locks it, and  *)
(* both truncate before they write.                                        *)
(***************************************************************************)
EXTENDS Integers

CONSTANTS
  Mode,     \* VALID_MODES
  Default,  \* DEFAULT_MODE
  Off,      \* the mode that blocks every actionable verb
  Lease     \* actuators that may be armed

ASSUME ModeAssumption == Default \in Mode /\ Off \in Mode

VARIABLES
  phase,    \* where the daemon is: asleep, in its tick, writing the file, or dead
  next,     \* the phase that follows the write
  mode,     \* _mode
  armed,    \* keys of _armed_actions
  file,     \* what reading runtime-state.json yields
  post,     \* the POST the dashboard is serving
  intent,   \* history: the mode last requested and answered 200
  touched,  \* history: the dashboard has written since the daemon last did
  spoilt,   \* history: the daemon's last write failed or met the dashboard's
  seen,     \* history: the daemon has read the file since that answer
  lost      \* history: the daemon has overwritten that mode unread, or died writing

vars == <<phase, next, mode, armed, file, post, intent, touched, spoilt, seen, lost>>

\* A truncated or garbled file: json.loads fails.
Torn    == [mode |-> "torn", armed |-> {}]
Content == [mode : Mode \cup {"none"}, armed : SUBSET Lease]
NoPost  == [step |-> "idle", target |-> Default, copy |-> Torn]

TypeOK ==
  /\ phase \in {"asleep", "reload", "work", "open", "fill", "dead"}
  /\ next \in {"work", "asleep", "dead"}
  /\ mode \in Mode /\ intent \in Mode
  /\ armed \subseteq Lease
  /\ file \in Content \cup {Torn}
  /\ post \in [step : {"idle", "read", "open"}, target : Mode,
               copy : Content \cup {Torn}]
  /\ touched \in BOOLEAN /\ spoilt \in BOOLEAN
  /\ seen \in BOOLEAN /\ lost \in BOOLEAN

Init ==
  /\ phase = "asleep" /\ next = "asleep"
  /\ mode = Default /\ armed = {}
  /\ file = [mode |-> Default, armed |-> {}]
  /\ post = NoPost
  /\ intent = Default /\ touched = FALSE /\ spoilt = FALSE
  /\ seen = TRUE /\ lost = FALSE

\* str(data.get("mode") or DEFAULT_MODE)
ModeOf(content) == IF content.mode \in Mode THEN content.mode ELSE Default

\* A write lands on a file its writer truncated.  If the other process has written
\* meanwhile, the tail of the longer text survives and may garble it.
Landed(content) == IF file = Torn THEN {content} ELSE {content, Torn}

-----------------------------------------------------------------------------
(* The daemon.                                                             *)

Wake ==
  /\ phase = "asleep" /\ phase' = "reload"
  /\ UNCHANGED <<next, mode, armed, file, post, intent, touched, spoilt, seen, lost>>

\* Mutant: an unreadable file resets the mode.
ReloadTornMutant ==
  /\ phase = "reload"
  /\ mode' = ModeOf(file)
  /\ seen' = (seen \/ file # Torn)
  /\ phase' = "work"
  /\ UNCHANGED <<next, armed, file, post, intent, touched, spoilt, lost>>

\* Mutant: the stored mode is taken without the check against VALID_MODES.
ReloadUncheckedMutant ==
  /\ phase = "reload"
  /\ mode' = file.mode
  /\ seen' = (seen \/ file # Torn)
  /\ phase' = "work"
  /\ UNCHANGED <<next, armed, file, post, intent, touched, spoilt, lost>>

\* Mutant: the mode is read at start-up only.
ReloadNeverMutant ==
  /\ phase = "reload"
  /\ seen' = (seen \/ file # Torn)
  /\ phase' = "work"
  /\ UNCHANGED <<next, mode, armed, file, post, intent, touched, spoilt, lost>>

\* _reload_mode_from_state: a file that does not parse leaves the mode alone.
Reload ==
  /\ phase = "reload"
  /\ mode' = IF file = Torn THEN mode ELSE ModeOf(file)
  /\ seen' = (seen \/ file # Torn)
  /\ phase' = "work"
  /\ UNCHANGED <<next, armed, file, post, intent, touched, spoilt, lost>>

\* Sweep or eject drops a lease; it stays on file until the next persist.
Drop(a) ==
  /\ phase = "work" /\ a \in armed
  /\ armed' = armed \ {a}
  /\ UNCHANGED <<phase, next, mode, file, post, intent, touched, spoilt, seen, lost>>

\* decide() and _do_apply: a lease is armed, and persisted at once.
Arm(a) ==
  /\ phase = "work" /\ mode # Off /\ a \notin armed
  /\ armed' = armed \cup {a}
  /\ phase' = "open" /\ next' = "work"
  /\ UNCHANGED <<mode, file, post, intent, touched, spoilt, seen, lost>>

\* Mutant: the tick ends without a persist.
TickEndUnsavedMutant ==
  /\ phase = "work"
  /\ phase' = "asleep"
  /\ UNCHANGED <<next, mode, armed, file, post, intent, touched, spoilt, seen, lost>>

TickEnd ==
  /\ phase = "work"
  /\ phase' = "open" /\ next' = "asleep"
  /\ UNCHANGED <<mode, armed, file, post, intent, touched, spoilt, seen, lost>>

\* run(), finally: everything armed is reverted, then the file is written.
Stop ==
  /\ phase = "asleep"
  /\ armed' = {}
  /\ phase' = "open" /\ next' = "dead"
  /\ UNCHANGED <<mode, file, post, intent, touched, spoilt, seen, lost>>

\* The write replaces an answered request the daemon has not read.
Overwrites == ~seen /\ mode # intent

\* _persist_runtime_state, open(..., "w").
Open ==
  /\ phase = "open" /\ phase' = "fill"
  /\ file' = Torn
  /\ touched' = FALSE
  /\ lost' = (lost \/ Overwrites)
  /\ UNCHANGED <<next, mode, armed, post, intent, spoilt, seen>>

\* _persist_runtime_state, the write; an OSError is logged and swallowed.
Fill ==
  /\ phase = "fill"
  /\ phase' = next /\ next' = "asleep"
  /\ \/ /\ file' \in Landed([mode |-> mode, armed |-> armed])
        /\ spoilt' = (touched \/ post.step = "open")
        /\ lost' = (lost \/ Overwrites)
     \/ UNCHANGED <<file, lost>> /\ spoilt' = TRUE
  /\ UNCHANGED <<mode, armed, post, intent, touched, seen>>

Kill ==
  /\ phase # "dead" /\ phase' = "dead"
  /\ next' = "asleep" /\ armed' = {}
  /\ UNCHANGED <<mode, file, post, intent, touched, spoilt, seen, lost>>

\* _restore_runtime_state; _recover_armed_actions reverts what the file lists and,
\* if it lists anything, rewrites it.
Restart ==
  /\ phase = "dead"
  /\ mode' = IF file = Torn THEN Default ELSE ModeOf(file)
  /\ phase' = IF file.armed = {} THEN "asleep" ELSE "open"
  /\ next' = "asleep" /\ spoilt' = (file # [mode |-> mode', armed |-> {}])
  /\ seen' = (seen \/ file # Torn)
  /\ lost' = (lost \/ file = Torn)
  /\ UNCHANGED <<armed, file, post, intent, touched>>

-----------------------------------------------------------------------------
(* The dashboard: _persist_mode, one request at a time on its event loop.  *)

\* Read the file; what does not parse counts as an empty object.
PostRead(m) ==
  /\ post.step = "idle"
  /\ post' = [step |-> "read", target |-> m, copy |-> file]
  /\ UNCHANGED <<phase, next, mode, armed, file, intent, touched, spoilt, seen, lost>>

PostOpen ==
  /\ post.step = "read"
  /\ post' = [post EXCEPT !.step = "open"]
  /\ file' = Torn /\ touched' = TRUE
  /\ UNCHANGED <<phase, next, mode, armed, intent, spoilt, seen, lost>>

\* Write the copy back with the mode changed, and answer 200 ...
PostDone ==
  /\ post.step = "open"
  /\ file' \in Landed([post.copy EXCEPT !.mode = post.target])
  /\ touched' = TRUE
  /\ intent' = post.target
  /\ seen' = FALSE /\ lost' = FALSE
  /\ post' = NoPost
  /\ UNCHANGED <<phase, next, mode, armed, spoilt>>

\* ... or fail, and answer 500.
PostFails ==
  /\ post.step \in {"read", "open"}
  /\ post' = NoPost
  /\ UNCHANGED <<phase, next, mode, armed, file, intent, touched, spoilt, seen, lost>>

-----------------------------------------------------------------------------
Tick ==
  \/ Wake \/ Reload \/ TickEnd \/ Open \/ Fill
  \/ \E a \in Lease : Drop(a) \/ Arm(a)

Dashboard == (\E m \in Mode : PostRead(m)) \/ PostOpen \/ PostDone \/ PostFails

Next == Tick \/ Stop \/ Kill \/ Restart \/ Dashboard

Spec == Init /\ [][Next]_vars

\* The loop's own steps are taken, however often Arm and Drop could be instead; systemd
\* starts a killed daemon again (Restart=on-failure), and somebody a stopped one.
FairSpec ==
  Spec /\ WF_vars(Wake) /\ WF_vars(Reload) /\ SF_vars(TickEnd) /\ WF_vars(Open)
       /\ WF_vars(Fill) /\ WF_vars(Restart)

\* The plainest schedule: a daemon that is never stopped or killed, and a dashboard that
\* takes its steps only between the daemon's reload of the mode and its next persist.
WorkingSpec == Init /\ [][Tick \/ (phase = "work" /\ Dashboard)]_vars

-----------------------------------------------------------------------------
(* Properties.                                                             *)

Serving == post.step # "idle"

\* A running daemon that follows the last answered request keeps following it until
\* another is served, whatever it reads in the middle of the dashboard's or its own
\* writes (_reload_mode_from_state falls back to the last known mode).
SettledModeStays ==
  [][phase # "dead" /\ phase' # "dead" /\ mode = intent /\ ~lost /\ ~Serving
       => mode' = intent]_vars

\* Between ticks the file mirrors the daemon's mode and leases, but for a failed
\* write or one that met the dashboard's: "a hard crash leaves at most one tick's
\* worth of staleness in armed_actions" (_tick).
MirroredBetweenTicks ==
  phase = "asleep" /\ ~touched /\ ~spoilt
    => file = [mode |-> mode, armed |-> armed]

\* An answered request is followed in the end, superseded, or overwritten by a
\* persist it raced.
RequestSettles ==
  \A m \in Mode : (intent = m) ~> (mode = m \/ intent # m \/ lost)

\* "the daemon converges to user intent within one tick of the request"
\* (_reload_mode_from_state): with no request being served and the file readable, the
\* tick that has just reloaded the mode works under the one last answered.
FollowsIntent == [][Reload /\ ~Serving /\ file # Torn => mode' = intent]_vars
=============================================================================
