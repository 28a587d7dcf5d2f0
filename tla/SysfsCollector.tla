---------------------------- MODULE SysfsCollector ----------------------------
(***************************************************************************)
(* The sysfs collector: each sample reads the files of a list of devices,  *)
(* found once and found again after a minute, through a cache of open      *)
(* descriptors, which is emptied with the list.  A path belongs to a       *)
(* number, and a driver that is reloaded may come back under another.  The *)
(* daemon stops waiting for a slow sample but its thread runs on, and the  *)
(* next tick's sample uses the same list and cache beside it.              *)
(***************************************************************************)
EXTENDS Integers

CONSTANTS
  Sensors,     \* what is measured, by its label
  SlowSensors, \* those not read by every sample
  Paths,       \* files hwmonN/..._input
  RefreshEach, \* FREQ_REFRESH_TICKS and its like
  MaxFds,      \* descriptors the process may have open for sensors
  MaxSamplesS  \* BOUND: samples

ASSUME SysfsAssumption ==
  /\ SlowSensors \subseteq Sensors /\ RefreshEach \in Nat \ {0, 1}
  /\ Sensors \cap {"shut", "gone", "blank"} = {} /\ "blank" \notin Paths
  /\ MaxFds \in Nat /\ MaxSamplesS \in Nat

Workers     == 1 .. 2
Descriptors == 1 .. MaxFds

VARIABLES
  occupant, \* the kernel: whose file is at a path
  device,   \* _hwmon_devices: the label a path is read for
  fds,      \* _fds: descriptor of a path, 0 if none
  files,    \* what the open descriptors of the process are open for
  job,      \* samples that are out
  slow,     \* _freq_cache and its like: the sample they are from, 0 if none
  ticks,    \* _tick_counter
  astray,   \* history: labels whose path became another's since it was found
  mixed     \* history: samples overlapped

sysfsVars == <<occupant, device, fds, files, job, slow, ticks, astray, mixed>>

Shut  == "shut" \* of a descriptor that is not open
Gone  == "gone" \* at a path, or open for one, where no sensor is
Blank == "blank"

Parked == [pc |-> "parked", list |-> [p \in Paths |-> Blank], todo |-> {}, at |-> Blank,
           fd |-> 0, out |-> [s \in Sensors |-> Blank], tick |-> 0]

SysfsTypeOK ==
  /\ occupant \in [Paths -> Sensors \cup {Gone}] /\ device \in [Paths -> Sensors \cup {Blank}]
  /\ fds \in [Paths -> {0} \cup Descriptors]
  /\ files \in [Descriptors -> Sensors \cup {Shut, Gone}]
  /\ \A w \in Workers :
       /\ job[w].pc \in {"parked", "next", "open", "read"}
       /\ job[w].list \in [Paths -> Sensors \cup {Blank}] /\ job[w].todo \subseteq Paths
       /\ job[w].out \in [Sensors -> Sensors \cup {Blank}]
  /\ ticks \in 0 .. MaxSamplesS /\ slow \in 0 .. MaxSamplesS
  /\ astray \subseteq Sensors /\ mixed \in BOOLEAN

SysfsInit ==
  /\ occupant \in [Paths -> Sensors \cup {Gone}]
  /\ \A s \in Sensors : \E p \in Paths : \A q \in Paths : occupant[q] = s <=> p = q
  /\ device = Parked.list /\ fds = [p \in Paths |-> 0]
  /\ files = [d \in Descriptors |-> Shut]
  /\ job = [w \in Workers |-> Parked] /\ slow = 0 /\ ticks = 0
  /\ astray = {} /\ mixed = FALSE

-----------------------------------------------------------------------------

Running == {w \in Workers : job[w].pc # "parked"}

\* The lowest number that is free.
FreeFds == {d \in Descriptors : files[d] = Shut}
FreeFd  == CHOOSE d \in FreeFds : \A e \in FreeFds : d <= e

\* _refresh_paths.  A driver that is reloaded in the middle is as one reloaded
\* just after it.
RefreshPaths ==
  /\ files' = [d \in Descriptors |->
                 IF \E p \in Paths : fds[p] = d THEN Shut ELSE files[d]]
  /\ fds' = [p \in Paths |-> 0]
  /\ device' = [p \in Paths |-> IF occupant[p] = Gone THEN Blank ELSE occupant[p]]
  /\ astray' = {}

Unfound == \A p \in Paths : device[p] = Blank

\* A sample begins, with the paths found again when they are due; it goes
\* through the list there is then.
BeginSample ==
  \E w \in Workers, due \in BOOLEAN :
    /\ w \notin Running /\ ticks < MaxSamplesS
    /\ \A v \in Workers \ Running : w <= v
    /\ IF due \/ Unfound THEN RefreshPaths ELSE UNCHANGED <<fds, files, device, astray>>
    /\ ticks' = ticks + 1 /\ mixed' = (mixed \/ Running # {})
    /\ job' = [job EXCEPT ![w] =
         [Parked EXCEPT !.pc = "next", !.tick = ticks', !.list = device',
            !.todo = {p \in Paths : /\ device'[p] # Blank
                                    /\ \/ ticks' % RefreshEach = 1
                                       \/ device'[p] \notin SlowSensors}]]
    /\ UNCHANGED <<occupant, slow>>

\* read_text: the descriptor is looked up.
LookUp ==
  \E w \in Running, p \in Paths :
    /\ job[w].pc = "next" /\ p \in job[w].todo
    /\ job' = [job EXCEPT ![w].pc = IF fds[p] = 0 THEN "open" ELSE "read",
                          ![w].at = p, ![w].fd = fds[p], ![w].todo = @ \ {p}]
    /\ UNCHANGED <<occupant, device, fds, files, slow, ticks, astray, mixed>>

\* The sensor is done, with this read so far.
Done(w, out) ==
  job' = [job EXCEPT ![w] = [@ EXCEPT !.pc = "next", !.at = Blank, !.fd = 0, !.out = out]]

\* It is opened, unless nothing is there or no descriptor is left.
OpenFd ==
  \E w \in Running :
    LET p == job[w].at IN
    /\ job[w].pc = "open"
    /\ IF occupant[p] # Gone /\ FreeFds # {}
       THEN /\ files' = [files EXCEPT ![FreeFd] = occupant[p]]
            /\ fds' = [fds EXCEPT ![p] = FreeFd]
            /\ job' = [job EXCEPT ![w].pc = "read", ![w].fd = FreeFd]
       ELSE Done(w, job[w].out) /\ UNCHANGED <<files, fds>>
    /\ UNCHANGED <<occupant, device, slow, ticks, astray, mixed>>

\* A descriptor that cannot be read is only forgotten.
EvictLeaksMutant(p) == fds' = [fds EXCEPT ![p] = 0] /\ files' = files

\* _evict
Evict(p) ==
  /\ fds' = [fds EXCEPT ![p] = 0]
  /\ files' = IF fds[p] = 0 THEN files ELSE [files EXCEPT ![fds[p]] = Shut]

\* pread of whatever the descriptor is open for by now, under the path's label.
Pread ==
  \E w \in Running :
    LET f == files[job[w].fd]
        p == job[w].at
    IN  /\ job[w].pc = "read"
        /\ IF f \in Sensors
           THEN /\ Done(w, [job[w].out EXCEPT ![job[w].list[p]] = f])
                /\ UNCHANGED <<fds, files>>
           ELSE Done(w, job[w].out) /\ Evict(p)
        /\ UNCHANGED <<occupant, device, slow, ticks, astray, mixed>>

\* The end of a sample, with what it has read.
EndSample ==
  \E w \in Running :
    /\ job[w].pc = "next" /\ job[w].todo = {}
    /\ slow' = IF job[w].tick % RefreshEach = 1 THEN job[w].tick ELSE slow
    /\ job' = [job EXCEPT ![w] = Parked]
    /\ UNCHANGED <<occupant, device, fds, files, ticks, astray, mixed>>

\* A driver goes: what is open for its files can be read no more.
Unplug ==
  \E p \in Paths :
    /\ occupant[p] # Gone /\ occupant' = [occupant EXCEPT ![p] = Gone]
    /\ files' = [d \in Descriptors |->
                   IF files[d] = occupant[p] THEN Gone ELSE files[d]]
    /\ UNCHANGED <<device, fds, job, slow, ticks, astray, mixed>>

\* A driver comes back, under a number that is free.
Replug ==
  \E p \in Paths, s \in Sensors :
    /\ occupant[p] = Gone /\ \A q \in Paths : occupant[q] # s
    /\ occupant' = [occupant EXCEPT ![p] = s]
    /\ astray' = astray \cup ({device[p]} \ {s, Blank})
    /\ UNCHANGED <<device, fds, files, job, slow, ticks, mixed>>

SysfsNext ==
  \/ BeginSample \/ LookUp \/ OpenFd \/ Pread \/ EndSample \/ Unplug \/ Replug

-----------------------------------------------------------------------------

\* What a sample reads under a label is that sensor's own value, or else another
\* driver took its number since the paths were found.
ReadsOwnSensor ==
  \A w \in Workers, s \in Sensors : job[w].out[s] \in {s, Blank} \/ s \in astray

\* While samples do not overlap, whatever drivers go, come back and change
\* numbers: a value is its sensor's own, at the latest once the paths were found
\* again; every open descriptor is one the cache knows, so that none is lost; and
\* the slow readings are less than RefreshEach samples old.
SensorsOwn ==
  ~mixed =>
    /\ ReadsOwnSensor
    /\ \A d \in Descriptors : files[d] # Shut => \E p \in Paths : fds[p] = d
    /\ Running = {} /\ ticks > 0 => ticks - slow < RefreshEach /\ slow > 0
================================================================================
