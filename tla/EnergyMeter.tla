------------------------------ MODULE EnergyMeter ------------------------------
(***************************************************************************)
(* Power from the RAPL energy counters: each sample reads a counter per    *)
(* domain, some of which may fail to be read, and divides what was added   *)
(* since the sample before by the time since then.  The counters wrap.     *)
(***************************************************************************)
EXTENDS Integers

CONSTANTS
  Domains,
  Wrap,      \* where the counter of a domain wraps
  Known,     \* domains whose max_energy_range_uj can be read
  MaxSpend,  \* BOUND: energy of a domain
  MaxMeter   \* BOUND: end of time

ASSUME EnergyAssumption ==
  /\ Wrap \in [Domains -> Nat \ {0}] /\ Known \subseteq Domains
  /\ MaxSpend \in Nat /\ MaxMeter \in Nat

VARIABLES
  spent,   \* true energy of each domain, which never wraps
  meterAt, \* the clock
  last,    \* _last_energy: domain -> counter
  lastTs,  \* _last_ts
  power,   \* the last sample: domain -> energy, over how long
  before   \* history: spent and clock when last was taken

energyVars == <<spent, meterAt, last, lastTs, power, before>>

NoReading == [d \in {} |-> 0]

EnergyTypeOK ==
  /\ spent \in [Domains -> 0 .. MaxSpend] /\ meterAt \in 0 .. MaxMeter
  /\ DOMAIN last \subseteq Domains /\ lastTs \in 0 .. MaxMeter
  /\ DOMAIN power.energy \subseteq Domains /\ power.over \in 0 .. MaxMeter

EnergyInit ==
  /\ spent = [d \in Domains |-> 0] /\ meterAt = 0 /\ last = NoReading /\ lastTs = 0
  /\ power = [energy |-> NoReading, over |-> 0,
               true |-> NoReading, took |-> 0]
  /\ before = [spent |-> spent, at |-> 0]

Counter(d) == spent[d] % Wrap[d]

\* _Domain.max_uj, 0 if it could not be read.
MaxUj(d) == IF d \in Known THEN Wrap[d] ELSE 0

\* Mutant: a difference is reported although it is negative and no range is known.
UsableAnyMutant(now) == DOMAIN now \cap DOMAIN last

\* Domains with a difference to report: a negative one is a wrap where the range is
\* known, and left out where it is not.
Usable(now) ==
  {d \in DOMAIN now \cap DOMAIN last : now[d] >= last[d] \/ MaxUj(d) > 0}

Delta(d, now, prev) == IF now < prev THEN now - prev + MaxUj(d) ELSE now - prev

\* The time of the last reading is only kept when nothing failed.
MeterSampleKeepsTimeMutant ==
  \E readable \in SUBSET Domains :
    LET now == [d \in readable |-> Counter(d)] IN
    /\ \/ last = NoReading /\ UNCHANGED power
       \/ /\ last # NoReading /\ meterAt > lastTs
          /\ power' = [energy |-> [d \in Usable(now) |-> Delta(d, now[d], last[d])],
                       over |-> meterAt - lastTs,
                       true |-> [d \in Usable(now) |-> spent[d] - before.spent[d]],
                       took |-> meterAt - before.at]
    /\ last' = now /\ before' = [spent |-> spent, at |-> meterAt]
    /\ lastTs' = IF readable = Domains THEN meterAt ELSE lastTs
    /\ UNCHANGED <<spent, meterAt>>

MeterSample ==
  \E readable \in SUBSET Domains :
    LET now == [d \in readable |-> Counter(d)] IN
    /\ \/ last = NoReading /\ UNCHANGED power
       \/ /\ last # NoReading /\ meterAt > lastTs
          /\ power' = [energy |-> [d \in Usable(now) |-> Delta(d, now[d], last[d])],
                       over |-> meterAt - lastTs,
                       true |-> [d \in Usable(now) |-> spent[d] - before.spent[d]],
                       took |-> meterAt - before.at]
    /\ last' = now /\ lastTs' = meterAt /\ before' = [spent |-> spent, at |-> meterAt]
    /\ UNCHANGED <<spent, meterAt>>

Spend ==
  \E d \in Domains, e \in 1 .. 2 :
    /\ spent[d] + e <= MaxSpend /\ spent' = [spent EXCEPT ![d] = @ + e]
    /\ UNCHANGED <<meterAt, last, lastTs, power, before>>

MeterClock ==
  /\ meterAt < MaxMeter /\ meterAt' = meterAt + 1
  /\ UNCHANGED <<spent, last, lastTs, power, before>>

EnergyNext == MeterSample \/ Spend \/ MeterClock

\* Whatever could not be read in between and however often the counters wrapped
\* before, and with the range known or not, a domain's power is the energy it really
\* used since the sample before, over the time since then, unless a whole range was
\* used meanwhile.
PowerIsTrue ==
  \A d \in DOMAIN power.energy :
    power.true[d] < Wrap[d] =>
      power.energy[d] = power.true[d] /\ power.over = power.took
================================================================================
