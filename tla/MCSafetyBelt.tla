---------------------------- MODULE MCSafetyBelt ----------------------------
(* SafetyBelt on a host with the asusctl fan curve and the EPP actuator.     *)
EXTENDS SafetyBelt

CONSTANTS fan, epp

MCActuator == {fan, epp}
MCGuarded  == {fan}
MCVerb     == {"RAMP", "QUIET", "SHIFT"}
MCServes   == [v \in MCVerb |-> IF v = "SHIFT" THEN epp ELSE fan]
MCRank     == [v \in MCVerb |-> IF v = "SHIFT" THEN 1 ELSE IF v = "RAMP" THEN 2 ELSE 3]
\* One unit is 20 s, rounded: SHIFT_POWER_ENVELOPE 60 s, the fan verbs 45 s.
MCDuration == [v \in MCVerb |-> IF v = "SHIFT" THEN 3 ELSE 2]
=============================================================================
