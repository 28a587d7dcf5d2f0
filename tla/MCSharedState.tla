---------------------------- MODULE MCSharedState ----------------------------
(* SharedState with the daemon's three modes and one actuator.               *)
EXTENDS SharedState

MCMode == {"cool", "quiet", "off"}
=============================================================================
