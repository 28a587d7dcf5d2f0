------------------------------- MODULE MCLabels -------------------------------
(* Labels with few readings.                                                 *)
EXTENDS Labels

MCTwoTemps == {60, 95}
=============================================================================
