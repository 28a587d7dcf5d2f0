----------------------------- MODULE MCFanCurve -----------------------------
(* FanCurve with small sets of curves.                                       *)
EXTENDS FanCurve

\* 20 %, which all scales agree on, and a vendor's byte between 84 % and 85 %.
MCCurve == {51, 215}

\* 20 % + 64.3 % is written as 84 % and reads as 83.9 %, while it is the vendor's byte
\* that reads as 84.3 %.  20 % + 80 % reads as it was issued, and all other sums are
\* clamped to 100 %.
MCLift == {643, 800}
=============================================================================
