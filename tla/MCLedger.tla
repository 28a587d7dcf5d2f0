------------------------------- MODULE MCLedger -------------------------------
(* Ledger with days of two units.                                            *)
EXTENDS Ledger

MCDays    == [t \in Time |-> t \div 2]
MCReading == {"hot", "cool"}
MCCool    == {"cool"}
=============================================================================
