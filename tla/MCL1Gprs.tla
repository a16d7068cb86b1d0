------------------------------ MODULE MCL1Gprs ------------------------------
(***************************************************************************)
(* An instance of L1Gprs for TLC: two timeslots, one Uplink and one         *)
(* Downlink TBF that may share them, and up to two pending requests, which  *)
(* may be for the same TBF.                                                 *)
(***************************************************************************)
EXTENDS L1Gprs
=============================================================================
