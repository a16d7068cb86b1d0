------------------------------- MODULE MCPdch -------------------------------
(***************************************************************************)
(* An instance of Pdch for TLC: a multiframe of one block and one frame of  *)
(* another channel, so that a multiframe, and more, can be missed.          *)
(***************************************************************************)
EXTENDS Pdch
=============================================================================
