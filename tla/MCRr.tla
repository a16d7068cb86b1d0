-------------------------------- MODULE MCRr --------------------------------
(***************************************************************************)
(* An instance of Rr for TLC: more accesses than the history of accesses    *)
(* holds, so that an answer may come for one that was forgotten.            *)
(***************************************************************************)
EXTENDS Rr
=============================================================================
