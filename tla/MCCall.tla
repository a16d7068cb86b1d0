------------------------------- MODULE MCCall -------------------------------
(***************************************************************************)
(* An instance of Call for TLC: a call of the user and one of the network,  *)
(* so that calls collide, wait and are held, and two events may come in     *)
(* before the event loop serves the queues.                                 *)
(***************************************************************************)
EXTENDS Call

CONSTANTS o1, t1
=============================================================================
