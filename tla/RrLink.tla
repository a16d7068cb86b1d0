------------------------------- MODULE RrLink -------------------------------
(***************************************************************************)
(* The radio connection as mobility management sees it: what gsm48_rr.c and *)
(* gsm322.c make of the requests of MM and of the events of the radio, with *)
(* the access procedure, layer 2 and cell selection reduced to the moments  *)
(* that MM is told about or that decide how its next request is answered.   *)
(*                                                                          *)
(*   camped   RR is idle and the cell selection camps: requests are taken   *)
(*   choose   RR is idle, the cell selection looks for a cell               *)
(*   pend     random access, assignment, establishment of layer 2           *)
(*   dedic    dedicated mode                                                *)
(*   release  layer 2 is being released, MM will be told when it is done    *)
(*   relwait  MM was told of the release, the last UA is still being sent   *)
(***************************************************************************)
EXTENDS Sequences

LinkStates == {"camped", "choose", "pend", "dedic", "release", "relwait"}

\* est: rr_est_req, MM asked for this connection; asked: the network has a CM
\* SERVICE REQUEST that it did not answer yet.
Links == [st : LinkStates, est : BOOLEAN, asked : BOOLEAN, t3122 : BOOLEAN]

LinkInit == [st |-> "choose", est |-> FALSE, asked |-> FALSE, t3122 |-> FALSE]

\* What a step makes of the link, and the primitives it queues for MM.
Gives(l, up) == [link |-> l, up |-> up]

\* new_rr_state(IDLE): RET_IDLE makes the cell selection choose a cell.
Idle(l) == [LinkInit EXCEPT !.t3122 = l.t3122]

-----------------------------------------------------------------------------
(* Requests of MM.                                                           *)

EstReq(l) ==
  IF l.t3122 \/ l.st # "camped" THEN Gives(l, <<"REL_IND">>)
  ELSE Gives([l EXCEPT !.st = "pend", !.est = TRUE], <<>>)

\* A CM SERVICE REQUEST on the connection; elsewhere it is dropped.
ServReq(l) == IF l.st = "dedic" THEN [l EXCEPT !.asked = TRUE] ELSE l

AbortReq(l) ==
  CASE l.st = "pend" -> Idle(l)
    [] l.st = "dedic" -> [l EXCEPT !.st = "release"]
    [] OTHER -> l

-----------------------------------------------------------------------------
(* Events of the radio: the steps that are possible, as a set.               *)

\* A REL_IND for MM only when MM asked for the connection.
Failed(l) == Gives(Idle(l), IF l.est THEN <<"REL_IND">> ELSE <<>>)

Established(l) ==
  Gives([l EXCEPT !.st = "dedic", !.asked = l.est],
        IF l.est THEN <<"EST_CNF">> ELSE <<"EST_IND">>)

\* gsm48_rr_los: layer 2 confirms a local release at once.
Los(l) == Gives(Idle(l), <<"REL_IND">>)

Steps(l) ==
  CASE l.st = "camped" -> {Gives([l EXCEPT !.st = "pend"], <<>>)}
    [] l.st = "choose" -> {}
    [] l.st = "pend" ->
         {Established(l), Failed(l), Los(l),
          Gives([l EXCEPT !.st = "relwait"], <<"REL_IND">>),
          Gives([l EXCEPT !.t3122 = TRUE], <<>>)}
    [] l.st = "dedic" ->
         {Los(l),
          Gives([l EXCEPT !.st = "relwait"], <<"REL_IND">>),
          Gives([l EXCEPT !.st = "release"], <<>>),
          Gives(Idle(l), <<"ABORT_IND">>)}
    [] l.st = "release" -> {Gives(Idle(l), <<"REL_IND">>)}
    [] l.st = "relwait" -> {Gives(Idle(l), <<>>), Los(l)}
=============================================================================
