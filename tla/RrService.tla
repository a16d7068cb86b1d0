----------------------------- MODULE RrService -----------------------------
(***************************************************************************)
(* The service that RR gives to mobility management, as a specification:    *)
(* the radio connection of RrLink and the primitives that wait for MM in    *)
(* rr_upqueue.  Rr, the protocol itself, implements it; Call is built on    *)
(* the operators of RrLink.  mm tells what MM asked for in the last step; who *)
(* was asked what on the channel (asked) is left open here.                 *)
(***************************************************************************)
EXTENDS RrLink

VARIABLES link, up, mm

svars == <<link, up, mm>>

Asked(q, g) ==
  /\ link' = [g.link EXCEPT !.asked = FALSE]
  /\ up' = up \o g.up
  /\ mm' = q

Does(g) == Asked("none", g)

Establish == Asked("est", EstReq(link))

Abort == Asked("abort", Gives(AbortReq(link), <<>>))

Radio == \E g \in Steps(link) : Does(g)

Camp == link.st = "choose" /\ Does(Gives([link EXCEPT !.st = "camped"], <<>>))

T3122 == link.t3122 /\ Does(Gives([link EXCEPT !.t3122 = FALSE], <<>>))

\* A step inside of RR.
Quiet == Does(Gives(link, <<>>))

Take == up # <<>> /\ up' = Tail(up) /\ mm' = "none" /\ UNCHANGED link

ServiceInit == link = LinkInit /\ up = <<>> /\ mm = "none"

ServiceNext ==
  Establish \/ Abort \/ Radio \/ Camp \/ T3122 \/ Quiet \/ Take

ServiceSpec == ServiceInit /\ [][ServiceNext]_svars
=============================================================================
