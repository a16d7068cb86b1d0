-------------------------------- MODULE Mncc --------------------------------
(***************************************************************************)
(* Layer 4 of the mobile: the basic call application of mnccms.c with its   *)
(* list of calls, driven by the MNCC primitives of call control and by the  *)
(* commands of the user.  DTMF and the kinds of call are left out.          *)
(*                                                                          *)
(* A handler gives back the list it leaves and the requests that it makes   *)
(* to call control, in this order.                                          *)
(***************************************************************************)
EXTENDS Naturals, Sequences, FiniteSetsExt

CONSTANT CallRefs   \* references of calls

\* struct gsm_call; call_list is kept oldest first.
Entry(ref) == [ref |-> ref, init |-> FALSE, hold |-> FALSE, ring |-> FALSE]

CallLists == Seq([ref : CallRefs, init : BOOLEAN, hold : BOOLEAN,
                  ring : BOOLEAN])

Makes(calls, reqs) == [calls |-> calls, reqs |-> reqs]

Req(type, ref) == [type |-> type, ref |-> ref]

Known(calls, ref) == \E i \in DOMAIN calls : calls[i].ref = ref

Drop(calls, ref) ==
  LET kept[i \in 0 .. Len(calls)] ==
        IF i = 0 THEN <<>>
        ELSE IF calls[i].ref = ref THEN kept[i - 1]
        ELSE Append(kept[i - 1], calls[i])
  IN kept[Len(calls)]

Change(calls, ref, F(_)) ==
  [i \in DOMAIN calls |-> IF calls[i].ref = ref THEN F(calls[i]) ELSE calls[i]]

Active(calls)  == {i \in DOMAIN calls : ~calls[i].hold}
Ringing(calls) == {i \in DOMAIN calls : calls[i].ring}

-----------------------------------------------------------------------------
(* Commands of the user.                                                     *)

\* mncc_call.
Dial(calls, ref) ==
  IF Active(calls) # {} THEN Makes(calls, <<>>)
  ELSE Makes(Append(calls, [Entry(ref) EXCEPT !.init = TRUE]),
             <<Req("SETUP_REQ", ref)>>)

\* mncc_hangup: the call stays in the list until it is released.
Hangup(calls) ==
  IF Active(calls) = {} THEN Makes(calls, <<>>)
  ELSE LET c == calls[Min(Active(calls))]
       IN Makes(calls, <<Req(IF c.init THEN "REL_REQ" ELSE "DISC_REQ", c.ref)>>)

\* mncc_answer: the newest of the calls that ring.
Answer(calls) ==
  LET c == calls[Max(Ringing(calls))]
  IN IF Ringing(calls) = {} \/ Active(calls) \ Ringing(calls) # {}
     THEN Makes(calls, <<>>)
     ELSE Makes(Change(calls, c.ref, LAMBDA d :
                         [d EXCEPT !.ring = FALSE, !.hold = FALSE]),
                <<Req("SETUP_RSP", c.ref)>>)

\* mncc_hold.
Hold(calls) ==
  IF Active(calls) = {} THEN Makes(calls, <<>>)
  ELSE Makes(calls, <<Req("HOLD_REQ", calls[Min(Active(calls))].ref)>>)

\* mncc_retrieve: with no active call, number counts the calls in the list.
Retrieve(calls, number) ==
  IF Active(calls) # {} \/ number \notin DOMAIN calls THEN Makes(calls, <<>>)
  ELSE Makes(calls, <<Req("RETRIEVE_REQ", calls[number].ref)>>)

-----------------------------------------------------------------------------
(***************************************************************************)
(* mncc_recv_internal: a primitive p of call control about the call ref.    *)
(* The user's settings and the content of the message are in how: fits      *)
(* (the bearer capability can be served), cw (call waiting), auto           *)
(* (automatic answer) and tone (the network plays a tone after it           *)
(* disconnected, so that the call is kept until the user hangs up).         *)
(***************************************************************************)
Hows == [fits : BOOLEAN, cw : BOOLEAN, auto : BOOLEAN, tone : BOOLEAN]

Releases == {"REL_IND", "REL_CNF"}

\* A refused call keeps the entry it was given.
SetupInd(calls, ref, how) ==
  LET first   == calls = <<>>
      known   == IF Known(calls, ref)
                 THEN Change(calls, ref, LAMBDA c : [c EXCEPT !.init = FALSE])
                 ELSE Append(calls, Entry(ref))
      rings   == Change(known, ref, LAMBDA c :
                          [c EXCEPT !.ring = TRUE, !.hold = @ \/ ~first])
      offered == <<Req("CALL_CONF_REQ", ref), Req("ALERT_REQ", ref)>>
      taken   == Answer(rings)
  IN IF (~first /\ ~how.cw) \/ ~how.fits
     THEN Makes(known, <<Req("REL_REQ", ref)>>)
     ELSE IF how.auto THEN Makes(taken.calls, offered \o taken.reqs)
          ELSE Makes(rings, offered)

Recv(calls, p, ref, how) ==
  LET seen == Change(calls, ref, LAMBDA c : [c EXCEPT !.init = FALSE])
      held(h) == Change(seen, ref, LAMBDA c : [c EXCEPT !.hold = h])
  IN CASE p = "SETUP_IND" -> SetupInd(calls, ref, how)
       [] p # "SETUP_IND" /\ ~Known(calls, ref) ->
            Makes(calls, IF p \in Releases THEN <<>>
                         ELSE <<Req("REL_REQ", ref)>>)
       [] p \in Releases /\ Known(calls, ref) -> Makes(Drop(calls, ref), <<>>)
       [] p = "DISC_IND" /\ Known(calls, ref) /\ ~how.tone ->
            Makes(Drop(calls, ref), <<Req("REL_REQ", ref)>>)
       [] p = "HOLD_CNF" /\ Known(calls, ref) -> Makes(held(TRUE), <<>>)
       [] p = "RETRIEVE_CNF" /\ Known(calls, ref) -> Makes(held(FALSE), <<>>)
       [] OTHER -> Makes(seen, <<>>)
=============================================================================
