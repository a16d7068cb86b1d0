------------------------------- MODULE MmConn -------------------------------
(***************************************************************************)
(* The MM connections of the mobile (gsm48_mm.c, section 4.5 of GSM 04.08): *)
(* several CM connections share one radio connection, which the first one   *)
(* sets up and which is given back some time after the last one has gone.   *)
(* Normal service without location updates, IMSI detach and group calls.    *)
(*                                                                          *)
(* Every operator is a handler: it gives back the MM layer it leaves, the   *)
(* MMCC primitives that it queues for call control, and what it asks of RR. *)
(***************************************************************************)
EXTENDS Naturals, Sequences

CONSTANT Refs   \* references of MM connections

MmStates == {"IDLE", "WAIT_RR", "WAIT_OUT", "ACTIVE", "WAIT_ADD", "WAIT_NET"}

Conn(ref, st) == [ref |-> ref, st |-> st]

\* The connections of refs that are in one of the states sts.
ConnsIn(refs, sts) == [ref : refs, st : sts]

ConnStates == {"IDLE", "PEND", "DEDIC"}

\* conns is mm_conn, the newest first; t3230 and t3240 tell if they run.
MmLayers == [state : MmStates, conns : Seq(ConnsIn(Refs, ConnStates)),
             t3230 : BOOLEAN, t3240 : BOOLEAN]

MmInit == [state |-> "IDLE", conns |-> <<>>, t3230 |-> FALSE, t3240 |-> FALSE]

Acts(mm, up, rr) == [mm |-> mm, up |-> up, rr |-> rr]

NoReq == "none"

Prim(p, ref) == [p |-> p, ref |-> ref]

HasConn(mm, ref) == \E i \in DOMAIN mm.conns : mm.conns[i].ref = ref

IsPending(c) == c.st = "PEND"

Pending(mm) == \E i \in DOMAIN mm.conns : IsPending(mm.conns[i])

\* conns after the release of those that are in gone.
Omit(conns, gone) ==
  LET kept[i \in 0 .. Len(conns)] ==
        IF i = 0 THEN <<>>
        ELSE IF conns[i] \in gone THEN kept[i - 1]
        ELSE Append(kept[i - 1], conns[i])
  IN kept[Len(conns)]

Requested == ConnsIn(Refs, {"PEND"})
Others    == ConnsIn(Refs, ConnStates \ {"PEND"})

Told(conns, p) == [i \in DOMAIN conns |-> Prim(p, conns[i].ref)]

\* Mutated form of ReleaseAll: the layer above is not told.
ReleaseAllSilently(mm, p) == Acts([mm EXCEPT !.conns = <<>>], <<>>, NoReq)

\* gsm48_mm_release_mm_conn: all of them, or the pending one.
ReleaseAll(mm, p) ==
  Acts([mm EXCEPT !.conns = <<>>], Told(mm.conns, p), NoReq)

ReleasePending(mm) ==
  Acts([mm EXCEPT !.conns = Omit(@, Requested)],
       Told(Omit(mm.conns, Others), "REL_IND"), NoReq)

\* The radio connection is given back when T3240 expires.
WaitNet(mm) == [mm EXCEPT !.state = "WAIT_NET", !.t3240 = TRUE]

ReturnIdle(mm, camped) == IF camped THEN [mm EXCEPT !.state = "IDLE"] ELSE mm

-----------------------------------------------------------------------------
(* Requests of call control (downstatelist).                                 *)

InitNoRr(mm, ref) ==
  Acts([mm EXCEPT !.conns = <<Conn(ref, "PEND")>> \o @, !.state = "WAIT_RR"],
       <<>>, "EST_REQ")

InitMore(mm, ref) ==
  Acts([mm EXCEPT !.conns = <<Conn(ref, "PEND")>> \o @, !.state = "WAIT_ADD",
                  !.t3230 = TRUE],
       <<>>, "CM_SERV_REQ")

InitReject(mm, ref) == Acts(mm, <<Prim("REL_IND", ref)>>, NoReq)

\* A pending connection stands in the way of another one.
EstReq(mm, ref) ==
  CASE mm.state = "IDLE" /\ ~Pending(mm)   -> InitNoRr(mm, ref)
    [] mm.state = "ACTIVE" /\ ~Pending(mm) -> InitMore(mm, ref)
    [] OTHER -> InitReject(mm, ref)

DataReq(mm, ref) ==
  IF mm.state \in {"ACTIVE", "WAIT_ADD"} /\ ~HasConn(mm, ref)
  THEN Acts(mm, <<Prim("REL_IND", ref)>>, NoReq)
  ELSE Acts(mm, <<>>, NoReq)

\* gsm48_mm_release_active: T3240 gives the radio connection back.
ReleaseActive(mm) == IF mm.conns = <<>> THEN WaitNet(mm) ELSE mm

\* Mutated form of RelReq: a pending connection is aborted but kept.
RelReqKeeps(mm, ref) ==
  LET rest == [mm EXCEPT !.conns = Omit(@, ConnsIn({ref}, {"IDLE", "DEDIC"}))]
  IN CASE mm.state \in {"ACTIVE", "WAIT_OUT"} ->
            Acts(ReleaseActive(rest), <<>>, NoReq)
       [] mm.state \in {"WAIT_RR", "WAIT_ADD"} -> Acts(rest, <<>>, NoReq)
       [] OTHER -> Acts(mm, <<>>, NoReq)

\* The CM SERVICE ABORT that is sent for a pending one has no answer.
RelReq(mm, ref) ==
  LET rest == [mm EXCEPT !.conns = Omit(@, ConnsIn({ref}, ConnStates))]
  IN CASE mm.state \in {"ACTIVE", "WAIT_OUT"} ->
            Acts(ReleaseActive(rest), <<>>, NoReq)
       [] mm.state \in {"WAIT_RR", "WAIT_ADD"} -> Acts(rest, <<>>, NoReq)
       [] OTHER -> Acts(mm, <<>>, NoReq)

-----------------------------------------------------------------------------
(* Primitives of RR (rrdatastatelist).                                       *)

\* Mutated form of EstCnf: T3230 is not started.
EstCnfUntimed(mm) ==
  IF mm.state # "WAIT_RR" THEN Acts(mm, <<>>, NoReq)
  ELSE IF mm.conns = <<>> THEN Acts(WaitNet(mm), <<>>, NoReq)
  ELSE Acts([mm EXCEPT !.state = "WAIT_OUT"], <<>>, NoReq)

EstCnf(mm) ==
  CASE mm.state = "WAIT_RR" /\ mm.conns = <<>> -> Acts(WaitNet(mm), <<>>, NoReq)
    [] mm.state = "WAIT_RR" /\ mm.conns # <<>> ->
         Acts([mm EXCEPT !.state = "WAIT_OUT", !.t3230 = TRUE], <<>>, NoReq)
    [] OTHER -> Acts(mm, <<>>, NoReq)

EstInd(mm) ==
  Acts(IF mm.state = "IDLE" THEN [mm EXCEPT !.state = "WAIT_NET"] ELSE mm,
       <<>>, NoReq)

\* gsm48_mm_rel_other: RR gives the connection up where none can be used.
RelOther(mm, camped) ==
  Acts(ReturnIdle([mm EXCEPT !.t3240 = FALSE], camped), <<>>, NoReq)

AbortMmCon(mm, p, camped) ==
  LET freed == ReleaseAll([mm EXCEPT !.t3230 = FALSE, !.t3240 = FALSE], p)
  IN [freed EXCEPT !.mm = ReturnIdle(@, camped)]

\* Mutated form of RrGone: a connection that RR still sets up is forgotten.
RrGoneUnheard(mm, p, camped) ==
  IF mm.state \in {"WAIT_OUT", "WAIT_ADD", "ACTIVE"}
  THEN AbortMmCon(mm, p, camped) ELSE RelOther(mm, camped)

RrGone(mm, p, camped) ==
  IF mm.state \in {"WAIT_RR", "WAIT_OUT", "WAIT_ADD", "ACTIVE"}
  THEN AbortMmCon(mm, p, camped) ELSE RelOther(mm, camped)

\* gsm48_mm_conn_go_dedic.
GoDedic(mm) ==
  Acts([mm EXCEPT !.conns = [i \in DOMAIN @ |->
          IF IsPending(@[i]) THEN Conn(@[i].ref, "DEDIC") ELSE @[i]]],
       Told(Omit(mm.conns, Others), "EST_CNF"), NoReq)

Serving(mm) == [mm EXCEPT !.state = "ACTIVE", !.t3230 = FALSE]

SyncIndActive(mm) == Acts(Serving(mm), Told(mm.conns, "SYNC_IND"), NoReq)

\* RR_SYNC_IND with cause ciphering.
SyncInd(mm) ==
  CASE mm.state \in {"WAIT_OUT", "WAIT_ADD"} -> GoDedic(Serving(mm))
    [] mm.state = "ACTIVE" -> SyncIndActive(mm)
    [] OTHER -> Acts(mm, <<>>, NoReq)

\* Mutated form of Reached: every message gets a connection of its own.
ReachedAnew(mm, ref) ==
  LET known == [mm EXCEPT !.conns = <<Conn(ref, "IDLE")>> \o @]
  IN IF mm.state = "WAIT_NET"
     THEN [known EXCEPT !.state = "ACTIVE", !.t3240 = FALSE] ELSE known

\* create_conn_and_push_mm_hdr.
Reached(mm, ref) ==
  LET known == IF HasConn(mm, ref) THEN mm
               ELSE [mm EXCEPT !.conns = <<Conn(ref, "IDLE")>> \o @]
  IN IF mm.state = "WAIT_NET"
     THEN [known EXCEPT !.state = "ACTIVE", !.t3240 = FALSE] ELSE known

-----------------------------------------------------------------------------
(* MM messages of the network (mmdatastatelist), taken in every state.       *)

CmServAcc(mm) == GoDedic(Serving(mm))

\* Mutated form of CmServRej: the other connections are forgotten.
CmServRejAlone(mm) ==
  LET freed == ReleasePending([mm EXCEPT !.t3230 = FALSE])
  IN [freed EXCEPT !.mm.state = "WAIT_NET"]

CmServRej(mm) ==
  LET freed == ReleasePending([mm EXCEPT !.t3230 = FALSE])
  IN [freed EXCEPT !.mm.state = IF freed.mm.conns = <<>> THEN "WAIT_NET"
                                ELSE "ACTIVE"]

\* abort_any, for IMSI unknown in VLR and illegal ME.  What becomes of the SIM
\* and of the service after it is left out, here and in MmAbort.
CmServRejAll(mm) ==
  LET freed == ReleaseAll([mm EXCEPT !.t3230 = FALSE], "REL_IND")
  IN [freed EXCEPT !.mm.state = "WAIT_NET"]

MmAbort(mm) ==
  IF mm.conns = <<>> THEN Acts(mm, <<>>, NoReq)
  ELSE ReleaseAll([mm EXCEPT !.t3230 = FALSE], "REL_IND")

-----------------------------------------------------------------------------
(* Timers and events (eventstatelist).                                       *)

T3230(mm) ==
  LET fired == [mm EXCEPT !.t3230 = FALSE]
      freed == ReleasePending(fired)
  IN IF mm.state \notin {"WAIT_OUT", "WAIT_ADD"} THEN Acts(fired, <<>>, NoReq)
     ELSE [freed EXCEPT !.mm = IF @.conns = <<>> THEN WaitNet(@)
                               ELSE [@ EXCEPT !.state = "ACTIVE"]]

\* camped is what the cell selection is after the request to RR.
T3240(mm, camped) ==
  LET fired == [mm EXCEPT !.t3240 = FALSE]
  IN IF mm.state # "WAIT_NET" THEN Acts(fired, <<>>, NoReq)
     ELSE Acts(ReturnIdle(fired, camped), <<>>, "ABORT_REQ")

\* Mutated form of CellSelected: heeded while MM waits for the network only.
CellSelectedWaiting(mm, camped) ==
  Acts(IF mm.state = "WAIT_NET" THEN ReturnIdle(mm, camped) ELSE mm,
       <<>>, NoReq)

CellSelected(mm, camped) == Acts(ReturnIdle(mm, camped), <<>>, NoReq)
=============================================================================
