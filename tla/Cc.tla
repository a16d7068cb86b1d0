--------------------------------- MODULE Cc ---------------------------------
(***************************************************************************)
(* Call control of the mobile (gsm48_cc.c), one transaction at a time.      *)
(*                                                                          *)
(* The two tables of the source, downstatelist for the requests of layer 4  *)
(* and datastatelist for the messages of the network, are tables here: a    *)
(* row says in which states it is taken and what its handler does.  A       *)
(* handler gives back the transaction it leaves, the MNCC primitives it     *)
(* queues for layer 4, the layer 3 messages it passes to MM and, last, what *)
(* it asks of the MM connection.                                            *)
(***************************************************************************)
EXTENDS Sequences

\* GSM_CSTATE_DISCONNECT_REQ and GSM_CSTATE_DISCONNECT_IND are the same number,
\* 12: a call that was disconnected by either side is in the one DISCONNECT.
States == {"NULL", "MM_CONNECTION_PEND", "INITIATED", "MO_CALL_PROC",
           "CALL_DELIVERED", "CALL_PRESENT", "MO_TERM_CALL_CONF",
           "CALL_RECEIVED", "CONNECT_REQUEST", "ACTIVE", "MO_ORIG_MODIFY",
           "DISCONNECT", "RELEASE_REQ"}

Timers == {"T303", "T305", "T308", "T310", "T313"}

NoTimer == "none"

\* struct gsm_trans: no transaction with this reference is in trans_list.
Free == [state |-> "FREE", timer |-> NoTimer]

Transactions == {Free} \cup [state : States, timer : Timers \cup {NoTimer}]

\* trans_alloc: GSM_CSTATE_NULL is 0.
New == [Free EXCEPT !.state = "NULL"]

Find(t) == IF t = Free THEN New ELSE t

Does(t, up, tx, conn) == [t |-> t, up |-> up, tx |-> tx, conn |-> conn]

Nothing == "none"

\* gsm48_rel_null_free and gsm48_cc_abort_mm, after what was sent before.
RelNullFree(up, tx) == Does(Free, up, tx, "REL_REQ")

-----------------------------------------------------------------------------
(***************************************************************************)
(* The tables.  A timer of "keep" is left alone, NoTimer is stopped; a row  *)
(* to "same" leaves the state alone.                                        *)
(***************************************************************************)
Row(on, msg, to, timer, up, tx) ==
  [on |-> on, msg |-> msg, to |-> to, timer |-> timer, up |-> up, tx |-> tx]

Proceeding == {"INITIATED", "MO_CALL_PROC"}

\* Mutated form of Calling: CONNECT is taken while the call is cleared.
CallingOrClearing == Proceeding \cup {"CALL_DELIVERED", "DISCONNECT"}

Calling    == Proceeding \cup {"CALL_DELIVERED"}

(* Messages of the network, by handler (gsm48_cc_rx_...).                    *)

\* With a progress indicator (the second row) T310 is started.
RxCallProceeding == {
  Row({"INITIATED"}, "CALL_PROC", "MO_CALL_PROC", NoTimer,
      <<"CALL_PROC_IND">>, Nothing),
  Row({"INITIATED"}, "CALL_PROC_PROGRESS", "MO_CALL_PROC", "T310",
      <<"CALL_PROC_IND">>, Nothing)}

RxAlerting == {
  Row(Proceeding, "ALERTING", "CALL_DELIVERED", NoTimer,
      <<"ALERT_IND">>, Nothing)}

RxProgress == {
  Row(Calling, "PROGRESS", "same", "keep", <<"PROGRESS_IND">>, Nothing)}

RxFacility == {
  Row(States \ {"NULL"}, "FACILITY", "same", "keep",
      <<"FACILITY_IND">>, Nothing)}

\* With gsm48_cc_tx_connect_ack.
RxConnect == {
  Row(Calling, "CONNECT", "ACTIVE", NoTimer, <<"SETUP_CNF">>, "CONNECT_ACK")}

RxSetup == {
  Row({"NULL"}, "SETUP", "CALL_PRESENT", "keep", <<"SETUP_IND">>, Nothing)}

RxConnectAck == {
  Row({"CONNECT_REQUEST"}, "CONNECT_ACK", "ACTIVE", NoTimer,
      <<"SETUP_COMPL_IND">>, Nothing)}

RxHoldAck == {
  Row({"ACTIVE"}, "HOLD_ACK", "ACTIVE", "keep", <<"HOLD_CNF">>, Nothing)}

RxRetrieveAck == {
  Row({"ACTIVE"}, "RETR_ACK", "ACTIVE", "keep", <<"RETRIEVE_CNF">>, Nothing)}

RxModify == {
  Row({"ACTIVE"}, "MODIFY", "MO_ORIG_MODIFY", "keep",
      <<"MODIFY_IND">>, Nothing)}

RxDisconnect == {
  Row(States \ {"NULL", "RELEASE_REQ", "DISCONNECT"}, "DISCONNECT",
      "DISCONNECT", NoTimer, <<"DISC_IND">>, Nothing)}

RxRelease == {
  Row({"NULL"}, "RELEASE", "FREE", NoTimer, <<>>, Nothing),
  Row({"RELEASE_REQ"}, "RELEASE", "FREE", NoTimer, <<"REL_CNF">>, Nothing),
  Row(States \ {"NULL", "RELEASE_REQ"}, "RELEASE", "FREE", NoTimer,
      <<"REL_IND">>, "RELEASE_COMPL")}

RxReleaseCompl == {
  Row({"CALL_PRESENT"}, "RELEASE_COMPL", "FREE", NoTimer,
      <<"REJ_IND">>, Nothing),
  Row({"RELEASE_REQ"}, "RELEASE_COMPL", "FREE", NoTimer,
      <<"REL_CNF">>, Nothing),
  Row(States \ {"CALL_PRESENT", "RELEASE_REQ"}, "RELEASE_COMPL", "FREE",
      NoTimer, <<"REL_IND">>, Nothing)}

datastatelist ==
  UNION {RxCallProceeding, RxProgress, RxAlerting, RxConnect, RxSetup,
         RxConnectAck, RxHoldAck, RxRetrieveAck, RxFacility, RxModify,
         RxDisconnect, RxRelease, RxReleaseCompl}

Messages == {r.msg : r \in datastatelist}

(* Requests of layer 4, by handler (gsm48_cc_tx_...).                        *)

AbortMm == {
  Row({"MM_CONNECTION_PEND"}, "REL_REQ", "FREE", "keep", <<>>, Nothing)}

TxCallConf == {
  Row({"CALL_PRESENT"}, "CALL_CONF_REQ", "MO_TERM_CALL_CONF", "keep",
      <<>>, "CALL_CONF")}

TxAlerting == {
  Row({"MO_TERM_CALL_CONF"}, "ALERT_REQ", "CALL_RECEIVED", "keep",
      <<>>, "ALERTING")}

TxConnect == {
  Row({"MO_TERM_CALL_CONF", "CALL_RECEIVED"}, "SETUP_RSP",
      "CONNECT_REQUEST", "T313", <<>>, "CONNECT")}

TxHold == {Row({"ACTIVE"}, "HOLD_REQ", "ACTIVE", "keep", <<>>, "HOLD")}

TxRetrieve ==
  {Row({"ACTIVE"}, "RETRIEVE_REQ", "ACTIVE", "keep", <<>>, "RETRIEVE")}

\* The mask of states takes the bit of DISCONNECT away twice, which sets it
\* again (and clears bit 13): the request is taken in DISCONNECT, too.
TxDisconnect == {
  Row(States \ {"NULL", "RELEASE_REQ"}, "DISC_REQ", "DISCONNECT", "T305",
      <<>>, "DISCONNECT")}

\* In MM_CONNECTION_PEND the earlier row, AbortMm, is found.
TxRelease == {
  Row(States \ {"NULL", "RELEASE_REQ", "MM_CONNECTION_PEND"}, "REL_REQ",
      "RELEASE_REQ", "T308", <<>>, "RELEASE")}

downstatelist ==
  UNION {AbortMm, TxCallConf, TxAlerting, TxConnect, TxHold, TxRetrieve,
         TxDisconnect, TxRelease}

Rows(table, t, msg) == {r \in table : r.msg = msg /\ t.state \in r.on}

Taken(t, r) ==
  IF r.to = "FREE" THEN RelNullFree(r.up, r.tx)
  ELSE Does([state |-> IF r.to = "same" THEN t.state ELSE r.to,
             timer |-> IF r.timer = "keep" THEN t.timer ELSE r.timer],
            r.up, r.tx, Nothing)

-----------------------------------------------------------------------------
(***************************************************************************)
(* The entry points.                                                        *)
(***************************************************************************)

\* gsm48_cc_data_ind: what no row takes is answered with a STATUS.
DataInd(t, msg) ==
  LET rows == Rows(datastatelist, Find(t), msg)
  IN IF rows = {} THEN Does(Find(t), <<>>, "STATUS", Nothing)
     ELSE Taken(Find(t), CHOOSE r \in rows : TRUE)

\* gsm48_cc_init_mm.
InitMm == Does([New EXCEPT !.state = "MM_CONNECTION_PEND"],
               <<>>, Nothing, "EST_REQ")

\* mncc_tx_to_cc: a request without a transaction is answered with a release,
\* except the one that makes the transaction.
MnccTx(t, req) ==
  LET rows == Rows(downstatelist, t, req)
  IN CASE t = Free /\ req = "SETUP_REQ" -> InitMm
       [] t = Free /\ req # "SETUP_REQ" ->
            Does(Free, <<"REL_IND">>, Nothing, Nothing)
       [] t # Free /\ rows = {} -> Does(t, <<>>, Nothing, Nothing)
       [] OTHER -> Taken(t, CHOOSE r \in rows : TRUE)

\* gsm48_cc_tx_setup.
TxSetup == Does([state |-> "INITIATED", timer |-> "T303"],
                <<>>, "SETUP", Nothing)

\* Mutated form of RcvCc: layer 4 is not told of the release.
RcvCcSilently(t, prim) ==
  CASE prim \in {"REL_IND", "ERR_IND"} -> Does(Free, <<>>, Nothing, Nothing)
    [] prim = "EST_CNF" /\ t.state = "MM_CONNECTION_PEND" -> TxSetup
    [] OTHER -> Does(Find(t), <<>>, Nothing, Nothing)

\* gsm48_rcv_cc: what MM queued for this reference.
RcvCc(t, prim) ==
  CASE prim \in {"REL_IND", "ERR_IND"} ->
         Does(Free, <<"REL_IND">>, Nothing, Nothing)
    [] prim = "EST_CNF" /\ t.state = "MM_CONNECTION_PEND" -> TxSetup
    [] OTHER -> Does(Find(t), <<>>, Nothing, Nothing)

\* gsm48_cc_timeout: abort is set from the start, whatever the timer was, so
\* that the second period of T308 never begins.
Timeout(t) ==
  IF t.timer \in {"T310", "T313"}
  THEN RelNullFree(<<"REL_IND", "DISC_IND">>, "DISCONNECT")
  ELSE RelNullFree(<<"REL_IND">>, "RELEASE")
=============================================================================
