--------------------------------- MODULE Rr ---------------------------------
(***************************************************************************)
(* Radio resource of the mobile (gsm48_rr.c): the way from a request of MM  *)
(* or a paging to a dedicated channel - random access, immediate            *)
(* assignment, establishment of layer 2 - and back, with the timers of RR,  *)
(* the part of the cell selection that it locks (gsm322.c) and the states   *)
(* of the LAPDm link (lapd_core.c).  Handover, assignment, group calls,     *)
(* SAPI 3 and location updates, after which the cell is kept, are left out. *)
(*                                                                          *)
(* Layer 2 answers through rsl_upqueue, which mobile_work empties before it *)
(* lets MM run or waits for events again.                                   *)
(***************************************************************************)
EXTENDS Naturals, Sequences, SequencesExt

CONSTANTS Accesses,   \* max_retrans + 1: CHANNEL REQUESTs of one attempt
          Breaks,     \* phases in which the signal may be lost, or MM aborts
          UpCap       \* bound: primitives that wait for MM

Phases == {"pend", "starting", "sabm", "dedic", "release", "relwait"}

ASSUME RrAssumption ==
  Accesses \in Nat \ {0} /\ Breaks \subseteq Phases /\ UpCap \in Nat

VARIABLES
  ms,    \* the mobile: struct gsm48_rrlayer, cell selection and layer 2
  net,   \* accesses that the network heard and will answer
  mm     \* what MM asked for in the last step: "est", "abort" or "none"

vars == <<ms, net, mm>>

\* An access is known by its attempt (ra and frame number tell those of the
\* present one from those of the one before) and its number in the attempt.
AccessIds == [proc : BOOLEAN, n : 0..Accesses]

NoAccess == [proc |-> FALSE, n |-> 0]

History == 3   \* IMM_ASS_HISTORY

Timers == {"T3110", "T3122", "T3126", "starting", "relwait"}

Signals == {"CHAN_CONF", "BCCH", "PAGING", "IMM_ASS", "IMM_ASS_REJ",
            "EST_CONF", "REL_IND", "REL_CONF", "ERROR_IND", "CHAN_REL"}

Entry(p, id) == [p |-> p, id |-> id]

\* state, est (rr_est_req), wait (wait_assign), left (n_chan_req), hist
\* (cr_hist) and the timers are gsm48_rrlayer's; cell is the state of the cell
\* selection and data tells that ccch_state is DATA; l2 is the state of LAPDm;
\* rach is the access that is being sent, proc the present attempt; busy
\* tells that mobile_work empties rsl.  unrendered is auxiliary: the channel
\* that was assigned could not be made into a list of frequencies.
Mobiles ==
  [state : {"IDLE", "CONN_PEND", "DEDICATED", "REL_PEND"}, est : BOOLEAN,
   wait : 0..2, left : 0..Accesses, hist : SeqOf(AccessIds, History),
   timers : SUBSET Timers, cell : {"choose", "camped", "connected"},
   data : BOOLEAN, l2 : {"idle", "sabm", "mf", "disc"}, rach : AccessIds,
   proc : BOOLEAN, busy : BOOLEAN, unrendered : BOOLEAN,
   rsl : SeqOf([p : Signals, id : AccessIds], 3),
   up : SeqOf({"EST_CNF", "EST_IND", "REL_IND", "ABORT_IND"}, UpCap + 3)]

TypeOK ==
  ms \in Mobiles /\ net \in SUBSET AccessIds /\ mm \in {"est", "abort", "none"}

-----------------------------------------------------------------------------
(***************************************************************************)
(* What the handlers are made of.                                           *)
(***************************************************************************)
Tell(m, p)  == [m EXCEPT !.up = Append(@, p)]
Start(m, t) == [m EXCEPT !.timers = @ \cup {t}]
Stop(m, t)  == [m EXCEPT !.timers = @ \ {t}]

Rsl(m, p) == [m EXCEPT !.rsl = Append(@, Entry(p, NoAccess))]

\* new_rr_state: the starting time is dropped with dedicated mode; IDLE sends
\* RET_IDLE to the cell selection and resets layer 1.
NewState(m, state) ==
  LET left == IF m.state = "DEDICATED" /\ state # "DEDICATED"
              THEN Stop(m, "starting") ELSE m
  IN IF state # "IDLE" THEN [left EXCEPT !.state = state]
     ELSE [left EXCEPT !.state = "IDLE", !.est = FALSE, !.rach = NoAccess,
                       !.unrendered = FALSE,
                       !.cell = IF @ = "connected" THEN "choose" ELSE @]

\* MM is told only when it asked for the connection.
Failed(m) ==
  NewState(IF m.est THEN Tell(m, "REL_IND") ELSE m, "IDLE")

Released(m) == NewState(Tell(m, "REL_IND"), "IDLE")

\* Layer 2 takes DL-ESTABLISH-REQUEST in IDLE only, DL-RELEASE-REQUEST in
\* every state; only a DISC that is sent is answered later.
L2Est(m) == IF m.l2 = "idle" THEN [m EXCEPT !.l2 = "sabm"] ELSE m

L2RelLocal(m) == Rsl([m EXCEPT !.l2 = "idle"], "REL_CONF")

L2Rel(m) ==
  IF m.l2 = "idle" THEN Rsl(m, "REL_CONF") ELSE [m EXCEPT !.l2 = "disc"]

-----------------------------------------------------------------------------
(***************************************************************************)
(* Random access and assignment.                                            *)
(***************************************************************************)

\* Mutated form of RandAcc: when all accesses are used up nothing is started.
RandAccGivesUp(m) ==
  IF m.wait = 2 \/ m.left = 0 THEN m
  ELSE [m EXCEPT !.left = @ - 1, !.wait = 1,
                 !.rach = [proc |-> m.proc, n |-> m.left]]

\* Mutated form of RandAcc: the access is counted before the last is known.
RandAccCountsFirst(m) ==
  LET c == [m EXCEPT !.left = @ - 1]
  IN CASE m.wait = 2 -> m
       [] m.wait # 2 /\ m.left = 0 -> Start(c, "T3126")
       [] OTHER -> [c EXCEPT !.wait = 1,
                             !.rach = [proc |-> m.proc, n |-> m.left]]

\* gsm48_rr_tx_rand_acc on a CCCH that provides data.  Its other failures need
\* a selected cell without SI 3, which is not selected (gsm322.c:2668) nor
\* kept (gsm322.c:2555), or a CCCH that lost its data while CONN_PEND lasts.
RandAcc(m) ==
  CASE m.wait = 2 -> m
    [] m.wait # 2 /\ m.left = 0 -> Start(m, "T3126")
    [] OTHER -> [m EXCEPT !.left = @ - 1, !.wait = 1,
                          !.rach = [proc |-> m.proc, n |-> m.left]]

\* Mutated form of ChanReq: the history of the last attempt is kept.
ChanReqKeepsHistory(m, est) ==
  [m EXCEPT !.state = "CONN_PEND", !.est = est, !.wait = 0, !.left = Accesses,
            !.cell = "connected", !.data = FALSE, !.proc = ~@]

\* gsm48_rr_chan_req of a mobile that camps: LEAVE_IDLE makes the cell
\* selection synchronise to the cell again.
ChanReq(m, est) ==
  [m EXCEPT !.state = "CONN_PEND", !.est = est, !.wait = 0, !.left = Accesses,
            !.hist = <<>>, !.cell = "connected", !.data = FALSE, !.proc = ~@]

\* The channel description names no usable frequency (gsm48_rr_render_ma).
Unrendered(m) == [m EXCEPT !.unrendered = TRUE]

\* gsm48_rr_dl_est.  T3126 is stopped in every case; then a starting time is
\* waited for, the link is established, or gsm48_rr_render_ma fails and the
\* handler returns with nothing under way any more.
DlEst(m, how) ==
  LET s == Stop(m, "T3126")
  IN CASE how = "later" -> Start(s, "starting")
       [] how = "now"   -> L2Est(s)
       [] how = "never" -> Unrendered(s)

\* gsm48_match_ra, in the state in which an assignment is expected.
Expected(m, id) ==
  m.state = "CONN_PEND" /\ m.wait = 1 /\ \E i \in DOMAIN m.hist : m.hist[i] = id

RxImmAss(m, id, how) ==
  IF Expected(m, id) THEN DlEst([m EXCEPT !.wait = 2], how) ELSE m

\* wait tells that the wait indication is not zero.
RxImmAssRej(m, id, wait) ==
  LET given == [Start(m, "T3126") EXCEPT !.left = 0]
  IN CASE ~Expected(m, id) -> m
       [] Expected(m, id) /\ wait -> Start(given, "T3122")
       [] OTHER -> given

\* gsm48_rcv_cch.
RxChanConf(m, id) ==
  CASE m.state # "CONN_PEND" \/ m.wait = 2 -> m
    [] OTHER -> RandAcc([m EXCEPT !.hist =
                   SubSeq(<<id>> \o @, 1, IF Len(@) < History THEN Len(@) + 1
                                          ELSE History)])

\* gsm48_rr_rx_bcch and the like: the channel provides data.
RxBcch(m) ==
  IF m.state = "CONN_PEND" /\ ~m.data THEN RandAcc([m EXCEPT !.data = TRUE])
  ELSE m

RxPaging(m) ==
  IF m.state = "IDLE" /\ m.cell = "camped" THEN ChanReq(m, FALSE) ELSE m

-----------------------------------------------------------------------------
(***************************************************************************)
(* The link, and its release.                                               *)
(***************************************************************************)
EstabCnf(m) ==
  CASE m.state = "REL_PEND" -> L2Rel(m)
    [] m.state \in {"IDLE", "CONN_PEND"} ->
         Tell(NewState(m, "DEDICATED"), IF m.est THEN "EST_CNF" ELSE "EST_IND")
    [] OTHER -> m

\* Mutated form of RelInd: the timer that lets the UA out is not started.
RelIndUntimed(m) ==
  IF m.state \in {"CONN_PEND", "DEDICATED"}
  THEN NewState(Tell(m, "REL_IND"), "REL_PEND") ELSE m

RelInd(m) ==
  IF m.state \in {"CONN_PEND", "DEDICATED"}
  THEN NewState(Start(Tell(m, "REL_IND"), "relwait"), "REL_PEND") ELSE m

\* Mutated form of RelCnf: T3110 is left running.
RelCnfKeepsTimer(m) ==
  IF m.state # "IDLE" THEN Released(m) ELSE m

RelCnf(m) == IF m.state # "IDLE" THEN Released(Stop(m, "T3110")) ELSE m

RxChanRel(m) ==
  IF m.state = "DEDICATED"
  THEN L2Rel(Start(NewState(m, "REL_PEND"), "T3110")) ELSE m

\* gsm48_rr_mdl_error_ind, causes SEQ_ERR and UNSOL_DM_RESP_MF.
MdlError(m) ==
  IF m.state = "DEDICATED"
  THEN NewState(Tell(L2RelLocal(m), "ABORT_IND"), "IDLE") ELSE m

\* gsm48_rr_los.
Los(m) ==
  CASE m.state = "CONN_PEND" -> Released(Stop(Stop(m, "T3110"), "T3126"))
    [] m.state \in {"DEDICATED", "REL_PEND"} ->
         L2RelLocal(NewState(Stop(m, "T3110"), "REL_PEND"))
    [] OTHER -> m

\* gsm48_rcv_rsl: what an entry of rsl makes of the mobile.
Received(m, e) ==
  CASE e.p = "CHAN_CONF"   -> {RxChanConf(m, e.id)}
    [] e.p = "BCCH"        -> {RxBcch(m)}
    [] e.p = "PAGING"      -> {RxPaging(m)}
    [] e.p = "IMM_ASS"     ->
         {RxImmAss(m, e.id, how) : how \in {"now", "later", "never"}}
    [] e.p = "IMM_ASS_REJ" -> {RxImmAssRej(m, e.id, wait) : wait \in BOOLEAN}
    [] e.p = "EST_CONF"    -> {EstabCnf(m)}
    [] e.p = "REL_IND"     -> {RelInd(m)}
    [] e.p = "REL_CONF"    -> {RelCnf(m)}
    [] e.p = "ERROR_IND"   -> {MdlError(m)}
    [] e.p = "CHAN_REL"    -> {RxChanRel(m)}

\* One turn of gsm48_rsl_dequeue.
Work ==
  /\ ms.rsl # <<>>
  /\ \E m \in Received([ms EXCEPT !.rsl = Tail(@)], Head(ms.rsl)) :
       ms' = [m EXCEPT !.busy = m.rsl # <<>>]
  /\ mm' = "none"
  /\ UNCHANGED net

-----------------------------------------------------------------------------
(***************************************************************************)
(* Requests of MM.                                                          *)
(***************************************************************************)
EstReq(m) ==
  IF "T3122" \in m.timers \/ m.state # "IDLE" \/ m.cell # "camped"
  THEN Tell(m, "REL_IND") ELSE ChanReq(m, TRUE)

AbortReq(m) ==
  CASE m.state = "DEDICATED" ->
         L2Rel(NewState(Stop(m, "T3126"), "REL_PEND"))
    [] m.state = "CONN_PEND" -> NewState(Stop(m, "T3126"), "IDLE")
    [] OTHER -> m

Phase ==
  CASE ms.state = "DEDICATED" -> "dedic"
    [] ms.state = "REL_PEND" -> IF "relwait" \in ms.timers THEN "relwait"
                                ELSE "release"
    [] OTHER -> IF ms.l2 = "sabm" THEN "sabm"
                ELSE IF "starting" \in ms.timers THEN "starting" ELSE "pend"

\* What the network may still answer when another attempt has begun.
StillHeard(m) == {id \in net : m.proc = ms.proc \/ id.proc # m.proc}

Asked(q, m) == ms' = m /\ net' = StillHeard(m) /\ mm' = q

Becomes(m) == Asked("none", m)

Room == Len(ms.up) <= UpCap

MmRuns == ms.rsl = <<>> /\ Room

MmEstablishes == MmRuns /\ Asked("est", EstReq(ms))

MmAborts == MmRuns /\ Phase \in Breaks /\ Asked("abort", AbortReq(ms))

\* gsm48_rr_dequeue.
MmTakes ==
  /\ ms.rsl = <<>> /\ ms.up # <<>>
  /\ Becomes([ms EXCEPT !.up = Tail(@)])

-----------------------------------------------------------------------------
(***************************************************************************)
(* Events: timers first, then one message of layer 1.  What a timer of      *)
(* layer 2 has queued is not handled before the other timers are.           *)
(***************************************************************************)
Selects ==
  /\ ~ms.busy
  /\ \/ ms.rsl = <<>>
     \/ Len(ms.rsl) = 1 /\ Head(ms.rsl).p \in {"REL_IND", "REL_CONF"}

Fires(t) == Selects /\ t \in ms.timers

\* Mutated form of T3126: MM is not told.
T3126Silently == Fires("T3126") /\ Becomes(NewState(Stop(ms, "T3126"), "IDLE"))

T3126    == Fires("T3126")    /\ Becomes(Failed(Stop(ms, "T3126")))
T3122    == Fires("T3122")    /\ Becomes(Stop(ms, "T3122"))
T3110    == Fires("T3110")    /\
            Becomes(L2RelLocal(NewState(Stop(ms, "T3110"), "REL_PEND")))
RelWait  == Fires("relwait")  /\ Becomes(NewState(Stop(ms, "relwait"), "IDLE"))
Starting == Fires("starting") /\ \E how \in {"now", "never"} :
              Becomes(DlEst(Stop(ms, "starting"), how))

\* N200 or a DM in SABM_SENT, an answer or N200 in DISC_SENT.
L2Fails ==
  /\ Selects /\ ms.l2 \in {"sabm", "disc"}
  /\ Becomes(Rsl([ms EXCEPT !.l2 = "idle"],
                 IF ms.l2 = "sabm" THEN "REL_IND" ELSE "REL_CONF"))

\* A UA, on a channel that was assigned.
L2Established ==
  /\ Selects /\ Room /\ ms.l2 = "sabm" /\ ms.wait = 2 /\ ms.state # "IDLE"
  /\ Becomes(Rsl([ms EXCEPT !.l2 = "mf"], "EST_CONF"))

\* The network releases the link, or the channel; or the link fails.
L2Network ==
  /\ Selects /\ Room /\ ms.l2 = "mf" /\ ms.state # "IDLE"
  /\ \/ Becomes(Rsl([ms EXCEPT !.l2 = "idle"], "REL_IND"))
     \/ Becomes(Rsl(ms, "CHAN_REL"))
     \/ Becomes(Rsl(ms, "ERROR_IND"))

Lose ==
  /\ Selects /\ Room /\ ms.cell = "connected" /\ Phase \in Breaks
  /\ Becomes(Los(ms))

Sync ==
  /\ Selects /\ ms.state = "CONN_PEND" /\ ~ms.data
  /\ Becomes(Rsl(ms, "BCCH"))

\* The access is sent, and heard or not.
ChanConf ==
  /\ Selects /\ ms.rach # NoAccess
  /\ ms' = [ms EXCEPT !.rach = NoAccess,
                      !.rsl = Append(@, Entry("CHAN_CONF", ms.rach))]
  /\ net' \in {net, net \cup {ms.rach}}
  /\ mm' = "none"

NetworkAnswers ==
  /\ Selects /\ ms.state = "CONN_PEND" /\ ms.data /\ ms.wait # 2
  /\ \E id \in net, p \in {"IMM_ASS", "IMM_ASS_REJ"} :
       /\ ms' = [ms EXCEPT !.rsl = Append(@, Entry(p, id))]
       /\ net' = net \ {id}
  /\ mm' = "none"

Page ==
  /\ Selects /\ Room /\ ms.cell = "camped"
  /\ Becomes(Rsl(ms, "PAGING"))

Camp ==
  /\ Selects /\ Room /\ ms.cell = "choose"
  /\ Becomes([ms EXCEPT !.cell = "camped"])

-----------------------------------------------------------------------------
Init ==
  /\ ms = [state |-> "IDLE", est |-> FALSE, wait |-> 0, left |-> 0,
           hist |-> <<>>, timers |-> {}, cell |-> "choose", data |-> FALSE,
           l2 |-> "idle", rach |-> NoAccess, proc |-> FALSE, busy |-> FALSE,
           unrendered |-> FALSE, rsl |-> <<>>, up |-> <<>>]
  /\ net = {} /\ mm = "none"

Next ==
  \/ Work \/ MmEstablishes \/ MmAborts \/ MmTakes
  \/ T3126 \/ T3122 \/ T3110 \/ RelWait \/ Starting
  \/ L2Fails \/ L2Established \/ L2Network
  \/ Lose \/ Sync \/ ChanConf \/ NetworkAnswers \/ Page \/ Camp

\* Queues are served, timers expire, layer 1 confirms what it sent, the cell
\* is found again or lost, and layer 2 gives up in the end.
Fairness ==
  /\ WF_vars(Work) /\ WF_vars(MmTakes)
  /\ WF_vars(T3126) /\ WF_vars(T3110) /\ WF_vars(RelWait) /\ WF_vars(Starting)
  /\ WF_vars(Sync) /\ WF_vars(ChanConf) /\ WF_vars(L2Fails)

Spec == Init /\ [][Next]_vars /\ Fairness

-----------------------------------------------------------------------------
(***************************************************************************)
(* Properties.                                                              *)
(***************************************************************************)

\* The connection as RrLink sees it.
Link ==
  [st |-> CASE ms.state = "IDLE" -> IF ms.cell = "camped" THEN "camped"
                                    ELSE "choose"
            [] ms.state = "CONN_PEND" -> "pend"
            [] ms.state = "DEDICATED" -> "dedic"
            [] OTHER -> IF "relwait" \in ms.timers THEN "relwait"
                        ELSE "release",
   est |-> ms.est, asked |-> FALSE, t3122 |-> "T3122" \in ms.timers]

Service == INSTANCE RrService WITH link <- Link, up <- ms.up

\* Whatever random access, assignment, layer 2 and the timers do, MM sees the
\* service of RrLink: one end of every connection that it asked for, reported
\* once, and none reported before it is there (the primitives that
\* gsm48_rr_upmsg queues, from every handler of gsm48_rr.c).
ImplementsLink == Service!ServiceSpec

\* The channel that is taken is the one assigned to an access of the present
\* attempt: an assignment that the network made for an attempt that was given
\* up is not mistaken for it (gsm48_match_ra and the reset of cr_hist).
AssignmentIsOwn ==
  [][ms'.wait = 2 /\ ms.wait # 2 => Head(ms.rsl).id.proc = ms.proc]_vars

\* No timer of one phase is running in another, where its expiry would end or
\* change a connection that it does not belong to (start_rr_t* and stop_rr_t*
\* in the handlers).
TimersAreOwn ==
  /\ ms.timers \cap {"T3110", "relwait"} # {} => ms.state = "REL_PEND"
  /\ "T3126" \in ms.timers => ms.state = "CONN_PEND" /\ ms.wait # 2
  /\ "starting" \in ms.timers => ms.state = "CONN_PEND" /\ ms.wait = 2

\* An access ends, in a channel or not, even when the network answers nothing
\* and MM waits: T3126, t_starting or layer 2 see to it.  In one case nothing
\* does, and RR stays in CONN_PEND until the signal is lost or MM aborts: the
\* frequencies of the channel that was assigned cannot be rendered, and T3126
\* has been stopped (gsm48_rr_dl_est).
AccessEnds ==
  ms.state = "CONN_PEND" ~> ms.state # "CONN_PEND" \/ ms.unrendered

\* A release ends, whoever began it: layer 2, T3110 or t_rel_wait finish it.
ReleaseEnds == ms.state = "REL_PEND" ~> ms.state # "REL_PEND"
=============================================================================
