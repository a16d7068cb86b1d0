-------------------------------- MODULE Call --------------------------------
(***************************************************************************)
(* The mobile's calls, from the user to the radio connection: layer 4       *)
(* (Mncc), call control (Cc), the MM connections (MmConn) and the radio     *)
(* connection (RrLink), composed the way mobile_work composes them.         *)
(*                                                                          *)
(* A request goes down by function calls: it has its whole effect, through  *)
(* all layers, before it returns.  What a layer has to say to the layer     *)
(* above is put on a queue, and the event loop serves the queues in a fixed *)
(* round until all of them are empty; only then it waits for timers, for    *)
(* the radio and for the user again.                                        *)
(***************************************************************************)
EXTENDS Naturals, Sequences

CONSTANTS MoRefs,   \* references of calls that the user makes (new_callref)
          MtRefs,   \* references of calls of the network (mm_conn_new_ref)
          Burst,    \* bound: what may be queued when another event comes in
          AirCap    \* bound: messages of the network that wait for RR

Refs == MoRefs \cup MtRefs

L4 == INSTANCE Mncc WITH CallRefs <- Refs
CC == INSTANCE Cc
MM == INSTANCE MmConn
RR == INSTANCE RrLink

VARIABLES
  trans,   \* trans_list: the transaction of each reference
  mm,      \* the MM layer
  link,    \* the radio connection
  calls,   \* call_list
  rrUp,    \* rr_upqueue: RR to MM
  mmxx,    \* mmxx_upqueue: MM to CC
  events,  \* event_queue of MM
  mncc,    \* mncc_upqueue: CC to layer 4
  at       \* where the event loop is

vars == <<trans, mm, link, calls, rrUp, mmxx, events, mncc, at>>

World == [trans |-> trans, mm |-> mm, link |-> link, calls |-> calls,
          rrUp |-> rrUp, mmxx |-> mmxx, events |-> events, mncc |-> mncc]

\* The queues in the order of mobile_work.
Round == <<"rrUp", "mmxx", "events", "mncc">>

Stages == {"select"} \cup {Round[i] : i \in DOMAIN Round}

NoRef == "-"

MmMessages == {"CM_SERV_ACC", "CM_SERV_REJ", "MM_ABORT", "SYNC_IND"}

RrPrims == {"EST_CNF", "EST_IND", "REL_IND", "ABORT_IND"} \cup MmMessages
             \cup CC!Messages

Up(p, ref) == [p |-> p, ref |-> ref]

TypeOK ==
  /\ trans \in [Refs -> CC!Transactions]
  /\ mm \in MM!MmLayers
  /\ link \in RR!Links
  /\ calls \in L4!CallLists
  /\ \A i \in DOMAIN rrUp : rrUp[i].p \in RrPrims
  /\ \A i \in DOMAIN mmxx : mmxx[i].ref \in Refs
  /\ \A i \in DOMAIN mncc : mncc[i].ref \in Refs
  /\ \A i \in DOMAIN events : events[i] = "CELL_SELECTED"
  /\ at \in Stages
  /\ \A i, j \in DOMAIN mm.conns : mm.conns[i].ref = mm.conns[j].ref => i = j

-----------------------------------------------------------------------------
(***************************************************************************)
(* Requests, from each layer down to the radio.                             *)
(***************************************************************************)
LinkDoes(w, g) ==
  [w EXCEPT !.link = g.link,
            !.rrUp = @ \o [i \in DOMAIN g.up |-> Up(g.up[i], NoRef)]]

RrDown(w, req) ==
  CASE req = "EST_REQ"     -> LinkDoes(w, RR!EstReq(w.link))
    [] req = "CM_SERV_REQ" -> [w EXCEPT !.link = RR!ServReq(@)]
    [] req = "ABORT_REQ"   -> [w EXCEPT !.link = RR!AbortReq(@)]
    [] OTHER               -> w

MmDoes(w, r) == RrDown([w EXCEPT !.mm = r.mm, !.mmxx = @ \o r.up], r.rr)

CcDoes(w, ref, r) ==
  LET kept == [w EXCEPT !.trans[ref] = r.t,
                        !.mncc = @ \o [i \in DOMAIN r.up |-> Up(r.up[i], ref)]]
      sent == IF r.tx = CC!Nothing THEN kept
              ELSE MmDoes(kept, MM!DataReq(kept.mm, ref))
  IN CASE r.conn = "EST_REQ" -> MmDoes(sent, MM!EstReq(sent.mm, ref))
       [] r.conn = "REL_REQ" -> MmDoes(sent, MM!RelReq(sent.mm, ref))
       [] OTHER -> sent

L4Asks(w, reqs, n) ==
  IF n \in DOMAIN reqs
  THEN CcDoes(w, reqs[n].ref, CC!MnccTx(w.trans[reqs[n].ref], reqs[n].type))
  ELSE w

\* No handler of layer 4 makes more than three requests.
L4Does(w, r) ==
  LET first  == L4Asks([w EXCEPT !.calls = r.calls], r.reqs, 1)
      second == L4Asks(first, r.reqs, 2)
  IN L4Asks(second, r.reqs, 3)

-----------------------------------------------------------------------------
(***************************************************************************)
(* Deliveries of the event loop: the entry that was taken from the queue.   *)
(***************************************************************************)
Mentioned(w) ==
  {w.calls[i].ref : i \in DOMAIN w.calls} \cup
  {r \in Refs : w.trans[r] # CC!Free} \cup
  {w.mm.conns[i].ref : i \in DOMAIN w.mm.conns} \cup
  UNION {{q[i].ref : i \in DOMAIN q} : q \in {w.rrUp, w.mmxx, w.mncc}}

\* References are counted up; here one is free again when nothing has it.
Fresh(w, refs) == refs \ Mentioned(w)

\* gsm48_mm_data_ind for a call control message, and gsm48_rcv_cc.
CcMessage(w, msg, ref) ==
  LET reached == [w EXCEPT !.mm = MM!Reached(@, ref)]
  IN CcDoes(reached, ref, CC!DataInd(reached.trans[ref], msg))

Camped(w) == w.link.st = "camped"

RrDeliver(w, e) ==
  CASE e.p = "EST_CNF"     -> {MmDoes(w, MM!EstCnf(w.mm))}
    [] e.p = "EST_IND"     -> {MmDoes(w, MM!EstInd(w.mm))}
    [] e.p = "REL_IND"     -> {MmDoes(w, MM!RrGone(w.mm, "REL_IND", Camped(w)))}
    [] e.p = "ABORT_IND"   -> {MmDoes(w, MM!RrGone(w.mm, "ERR_IND", Camped(w)))}
    [] e.p = "SYNC_IND"    -> {MmDoes(w, MM!SyncInd(w.mm))}
    [] e.p = "CM_SERV_ACC" -> {MmDoes(w, MM!CmServAcc(w.mm))}
    [] e.p = "CM_SERV_REJ" -> {MmDoes(w, MM!CmServRej(w.mm)),
                               MmDoes(w, MM!CmServRejAll(w.mm))}
    [] e.p = "MM_ABORT"    -> {MmDoes(w, MM!MmAbort(w.mm))}
    [] e.p \in CC!Messages ->
         IF MM!HasConn(w.mm, e.ref) THEN {CcMessage(w, e.p, e.ref)}
         ELSE LET new == Fresh(w, MtRefs)
              IN {CcMessage(w, e.p, r) : r \in new} \cup
                 (IF new = {} THEN {w} ELSE {})

MmxxDeliver(w, e) == {CcDoes(w, e.ref, CC!RcvCc(w.trans[e.ref], e.p))}

EventDeliver(w) == {MmDoes(w, MM!CellSelected(w.mm, Camped(w)))}

MnccDeliver(w, e) ==
  {L4Does(w, r) : r \in {L4!Recv(w.calls, e.p, e.ref, how) : how \in L4!Hows}}

Queues(w) == <<w.rrUp, w.mmxx, w.events, w.mncc>>

Waiting(w) == {s \in DOMAIN Queues(w) : Queues(w)[s] # <<>>}

\* The first queue with an entry, from the one that is being served on.
Turn(w, stage) ==
  LET place == IF stage = "select" THEN 1
               ELSE CHOOSE s \in DOMAIN Round : Round[s] = stage
      late  == {s \in Waiting(w) : s >= place}
      from  == IF late = {} THEN Waiting(w) ELSE late
  IN IF from = {} THEN "select"
     ELSE Round[CHOOSE s \in from : \A t \in from : s <= t]

Becomes(w, stage) ==
  /\ trans' = w.trans   /\ mm' = w.mm       /\ link' = w.link
  /\ calls' = w.calls   /\ rrUp' = w.rrUp   /\ mmxx' = w.mmxx
  /\ events' = w.events /\ mncc' = w.mncc   /\ at' = stage

Served(w, stage) == Becomes(w, IF Waiting(w) = {} THEN "select" ELSE stage)

ServeRr ==
  /\ Turn(World, at) = "rrUp"
  /\ \E w \in RrDeliver([World EXCEPT !.rrUp = Tail(@)], Head(rrUp)) :
       Served(w, "rrUp")

ServeMmxx ==
  /\ Turn(World, at) = "mmxx"
  /\ \E w \in MmxxDeliver([World EXCEPT !.mmxx = Tail(@)], Head(mmxx)) :
       Served(w, "mmxx")

ServeEvents ==
  /\ Turn(World, at) = "events"
  /\ \E w \in EventDeliver([World EXCEPT !.events = Tail(@)]) :
       Served(w, "events")

ServeMncc ==
  /\ Turn(World, at) = "mncc"
  /\ \E w \in MnccDeliver([World EXCEPT !.mncc = Tail(@)], Head(mncc)) :
       Served(w, "mncc")

Serve == ServeRr \/ ServeMmxx \/ ServeEvents \/ ServeMncc

-----------------------------------------------------------------------------
(***************************************************************************)
(* Timers, the radio and the user: what osmo_select_main calls.             *)
(***************************************************************************)
Queued == Len(rrUp) + Len(mmxx) + Len(events) + Len(mncc)

InSelect == at = "select" /\ Queued <= Burst

Selects(w) == InSelect /\ Becomes(w, "select")

T3230 == mm.t3230 /\ Selects(MmDoes(World, MM!T3230(mm)))

T3240 ==
  /\ mm.t3240
  /\ Selects(MmDoes(World, MM!T3240(mm, RR!AbortReq(link).st = "camped")))

CcTimeout(ref) ==
  /\ trans[ref].timer # CC!NoTimer
  /\ Selects(CcDoes(World, ref, CC!Timeout(trans[ref])))

T3122 == link.t3122 /\ Selects([World EXCEPT !.link.t3122 = FALSE])

Radio == \E g \in RR!Steps(link) : Selects(LinkDoes(World, g))

\* RR has left the connection and the cell selection has found a cell.
Camp ==
  /\ link.st = "choose"
  /\ Selects([World EXCEPT !.link.st = "camped",
                           !.events = Append(@, "CELL_SELECTED")])

Arrives(msg, ref, l) ==
  /\ link.st = "dedic" /\ Len(rrUp) < AirCap
  /\ Selects([World EXCEPT !.rrUp = Append(@, Up(msg, ref)), !.link = l])

Answers == Arrives("CM_SERV_ACC", NoRef, [link EXCEPT !.asked = FALSE])

Refuses == Arrives("CM_SERV_REJ", NoRef, [link EXCEPT !.asked = FALSE])

MmMessage ==
  \/ link.asked /\ (Answers \/ Refuses)
  \/ Arrives("MM_ABORT", NoRef, link)
  \/ Arrives("SYNC_IND", NoRef, link)

\* On a connection whose transaction identifier the network knows, or on one
\* of its own that the mobile does not know.
CcFromNetwork ==
  /\ link.st = "dedic" /\ InSelect
  /\ \E ref \in Fresh(World, MtRefs) \cup
                {r \in Refs : MM!HasConn(mm, r) /\ trans[r].state \notin
                                 {"FREE", "MM_CONNECTION_PEND"}} :
       \E msg \in CC!Messages : Arrives(msg, ref, link)

UserDoes(r) == Selects(L4Does(World, r))

Dial   == InSelect /\ \E ref \in Fresh(World, MoRefs) : UserDoes(L4!Dial(calls, ref))
Hangup == calls # <<>> /\ UserDoes(L4!Hangup(calls))
Answer == calls # <<>> /\ UserDoes(L4!Answer(calls))
Hold   == calls # <<>> /\ UserDoes(L4!Hold(calls))
Retrieve == \E n \in DOMAIN calls : UserDoes(L4!Retrieve(calls, n))

-----------------------------------------------------------------------------
Init ==
  /\ trans = [r \in Refs |-> CC!Free]
  /\ mm = MM!MmInit
  /\ link = RR!LinkInit
  /\ calls = <<>> /\ rrUp = <<>> /\ mmxx = <<>>
  /\ events = <<>> /\ mncc = <<>>
  /\ at = "select"

Timers == T3230 \/ T3240 \/ T3122 \/ \E ref \in Refs : CcTimeout(ref)

Network == Radio \/ Camp \/ MmMessage \/ CcFromNetwork

User == Dial \/ Hangup \/ Answer \/ Hold \/ Retrieve

Next == Serve \/ Timers \/ Network \/ User

Spec == Init /\ [][Next]_vars

-----------------------------------------------------------------------------
(***************************************************************************)
(* Properties.                                                              *)
(***************************************************************************)
Live(r) == trans[r].state \notin {"FREE", "NULL"}

Told(q, r, prims) == \E i \in DOMAIN q : q[i].ref = r /\ q[i].p \in prims

Ends == {"REL_IND", "ERR_IND", "REL_CNF", "REJ_IND"}

\* Call control never keeps a call whose MM connection is gone: whoever
\* releases the connection, for whatever reason and in whatever order with
\* the messages that are queued (gsm48_mm_release_mm_conn), tells it.
TransactionHasConnection ==
  \A r \in Refs : Live(r) => MM!HasConn(mm, r) \/ Told(mmxx, r, Ends)

\* A call that waits for its MM connection (no timer of its own runs) has a
\* request pending in MM, or the answer is on its way.  What becomes of the
\* request is said by the rest of WaitsAreTimed and by WaitIsKept.
WaitIsAnswered ==
  \A r \in Refs : trans[r].state = "MM_CONNECTION_PEND" =>
    \/ \E i \in DOMAIN mm.conns : mm.conns[i] = MM!Conn(r, "PEND")
    \/ Told(mmxx, r, Ends \cup {"EST_CNF"})

\* A call of layer 4 that left its initial state has a transaction, or its
\* release is queued: the user is not shown a call that does not exist.
CallHasTransaction ==
  \A i \in DOMAIN calls : ~calls[i].init =>
    LET r == calls[i].ref
    IN trans[r] # CC!Free \/ Told(mncc, r, Ends) \/ Told(mmxx, r, Ends)

\* "Oops, MMCC-EST-CONF in state": a confirmation always finds the call that
\* waits for it, although the user may hang up while CM SERVICE ACCEPT is
\* under way (gsm48_rcv_cc would leave a transaction in NULL for ever).
ConfirmIsExpected ==
  Turn(World, at) = "mmxx" /\ Head(mmxx).p = "EST_CNF" =>
    trans[Head(mmxx).ref].state = "MM_CONNECTION_PEND"

RrAnswers ==
  \E i \in DOMAIN rrUp : rrUp[i].p \in {"EST_CNF", "REL_IND", "ABORT_IND"}

\* In the states that wait for the network, something ends the wait: T3230
\* where a CM SERVICE REQUEST was sent, RR where the radio connection is set
\* up (RR still does so or its answer is queued), the timer of its state for
\* a call, and MM for a call that has none.  A connection that waits while MM
\* does not is WaitIsKept's.
WaitsAreTimed ==
  /\ WaitIsAnswered
  /\ mm.state \in {"WAIT_OUT", "WAIT_ADD"} /\ MM!Pending(mm) => mm.t3230
  /\ mm.state = "WAIT_RR" /\ MM!Pending(mm) => link.st = "pend" \/ RrAnswers
  /\ \A r \in Refs :
       LET t == trans[r]
       IN /\ t.state = "INITIATED"       => t.timer = "T303"
          /\ t.state = "CONNECT_REQUEST" => t.timer = "T313"
          /\ t.state = "RELEASE_REQ"     => t.timer = "T308"

\* A connection waits, and MM heeds neither T3230 nor a reject for it.
Stranded ==
  MM!Pending(mm) /\ mm.state \notin {"WAIT_RR", "WAIT_OUT", "WAIT_ADD"}

\* MM leaves its waiting states only with an answer to the connection that
\* waits: it is accepted, released or refused before.  The one exception is
\* CELL_SELECTED, which makes MM idle over a connection that waits
\* (AnotherOnExistingRr shows how).  No timer ends that wait, and it keeps the
\* calls that are made after it from being set up.
WaitIsKept == [][Stranded' => Stranded \/ ServeEvents]_vars

\* A connection that serves a call keeps MM out of the states in which it
\* drops the call's messages or gives the radio connection back.
DedicatedIsActive ==
  (\E i \in DOMAIN mm.conns : mm.conns[i].st = "DEDIC")
    => mm.state \in {"ACTIVE", "WAIT_ADD"}

\* When the mobile camps and nothing is queued, MM is idle: the next call can
\* be made, whatever state the connection was lost in (CELL_SELECTED).
CampedMeansIdle == link.st = "camped" /\ Queued = 0 => mm.state = "IDLE"

Phase(t) ==
  CASE t.state \in {"FREE", "NULL"} -> 0
    [] t.state \in {"MM_CONNECTION_PEND", "CALL_PRESENT"} -> 1
    [] t.state \in {"INITIATED", "MO_TERM_CALL_CONF"} -> 2
    [] t.state \in {"MO_CALL_PROC", "CALL_RECEIVED"} -> 3
    [] t.state \in {"CALL_DELIVERED", "CONNECT_REQUEST"} -> 4
    [] t.state \in {"ACTIVE", "MO_ORIG_MODIFY"} -> 5
    [] t.state = "DISCONNECT" -> 6
    [] t.state = "RELEASE_REQ" -> 7

\* A call goes forward until it is gone: no late or repeated message, timer
\* or command brings back a call that is being cleared or goes back in its
\* set-up.
NoWayBack ==
  [][\A r \in Refs : Phase(trans'[r]) = 0
                      \/ Phase(trans'[r]) >= Phase(trans[r])]_vars

\* gsm48_mm_init_mm_more: "another MM connection request on existing RR
\* connection".  Not so after a REL_IND: MM stays in ACTIVE until the mobile
\* camps, and the request of a call made meanwhile is dropped.
AnotherOnExistingRr ==
  mm.state = "WAIT_ADD"
    /\ (\E i \in DOMAIN mm.conns : mm.conns[i].st = "PEND") =>
    \/ link.st \in {"dedic", "release", "relwait"}
    \/ \E i \in DOMAIN rrUp : rrUp[i].p \in {"REL_IND", "ABORT_IND"}
=============================================================================
