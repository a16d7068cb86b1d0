----------------------------- MODULE Rr_proofs -----------------------------
(***************************************************************************)
(* Proofs about Rr, for every number of accesses, every bound on MM's queue *)
(* and any backlog for MM:                                                  *)
(*                                                                          *)
(*   an immediate assignment that is taken belongs to the present attempt,  *)
(*   in every phase in which the signal is lost or MM aborts;               *)
(*                                                                          *)
(*   the situations in which the queue of layer 2, the timers and the       *)
(*   layer 2 link may find a connection, and that what MM sees of the radio *)
(*   resource layer is the service of RrService, as long as the signal is   *)
(*   lost and MM aborts only in the phases of Sound: what is in progress    *)
(*   while a channel is taken or the last UA is sent outlives the           *)
(*   connection, because gsm48_rr_los and gsm48_rr_abort_req stop neither   *)
(*   t_starting nor the layer 2 link;                                       *)
(*                                                                          *)
(*   the types and the bounds of the queues, from what MM may still be told *)
(*   of the connection there is and of the one that a queued paging begins. *)
(***************************************************************************)
EXTENDS Rr, SequenceTheorems, TLAPS

Entries == [p : Signals, id : AccessIds]

Shapes ==
  [state : {"IDLE", "CONN_PEND", "DEDICATED", "REL_PEND"}, est : BOOLEAN,
   wait : 0..2, left : 0..Accesses, hist : Seq(AccessIds),
   timers : SUBSET Timers, cell : {"choose", "camped", "connected"},
   data : BOOLEAN, l2 : {"idle", "sabm", "mf", "disc"}, rach : AccessIds,
   proc : BOOLEAN, busy : BOOLEAN, unrendered : BOOLEAN, rsl : Seq(Entries),
   up : Seq({"EST_CNF", "EST_IND", "REL_IND", "ABORT_IND"})]

\* What comes of an assignment (gsm48_rr_dl_est).
Ways == {"now", "later", "never"}

\* The accesses of an attempt, and the queues of layer 2 in which no access
\* was confirmed, or no paging waits and all accesses are of that attempt.
Own(proc) == {id \in AccessIds : id.proc = proc}

NoConf == {e \in Entries : e.p # "CHAN_CONF"}

NoPage(proc) ==
  {e \in Entries : e.p # "PAGING" /\ (e.p = "CHAN_CONF" => e.id \in Own(proc))}

\* A new attempt begins from IDLE, with nothing of the last one left that
\* could enter the history of accesses later.
OwnHistory(m) ==
  /\ m \in Shapes
  /\ m.hist \in Seq(Own(m.proc))
  /\ m.rach \in Own(m.proc) \cup {NoAccess}
  /\ m.rsl \in Seq(NoConf) \cup Seq(NoPage(m.proc))
  /\ m.state = "IDLE" => m.rach = NoAccess

\* What every handler but RxImmAss makes of the mobile.
Harmless(m, n) == OwnHistory(n) /\ (n.wait = 2 => m.wait = 2)

IInv == OwnHistory(ms) /\ net \in SUBSET AccessIds

-----------------------------------------------------------------------------
(* Lemmas about the operators. *)

\* A change of the other fields leaves the history alone.
LEMMA OthersHarmless ==
  ASSUME NEW m, OwnHistory(m), NEW n \in Shapes,
         n.hist = m.hist, n.rach = m.rach, n.proc = m.proc, n.rsl = m.rsl,
         n.state = "IDLE" => m.state = "IDLE", n.wait = 2 => m.wait = 2
  PROVE  Harmless(m, n)
BY DEF Harmless, OwnHistory

\* The blocks of which handlers are made leave the history alone.
LEMMA TellHarmless ==
  ASSUME NEW m, OwnHistory(m),
         NEW p \in {"EST_CNF", "EST_IND", "REL_IND", "ABORT_IND"}
  PROVE  Harmless(m, Tell(m, p)) /\ Tell(m, p).state = m.state
<1>1. m \in Shapes
  BY DEF OwnHistory
<1>2. Append(m.up, p) \in Seq({"EST_CNF", "EST_IND", "REL_IND", "ABORT_IND"})
  BY <1>1 DEF Shapes
<1>3. Tell(m, p) \in Shapes
  BY <1>1, <1>2 DEF Shapes, Tell
<1>4. /\ Tell(m, p).hist = m.hist /\ Tell(m, p).rach = m.rach
      /\ Tell(m, p).proc = m.proc /\ Tell(m, p).rsl = m.rsl
      /\ Tell(m, p).state = m.state /\ Tell(m, p).wait = m.wait
  BY <1>1 DEF Shapes, Tell
<1> QED
  BY <1>3, <1>4, OthersHarmless

LEMMA TimersHarmless ==
  ASSUME NEW m, OwnHistory(m), NEW t \in Timers
  PROVE  /\ Harmless(m, Start(m, t)) /\ Start(m, t).state = m.state
         /\ Harmless(m, Stop(m, t)) /\ Stop(m, t).state = m.state
<1>1. m \in Shapes
  BY DEF OwnHistory
<1>2. m.timers \cup {t} \in SUBSET Timers /\ m.timers \ {t} \in SUBSET Timers
  BY <1>1 DEF Shapes
<1>3. Start(m, t) \in Shapes /\ Stop(m, t) \in Shapes
  BY <1>1, <1>2 DEF Shapes, Start, Stop
<1>4. \A n \in {Start(m, t), Stop(m, t)} :
        /\ n.hist = m.hist /\ n.rach = m.rach /\ n.proc = m.proc
        /\ n.rsl = m.rsl /\ n.state = m.state /\ n.wait = m.wait
  BY <1>1 DEF Shapes, Start, Stop
<1> QED
  BY <1>3, <1>4, OthersHarmless

LEMMA RslHarmless ==
  ASSUME NEW m, OwnHistory(m), NEW p \in Signals \ {"CHAN_CONF", "PAGING"}
  PROVE  Harmless(m, Rsl(m, p)) /\ Rsl(m, p).state = m.state
<1>1. Entry(p, NoAccess) \in NoConf /\ Entry(p, NoAccess) \in NoPage(m.proc)
  BY RrAssumption DEF Entry, NoAccess, NoConf, NoPage, Entries, AccessIds
<1>2. Append(m.rsl, Entry(p, NoAccess)) \in Seq(NoConf) \cup Seq(NoPage(m.proc))
  BY <1>1 DEF OwnHistory
<1>3. Append(m.rsl, Entry(p, NoAccess)) \in Seq(Entries)
  BY <1>1 DEF OwnHistory, Shapes, NoConf
<1>4. m \in Shapes
  BY DEF OwnHistory
<1>5. Rsl(m, p) \in Shapes
  BY <1>3, <1>4 DEF Shapes, Rsl
<1>6. /\ Rsl(m, p).rsl = Append(m.rsl, Entry(p, NoAccess))
      /\ Rsl(m, p).hist = m.hist /\ Rsl(m, p).rach = m.rach
      /\ Rsl(m, p).proc = m.proc /\ Rsl(m, p).state = m.state
      /\ Rsl(m, p).wait = m.wait
  BY <1>4 DEF Shapes, Rsl
<1> QED
  BY <1>2, <1>5, <1>6 DEF Harmless, OwnHistory

LEMMA NewStateHarmless ==
  ASSUME NEW m, OwnHistory(m),
         NEW state \in {"IDLE", "CONN_PEND", "DEDICATED", "REL_PEND"}
  PROVE  Harmless(m, NewState(m, state)) /\ NewState(m, state).state = state
<1> DEFINE left == IF m.state = "DEDICATED" /\ state # "DEDICATED"
                   THEN Stop(m, "starting") ELSE m
<1>1. OwnHistory(left) /\ (left.wait = 2 => m.wait = 2)
  BY TimersHarmless DEF Timers, Harmless, Stop
<1>2. NoAccess \in AccessIds
  BY RrAssumption DEF NoAccess, AccessIds
<1> HIDE DEF left
<1>3. CASE state # "IDLE"
  <2>1. NewState(m, state) = [left EXCEPT !.state = state]
    BY <1>3 DEF NewState, left
  <2>2. left \in Shapes
    BY <1>1 DEF OwnHistory
  <2>3. /\ NewState(m, state) \in Shapes
        /\ NewState(m, state).state = state
        /\ NewState(m, state).wait = left.wait
        /\ NewState(m, state).hist = left.hist
        /\ NewState(m, state).rach = left.rach
        /\ NewState(m, state).proc = left.proc
        /\ NewState(m, state).rsl = left.rsl
    BY <2>1, <2>2 DEF Shapes
  <2> QED
    BY <1>1, <1>3, <2>3 DEF Harmless, OwnHistory
<1>4. CASE state = "IDLE"
  <2>1. NewState(m, state) =
          [left EXCEPT !.state = "IDLE", !.est = FALSE, !.rach = NoAccess,
                       !.unrendered = FALSE,
                       !.cell = IF @ = "connected" THEN "choose" ELSE @]
    BY <1>4 DEF NewState, left
  <2>2. left \in Shapes
    BY <1>1 DEF OwnHistory
  <2>3. /\ NewState(m, state) \in Shapes
        /\ NewState(m, state).state = "IDLE"
        /\ NewState(m, state).wait = left.wait
        /\ NewState(m, state).hist = left.hist
        /\ NewState(m, state).rach = NoAccess
        /\ NewState(m, state).proc = left.proc
        /\ NewState(m, state).rsl = left.rsl
    BY <1>2, <2>1, <2>2 DEF Shapes
  <2> QED
    BY <1>1, <1>4, <2>3 DEF Harmless, OwnHistory
<1> QED
  BY <1>3, <1>4

LEMMA HarmlessTwice ==
  ASSUME NEW m, NEW n, NEW o, Harmless(m, n), Harmless(n, o)
  PROVE  Harmless(m, o)
BY DEF Harmless

\* The state of the link of layer 2.
LEMMA L2StateHarmless ==
  ASSUME NEW m, OwnHistory(m), NEW l \in {"idle", "sabm", "mf", "disc"}
  PROVE  Harmless(m, [m EXCEPT !.l2 = l]) /\ [m EXCEPT !.l2 = l].state = m.state
<1>1. m \in Shapes
  BY DEF OwnHistory
<1>2. [m EXCEPT !.l2 = l] \in Shapes
  BY <1>1 DEF Shapes
<1>3. /\ [m EXCEPT !.l2 = l].hist = m.hist /\ [m EXCEPT !.l2 = l].rach = m.rach
      /\ [m EXCEPT !.l2 = l].proc = m.proc /\ [m EXCEPT !.l2 = l].rsl = m.rsl
      /\ [m EXCEPT !.l2 = l].state = m.state
      /\ [m EXCEPT !.l2 = l].wait = m.wait
  BY <1>1 DEF Shapes
<1> QED
  BY <1>2, <1>3, OthersHarmless

LEMMA L2Harmless ==
  ASSUME NEW m, OwnHistory(m)
  PROVE  /\ Harmless(m, L2Est(m)) /\ L2Est(m).state = m.state
         /\ Harmless(m, L2RelLocal(m)) /\ L2RelLocal(m).state = m.state
         /\ Harmless(m, L2Rel(m)) /\ L2Rel(m).state = m.state
<1>1. Harmless(m, m)
  BY DEF Harmless
<1>2. "REL_CONF" \in Signals \ {"CHAN_CONF", "PAGING"}
  BY DEF Signals
<1>3. Harmless(m, L2Est(m)) /\ L2Est(m).state = m.state
  BY <1>1, L2StateHarmless DEF L2Est
<1>4. Harmless(m, L2RelLocal(m)) /\ L2RelLocal(m).state = m.state
  <2> DEFINE n == [m EXCEPT !.l2 = "idle"]
  <2>1. Harmless(m, n) /\ n.state = m.state
    BY L2StateHarmless
  <2>2. L2RelLocal(m) = Rsl(n, "REL_CONF")
    BY DEF L2RelLocal
  <2> HIDE DEF n
  <2>3. Harmless(n, Rsl(n, "REL_CONF")) /\ Rsl(n, "REL_CONF").state = n.state
    BY <1>2, <2>1, RslHarmless DEF Harmless
  <2> QED
    BY <2>1, <2>2, <2>3, HarmlessTwice
<1>5. Harmless(m, L2Rel(m)) /\ L2Rel(m).state = m.state
  BY <1>2, L2StateHarmless, RslHarmless DEF L2Rel
<1> QED
  BY <1>3, <1>4, <1>5

\* An access is of the present attempt.
LEMMA RandAccHarmless ==
  ASSUME NEW m, OwnHistory(m), m.state # "IDLE"
  PROVE  Harmless(m, RandAcc(m))
<1>1. m \in Shapes
  BY DEF OwnHistory
<1>2. CASE m.wait = 2
  BY <1>2 DEF RandAcc, Harmless
<1>3. CASE m.wait # 2 /\ m.left = 0
  BY <1>3, TimersHarmless DEF RandAcc, Timers
<1>4. CASE m.wait # 2 /\ m.left # 0
  <2> DEFINE id == [proc |-> m.proc, n |-> m.left]
  <2> DEFINE rest == m.left - 1
  <2>1. RandAcc(m) = [m EXCEPT !.left = rest, !.wait = 1, !.rach = id]
    BY <1>4 DEF RandAcc
  <2>2. id \in AccessIds /\ id \in Own(m.proc)
    BY <1>1 DEF Shapes, AccessIds, Own
  <2>3. rest \in 0..Accesses /\ 1 \in 0..2
    BY <1>1, <1>4, RrAssumption DEF Shapes
  <2> HIDE DEF id, rest
  <2>4. RandAcc(m) \in Shapes
    BY <1>1, <2>1, <2>2, <2>3 DEF Shapes
  <2>5. /\ RandAcc(m).hist = m.hist /\ RandAcc(m).rach = id
        /\ RandAcc(m).proc = m.proc /\ RandAcc(m).rsl = m.rsl
        /\ RandAcc(m).state = m.state /\ RandAcc(m).wait = 1
    BY <1>1, <2>1 DEF Shapes
  <2> QED
    BY <2>2, <2>4, <2>5 DEF Harmless, OwnHistory
<1> QED
  BY <1>2, <1>3, <1>4

\* A new attempt begins with an empty history; what was sent for the last one
\* is confirmed by then.
LEMMA ChanReqHarmless ==
  ASSUME NEW m, OwnHistory(m), m.state = "IDLE", m.rsl \in Seq(NoConf),
         NEW est \in BOOLEAN
  PROVE  Harmless(m, ChanReq(m, est))
<1> DEFINE n == ChanReq(m, est)
<1>1. m \in Shapes /\ m.rach = NoAccess
  BY DEF OwnHistory
<1>2. <<>> \in Seq(AccessIds) /\ <<>> \in Seq(Own(n.proc))
  OBVIOUS
<1>3. n \in Shapes
  <2>1. Accesses \in 0..Accesses /\ 0 \in 0..2 /\ (~m.proc) \in BOOLEAN
    BY RrAssumption
  <2> QED
    BY <1>1, <1>2, <2>1 DEF Shapes, ChanReq
<1>4. /\ n.hist = <<>> /\ n.rach = NoAccess /\ n.rsl = m.rsl
      /\ n.state = "CONN_PEND" /\ n.wait = 0
  BY <1>1 DEF Shapes, ChanReq
<1> QED
  BY <1>2, <1>3, <1>4 DEF Harmless, OwnHistory

-----------------------------------------------------------------------------
(* The handlers of what layer 2 and the network tell. *)

\* However the channel is taken, the history is left alone.
LEMMA DlEstHarmless ==
  ASSUME NEW m, OwnHistory(m), NEW how \in Ways
  PROVE  Harmless(m, DlEst(m, how))
<1> DEFINE s == Stop(m, "T3126")
<1>1. Harmless(m, s)
  BY TimersHarmless DEF Timers
<1>2. OwnHistory(s)
  BY <1>1 DEF Harmless
<1> HIDE DEF s
<1>3. CASE how = "later"
  <2>1. Harmless(s, Start(s, "starting"))
    BY <1>2, TimersHarmless DEF Timers
  <2> QED
    BY <1>1, <1>2, <1>3, <2>1, HarmlessTwice DEF DlEst, s
<1>4. CASE how = "now"
  <2>1. Harmless(s, L2Est(s))
    BY <1>2, L2Harmless
  <2> QED
    BY <1>1, <1>2, <1>4, <2>1, HarmlessTwice DEF DlEst, s
<1>5. CASE how = "never"
  <2> DEFINE n == Unrendered(s)
  <2>1. /\ n \in Shapes /\ n.hist = s.hist /\ n.rach = s.rach
        /\ n.proc = s.proc /\ n.rsl = s.rsl /\ n.state = s.state
        /\ n.wait = s.wait
    BY <1>2 DEF Unrendered, OwnHistory, Shapes
  <2> HIDE DEF n
  <2>2. Harmless(s, n)
    BY <1>2, <2>1 DEF Harmless, OwnHistory
  <2> QED
    BY <1>1, <1>2, <1>5, <2>2, HarmlessTwice DEF DlEst, s, n
<1> QED
  BY <1>3, <1>4, <1>5 DEF Ways

LEMMA ImmAssIsOwn ==
  ASSUME NEW m, OwnHistory(m), NEW id \in AccessIds, NEW how \in Ways
  PROVE  /\ OwnHistory(RxImmAss(m, id, how))
         /\ RxImmAss(m, id, how).wait = 2 /\ m.wait # 2 => id.proc = m.proc
<1>1. CASE ~Expected(m, id)
  BY <1>1 DEF RxImmAss
<1>2. CASE Expected(m, id)
  <2>1. m \in Shapes /\ m.state = "CONN_PEND" /\ id.proc = m.proc
    <3>1. PICK i \in DOMAIN m.hist : m.hist[i] = id
      BY <1>2 DEF Expected
    <3>2. m.hist[i] \in Own(m.proc)
      BY ElementOfSeq DEF OwnHistory
    <3> QED
      BY <1>2, <3>1, <3>2 DEF Own, Expected, OwnHistory
  <2> DEFINE n == [m EXCEPT !.wait = 2]
  <2>2. OwnHistory(n)
    <3>1. n \in Shapes
      <4>1. 2 \in 0..2
        OBVIOUS
      <4> QED
        BY <2>1, <4>1 DEF Shapes
    <3>2. /\ n.hist = m.hist /\ n.rach = m.rach /\ n.proc = m.proc
          /\ n.rsl = m.rsl /\ n.state = m.state
      BY <2>1 DEF Shapes
    <3> QED
      BY <3>1, <3>2 DEF OwnHistory
  <2>3. RxImmAss(m, id, how) = DlEst(n, how)
    BY <1>2 DEF RxImmAss
  <2> HIDE DEF n
  <2>4. OwnHistory(Stop(n, "T3126"))
    BY <2>2, TimersHarmless DEF Timers, Harmless
  <2>5. OwnHistory(DlEst(n, how))
    BY <2>2, DlEstHarmless DEF Harmless
  <2> QED
    BY <2>1, <2>3, <2>5
<1> QED
  BY <1>1, <1>2

LEMMA ImmAssRejHarmless ==
  ASSUME NEW m, OwnHistory(m), NEW id \in AccessIds, NEW wait \in BOOLEAN
  PROVE  Harmless(m, RxImmAssRej(m, id, wait))
<1> DEFINE t == Start(m, "T3126")
           n == [t EXCEPT !.left = 0]
<1>1. OwnHistory(t) /\ Harmless(m, t)
  BY TimersHarmless DEF Timers, Harmless
<1>2. RxImmAssRej(m, id, wait) \in {m, n, Start(n, "T3122")}
  BY DEF RxImmAssRej
<1> HIDE DEF t
<1>3. Harmless(t, n)
  <2>1. t \in Shapes
    BY <1>1 DEF OwnHistory
  <2>2. 0 \in 0..Accesses
    BY RrAssumption
  <2>3. n \in Shapes
    BY <2>1, <2>2 DEF Shapes
  <2>4. /\ n.hist = t.hist /\ n.rach = t.rach /\ n.proc = t.proc
        /\ n.rsl = t.rsl /\ n.state = t.state /\ n.wait = t.wait
    BY <2>1 DEF Shapes
  <2> QED
    BY <1>1, <2>3, <2>4, OthersHarmless
<1> HIDE DEF n
<1>4. Harmless(m, n)
  BY <1>1, <1>3, HarmlessTwice
<1>5. Harmless(m, Start(n, "T3122"))
  BY <1>4, TimersHarmless, HarmlessTwice DEF Timers, Harmless
<1>6. Harmless(m, m)
  BY DEF Harmless
<1> QED
  BY <1>2, <1>4, <1>5, <1>6

\* The history shifts by one (rr->cr_hist): it stays a sequence of what it
\* held and what enters, and no longer than the array.
LEMMA HistoryShifts ==
  ASSUME NEW S, NEW hist \in Seq(S), NEW id \in S
  PROVE  LET h == SubSeq(<<id>> \o hist, 1,
                         IF Len(hist) < History THEN Len(hist) + 1
                         ELSE History)
         IN h \in Seq(S) /\ Len(h) <= History
<1> DEFINE k == IF Len(hist) < History THEN Len(hist) + 1 ELSE History
<1>1. <<id>> \in Seq(S) /\ Len(<<id>>) = 1
  OBVIOUS
<1>2. /\ <<id>> \o hist \in Seq(S)
      /\ Len(<<id>> \o hist) = 1 + Len(hist)
  BY <1>1, ConcatProperties
<1>3. Len(hist) \in Nat /\ k \in Nat /\ k <= 1 + Len(hist) /\ k <= History
  BY LenProperties DEF History
<1> HIDE DEF k
<1>4. \A i \in 1..k : (<<id>> \o hist)[i] \in S
  BY <1>2, <1>3, ElementOfSeq
<1>5. SubSeq(<<id>> \o hist, 1, k) \in Seq(S) /\ Len(SubSeq(<<id>> \o hist, 1, k)) = k
  BY <1>3, <1>4, SubSeqProperties
<1> QED
  BY <1>3, <1>5 DEF k

\* What enters the history was sent in the present attempt.
LEMMA ChanConfHarmless ==
  ASSUME NEW m, OwnHistory(m), NEW id \in Own(m.proc)
  PROVE  Harmless(m, RxChanConf(m, id))
<1> DEFINE k == IF Len(m.hist) < History THEN Len(m.hist) + 1 ELSE History
           h == SubSeq(<<id>> \o m.hist, 1, k)
           n == [m EXCEPT !.hist = h]
<1>1. m \in Shapes /\ m.hist \in Seq(Own(m.proc))
  BY DEF OwnHistory
<1>2. h \in Seq(Own(m.proc))
  BY <1>1, HistoryShifts
<1>3. RxChanConf(m, id) = m \/ (m.state # "IDLE" /\ RxChanConf(m, id) = RandAcc(n))
  BY DEF RxChanConf
<1> HIDE DEF h
<1>4. Harmless(m, n) /\ n.state = m.state
  <2>1. h \in Seq(AccessIds)
    BY <1>2, SeqMonotonic DEF Own
  <2>2. n \in Shapes
    BY <1>1, <2>1 DEF Shapes
  <2>3. /\ n.hist = h /\ n.rach = m.rach /\ n.proc = m.proc
        /\ n.rsl = m.rsl /\ n.state = m.state /\ n.wait = m.wait
    BY <1>1 DEF Shapes
  <2> QED
    BY <1>2, <2>2, <2>3 DEF OwnHistory, Harmless
<1> HIDE DEF n
<1> QED
  BY <1>3, <1>4, RandAccHarmless, HarmlessTwice DEF Harmless

LEMMA BcchHarmless ==
  ASSUME NEW m, OwnHistory(m)
  PROVE  Harmless(m, RxBcch(m))
<1> DEFINE n == [m EXCEPT !.data = TRUE]
<1>1. m \in Shapes
  BY DEF OwnHistory
<1>2. Harmless(m, n) /\ n.state = m.state
  <2>1. n \in Shapes
    BY <1>1 DEF Shapes
  <2>2. /\ n.hist = m.hist /\ n.rach = m.rach /\ n.proc = m.proc
        /\ n.rsl = m.rsl /\ n.state = m.state /\ n.wait = m.wait
    BY <1>1 DEF Shapes
  <2> QED
    BY <2>1, <2>2, OthersHarmless
<1>3. RxBcch(m) = m \/ (m.state # "IDLE" /\ RxBcch(m) = RandAcc(n))
  BY DEF RxBcch
<1> HIDE DEF n
<1> QED
  BY <1>2, <1>3, RandAccHarmless, HarmlessTwice DEF Harmless

\* The link comes and goes; a request of MM ends what there is.
LEMMA LinkHarmless ==
  ASSUME NEW m, OwnHistory(m)
  PROVE  \A n \in {EstabCnf(m), RelInd(m), RelCnf(m), RxChanRel(m),
                   MdlError(m), Los(m), Failed(m), Released(m), AbortReq(m)} :
           Harmless(m, n)
<1> DEFINE states == {"IDLE", "CONN_PEND", "DEDICATED", "REL_PEND"}
           prims == {"EST_CNF", "EST_IND", "REL_IND", "ABORT_IND"}
<1>1. Harmless(m, m)
  BY DEF Harmless
<1>2. \A n : Harmless(m, n) => OwnHistory(n)
  BY DEF Harmless
<1>3. \A n : \A state \in states : Harmless(m, n) => Harmless(m, NewState(n, state))
  BY <1>2, NewStateHarmless, HarmlessTwice
<1>4. \A n : \A p \in prims : Harmless(m, n) => Harmless(m, Tell(n, p))
  BY <1>2, TellHarmless, HarmlessTwice
<1>5. \A n : \A t \in Timers : Harmless(m, n) =>
         Harmless(m, Start(n, t)) /\ Harmless(m, Stop(n, t))
  BY <1>2, TimersHarmless, HarmlessTwice
<1>6. \A n : Harmless(m, n) => Harmless(m, L2Rel(n)) /\ Harmless(m, L2RelLocal(n))
  BY <1>2, L2Harmless, HarmlessTwice
<1>7. {"T3110", "T3126", "relwait"} \subseteq Timers
  BY DEF Timers
<1>8. Harmless(m, EstabCnf(m))
  BY <1>1, <1>3, <1>4, <1>6 DEF EstabCnf
<1>9. Harmless(m, RelInd(m))
  BY <1>1, <1>3, <1>4, <1>5, <1>7 DEF RelInd
<1>10. \A n : Harmless(m, n) => Harmless(m, Released(n)) /\ Harmless(m, Failed(n))
  BY <1>3, <1>4 DEF Released, Failed
<1>11. Harmless(m, RelCnf(m))
  BY <1>1, <1>5, <1>7, <1>10 DEF RelCnf
<1>12. Harmless(m, RxChanRel(m))
  BY <1>1, <1>3, <1>5, <1>6, <1>7 DEF RxChanRel
<1>13. Harmless(m, MdlError(m))
  BY <1>1, <1>3, <1>4, <1>6 DEF MdlError
<1>14. Harmless(m, Los(m))
  BY <1>1, <1>3, <1>5, <1>6, <1>7, <1>10 DEF Los
<1>15. Harmless(m, AbortReq(m))
  BY <1>1, <1>3, <1>5, <1>6, <1>7 DEF AbortReq
<1> QED
  BY <1>1, <1>8, <1>9, <1>10, <1>11, <1>12, <1>13, <1>14, <1>15

\* Neither the queue for MM nor a step of mobile_work or of the cell selection
\* concerns the history.
LEMMA QueuesHarmless ==
  ASSUME NEW m, OwnHistory(m)
  PROVE  /\ \A b \in BOOLEAN : Harmless(m, [m EXCEPT !.busy = b])
         /\ Harmless(m, [m EXCEPT !.cell = "camped"])
         /\ m.up # <<>> => Harmless(m, [m EXCEPT !.up = Tail(@)])
<1>1. m \in Shapes
  BY DEF OwnHistory
<1>2. ASSUME NEW b \in BOOLEAN
      PROVE  Harmless(m, [m EXCEPT !.busy = b])
  <2> DEFINE n == [m EXCEPT !.busy = b]
  <2>1. n \in Shapes /\ n.hist = m.hist /\ n.rach = m.rach /\ n.proc = m.proc
        /\ n.rsl = m.rsl /\ n.state = m.state /\ n.wait = m.wait
    BY <1>1 DEF Shapes
  <2> QED
    BY <2>1, OthersHarmless
<1>3. Harmless(m, [m EXCEPT !.cell = "camped"])
  <2> DEFINE n == [m EXCEPT !.cell = "camped"]
  <2>1. n \in Shapes /\ n.hist = m.hist /\ n.rach = m.rach /\ n.proc = m.proc
        /\ n.rsl = m.rsl /\ n.state = m.state /\ n.wait = m.wait
    BY <1>1 DEF Shapes
  <2> QED
    BY <2>1, OthersHarmless
<1>4. ASSUME m.up # <<>>
      PROVE  Harmless(m, [m EXCEPT !.up = Tail(@)])
  <2> DEFINE q == Tail(m.up)
             n == [m EXCEPT !.up = q]
  <2>1. q \in Seq({"EST_CNF", "EST_IND", "REL_IND", "ABORT_IND"})
    BY <1>1, <1>4, HeadTailProperties DEF Shapes
  <2> HIDE DEF q
  <2>2. n \in Shapes /\ n.hist = m.hist /\ n.rach = m.rach /\ n.proc = m.proc
        /\ n.rsl = m.rsl /\ n.state = m.state /\ n.wait = m.wait
    BY <1>1, <2>1 DEF Shapes
  <2>3. n = [m EXCEPT !.up = Tail(@)]
    BY DEF q
  <2> HIDE DEF n
  <2> QED
    BY <2>2, <2>3, OthersHarmless
<1> QED
  BY <1>2, <1>3, <1>4

-----------------------------------------------------------------------------
(* The steps. *)

\* The first entry of the queue of layer 2: a paging has no confirmed access
\* behind it, and a confirmed access is of the present attempt.
LEMMA FirstEntry ==
  ASSUME NEW m, OwnHistory(m), m.rsl # <<>>
  PROVE  LET n == [m EXCEPT !.rsl = Tail(@)]
             e == Head(m.rsl)
         IN /\ Harmless(m, n) /\ n.proc = m.proc /\ n.wait = m.wait
            /\ e \in Entries
            /\ e.p = "PAGING" => n.rsl \in Seq(NoConf)
            /\ e.p = "CHAN_CONF" => e.id \in Own(m.proc)
<1> DEFINE q == Tail(m.rsl)
           e == Head(m.rsl)
           n == [m EXCEPT !.rsl = q]
<1>1. m \in Shapes /\ m.rsl \in Seq(Entries)
  BY DEF OwnHistory, Shapes
<1>2. q \in Seq(Entries) /\ e \in Entries
  BY <1>1, HeadTailProperties
<1>3. /\ q \in Seq(NoConf) \cup Seq(NoPage(m.proc))
      /\ e.p = "PAGING" => q \in Seq(NoConf)
      /\ e.p = "CHAN_CONF" => e.id \in Own(m.proc)
  <2>1. CASE m.rsl \in Seq(NoConf)
    <3>1. q \in Seq(NoConf) /\ e \in NoConf
      BY <2>1, HeadTailProperties
    <3> QED
      BY <3>1 DEF NoConf
  <2>2. CASE m.rsl \in Seq(NoPage(m.proc))
    <3>1. q \in Seq(NoPage(m.proc)) /\ e \in NoPage(m.proc)
      BY <2>2, HeadTailProperties
    <3> QED
      BY <3>1 DEF NoPage
  <2> QED
    BY <2>1, <2>2 DEF OwnHistory
<1> HIDE DEF q
<1>4. n \in Shapes /\ n.rsl = q /\ n.hist = m.hist /\ n.rach = m.rach
      /\ n.proc = m.proc /\ n.state = m.state /\ n.wait = m.wait
  BY <1>1, <1>2 DEF Shapes
<1>5. n = [m EXCEPT !.rsl = Tail(@)]
  BY DEF q
<1> HIDE DEF n
<1>6. Harmless(m, n)
  BY <1>3, <1>4 DEF Harmless, OwnHistory
<1> QED
  BY <1>2, <1>3, <1>4, <1>5, <1>6

\* What a step must show.
Taken(m, n, e) == n.wait = 2 /\ m.wait # 2 => e.id.proc = m.proc

LEMMA ReceivedIsOwn ==
  ASSUME NEW m, OwnHistory(m), NEW e \in Entries,
         e.p = "PAGING" => m.rsl \in Seq(NoConf),
         e.p = "CHAN_CONF" => e.id \in Own(m.proc),
         NEW n \in Received(m, e)
  PROVE  OwnHistory(n) /\ Taken(m, n, e)
<1>1. e.p \in Signals /\ e.id \in AccessIds
  BY DEF Entries
<1>2. Harmless(m, n) => OwnHistory(n) /\ Taken(m, n, e)
  BY DEF Harmless, Taken
<1>3. CASE e.p = "CHAN_CONF"
  BY <1>2, <1>3, ChanConfHarmless DEF Received
<1>4. CASE e.p = "BCCH"
  BY <1>2, <1>4, BcchHarmless DEF Received
<1>5. CASE e.p = "PAGING"
  <2>1. Harmless(m, RxPaging(m))
    BY <1>5, ChanReqHarmless DEF RxPaging, Harmless
  <2> QED
    BY <1>2, <1>5, <2>1 DEF Received
<1>6. CASE e.p = "IMM_ASS"
  <2>1. PICK how \in Ways : n = RxImmAss(m, e.id, how)
    BY <1>6 DEF Received, Ways
  <2> QED
    BY <1>1, <2>1, ImmAssIsOwn DEF Taken
<1>7. CASE e.p = "IMM_ASS_REJ"
  BY <1>1, <1>2, <1>7, ImmAssRejHarmless DEF Received
<1>8. CASE e.p = "EST_CONF"
  BY <1>2, <1>8, LinkHarmless DEF Received
<1>9. CASE e.p = "REL_IND"
  BY <1>2, <1>9, LinkHarmless DEF Received
<1>10. CASE e.p = "REL_CONF"
  BY <1>2, <1>10, LinkHarmless DEF Received
<1>11. CASE e.p = "ERROR_IND"
  BY <1>2, <1>11, LinkHarmless DEF Received
<1>12. CASE e.p = "CHAN_REL"
  BY <1>2, <1>12, LinkHarmless DEF Received
<1> QED
  BY <1>1, <1>3, <1>4, <1>5, <1>6, <1>7, <1>8, <1>9, <1>10, <1>11, <1>12
     DEF Signals

LEMMA WorkIsOwn ==
  ASSUME IInv, Work
  PROVE  IInv' /\ Taken(ms, ms', Head(ms.rsl))
<1> DEFINE n == [ms EXCEPT !.rsl = Tail(@)]
           e == Head(ms.rsl)
<1>1. OwnHistory(ms) /\ ms.rsl # <<>>
  BY DEF IInv, Work
<1>2. PICK m \in Received(n, e) : ms' = [m EXCEPT !.busy = m.rsl # <<>>]
  BY DEF Work
<1>3. /\ OwnHistory(n) /\ n.proc = ms.proc /\ n.wait = ms.wait /\ e \in Entries
      /\ e.p = "PAGING" => n.rsl \in Seq(NoConf)
      /\ e.p = "CHAN_CONF" => e.id \in Own(n.proc)
  BY <1>1, FirstEntry DEF Harmless
<1> HIDE DEF n, e
<1>4. OwnHistory(m) /\ Taken(n, m, e)
  BY <1>2, <1>3, ReceivedIsOwn
<1>5. Harmless(m, ms')
  BY <1>2, <1>4, QueuesHarmless
<1>6. OwnHistory(ms') /\ Taken(ms, ms', e)
  BY <1>3, <1>4, <1>5 DEF Harmless, Taken
<1>7. net' \in SUBSET AccessIds
  BY DEF IInv, Work
<1> QED
  BY <1>6, <1>7 DEF IInv, e

\* A step that is no more than a harmless change of the mobile.
LEMMA HarmlessStep ==
  ASSUME IInv, NEW m, Harmless(ms, m), NEW q, Asked(q, m)
  PROVE  IInv' /\ (ms'.wait = 2 => ms.wait = 2)
<1>1. ms' = m /\ net' = StillHeard(m)
  BY DEF Asked
<1>2. StillHeard(m) \subseteq net
  BY DEF StillHeard
<1> QED
  BY <1>1, <1>2 DEF IInv, Harmless

\* Events come to an empty queue of layer 2, or to the end of a release.
LEMMA SelectsEmpty ==
  ASSUME IInv, Selects
  PROVE  /\ ms.rsl \in Seq(NoConf) /\ ms.rsl \in Seq(NoPage(ms.proc))
         /\ ms.rsl \in Seq(Entries)
<1>1. ms.rsl \in Seq(Entries)
  BY DEF IInv, OwnHistory, Shapes
<1>2. CASE ms.rsl = <<>>
  BY <1>2
<1>3. CASE Len(ms.rsl) = 1 /\ Head(ms.rsl).p \in {"REL_IND", "REL_CONF"}
  <2>1. ms.rsl[1] \in Entries /\ ms.rsl[1].p \in {"REL_IND", "REL_CONF"}
    BY <1>1, <1>3, ElementOfSeq
  <2>2. ms.rsl[1] \in NoConf /\ ms.rsl[1] \in NoPage(ms.proc)
    BY <2>1 DEF NoConf, NoPage
  <2>3. \A S : ms.rsl[1] \in S => ms.rsl \in Seq(S)
    <3>1. \A i \in 1..Len(ms.rsl) : ms.rsl[i] = ms.rsl[1]
      BY <1>1, <1>3
    <3>2. ms.rsl = [i \in 1..Len(ms.rsl) |-> ms.rsl[i]] /\ Len(ms.rsl) \in Nat
      BY <1>1, LenProperties
    <3> QED
      BY <3>1, <3>2
  <2> QED
    BY <1>1, <2>2, <2>3
<1> QED
  BY <1>1, <1>2, <1>3 DEF Selects

\* Appending to the queue: what may not be confirmed, or an own access.
LEMMA AppendHarmless ==
  ASSUME IInv, Selects, NEW e \in Entries, NEW rach \in {ms.rach, NoAccess},
         e.p = "CHAN_CONF" => e.id \in Own(ms.proc)
  PROVE  Harmless(ms, [ms EXCEPT !.rach = rach, !.rsl = Append(@, e)])
<1> DEFINE q == Append(ms.rsl, e)
           n == [ms EXCEPT !.rach = rach, !.rsl = q]
<1>1. ms \in Shapes /\ OwnHistory(ms)
  BY DEF IInv, OwnHistory
<1>2. q \in Seq(Entries)
  BY SelectsEmpty, AppendProperties
<1>3. q \in Seq(NoConf) \cup Seq(NoPage(ms.proc))
  <2>1. e \in NoConf \/ e \in NoPage(ms.proc)
    BY DEF NoConf, NoPage
  <2> QED
    BY <2>1, SelectsEmpty, AppendProperties
<1> HIDE DEF q
<1>4. rach \in AccessIds
  <2>1. NoAccess \in AccessIds
    BY RrAssumption DEF NoAccess, AccessIds
  <2>2. ms.rach \in AccessIds
    BY <1>1 DEF Shapes
  <2> QED
    BY <2>1, <2>2
<1>5. /\ n \in Shapes /\ n.rsl = q /\ n.hist = ms.hist /\ n.rach = rach
      /\ n.proc = ms.proc /\ n.state = ms.state /\ n.wait = ms.wait
  BY <1>1, <1>2, <1>4 DEF Shapes
<1>6. n = [ms EXCEPT !.rach = rach, !.rsl = Append(@, e)]
  BY DEF q
<1> HIDE DEF n
<1>7. OwnHistory(n)
  BY <1>1, <1>3, <1>5 DEF OwnHistory
<1> QED
  BY <1>5, <1>6, <1>7 DEF Harmless

\* One step per action.
LEMMA NextIsOwn ==
  ASSUME IInv, Next
  PROVE  IInv' /\ Taken(ms, ms', Head(ms.rsl))
<1> DEFINE Goal == IInv' /\ Taken(ms, ms', Head(ms.rsl))
<1>1. OwnHistory(ms) /\ Harmless(ms, ms) /\ net \in SUBSET AccessIds
  BY DEF IInv, Harmless
<1>2. ASSUME NEW m, NEW q, Harmless(ms, m), Asked(q, m)
      PROVE  Goal
  BY <1>2, HarmlessStep DEF Taken
<1>3. \A t \in Timers : Harmless(ms, Stop(ms, t))
  BY <1>1, TimersHarmless
<1>4. \A m, n : Harmless(ms, m) /\ Harmless(m, n) => Harmless(ms, n)
  BY HarmlessTwice
<1>5. \A m : Harmless(ms, m) => OwnHistory(m)
  BY DEF Harmless
<1>6. {"T3110", "T3122", "T3126", "starting", "relwait"} \subseteq Timers
  BY DEF Timers
<1>7. ASSUME Selects, NEW p \in Signals \ {"CHAN_CONF", "PAGING"},
             Becomes(Rsl(ms, p))
      PROVE  Goal
  BY <1>1, <1>2, <1>7, RslHarmless DEF Becomes
<1>8. CASE Work
  BY <1>8, WorkIsOwn
<1>9. CASE MmEstablishes
  <2>1. Harmless(ms, EstReq(ms))
    <3>1. ms.rsl = <<>> /\ ms.rsl \in Seq(NoConf)
      BY <1>9 DEF MmEstablishes, MmRuns
    <3>2. Harmless(ms, Tell(ms, "REL_IND"))
      BY <1>1, TellHarmless
    <3>3. ms.state = "IDLE" => Harmless(ms, ChanReq(ms, TRUE))
      BY <1>1, <3>1, ChanReqHarmless
    <3> QED
      BY <3>2, <3>3 DEF EstReq
  <2> QED
    BY <1>2, <1>9, <2>1 DEF MmEstablishes
<1>10. CASE MmAborts
  <2>1. Harmless(ms, AbortReq(ms))
    BY <1>1, LinkHarmless
  <2> QED
    BY <1>2, <1>10, <2>1 DEF MmAborts
<1>11. CASE MmTakes
  BY <1>1, <1>2, <1>11, QueuesHarmless DEF MmTakes, Becomes
<1>12. CASE T3126
  <2>1. Harmless(ms, Failed(Stop(ms, "T3126")))
    BY <1>3, <1>4, <1>5, <1>6, LinkHarmless
  <2> QED
    BY <1>2, <1>12, <2>1 DEF T3126, Becomes
<1>13. CASE T3122
  BY <1>2, <1>3, <1>6, <1>13 DEF T3122, Becomes
<1>14. CASE T3110
  <2> DEFINE n == NewState(Stop(ms, "T3110"), "REL_PEND")
  <2>1. Harmless(ms, n)
    BY <1>3, <1>4, <1>5, <1>6, NewStateHarmless
  <2>2. Harmless(ms, L2RelLocal(n))
    BY <1>4, <1>5, <2>1, L2Harmless
  <2> QED
    BY <1>2, <1>14, <2>2 DEF T3110, Becomes
<1>15. CASE RelWait
  <2>1. Harmless(ms, NewState(Stop(ms, "relwait"), "IDLE"))
    BY <1>3, <1>4, <1>5, <1>6, NewStateHarmless
  <2> QED
    BY <1>2, <1>15, <2>1 DEF RelWait, Becomes
<1>16. CASE Starting
  <2> DEFINE n == Stop(ms, "starting")
  <2>1. Harmless(ms, n)
    BY <1>3, <1>6
  <2> HIDE DEF n
  <2>2. ASSUME NEW how \in {"now", "never"}
        PROVE  Harmless(ms, DlEst(n, how))
    <3>1. OwnHistory(n)
      BY <2>1 DEF Harmless
    <3>2. Harmless(n, DlEst(n, how))
      BY <3>1, DlEstHarmless DEF Ways
    <3> QED
      BY <2>1, <3>2, HarmlessTwice
  <2> QED
    BY <1>2, <1>16, <2>2 DEF Starting, Becomes, n
<1>17. CASE L2Fails
  <2> DEFINE p == IF ms.l2 = "sabm" THEN "REL_IND" ELSE "REL_CONF"
             n == [ms EXCEPT !.l2 = "idle"]
  <2>1. p \in Signals \ {"CHAN_CONF", "PAGING"}
    BY DEF Signals
  <2>2. Harmless(ms, n)
    BY <1>1, L2StateHarmless
  <2>3. Becomes(Rsl(n, p))
    BY <1>17 DEF L2Fails
  <2> HIDE DEF p, n
  <2>4. Harmless(ms, Rsl(n, p))
    BY <1>4, <1>5, <2>1, <2>2, RslHarmless
  <2> QED
    BY <1>2, <2>3, <2>4 DEF Becomes
<1>18. CASE L2Established
  <2> DEFINE n == [ms EXCEPT !.l2 = "mf"]
  <2>1. "EST_CONF" \in Signals \ {"CHAN_CONF", "PAGING"}
    BY DEF Signals
  <2>2. Harmless(ms, n)
    BY <1>1, L2StateHarmless
  <2>3. Becomes(Rsl(n, "EST_CONF"))
    BY <1>18 DEF L2Established
  <2> HIDE DEF n
  <2>4. Harmless(ms, Rsl(n, "EST_CONF"))
    BY <1>4, <1>5, <2>1, <2>2, RslHarmless
  <2> QED
    BY <1>2, <2>3, <2>4 DEF Becomes
<1>19. CASE L2Network
  <2> DEFINE n == [ms EXCEPT !.l2 = "idle"]
  <2>1. {"REL_IND", "CHAN_REL", "ERROR_IND"} \subseteq
          Signals \ {"CHAN_CONF", "PAGING"}
    BY DEF Signals
  <2>2. Harmless(ms, n)
    BY <1>1, L2StateHarmless
  <2>3. \/ Becomes(Rsl(n, "REL_IND")) \/ Becomes(Rsl(ms, "CHAN_REL"))
        \/ Becomes(Rsl(ms, "ERROR_IND"))
    BY <1>19 DEF L2Network
  <2> HIDE DEF n
  <2>4. Harmless(ms, Rsl(n, "REL_IND"))
    BY <1>4, <1>5, <2>1, <2>2, RslHarmless
  <2>5. Harmless(ms, Rsl(ms, "CHAN_REL")) /\ Harmless(ms, Rsl(ms, "ERROR_IND"))
    BY <1>1, <2>1, RslHarmless
  <2> QED
    BY <1>2, <2>3, <2>4, <2>5 DEF Becomes
<1>20. CASE Lose
  <2>1. Harmless(ms, Los(ms))
    BY <1>1, LinkHarmless
  <2> QED
    BY <1>2, <1>20, <2>1 DEF Lose, Becomes
<1>21. CASE Sync
  BY <1>7, <1>21 DEF Sync, Signals
<1>22. CASE ChanConf
  <2> DEFINE e == Entry("CHAN_CONF", ms.rach)
             n == [ms EXCEPT !.rach = NoAccess, !.rsl = Append(@, e)]
  <2>1. ms.rach \in Own(ms.proc) /\ ms.rach \in AccessIds
    BY <1>1, <1>22 DEF ChanConf, OwnHistory, Own
  <2>2. e \in Entries /\ e.id = ms.rach
    BY <2>1 DEF Entry, Entries, Signals
  <2>3. ms' = n /\ net' \subseteq net \cup {ms.rach} /\ Selects
    BY <1>22 DEF ChanConf
  <2> HIDE DEF e
  <2>4. Harmless(ms, n)
    BY <2>1, <2>2, <2>3, AppendHarmless
  <2> HIDE DEF n
  <2> QED
    BY <1>1, <2>1, <2>3, <2>4 DEF IInv, Harmless, Taken
<1>23. CASE NetworkAnswers
  <2>1. PICK id \in net, p \in {"IMM_ASS", "IMM_ASS_REJ"} :
          /\ ms' = [ms EXCEPT !.rsl = Append(@, Entry(p, id))]
          /\ net' = net \ {id}
    BY <1>23 DEF NetworkAnswers
  <2> DEFINE e == Entry(p, id)
             n == [ms EXCEPT !.rach = ms.rach, !.rsl = Append(@, e)]
  <2>2. e \in Entries /\ e.p # "CHAN_CONF"
    BY <1>1, <2>1 DEF Entry, Entries, Signals
  <2>3. ms' = n
    <3>1. ms \in Shapes
      BY <1>1 DEF OwnHistory
    <3> QED
      BY <2>1, <3>1 DEF Shapes
  <2> HIDE DEF e
  <2>4. Harmless(ms, n)
    BY <1>23, <2>2, AppendHarmless DEF NetworkAnswers
  <2> HIDE DEF n
  <2> QED
    BY <1>1, <2>1, <2>3, <2>4 DEF IInv, Harmless, Taken
<1>24. CASE Page
  <2> DEFINE e == Entry("PAGING", NoAccess)
             n == [ms EXCEPT !.rach = ms.rach, !.rsl = Append(@, e)]
  <2>1. e \in Entries /\ e.p # "CHAN_CONF"
    BY RrAssumption DEF Entry, Entries, Signals, NoAccess, AccessIds
  <2>2. Rsl(ms, "PAGING") = n
    <3>1. ms \in Shapes
      BY <1>1 DEF OwnHistory
    <3> QED
      BY <3>1 DEF Shapes, Rsl
  <2>3. Becomes(Rsl(ms, "PAGING")) /\ Selects
    BY <1>24 DEF Page
  <2> HIDE DEF e
  <2>4. Harmless(ms, n)
    BY <2>1, <2>3, AppendHarmless
  <2> HIDE DEF n
  <2> QED
    BY <1>2, <2>2, <2>3, <2>4 DEF Becomes
<1>25. CASE Camp
  BY <1>1, <1>2, <1>25, QueuesHarmless DEF Camp, Becomes
<1> QED
  BY <1>8, <1>9, <1>10, <1>11, <1>12, <1>13, <1>14, <1>15, <1>16, <1>17,
     <1>18, <1>19, <1>20, <1>21, <1>22, <1>23, <1>24, <1>25 DEF Next

-----------------------------------------------------------------------------
(* The theorems. *)

\* Nothing of an earlier attempt is in the history of accesses, being sent, or
\* confirmed and not yet looked at (cr_hist, gsm48_rr_chan_req).
THEOREM HistoryIsOwn == Spec => []IInv
<1>1. Init => IInv
  <2> SUFFICES ASSUME Init
               PROVE  IInv
    OBVIOUS
  <2>1. NoAccess \in AccessIds
    BY RrAssumption DEF NoAccess, AccessIds
  <2>2. /\ 0 \in 0..2 /\ 0 \in 0..Accesses
        /\ \A S : <<>> \in Seq(S)
    BY RrAssumption
  <2>3. ms \in Shapes
    BY <2>1, <2>2 DEF Init, Shapes
  <2>4. ms.hist = <<>> /\ ms.rach = NoAccess /\ ms.rsl = <<>>
    BY DEF Init
  <2>5. OwnHistory(ms)
    BY <2>2, <2>3, <2>4 DEF OwnHistory
  <2> QED
    BY <2>5 DEF Init, IInv
<1>2. IInv /\ [Next]_vars => IInv'
  <2>1. IInv /\ UNCHANGED vars => IInv'
    BY DEF IInv, vars
  <2> QED
    BY <2>1, NextIsOwn
<1> QED
  BY <1>1, <1>2, PTL DEF Spec

\* The channel that is taken is assigned to an access of the present attempt
\* (gsm48_match_ra).
THEOREM AssignmentIsOwnTheorem == Spec => AssignmentIsOwn
<1>1. IInv /\ [Next]_vars =>
        [ms'.wait = 2 /\ ms.wait # 2 => Head(ms.rsl).id.proc = ms.proc]_vars
  BY NextIsOwn DEF Taken, vars
<1> QED
  BY <1>1, HistoryIsOwn, PTL DEF Spec, AssignmentIsOwn

-----------------------------------------------------------------------------
(* The situations of a connection, and the service. *)

\* The phases in which the end of a connection leaves nothing behind.
Sound == {"pend", "dedic", "release"}

-----------------------------------------------------------------------------
(* The steps of the abstract service. *)

\* What a step of the radio, or none, may make of the link, and tell MM.
Radio(l, k, p) ==
  \E g \in Service!Steps(l) \cup {Service!Gives(l, <<>>)} :
    k = [g.link EXCEPT !.asked = FALSE] /\ g.up = p

\* The fields by which a link is known, as MM sees it.
Is(k, st, est, t3122) ==
  k \in Service!Links /\ ~k.asked /\ k.st = st /\ k.est = est /\ k.t3122 = t3122


\* A link that tells nobody what was asked for is known by its other fields
LEMMA Cleared ==
  ASSUME NEW k \in Service!Links, NEW l \in Service!Links,
         k.st = l.st, k.est = l.est, ~k.asked, k.t3122 = l.t3122
  PROVE  k = [l EXCEPT !.asked = FALSE]
BY DEF Service!Links

\* A link that was given up is idle and keeps only the bar of T3122.
LEMMA IdleLink ==
  ASSUME NEW l \in Service!Links
  PROVE  /\ Service!Idle(l) \in Service!Links
         /\ Service!Idle(l).st = "choose" /\ Service!Idle(l).est = FALSE
         /\ Service!Idle(l).t3122 = l.t3122
<1>1. /\ Service!LinkInit \in Service!Links
      /\ Service!LinkInit.st = "choose" /\ ~Service!LinkInit.est
  BY DEF Service!LinkInit, Service!Links, Service!LinkStates
<1> QED
  BY <1>1 DEF Service!Links, Service!Idle

\* A step that tells MM nothing may leave the link as it was.
LEMMA RadioQuiet ==
  ASSUME NEW l \in Service!Links, ~l.asked
  PROVE  Radio(l, l, <<>>)
<1>1. l = [l EXCEPT !.asked = FALSE]
  BY Cleared
<1>2. Service!Gives(l, <<>>).link = l /\ Service!Gives(l, <<>>).up = <<>>
  BY DEF Service!Gives
<1> QED
  BY <1>1, <1>2 DEF Radio

\* A step of the link that gives j, or what is left of it when nobody is asked.
LEMMA RadioStep ==
  ASSUME NEW l, NEW k, NEW j \in Service!Links, NEW p,
         Service!Gives(j, p) \in Service!Steps(l), Is(k, j.st, j.est, j.t3122)
  PROVE  Radio(l, k, p)
<1>1. k = [j EXCEPT !.asked = FALSE]
  BY Cleared DEF Is
<1>2. Service!Gives(j, p).link = j /\ Service!Gives(j, p).up = p
  BY DEF Service!Gives
<1> QED
  BY <1>1, <1>2 DEF Radio

\* A step of the radio that moves the link to another state only.
LEMMA RadioMoves ==
  ASSUME NEW l \in Service!Links, NEW k, NEW p, NEW st \in Service!LinkStates,
         Service!Gives([l EXCEPT !.st = st], p) \in Service!Steps(l),
         Is(k, st, l.est, l.t3122)
  PROVE  Radio(l, k, p)
<1> DEFINE j == [l EXCEPT !.st = st]
<1>1. j \in Service!Links /\ j.st = st /\ j.est = l.est /\ j.t3122 = l.t3122
  BY DEF Service!Links
<1> HIDE DEF j
<1> QED
  BY <1>1, RadioStep DEF j

\* A step of the radio that gives the link up.
LEMMA RadioEnds ==
  ASSUME NEW l \in Service!Links, NEW k, NEW p,
         Service!Gives(Service!Idle(l), p) \in Service!Steps(l),
         Is(k, "choose", FALSE, l.t3122)
  PROVE  Radio(l, k, p)
BY IdleLink, RadioStep

\* What the radio makes of an access.
LEMMA RadioPend ==
  ASSUME NEW l \in Service!Links, l.st = "pend", NEW k, NEW p,
         \/ /\ Is(k, "dedic", l.est, l.t3122)
            /\ p = IF l.est THEN <<"EST_CNF">> ELSE <<"EST_IND">>
         \/ /\ Is(k, "choose", FALSE, l.t3122)
            /\ p = (IF l.est THEN <<"REL_IND">> ELSE <<>>) \/ p = <<"REL_IND">>
         \/ Is(k, "relwait", l.est, l.t3122) /\ p = <<"REL_IND">>
         \/ Is(k, "pend", l.est, TRUE) /\ p = <<>>
  PROVE  Radio(l, k, p)
<1>1. Service!Steps(l) = 
         {Service!Established(l), Service!Failed(l), Service!Los(l),
          Service!Gives([l EXCEPT !.st = "relwait"], <<"REL_IND">>),
          Service!Gives([l EXCEPT !.t3122 = TRUE], <<>>)}
  BY DEF Service!Steps
<1>2. {"dedic", "relwait"} \subseteq Service!LinkStates
  BY DEF Service!LinkStates
<1>3. CASE /\ Is(k, "dedic", l.est, l.t3122)
           /\ p = IF l.est THEN <<"EST_CNF">> ELSE <<"EST_IND">>
  <2> DEFINE j == [l EXCEPT !.st = "dedic", !.asked = l.est]
  <2>1. j \in Service!Links /\ Is(k, j.st, j.est, j.t3122)
    BY <1>2, <1>3 DEF Service!Links, Is
  <2>2. Service!Gives(j, p) \in Service!Steps(l)
    BY <1>1, <1>3 DEF Service!Established
  <2> HIDE DEF j
  <2> QED
    BY <2>1, <2>2, RadioStep
<1>4. CASE /\ Is(k, "choose", FALSE, l.t3122)
           /\ p = (IF l.est THEN <<"REL_IND">> ELSE <<>>) \/ p = <<"REL_IND">>
  <2>1. Service!Gives(Service!Idle(l), p) \in Service!Steps(l)
    BY <1>1, <1>4 DEF Service!Failed, Service!Los
  <2> QED
    BY <1>4, <2>1, RadioEnds
<1>5. CASE Is(k, "relwait", l.est, l.t3122) /\ p = <<"REL_IND">>
  <2>1. Service!Gives([l EXCEPT !.st = "relwait"], p) \in Service!Steps(l)
    BY <1>1, <1>5
  <2> QED
    BY <1>2, <1>5, <2>1, RadioMoves
<1>6. CASE Is(k, "pend", l.est, TRUE) /\ p = <<>>
  <2> DEFINE j == [l EXCEPT !.t3122 = TRUE]
  <2>1. j \in Service!Links /\ Is(k, j.st, j.est, j.t3122)
    BY <1>6 DEF Service!Links, Is
  <2>2. Service!Gives(j, p) \in Service!Steps(l)
    BY <1>1, <1>6
  <2> HIDE DEF j
  <2> QED
    BY <2>1, <2>2, RadioStep
<1> QED
  BY <1>3, <1>4, <1>5, <1>6

\* What the radio makes of dedicated mode.
LEMMA RadioDedic ==
  ASSUME NEW l \in Service!Links, l.st = "dedic", NEW k, NEW p,
         \/ /\ Is(k, "choose", FALSE, l.t3122)
            /\ p \in {<<"REL_IND">>, <<"ABORT_IND">>}
         \/ Is(k, "relwait", l.est, l.t3122) /\ p = <<"REL_IND">>
         \/ Is(k, "release", l.est, l.t3122) /\ p = <<>>
  PROVE  Radio(l, k, p)
<1>1. Service!Steps(l) =
         {Service!Los(l),
          Service!Gives([l EXCEPT !.st = "relwait"], <<"REL_IND">>),
          Service!Gives([l EXCEPT !.st = "release"], <<>>),
          Service!Gives(Service!Idle(l), <<"ABORT_IND">>)}
  BY DEF Service!Steps
<1>2. {"release", "relwait"} \subseteq Service!LinkStates
  BY DEF Service!LinkStates
<1>3. CASE /\ Is(k, "choose", FALSE, l.t3122)
           /\ p \in {<<"REL_IND">>, <<"ABORT_IND">>}
  <2>1. Service!Gives(Service!Idle(l), p) \in Service!Steps(l)
    BY <1>1, <1>3 DEF Service!Los
  <2> QED
    BY <1>3, <2>1, RadioEnds
<1>4. CASE Is(k, "relwait", l.est, l.t3122) /\ p = <<"REL_IND">>
  <2>1. Service!Gives([l EXCEPT !.st = "relwait"], p) \in Service!Steps(l)
    BY <1>1, <1>4
  <2> QED
    BY <1>2, <1>4, <2>1, RadioMoves
<1>5. CASE Is(k, "release", l.est, l.t3122) /\ p = <<>>
  <2>1. Service!Gives([l EXCEPT !.st = "release"], p) \in Service!Steps(l)
    BY <1>1, <1>5
  <2> QED
    BY <1>2, <1>5, <2>1, RadioMoves
<1> QED
  BY <1>3, <1>4, <1>5

\* The end of a release.
LEMMA RadioReleased ==
  ASSUME NEW l \in Service!Links, NEW k, NEW p, Is(k, "choose", FALSE, l.t3122),
         \/ l.st = "release" /\ p = <<"REL_IND">>
         \/ l.st = "relwait" /\ p \in {<<>>, <<"REL_IND">>}
  PROVE  Radio(l, k, p)
<1>1. Service!Gives(Service!Idle(l), p) \in Service!Steps(l)
  <2>1. CASE l.st = "release" /\ p = <<"REL_IND">>
    BY <2>1 DEF Service!Steps
  <2>2. CASE l.st = "relwait" /\ p \in {<<>>, <<"REL_IND">>}
    <3>1. Service!Steps(l) =
            {Service!Gives(Service!Idle(l), <<>>), Service!Los(l)}
      BY <2>2 DEF Service!Steps
    <3> QED
      BY <2>2, <3>1 DEF Service!Los
  <2> QED
    BY <2>1, <2>2
<1> QED
  BY <1>1, RadioEnds

\* A paging.
LEMMA RadioCamped ==
  ASSUME NEW l \in Service!Links, l.st = "camped", NEW k,
         Is(k, "pend", l.est, l.t3122)
  PROVE  Radio(l, k, <<>>)
<1>1. Service!Gives([l EXCEPT !.st = "pend"], <<>>) \in Service!Steps(l)
  BY DEF Service!Steps
<1>2. "pend" \in Service!LinkStates
  BY DEF Service!LinkStates
<1> QED
  BY <1>1, <1>2, RadioMoves
-----------------------------------------------------------------------------

StateOf(m) ==
  CASE m.state = "IDLE" -> IF m.cell = "camped" THEN "camped" ELSE "choose"
    [] m.state = "CONN_PEND" -> "pend"
    [] m.state = "DEDICATED" -> "dedic"
    [] OTHER -> IF "relwait" \in m.timers THEN "relwait" ELSE "release"

LinkOf(m) ==
  [st |-> StateOf(m), est |-> m.est, asked |-> FALSE,
   t3122 |-> "T3122" \in m.timers]

\* The refinement mapping of Rr is the link of the mobile.
LEMMA LinkIsLinkOf == Link = LinkOf(ms) /\ Link' = LinkOf(ms')
BY DEF Link, LinkOf, StateOf

\* The state of the link, for every state of struct gsm48_rrlayer.
LEMMA StateOfIs ==
  ASSUME NEW m \in Shapes
  PROVE  /\ StateOf(m) \in Service!LinkStates
         /\ m.state = "IDLE" =>
              StateOf(m) = IF m.cell = "camped" THEN "camped" ELSE "choose"
         /\ m.state = "CONN_PEND" => StateOf(m) = "pend"
         /\ m.state = "DEDICATED" => StateOf(m) = "dedic"
         /\ m.state = "REL_PEND" =>
              StateOf(m) = IF "relwait" \in m.timers THEN "relwait" ELSE "release"
<1>1. m.state \in {"IDLE", "CONN_PEND", "DEDICATED", "REL_PEND"}
  BY DEF Shapes
<1>2. CASE m.state = "IDLE"
  BY <1>2 DEF StateOf, Service!LinkStates
<1>3. CASE m.state = "CONN_PEND"
  BY <1>3 DEF StateOf, Service!LinkStates
<1>4. CASE m.state = "DEDICATED"
  BY <1>4 DEF StateOf, Service!LinkStates
<1>5. CASE m.state = "REL_PEND"
  BY <1>5 DEF StateOf, Service!LinkStates
<1> QED
  BY <1>1, <1>2, <1>3, <1>4, <1>5

\* The link of a mobile is one of the service, with the fields MM sees.
LEMMA LinkOfIs ==
  ASSUME NEW m \in Shapes
  PROVE  /\ LinkOf(m) \in Service!Links
         /\ Is(LinkOf(m), StateOf(m), m.est, "T3122" \in m.timers)
<1> DEFINE t == "T3122" \in m.timers
<1>1. StateOf(m) \in Service!LinkStates /\ m.est \in BOOLEAN /\ t \in BOOLEAN
  BY StateOfIs DEF Shapes
<1> HIDE DEF t
<1>2. LinkOf(m) = [st |-> StateOf(m), est |-> m.est, asked |-> FALSE, t3122 |-> t]
  BY DEF LinkOf, t
<1> QED
  BY <1>1, <1>2 DEF Service!Links, Is, t

-----------------------------------------------------------------------------
\* What gsm48_rr_upmsg is called with.
Prims == {"EST_CNF", "EST_IND", "REL_IND", "ABORT_IND"}

\* A handler that makes n of m does to the link what a step of the radio may
\* do, and passes exactly that primitive up to MM, or none.
Serves(m, n) ==
  \/ Radio(LinkOf(m), LinkOf(n), <<>>) /\ n.up = m.up
  \/ \E p \in Prims :
       Radio(LinkOf(m), LinkOf(n), <<p>>) /\ n.up = Append(m.up, p)

\* T3122 runs in both or in none.
SameBar(m, n) == "T3122" \in n.timers <=> "T3122" \in m.timers

\* A handler that leaves the state, and all MM sees of it, serves.
LEMMA ServesSame ==
  ASSUME NEW m \in Shapes, NEW n \in Shapes,
         n.state = m.state, n.est = m.est, SameBar(m, n), n.up = m.up,
         m.state = "IDLE" => (n.cell = "camped" <=> m.cell = "camped"),
         m.state = "REL_PEND" => ("relwait" \in n.timers <=> "relwait" \in m.timers)
  PROVE  Serves(m, n)
<1>1. StateOf(n) = StateOf(m)
  BY StateOfIs DEF Shapes
<1> DEFINE l == LinkOf(m)
           k == LinkOf(n)
<1>2. /\ Is(l, StateOf(m), m.est, "T3122" \in m.timers)
      /\ Is(k, StateOf(n), n.est, "T3122" \in n.timers)
  BY LinkOfIs
<1> HIDE DEF l, k
<1>3. k = l
  BY <1>1, <1>2 DEF Is, SameBar, Service!Links
<1>4. Radio(l, l, <<>>)
  BY <1>2, RadioQuiet DEF Is
<1> QED
  BY <1>3, <1>4 DEF Serves, l, k

\* What new_rr_state and gsm48_rr_upmsg may make of an access: a channel that
\* is up, an attempt that failed, a release with the channel still on, or T3122.
LEMMA ServesPend ==
  ASSUME NEW m \in Shapes, NEW n \in Shapes, m.state = "CONN_PEND",
         \/ /\ n.state = "DEDICATED" /\ n.est = m.est /\ SameBar(m, n)
            /\ n.up = Append(m.up, IF m.est THEN "EST_CNF" ELSE "EST_IND")
         \/ /\ n.state = "IDLE" /\ n.cell # "camped" /\ n.est = FALSE
            /\ SameBar(m, n)
            /\ \/ n.up = Append(m.up, "REL_IND")
               \/ ~m.est /\ n.up = m.up
         \/ /\ n.state = "REL_PEND" /\ "relwait" \in n.timers /\ n.est = m.est
            /\ SameBar(m, n) /\ n.up = Append(m.up, "REL_IND")
         \/ /\ n.state = "CONN_PEND" /\ n.est = m.est /\ "T3122" \in n.timers
            /\ n.up = m.up
  PROVE  Serves(m, n)
<1> DEFINE l == LinkOf(m)
           k == LinkOf(n)
           t == "T3122" \in m.timers
<1>1. l \in Service!Links /\ Is(l, "pend", m.est, t)
  BY LinkOfIs, StateOfIs
<1>2. Is(k, StateOf(n), n.est, "T3122" \in n.timers)
  BY LinkOfIs
<1>3. l.st = "pend" /\ l.est = m.est /\ l.t3122 = t
  BY <1>1 DEF Is
<1> HIDE DEF l, k
<1>4. CASE /\ n.state = "DEDICATED" /\ n.est = m.est /\ SameBar(m, n)
           /\ n.up = Append(m.up, IF m.est THEN "EST_CNF" ELSE "EST_IND")
  <2>1. Is(k, "dedic", l.est, l.t3122)
    BY <1>2, <1>3, <1>4, StateOfIs DEF SameBar
  <2>2. PICK p \in {"EST_CNF", "EST_IND"} :
          /\ <<p>> = IF m.est THEN <<"EST_CNF">> ELSE <<"EST_IND">>
          /\ n.up = Append(m.up, p)
    BY <1>4
  <2>3. Radio(l, k, <<p>>)
    BY <1>1, <1>3, <2>1, <2>2, RadioPend
  <2> QED
    BY <2>2, <2>3 DEF Serves, Prims, l, k
<1>5. CASE /\ n.state = "IDLE" /\ n.cell # "camped" /\ n.est = FALSE
           /\ SameBar(m, n)
           /\ \/ n.up = Append(m.up, "REL_IND")
              \/ ~m.est /\ n.up = m.up
  <2>1. Is(k, "choose", FALSE, l.t3122)
    <3>1. StateOf(n) = "choose"
      BY <1>5, StateOfIs
    <3> QED
      BY <1>2, <1>3, <1>5, <3>1 DEF SameBar, Is
  <2>2. Radio(l, k, <<"REL_IND">>) /\ (~l.est => Radio(l, k, <<>>))
    BY <1>1, <1>3, <2>1, RadioPend
  <2> QED
    BY <1>3, <1>5, <2>2 DEF Serves, Prims, l, k
<1>6. CASE /\ n.state = "REL_PEND" /\ "relwait" \in n.timers /\ n.est = m.est
           /\ SameBar(m, n) /\ n.up = Append(m.up, "REL_IND")
  <2>1. Is(k, "relwait", l.est, l.t3122)
    BY <1>2, <1>3, <1>6, StateOfIs DEF SameBar
  <2>2. Radio(l, k, <<"REL_IND">>)
    BY <1>1, <1>3, <2>1, RadioPend
  <2> QED
    BY <1>6, <2>2 DEF Serves, Prims, l, k
<1>7. CASE /\ n.state = "CONN_PEND" /\ n.est = m.est /\ "T3122" \in n.timers
           /\ n.up = m.up
  <2>1. Is(k, "pend", l.est, TRUE)
    BY <1>2, <1>3, <1>7, StateOfIs DEF Is
  <2>2. Radio(l, k, <<>>)
    BY <1>1, <1>3, <2>1, RadioPend
  <2> QED
    BY <1>7, <2>2 DEF Serves, l, k
<1> QED
  BY <1>4, <1>5, <1>6, <1>7

\* What may become of dedicated mode.
LEMMA ServesDedic ==
  ASSUME NEW m \in Shapes, NEW n \in Shapes, m.state = "DEDICATED",
         SameBar(m, n),
         \/ /\ n.state = "IDLE" /\ n.cell # "camped" /\ n.est = FALSE
            /\ n.up = Append(m.up, "ABORT_IND")
         \/ /\ n.state = "REL_PEND" /\ "relwait" \in n.timers /\ n.est = m.est
            /\ n.up = Append(m.up, "REL_IND")
         \/ /\ n.state = "REL_PEND" /\ "relwait" \notin n.timers
            /\ n.est = m.est
            /\ n.up = m.up
  PROVE  Serves(m, n)
<1> DEFINE l == LinkOf(m)
           k == LinkOf(n)
           t == "T3122" \in m.timers
<1>1. l \in Service!Links /\ Is(l, "dedic", m.est, t)
  BY LinkOfIs, StateOfIs
<1>2. Is(k, StateOf(n), n.est, "T3122" \in n.timers)
  BY LinkOfIs
<1>3. l.st = "dedic" /\ l.est = m.est /\ l.t3122 = t
  BY <1>1 DEF Is
<1> HIDE DEF l, k
<1>4. CASE /\ n.state = "IDLE" /\ n.cell # "camped" /\ n.est = FALSE
           /\ n.up = Append(m.up, "ABORT_IND")
  <2>1. StateOf(n) = "choose"
    BY <1>4, StateOfIs
  <2>2. Is(k, "choose", FALSE, l.t3122)
    BY <1>2, <1>3, <1>4, <2>1 DEF SameBar, Is
  <2>3. Radio(l, k, <<"ABORT_IND">>)
    BY <1>1, <1>3, <2>2, RadioDedic
  <2> QED
    BY <1>4, <2>3 DEF Serves, Prims, l, k
<1>5. CASE /\ n.state = "REL_PEND" /\ "relwait" \in n.timers /\ n.est = m.est
           /\ n.up = Append(m.up, "REL_IND")
  <2>1. Is(k, "relwait", l.est, l.t3122)
    BY <1>2, <1>3, <1>5, StateOfIs DEF SameBar
  <2>2. Radio(l, k, <<"REL_IND">>)
    BY <1>1, <1>3, <2>1, RadioDedic
  <2> QED
    BY <1>5, <2>2 DEF Serves, Prims, l, k
<1>6. CASE /\ n.state = "REL_PEND" /\ "relwait" \notin n.timers /\ n.est = m.est
           /\ n.up = m.up
  <2>1. Is(k, "release", l.est, l.t3122)
    BY <1>2, <1>3, <1>6, StateOfIs DEF SameBar
  <2>2. Radio(l, k, <<>>)
    BY <1>1, <1>3, <2>1, RadioDedic
  <2> QED
    BY <1>6, <2>2 DEF Serves, l, k
<1> QED
  BY <1>4, <1>5, <1>6

\* How a release ends.
LEMMA ServesReleased ==
  ASSUME NEW m \in Shapes, NEW n \in Shapes, m.state = "REL_PEND",
         SameBar(m, n),
         n.state = "IDLE", n.cell # "camped", n.est = FALSE,
         \/ n.up = Append(m.up, "REL_IND")
         \/ "relwait" \in m.timers /\ n.up = m.up
  PROVE  Serves(m, n)
<1> DEFINE l == LinkOf(m)
           k == LinkOf(n)
           t == "T3122" \in m.timers
<1>1. l \in Service!Links /\ Is(l, StateOf(m), m.est, t)
  BY LinkOfIs
<1>2. Is(k, StateOf(n), n.est, "T3122" \in n.timers)
  BY LinkOfIs
<1>3. l.st = StateOf(m) /\ l.t3122 = t
  BY <1>1 DEF Is
<1> HIDE DEF l, k
<1>4. Is(k, "choose", FALSE, l.t3122)
  <2>1. StateOf(n) = "choose"
    BY StateOfIs
  <2> QED
    BY <1>2, <1>3, <2>1 DEF SameBar, Is
<1>5. /\ l.st \in {"release", "relwait"}
      /\ ("relwait" \in m.timers => l.st = "relwait")
  BY <1>3, StateOfIs
<1>6. /\ Radio(l, k, <<"REL_IND">>)
      /\ ("relwait" \in m.timers => Radio(l, k, <<>>))
  BY <1>1, <1>4, <1>5, RadioReleased
<1> QED
  BY <1>6 DEF Serves, Prims, l, k

\* gsm48_rr_rx_pag_req starts an access only while it is camped.
LEMMA ServesPaged ==
  ASSUME NEW m \in Shapes, NEW n \in Shapes, SameBar(m, n),
         m.state = "IDLE", m.cell = "camped", n.state = "CONN_PEND",
         n.est = m.est, n.up = m.up
  PROVE  Serves(m, n)
<1> DEFINE l == LinkOf(m)
           k == LinkOf(n)
           t == "T3122" \in m.timers
<1>1. l \in Service!Links /\ Is(l, "camped", m.est, t)
  BY LinkOfIs, StateOfIs
<1>2. Is(k, "pend", n.est, "T3122" \in n.timers)
  BY LinkOfIs, StateOfIs
<1> HIDE DEF l, k
<1>3. l.st = "camped" /\ Is(k, "pend", l.est, l.t3122)
  BY <1>1, <1>2 DEF Is, SameBar
<1>4. Radio(l, k, <<>>)
  BY <1>1, <1>3, RadioCamped
<1> QED
  BY <1>4 DEF Serves, l, k


\* What waits in the queue of layer 2: at most two signals.
First(q)  == IF Len(q) > 0 THEN q[1].p ELSE "none"
Second(q) == IF Len(q) > 1 THEN q[2].p ELSE "none"

\* IDLE: no link, no timer but the bar; an answer that comes late may wait.
InIdle(m, p, q) ==
  /\ m.state = "IDLE" /\ m.l2 = "idle" /\ m.timers \subseteq {"T3122"}
  /\ m.est = FALSE /\ m.cell # "connected"
  /\ \/ /\ p \in {"none", "PAGING", "REL_IND", "REL_CONF", "CHAN_CONF"}
        /\ q = "none"
     \/ p \in {"REL_IND", "REL_CONF"} /\ q = "PAGING"

\* CONN PEND before an assignment (wait_assign is not 2): no link, t_starting
\* does not run, and an answer waits only once the cell is synchronised.
InAccess(m, p, q) ==
  /\ m.state = "CONN_PEND" /\ m.wait # 2 /\ m.l2 = "idle"
  /\ m.timers \subseteq {"T3122", "T3126"} /\ m.cell = "connected"
  /\ \/ /\ m.data = TRUE
        /\ p \in {"none", "BCCH", "CHAN_CONF", "IMM_ASS", "IMM_ASS_REJ"}
     \/ m.wait = 0 /\ m.rach = NoAccess /\ p \in {"none", "BCCH"}
  /\ q = "none"

\* CONN PEND with an assignment: either t_starting has still to establish the
\* link, or the link is being set up, or its outcome waits in the queue.
InAssigned(m, p, q) ==
  /\ m.state = "CONN_PEND" /\ m.wait = 2 /\ m.data = TRUE
  /\ m.cell = "connected"
  /\ m.timers \subseteq {"T3122", "starting"}
  /\ \/ /\ m.l2 \in {"idle", "sabm"}
        /\ m.l2 = "sabm" => "starting" \notin m.timers
        /\ p \in {"none", "CHAN_CONF"} /\ q = "none"
     \/ /\ m.l2 = "mf" /\ "starting" \notin m.timers
        /\ p = "EST_CONF" /\ q = "none"
     \/ /\ m.l2 = "idle" /\ "starting" \notin m.timers
        /\ p = "REL_IND" /\ q \in {"none", "CHAN_CONF"}

\* DEDICATED: the link is up, or its end waits in the queue.
InDedicated(m, p, q) ==
  /\ m.state = "DEDICATED" /\ m.timers \subseteq {"T3122"}
  /\ m.cell = "connected"
  /\ \/ /\ m.l2 = "mf" /\ p \in {"none", "CHAN_CONF", "CHAN_REL", "ERROR_IND"}
        /\ q = "none"
     \/ m.l2 = "idle" /\ p = "REL_IND" /\ q \in {"none", "CHAN_CONF"}

\* REL PEND: the link is being released or that is known (T3110), or two ends
\* of the link wait, or only t_rel_wait is left.
InRelease(m, p, q) ==
  /\ m.state = "REL_PEND" /\ m.cell = "connected"
  /\ \/ /\ m.timers \subseteq {"T3122", "T3110"}
        /\ \/ m.l2 = "disc" /\ p \in {"none", "CHAN_CONF"} /\ q = "none"
           \/ m.l2 = "idle" /\ p = "REL_CONF" /\ q \in {"none", "CHAN_CONF"}
     \/ /\ m.timers \subseteq {"T3122"} /\ m.l2 = "idle"
        /\ p \in {"REL_CONF", "REL_IND"} /\ q = "REL_CONF"
     \/ /\ m.timers \subseteq {"T3122", "relwait"} /\ "relwait" \in m.timers
        /\ m.l2 = "idle" /\ p \in {"none", "CHAN_CONF"} /\ q = "none"

\* Where a connection may be, given the first two signals of the queue.
Situation(m, p, q) ==
  \/ InIdle(m, p, q) \/ InAccess(m, p, q) \/ InAssigned(m, p, q)
  \/ InDedicated(m, p, q) \/ InRelease(m, p, q)

\* The state, the timers and the link of a mobile fit what waits for it.
Consistent(m) ==
  Len(m.rsl) <= 2 /\ Situation(m, First(m.rsl), Second(m.rsl))

-----------------------------------------------------------------------------
\* No entry of the queue has the signal that stands for none.
LEMMA EntryIsSignal ==
  ASSUME NEW e \in Entries
  PROVE  e.p # "none" /\ e.p \in Signals
BY DEF Entries, Signals

\* rsl_dl_recv enqueues at the end of rsl_upqueue.
LEMMA QueueAppend ==
  ASSUME NEW q \in Seq(Entries), Second(q) = "none", Len(q) <= 2,
         NEW e \in Entries
  PROVE  /\ Len(Append(q, e)) <= 2
         /\ First(q) = "none" =>
              First(Append(q, e)) = e.p /\ Second(Append(q, e)) = "none"
         /\ First(q) # "none" =>
              First(Append(q, e)) = First(q) /\ Second(Append(q, e)) = e.p
<1>1. \A i \in 1..Len(q) : q[i].p # "none"
  BY ElementOfSeq, EntryIsSignal
<1>2. Len(q) \in Nat /\ Len(q) < 2
  BY <1>1 DEF Second
<1> QED
  BY <1>1, <1>2 DEF First, Second

\* gsm48_rsl_dequeue takes the first entry off rsl_upqueue.
LEMMA QueueTail ==
  ASSUME NEW q \in Seq(Entries), q # <<>>, Len(q) <= 2
  PROVE  /\ Head(q) \in Entries /\ Head(q).p = First(q) /\ Head(q).p # "none"
         /\ Tail(q) \in Seq(Entries) /\ Len(Tail(q)) <= 1
         /\ First(Tail(q)) = Second(q) /\ Second(Tail(q)) = "none"
<1>1. \A i \in 1..Len(q) : q[i].p # "none"
  BY ElementOfSeq, EntryIsSignal
<1>2. Len(q) \in Nat /\ Len(q) > 0
  BY EmptySeq, LenProperties
<1>3. Head(q) = q[1] /\ q[1] \in Entries
  BY <1>2
<1>4. /\ Tail(q) \in Seq(Entries) /\ Len(Tail(q)) = Len(q) - 1
      /\ Len(q) = 2 => Tail(q)[1] = q[2]
  BY <1>2
<1> QED
  BY <1>1, <1>2, <1>3, <1>4 DEF First, Second

-----------------------------------------------------------------------------
\* A handler that keeps the mobile consistent and serves MM.
Good(m, n) == Consistent(n) /\ Serves(m, n)

\* The fields of which no timer or counter is one.
Keeps(m, n) ==
  /\ n.state = m.state /\ n.est = m.est /\ n.cell = m.cell /\ n.l2 = m.l2
  /\ n.rsl = m.rsl /\ n.up = m.up

\* A handler that changes only counters, and T3126, serves.
LEMMA KeptServes ==
  ASSUME NEW m \in Shapes, NEW n \in Shapes, Keeps(m, n),
         n.timers \ {"T3126"} = m.timers \ {"T3126"}
  PROVE  Serves(m, n)
<1>1. SameBar(m, n) /\ ("relwait" \in n.timers <=> "relwait" \in m.timers)
  BY DEF SameBar
<1> QED
  BY <1>1, ServesSame DEF Keeps

\* gsm48_rr_tx_rand_acc: a request, or T3126 when there is no more to send,
\* unless a channel was assigned.
LEMMA RandAccFields ==
  ASSUME NEW m \in Shapes
  PROVE  /\ Keeps(m, RandAcc(m)) /\ RandAcc(m).data = m.data
         /\ RandAcc(m).timers \in {m.timers, m.timers \cup {"T3126"}}
         /\ IF m.wait = 2 THEN RandAcc(m) = m ELSE RandAcc(m).wait # 2
<1>1. CASE m.wait = 2
  BY <1>1 DEF RandAcc, Keeps
<1>2. CASE m.wait # 2 /\ m.left = 0
  BY <1>2 DEF RandAcc, Keeps, Start, Shapes
<1>3. CASE m.wait # 2 /\ m.left # 0
  <2> DEFINE id == [proc |-> m.proc, n |-> m.left]
             rest == m.left - 1
  <2>1. RandAcc(m) = [m EXCEPT !.left = rest, !.wait = 1, !.rach = id]
    BY <1>3 DEF RandAcc
  <2> HIDE DEF id, rest
  <2> QED
    BY <1>3, <2>1 DEF Keeps, Shapes
<1> QED
  BY <1>1, <1>2, <1>3

\* Layer 2 puts a signal into the queue.
LEMMA QueueGrows ==
  ASSUME NEW m \in Shapes, Second(m.rsl) = "none", Len(m.rsl) <= 2,
         NEW e \in Entries, NEW n, n.rsl = Append(m.rsl, e), Serves(m, n),
         IF First(m.rsl) = "none" THEN Situation(n, e.p, "none")
                                  ELSE Situation(n, First(m.rsl), e.p)
  PROVE  Good(m, n)
<1>1. m.rsl \in Seq(Entries)
  BY DEF Shapes
<1> QED
  BY <1>1, QueueAppend DEF Good, Consistent

\* The same for an entry that is a signal of layer 2.
LEMMA SignalAdded ==
  ASSUME NEW m \in Shapes, Second(m.rsl) = "none", Len(m.rsl) <= 2,
         NEW p \in Signals, NEW n, n.rsl = Append(m.rsl, Entry(p, NoAccess)),
         Serves(m, n),
         IF First(m.rsl) = "none" THEN Situation(n, p, "none")
                                  ELSE Situation(n, First(m.rsl), p)
  PROVE  Good(m, n)
<1>1. Entry(p, NoAccess) \in Entries /\ Entry(p, NoAccess).p = p
  BY RrAssumption DEF Entry, Entries, NoAccess, AccessIds
<1> QED
  BY <1>1, QueueGrows

\* The mobile when an entry with signal p is taken off the queue.
Handles(m, p) ==
  /\ m \in Shapes /\ Situation(m, p, First(m.rsl))
  /\ Second(m.rsl) = "none" /\ Len(m.rsl) <= 1

\* A handler that leaves the rest of the queue alone.
LEMMA SameQueue ==
  ASSUME NEW m, NEW p, Handles(m, p), NEW n, n.rsl = m.rsl,
         Situation(n, First(m.rsl), "none"), Serves(m, n)
  PROVE  Good(m, n)
<1>1. Len(m.rsl) <= 2
  BY LenProperties DEF Shapes, Handles
<1> QED
  BY <1>1 DEF Good, Consistent, Handles

\* A handler that ignores its signal.
LEMMA Nothing ==
  ASSUME NEW m, NEW p, Handles(m, p), Situation(m, First(m.rsl), "none")
  PROVE  Good(m, m)
<1>1. Serves(m, m)
  BY KeptServes DEF Keeps, Handles
<1> QED
  BY <1>1, SameQueue

\* The queue has no other entry, and what keeps the state of the connection
\* leaves it in an access.
LEMMA AccessGoesOn ==
  ASSUME NEW m, NEW p, Handles(m, p), InAccess(m, p, First(m.rsl)),
         NEW n \in Shapes,
         Keeps(m, n), n.wait # 2, n.data = TRUE,
         n.timers \in {m.timers, m.timers \cup {"T3126"}}
  PROVE  Good(m, n)
<1>1. InAccess(n, "none", "none") /\ First(m.rsl) = "none"
  BY DEF InAccess, Keeps
<1>2. Serves(m, n)
  BY KeptServes DEF Handles
<1> QED
  BY <1>1, <1>2, SameQueue DEF Situation, Keeps

\* A confirmed request goes on with an access or is ignored.
LEMMA ChanConfStep ==
  ASSUME NEW m, NEW id \in AccessIds, NEW n \in Shapes, n = RxChanConf(m, id),
         Handles(m, "CHAN_CONF")
  PROVE  Good(m, n)
<1>1. CASE m.state # "CONN_PEND" \/ m.wait = 2
  <2>1. n = m
    BY <1>1 DEF RxChanConf
  <2>3. Situation(m, First(m.rsl), "none")
    BY <1>1 DEF Handles, Situation, InIdle, InAccess, InAssigned, InDedicated,
       InRelease
  <2> QED
    BY <2>1, <2>3, Nothing
<1>2. CASE m.state = "CONN_PEND" /\ m.wait # 2
  <2> DEFINE h == SubSeq(<<id>> \o m.hist, 1,
                         IF Len(m.hist) < History THEN Len(m.hist) + 1
                                                  ELSE History)
             o == [m EXCEPT !.hist = h]
  <2>1. n = RandAcc(o)
    BY <1>2 DEF RxChanConf
  <2>2. h \in Seq(AccessIds)
    BY HistoryShifts DEF Handles, Shapes
  <2> HIDE DEF h
  <2>3. o \in Shapes /\ Keeps(m, o) /\ o.timers = m.timers /\ o.wait = m.wait
        /\ o.data = m.data
    BY <2>2 DEF Shapes, Keeps, Handles
  <2> HIDE DEF o
  <2>4. /\ Keeps(m, n) /\ n.wait # 2 /\ n.data = o.data
        /\ n.timers \in {m.timers, m.timers \cup {"T3126"}}
    BY <1>2, <2>1, <2>3, RandAccFields DEF Keeps
  <2>5. InAccess(m, "CHAN_CONF", First(m.rsl)) /\ m.data = TRUE
    BY <1>2 DEF Handles, Situation, InIdle, InAccess, InAssigned, InDedicated,
       InRelease
  <2> QED
    BY <2>3, <2>4, <2>5, AccessGoesOn
<1> QED
  BY <1>1, <1>2

\* gsm48_new_sysinfo ends the wait for system information of an access.
LEMMA BcchStep ==
  ASSUME NEW m, NEW n \in Shapes, n = RxBcch(m), Handles(m, "BCCH")
  PROVE  Good(m, n)
<1>1. InAccess(m, "BCCH", First(m.rsl))
  BY DEF Handles, Situation, InIdle, InAssigned, InDedicated, InRelease
<1>2. CASE ~m.data
  <2> DEFINE o == [m EXCEPT !.data = TRUE]
  <2>1. n = RandAcc(o)
    BY <1>1, <1>2 DEF RxBcch, InAccess
  <2>3. o \in Shapes /\ Keeps(m, o) /\ o.timers = m.timers /\ o.wait = m.wait
        /\ o.data = TRUE
    BY DEF Shapes, Keeps, Handles
  <2> HIDE DEF o
  <2>4. /\ Keeps(m, n) /\ n.wait # 2 /\ n.data = o.data
        /\ n.timers \in {m.timers, m.timers \cup {"T3126"}}
    BY <1>1, <2>1, <2>3, RandAccFields DEF Keeps, InAccess
  <2> QED
    BY <1>1, <2>3, <2>4, AccessGoesOn
<1>3. CASE m.data
  <2>1. n = m /\ m.wait # 2 /\ m.data = TRUE
    BY <1>1, <1>3 DEF RxBcch, InAccess, Handles, Shapes
  <2> QED
    BY <1>1, <2>1, AccessGoesOn DEF Keeps
<1> QED
  BY <1>2, <1>3

\* A paging request starts an access only when IDLE and camped.
LEMMA PagingStep ==
  ASSUME NEW m, NEW n \in Shapes, n = RxPaging(m), Handles(m, "PAGING"),
         m.state = "IDLE" => m.rach = NoAccess
  PROVE  Good(m, n)
<1>1. InIdle(m, "PAGING", First(m.rsl)) /\ First(m.rsl) = "none" /\ m \in Shapes
  BY DEF Handles, Situation, InIdle, InAccess, InAssigned, InDedicated,
     InRelease
<1>2. CASE m.cell = "camped"
  <2>1. n = ChanReq(m, FALSE)
    BY <1>1, <1>2 DEF RxPaging, InIdle
  <2>2. /\ n.state = "CONN_PEND" /\ n.est = FALSE /\ n.wait = 0
        /\ n.cell = "connected"
        /\ n.rach = m.rach
        /\ n.l2 = m.l2 /\ n.timers = m.timers /\ n.rsl = m.rsl /\ n.up = m.up
    BY <1>1, <2>1 DEF ChanReq, Shapes
  <2>3. Serves(m, n)
    BY <1>1, <1>2, <2>2, ServesPaged DEF InIdle, SameBar
  <2>4. InAccess(n, "none", "none")
    BY <1>1, <2>2 DEF InIdle, InAccess
  <2> QED
    BY <1>1, <2>2, <2>3, <2>4, SameQueue DEF Situation
<1>3. CASE m.cell # "camped"
  <2>1. n = m
    BY <1>3 DEF RxPaging
  <2>2. InIdle(m, "none", "none")
    BY <1>1 DEF InIdle
  <2> QED
    BY <1>1, <2>1, <2>2, Nothing DEF Situation
<1> QED
  BY <1>2, <1>3

\* gsm48_rr_rx_imm_ass: the channel is taken at once or at its starting time,
\* and only from an access that has none.
LEMMA ImmAssStep ==
  ASSUME NEW m, NEW id \in AccessIds, NEW how \in Ways, NEW n \in Shapes,
         n = RxImmAss(m, id, how), Handles(m, "IMM_ASS")
  PROVE  Good(m, n)
<1>1. /\ InAccess(m, "IMM_ASS", First(m.rsl)) /\ First(m.rsl) = "none"
      /\ m \in Shapes
  BY DEF Handles, Situation, InIdle, InAccess, InAssigned, InDedicated,
     InRelease
<1>2. CASE Expected(m, id)
  <2> DEFINE o == [m EXCEPT !.wait = 2]
  <2>1. n = DlEst(o, how)
    BY <1>2 DEF RxImmAss
  <2>2. o \in Shapes /\ Keeps(m, o) /\ o.timers = m.timers /\ o.wait = 2
        /\ o.data = TRUE
    <3>1. 2 \in 0..2
      OBVIOUS
    <3> QED
      BY <1>1, <3>1 DEF Shapes, Keeps, InAccess
  <2> HIDE DEF o
  <2>3. /\ n.state = m.state /\ n.est = m.est /\ n.wait = 2 /\ n.cell = m.cell
        /\ n.rsl = m.rsl /\ n.up = m.up
        /\ n.l2 = (IF how = "now" THEN "sabm" ELSE m.l2) /\ n.data = TRUE
        /\ n.timers = IF how = "later"
                      THEN (m.timers \ {"T3126"}) \cup {"starting"}
                      ELSE m.timers \ {"T3126"}
    BY <1>1, <2>1, <2>2
       DEF Ways, DlEst, Unrendered, Start, Stop, L2Est, Keeps, InAccess, Shapes
  <2>4. Serves(m, n)
    BY <1>1, <2>3, ServesSame DEF SameBar, InAccess
  <2>5. InAssigned(n, "none", "none")
    BY <1>1, <2>3 DEF InAccess, InAssigned
  <2> QED
    BY <1>1, <2>3, <2>4, <2>5, SameQueue DEF Situation
<1>3. CASE ~Expected(m, id)
  <2>1. n = m /\ m.wait # 2 /\ m.data = TRUE
    BY <1>1, <1>3 DEF RxImmAss, InAccess
  <2> QED
    BY <1>1, <2>1, AccessGoesOn DEF Keeps
<1> QED
  BY <1>2, <1>3

\* gsm48_rr_rx_imm_ass_rej starts T3122, or gives the access up.
LEMMA ImmAssRejStep ==
  ASSUME NEW m, NEW id \in AccessIds, NEW wait \in BOOLEAN, NEW n \in Shapes,
         n = RxImmAssRej(m, id, wait), Handles(m, "IMM_ASS_REJ")
  PROVE  Good(m, n)
<1> DEFINE given == [Start(m, "T3126") EXCEPT !.left = 0]
<1>1. /\ InAccess(m, "IMM_ASS_REJ", First(m.rsl)) /\ First(m.rsl) = "none"
      /\ m \in Shapes
  BY DEF Handles, Situation, InIdle, InAccess, InAssigned, InDedicated,
     InRelease
<1>2. /\ Keeps(m, given) /\ given.timers = m.timers \cup {"T3126"}
      /\ given.wait = m.wait /\ m.wait # 2 /\ m.data = TRUE /\ given.data = TRUE
  BY <1>1 DEF Keeps, Start, Shapes, InAccess
<1>3. /\ Keeps(m, Start(given, "T3122")) /\ Start(given, "T3122").wait = m.wait
      /\ Start(given, "T3122").data = TRUE
      /\ Start(given, "T3122").timers = m.timers \cup {"T3126", "T3122"}
  BY <1>1, <1>2 DEF Keeps, Start, Shapes
<1> HIDE DEF given
<1>4. n \in {m, given, Start(given, "T3122")}
  BY DEF RxImmAssRej, given
<1>5. CASE n \in {m, given}
  BY <1>1, <1>2, <1>5, AccessGoesOn DEF Keeps
<1>6. CASE n = Start(given, "T3122")
  <2>1. InAccess(n, "none", "none")
    BY <1>1, <1>2, <1>3, <1>6 DEF InAccess, Keeps
  <2>2. Serves(m, n)
    BY <1>1, <1>3, <1>6, ServesPend DEF Keeps, InAccess
  <2> QED
    BY <1>1, <1>3, <1>6, <2>1, <2>2, SameQueue DEF Situation, Keeps
<1> QED
  BY <1>4, <1>5, <1>6

\* gsm48_rr_estab_cnf is called only while the link of an access is up.
LEMMA EstabCnfStep ==
  ASSUME NEW m, NEW n \in Shapes, n = EstabCnf(m), Handles(m, "EST_CONF")
  PROVE  Good(m, n)
<1>1. /\ InAssigned(m, "EST_CONF", First(m.rsl)) /\ First(m.rsl) = "none"
      /\ m \in Shapes /\ m.l2 = "mf" /\ m.timers \subseteq {"T3122"}
  BY DEF Handles, Situation, InIdle, InAccess, InAssigned, InDedicated,
     InRelease
<1>2. /\ n.state = "DEDICATED" /\ n.est = m.est /\ n.cell = m.cell
      /\ n.l2 = m.l2
      /\ n.timers = m.timers /\ n.rsl = m.rsl
      /\ n.up = Append(m.up, IF m.est THEN "EST_CNF" ELSE "EST_IND")
  <2>1. n = Tell(NewState(m, "DEDICATED"), IF m.est THEN "EST_CNF" ELSE "EST_IND")
    BY <1>1 DEF EstabCnf, InAssigned
  <2> QED
    BY <1>1, <2>1 DEF Tell, NewState, Shapes
<1>3. Serves(m, n)
  BY <1>1, <1>2, ServesPend DEF InAssigned, SameBar
<1>4. InDedicated(n, "none", "none")
  BY <1>1, <1>2 DEF InAssigned, InDedicated
<1> QED
  BY <1>1, <1>2, <1>3, <1>4, SameQueue DEF Situation

\* gsm48_rr_rel_ind: the link is gone, whatever the state.
LEMMA RelIndStep ==
  ASSUME NEW m, NEW n \in Shapes, n = RelInd(m), Handles(m, "REL_IND")
  PROVE  Good(m, n)
<1>1. /\ m \in Shapes
      /\ First(m.rsl) \in {"none", "PAGING", "CHAN_CONF", "REL_CONF"}
  BY DEF Handles, Situation, InIdle, InAccess, InAssigned, InDedicated,
     InRelease
<1>2. CASE m.state \in {"CONN_PEND", "DEDICATED"}
  <2>1. /\ m.l2 = "idle" /\ m.timers \subseteq {"T3122"} /\ m.cell = "connected"
        /\ First(m.rsl) \in {"none", "CHAN_CONF"}
    BY <1>2 DEF Handles, Situation, InIdle, InAccess, InAssigned, InDedicated,
       InRelease
  <2>2. /\ n.state = "REL_PEND" /\ n.est = m.est /\ n.cell = m.cell
        /\ n.l2 = m.l2
        /\ n.timers \ {"starting"} = (m.timers \ {"starting"}) \cup {"relwait"}
        /\ n.timers \subseteq m.timers \cup {"relwait"}
        /\ n.rsl = m.rsl /\ n.up = Append(m.up, "REL_IND")
    BY <1>1, <1>2 DEF RelInd, Tell, Start, Stop, NewState, Shapes
  <2>3. Serves(m, n)
    BY <1>1, <1>2, <2>2, ServesPend, ServesDedic DEF SameBar
  <2>4. InRelease(n, First(m.rsl), "none")
    BY <2>1, <2>2 DEF InRelease
  <2> QED
    BY <2>2, <2>3, <2>4, SameQueue DEF Situation
<1>3. CASE m.state \notin {"CONN_PEND", "DEDICATED"}
  <2>1. n = m
    BY <1>3 DEF RelInd
  <2>2. Situation(m, First(m.rsl), "none")
    BY <1>1, <1>3 DEF Handles, Situation, InIdle, InAccess, InAssigned,
       InDedicated, InRelease
  <2> QED
    BY <2>1, <2>2, Nothing
<1> QED
  BY <1>2, <1>3

\* gsm48_rr_rel_cnf: the link was released, or could not be set up.
LEMMA RelCnfStep ==
  ASSUME NEW m, NEW n \in Shapes, n = RelCnf(m), Handles(m, "REL_CONF")
  PROVE  Good(m, n)
<1>1. m \in Shapes
  BY DEF Handles
<1>2. CASE m.state # "IDLE"
  <2>1. /\ m.state = "REL_PEND" /\ m.l2 = "idle" /\ m.cell = "connected"
        /\ m.timers \subseteq {"T3122", "T3110"}
        /\ First(m.rsl) \in {"none", "CHAN_CONF", "REL_CONF"}
    BY <1>2 DEF Handles, Situation, InIdle, InAccess, InAssigned, InDedicated,
       InRelease
  <2>2. /\ n.state = "IDLE" /\ n.est = FALSE /\ n.cell = "choose" /\ n.l2 = m.l2
        /\ n.timers = m.timers \ {"T3110"} /\ n.rsl = m.rsl
        /\ n.up = Append(m.up, "REL_IND")
    BY <1>1, <1>2, <2>1 DEF RelCnf, Released, Tell, Stop, NewState, Shapes
  <2>3. Serves(m, n)
    BY <1>1, <2>1, <2>2, ServesReleased DEF SameBar
  <2>4. InIdle(n, First(m.rsl), "none")
    BY <2>1, <2>2 DEF InIdle
  <2> QED
    BY <2>2, <2>3, <2>4, SameQueue DEF Situation
<1>3. CASE m.state = "IDLE"
  <2>1. n = m
    BY <1>3 DEF RelCnf
  <2>2. Situation(m, First(m.rsl), "none")
    BY <1>1, <1>3 DEF Handles, Situation, InIdle, InAccess, InAssigned,
       InDedicated, InRelease
  <2> QED
    BY <2>1, <2>2, Nothing
<1> QED
  BY <1>2, <1>3

\* gsm48_rr_mdl_error_ind gives up the link and confirms its own release.
LEMMA MdlErrorStep ==
  ASSUME NEW m, NEW n \in Shapes, n = MdlError(m), Handles(m, "ERROR_IND")
  PROVE  Good(m, n)
<1>1. /\ InDedicated(m, "ERROR_IND", First(m.rsl)) /\ First(m.rsl) = "none"
      /\ m \in Shapes
  BY DEF Handles, Situation, InIdle, InAccess, InAssigned, InDedicated,
     InRelease
<1>2. /\ n.state = "IDLE" /\ n.est = FALSE /\ n.cell = "choose" /\ n.l2 = "idle"
      /\ n.timers = m.timers \ {"starting"}
      /\ n.rsl = Append(m.rsl, Entry("REL_CONF", NoAccess))
      /\ n.up = Append(m.up, "ABORT_IND")
  BY <1>1 DEF MdlError, L2RelLocal, Rsl, Tell, Stop, NewState, Shapes,
     InDedicated
<1>3. Serves(m, n)
  BY <1>1, <1>2, ServesDedic DEF SameBar, InDedicated
<1>4. InIdle(n, "REL_CONF", "none")
  BY <1>1, <1>2 DEF InIdle, InDedicated
<1>5. Second(m.rsl) = "none" /\ Len(m.rsl) <= 2
  BY LenProperties DEF Handles, Shapes
<1> QED
  BY <1>1, <1>2, <1>3, <1>4, <1>5, SignalAdded DEF Situation, Signals

\* gsm48_rr_rx_chan_rel starts the release and T3110.
LEMMA ChanRelStep ==
  ASSUME NEW m, NEW n \in Shapes, n = RxChanRel(m), Handles(m, "CHAN_REL")
  PROVE  Good(m, n)
<1>1. /\ InDedicated(m, "CHAN_REL", First(m.rsl)) /\ First(m.rsl) = "none"
      /\ m \in Shapes
  BY DEF Handles, Situation, InIdle, InAccess, InAssigned, InDedicated,
     InRelease
<1>2. /\ n.state = "REL_PEND" /\ n.est = m.est /\ n.cell = m.cell
      /\ n.l2 = "disc"
      /\ n.timers = (m.timers \ {"starting"}) \cup {"T3110"} /\ n.rsl = m.rsl
      /\ n.up = m.up
  BY <1>1 DEF RxChanRel, L2Rel, Start, Stop, NewState, Shapes, InDedicated
<1>3. Serves(m, n)
  BY <1>1, <1>2, ServesDedic DEF SameBar, InDedicated
<1>5. InRelease(n, "none", "none")
  BY <1>1, <1>2 DEF InRelease, InDedicated
<1> QED
  BY <1>1, <1>2, <1>3, <1>5, SameQueue DEF Situation
-----------------------------------------------------------------------------
(* The steps that no entry of the queue begins. *)

\* The mobile when it waits for events: nothing but the end of a release may
\* be in the queue.
Waits(m) ==
  /\ m \in Shapes /\ Situation(m, First(m.rsl), "none")
  /\ First(m.rsl) \in {"none", "REL_IND", "REL_CONF"}
  /\ Second(m.rsl) = "none" /\ Len(m.rsl) <= 2

\* An event that leaves the queue alone.
LEMMA StillWaits ==
  ASSUME NEW m, Waits(m), NEW n, n.rsl = m.rsl,
         Situation(n, First(m.rsl), "none"),
         Serves(m, n)
  PROVE  Good(m, n)
BY DEF Waits, Good, Consistent

\* When the mobile selects, the queue holds at most the end of a link.
LEMMA SelectsWaits ==
  ASSUME ms \in Shapes, Consistent(ms), Selects
  PROVE  Waits(ms)
<1>1. ms.rsl \in Seq(Entries) /\ Len(ms.rsl) \in Nat
  BY DEF Shapes
<1>2. CASE ms.rsl = <<>>
  BY <1>2 DEF Waits, Consistent, First, Second
<1>3. CASE Len(ms.rsl) = 1 /\ Head(ms.rsl).p \in {"REL_IND", "REL_CONF"}
  <2>1. First(ms.rsl) = Head(ms.rsl).p /\ Second(ms.rsl) = "none"
    BY <1>1, <1>3 DEF First, Second
  <2> QED
    BY <1>3, <2>1 DEF Waits, Consistent
<1> QED
  BY <1>2, <1>3 DEF Selects

\* T3126 ends an access that got no answer.
LEMMA T3126Step ==
  ASSUME NEW m, Waits(m), "T3126" \in m.timers, NEW n \in Shapes,
         n = Failed(Stop(m, "T3126"))
  PROVE  Good(m, n)
<1>1. InAccess(m, "none", "none") /\ First(m.rsl) = "none" /\ m \in Shapes
  BY DEF Waits, Situation, InIdle, InAccess, InAssigned, InDedicated, InRelease
<1>2. /\ n.state = "IDLE" /\ n.est = FALSE /\ n.cell = "choose" /\ n.l2 = m.l2
      /\ n.timers = m.timers \ {"T3126"} /\ n.rsl = m.rsl
      /\ n.up = IF m.est THEN Append(m.up, "REL_IND") ELSE m.up
  BY <1>1 DEF Failed, Tell, Stop, NewState, Shapes, InAccess
<1>3. Serves(m, n)
  BY <1>1, <1>2, ServesPend DEF SameBar, InAccess
<1>4. InIdle(n, "none", "none")
  BY <1>1, <1>2 DEF InAccess, InIdle
<1> QED
  BY <1>1, <1>2, <1>3, <1>4, StillWaits DEF Situation

\* T3110 ends the wait for the answer to a DISC and releases locally.
LEMMA T3110Step ==
  ASSUME NEW m, Waits(m), "T3110" \in m.timers, NEW n \in Shapes,
         n = L2RelLocal(NewState(Stop(m, "T3110"), "REL_PEND"))
  PROVE  Good(m, n)
<1>1. /\ InRelease(m, First(m.rsl), "none")
      /\ First(m.rsl) \in {"none", "REL_CONF"}
      /\ m \in Shapes /\ m.timers \subseteq {"T3122", "T3110"}
  BY DEF Waits, Situation, InIdle, InAccess, InAssigned, InDedicated, InRelease
<1>2. /\ n.state = "REL_PEND" /\ n.est = m.est /\ n.cell = m.cell
      /\ n.l2 = "idle"
      /\ n.timers = m.timers \ {"T3110"} /\ n.up = m.up
      /\ n.rsl = Append(m.rsl, Entry("REL_CONF", NoAccess))
  BY <1>1 DEF L2RelLocal, Rsl, Stop, NewState, Shapes, InRelease
<1>3. Serves(m, n)
  BY <1>1, <1>2, ServesSame DEF SameBar, InRelease
<1>4. /\ First(m.rsl) = "none" => InRelease(n, "REL_CONF", "none")
      /\ First(m.rsl) # "none" => InRelease(n, First(m.rsl), "REL_CONF")
  BY <1>1, <1>2 DEF InRelease
<1> QED
  BY <1>1, <1>2, <1>3, <1>4, SignalAdded DEF Situation, Waits, Signals

\* t_rel_wait ends the time the last UA is given.
LEMMA RelWaitStep ==
  ASSUME NEW m, Waits(m), "relwait" \in m.timers, NEW n \in Shapes,
         n = NewState(Stop(m, "relwait"), "IDLE")
  PROVE  Good(m, n)
<1>1. /\ InRelease(m, "none", "none") /\ First(m.rsl) = "none"
      /\ m \in Shapes /\ m.timers \subseteq {"T3122", "relwait"}
      /\ m.l2 = "idle"
  BY DEF Waits, Situation, InIdle, InAccess, InAssigned, InDedicated, InRelease
<1>2. /\ n.state = "IDLE" /\ n.est = FALSE /\ n.cell = "choose" /\ n.l2 = m.l2
      /\ n.timers = m.timers \ {"relwait"} /\ n.rsl = m.rsl /\ n.up = m.up
  BY <1>1 DEF Stop, NewState, Shapes, InRelease
<1>3. Serves(m, n)
  BY <1>1, <1>2, ServesReleased DEF SameBar, InRelease
<1>4. InIdle(n, "none", "none")
  BY <1>1, <1>2 DEF InIdle
<1> QED
  BY <1>1, <1>2, <1>3, <1>4, StillWaits DEF Situation

\* t_starting establishes the link at the starting time.
LEMMA StartingStep ==
  ASSUME NEW m, Waits(m), "starting" \in m.timers, NEW n \in Shapes,
         NEW how \in {"now", "never"}, n = DlEst(Stop(m, "starting"), how)
  PROVE  Good(m, n)
<1>1. /\ InAssigned(m, "none", "none") /\ First(m.rsl) = "none"
      /\ m \in Shapes /\ m.l2 = "idle"
  BY DEF Waits, Situation, InIdle, InAccess, InAssigned, InDedicated, InRelease
<1>2. /\ n.state = m.state /\ n.est = m.est /\ n.cell = m.cell
      /\ n.l2 \in {"sabm", "idle"}
      /\ n.timers = m.timers \ {"starting", "T3126"} /\ n.rsl = m.rsl
      /\ n.up = m.up
      /\ n.wait = m.wait /\ n.data = m.data
  BY <1>1 DEF DlEst, Unrendered, Stop, L2Est, Shapes
<1>3. Serves(m, n)
  BY <1>1, <1>2, ServesSame DEF SameBar, InAssigned
<1>4. InAssigned(n, "none", "none")
  BY <1>1, <1>2 DEF InAssigned
<1> QED
  BY <1>1, <1>2, <1>3, <1>4, StillWaits DEF Situation

\* What layer 2 adds to the queue leaves the connection to MM as it is.
LEMMA SignalServes ==
  ASSUME NEW m \in Shapes, NEW n \in Shapes, n.state = m.state, n.est = m.est,
         n.cell = m.cell, n.timers = m.timers, n.up = m.up
  PROVE  Serves(m, n)
BY ServesSame DEF SameBar

\* Layer 2 gives up a link it could not set up or release.
LEMMA L2FailsStep ==
  ASSUME NEW m, Waits(m), m.l2 \in {"sabm", "disc"}, NEW n \in Shapes,
         n = Rsl([m EXCEPT !.l2 = "idle"],
                 IF m.l2 = "sabm" THEN "REL_IND" ELSE "REL_CONF")
  PROVE  Good(m, n)
<1> DEFINE p == IF m.l2 = "sabm" THEN "REL_IND" ELSE "REL_CONF"
<1>1. /\ \/ /\ InAssigned(m, "none", "none") /\ p = "REL_IND"
            /\ "starting" \notin m.timers
         \/ /\ InRelease(m, "none", "none") /\ p = "REL_CONF"
            /\ m.timers \subseteq {"T3122", "T3110"}
      /\ First(m.rsl) = "none" /\ m \in Shapes
  BY DEF Waits, Situation, InIdle, InAccess, InAssigned, InDedicated, InRelease
<1>2. /\ n.state = m.state /\ n.est = m.est /\ n.cell = m.cell /\ n.l2 = "idle"
      /\ n.timers = m.timers /\ n.rsl = Append(m.rsl, Entry(p, NoAccess))
      /\ n.up = m.up /\ n.wait = m.wait /\ n.data = m.data
  BY <1>1 DEF Rsl, Shapes
<1>3. Serves(m, n)
  BY <1>1, <1>2, SignalServes
<1>4. p \in Signals
  BY DEF Signals
<1> HIDE DEF p
<1>5. InAssigned(n, p, "none") \/ InRelease(n, p, "none")
  BY <1>1, <1>2 DEF InAssigned, InRelease
<1> QED
  BY <1>1, <1>2, <1>3, <1>4, <1>5, SignalAdded DEF Situation, Waits

\* Layer 2 has the link up.
LEMMA L2EstablishedStep ==
  ASSUME NEW m, Waits(m), m.l2 = "sabm", NEW n \in Shapes,
         n = Rsl([m EXCEPT !.l2 = "mf"], "EST_CONF")
  PROVE  Good(m, n)
<1>1. /\ InAssigned(m, "none", "none") /\ "starting" \notin m.timers
      /\ First(m.rsl) = "none" /\ m \in Shapes
  BY DEF Waits, Situation, InIdle, InAccess, InAssigned, InDedicated, InRelease
<1>2. /\ n.state = m.state /\ n.est = m.est /\ n.cell = m.cell /\ n.l2 = "mf"
      /\ n.timers = m.timers
      /\ n.rsl = Append(m.rsl, Entry("EST_CONF", NoAccess))
      /\ n.up = m.up /\ n.wait = m.wait /\ n.data = m.data
  BY <1>1 DEF Rsl, Shapes
<1>3. Serves(m, n)
  BY <1>1, <1>2, SignalServes
<1>4. InAssigned(n, "EST_CONF", "none")
  BY <1>1, <1>2 DEF InAssigned
<1> QED
  BY <1>1, <1>2, <1>3, <1>4, SignalAdded DEF Situation, Waits, Signals

\* The network releases the link or the channel, or breaks the protocol.
LEMMA L2NetworkStep ==
  ASSUME NEW m, Waits(m), m.l2 = "mf", NEW n \in Shapes,
         \/ n = Rsl([m EXCEPT !.l2 = "idle"], "REL_IND")
         \/ n = Rsl(m, "CHAN_REL")
         \/ n = Rsl(m, "ERROR_IND")
  PROVE  Good(m, n)
<1>1. InDedicated(m, "none", "none") /\ First(m.rsl) = "none" /\ m \in Shapes
  BY DEF Waits, Situation, InIdle, InAccess, InAssigned, InDedicated, InRelease
<1>2. PICK p \in {"REL_IND", "CHAN_REL", "ERROR_IND"} :
         /\ n.state = m.state /\ n.est = m.est /\ n.cell = m.cell
         /\ n.l2 = IF p = "REL_IND" THEN "idle" ELSE "mf"
         /\ n.timers = m.timers /\ n.rsl = Append(m.rsl, Entry(p, NoAccess))
         /\ n.up = m.up
  <2>1. CASE n = Rsl([m EXCEPT !.l2 = "idle"], "REL_IND")
    BY <1>1, <2>1 DEF Rsl, Shapes
  <2>2. CASE n = Rsl(m, "CHAN_REL")
    BY <1>1, <2>2 DEF Rsl, Shapes
  <2>3. CASE n = Rsl(m, "ERROR_IND")
    BY <1>1, <2>3 DEF Rsl, Shapes
  <2> QED
    BY <2>1, <2>2, <2>3
<1>3. Serves(m, n)
  BY <1>1, <1>2, SignalServes
<1>4. InDedicated(n, p, "none")
  BY <1>1, <1>2 DEF InDedicated
<1> QED
  BY <1>1, <1>2, <1>3, <1>4, SignalAdded DEF Situation, Waits, Signals

\* The signal may be lost where an access, a connection or a release is, but
\* not while a channel is being taken or the last UA is sent.
Breakable(m) ==
  \/ /\ m.state \in {"IDLE", "CONN_PEND"}
     /\ m.l2 # "sabm" /\ "starting" \notin m.timers
  \/ m.state = "DEDICATED"
  \/ m.state = "REL_PEND" /\ "relwait" \notin m.timers

\* gsm48_rr_los in a phase in which it leaves nothing behind.
LEMMA LoseStep ==
  ASSUME NEW m, Waits(m), m.cell = "connected", Breakable(m), NEW n \in Shapes,
         n = Los(m)
  PROVE  Good(m, n)
<1>1. m \in Shapes
  BY DEF Waits
<1>2. CASE m.state = "CONN_PEND"
  <2>1. /\ m.l2 = "idle" /\ m.timers \subseteq {"T3122", "T3126"}
        /\ First(m.rsl) \in {"none", "REL_IND"}
    BY <1>2 DEF Breakable, Waits, Situation, InIdle, InAccess, InAssigned,
       InDedicated, InRelease
  <2>2. n = Released(Stop(Stop(m, "T3110"), "T3126"))
    BY <1>2 DEF Los
  <2>3. /\ n.state = "IDLE" /\ n.est = FALSE /\ n.cell = "choose" /\ n.l2 = m.l2
        /\ n.timers = m.timers \ {"T3110", "T3126"} /\ n.rsl = m.rsl
        /\ n.up = Append(m.up, "REL_IND")
    BY <1>1, <1>2, <2>2 DEF Released, Tell, Stop, NewState, Shapes
  <2>4. Serves(m, n)
    BY <1>1, <1>2, <2>3, ServesPend DEF SameBar
  <2>5. InIdle(n, First(m.rsl), "none")
    BY <2>1, <2>3 DEF InIdle
  <2> QED
    BY <2>3, <2>4, <2>5, StillWaits DEF Situation
<1>3. CASE m.state \in {"DEDICATED", "REL_PEND"}
  <2>1. /\ m.timers \subseteq {"T3122", "T3110"}
        /\ First(m.rsl) \in {"none", "REL_IND", "REL_CONF"}
    BY <1>3 DEF Breakable, Waits, Situation, InIdle, InAccess, InAssigned,
       InDedicated, InRelease
  <2>2. n = L2RelLocal(NewState(Stop(m, "T3110"), "REL_PEND"))
    BY <1>3 DEF Los
  <2>3. /\ n.state = "REL_PEND" /\ n.est = m.est /\ n.cell = m.cell
        /\ n.l2 = "idle"
        /\ n.timers = m.timers \ {"T3110", "starting"} /\ n.up = m.up
        /\ n.rsl = Append(m.rsl, Entry("REL_CONF", NoAccess))
    <3>1. m.timers \ {"T3110"} = m.timers \ {"T3110", "starting"}
      BY <2>1
    <3> QED
      BY <1>1, <1>3, <2>2, <3>1 DEF L2RelLocal, Rsl, Stop, NewState, Shapes
  <2>4. SameBar(m, n) /\ "relwait" \notin n.timers /\ "relwait" \notin m.timers
    BY <2>1, <2>3 DEF SameBar
  <2>5. Serves(m, n)
    BY <1>1, <1>3, <2>3, <2>4, ServesDedic, ServesSame
  <2>6. /\ First(m.rsl) = "none" => InRelease(n, "REL_CONF", "none")
        /\ First(m.rsl) # "none" => InRelease(n, First(m.rsl), "REL_CONF")
    BY <2>1, <2>3 DEF InRelease
  <2> QED
    BY <2>3, <2>5, <2>6, SignalAdded DEF Situation, Waits, Signals
<1>4. CASE m.state = "IDLE"
  BY <1>4 DEF Waits, Situation, InIdle, InAccess, InAssigned, InDedicated,
     InRelease
<1> QED
  BY <1>1, <1>2, <1>3, <1>4 DEF Shapes

\* The system information an access waits for has been read.
LEMMA SyncStep ==
  ASSUME NEW m, Waits(m), m.state = "CONN_PEND", ~m.data, NEW n \in Shapes,
         n = Rsl(m, "BCCH")
  PROVE  Good(m, n)
<1>1. InAccess(m, "none", "none") /\ First(m.rsl) = "none" /\ m \in Shapes
  BY DEF Waits, Situation, InIdle, InAccess, InAssigned, InDedicated, InRelease
<1>2. /\ n.state = m.state /\ n.est = m.est /\ n.cell = m.cell /\ n.l2 = m.l2
      /\ n.timers = m.timers /\ n.rsl = Append(m.rsl, Entry("BCCH", NoAccess))
      /\ n.up = m.up /\ n.wait = m.wait /\ n.data = m.data /\ n.rach = m.rach
  BY <1>1 DEF Rsl, Shapes
<1>3. Serves(m, n)
  BY <1>1, <1>2, SignalServes
<1>4. InAccess(n, "BCCH", "none")
  BY <1>1, <1>2 DEF InAccess
<1> QED
  BY <1>1, <1>2, <1>3, <1>4, SignalAdded DEF Situation, Waits, Signals

\* Layer 1 confirms the request that is on its way.
LEMMA ChanConfSentStep ==
  ASSUME NEW m, Waits(m), m.rach # NoAccess,
         m.state = "IDLE" => m.rach = NoAccess,
         NEW n \in Shapes,
         n = [m EXCEPT !.rach = NoAccess,
                       !.rsl = Append(@, Entry("CHAN_CONF", m.rach))]
  PROVE  Good(m, n)
<1> DEFINE e == Entry("CHAN_CONF", m.rach)
<1>1. m \in Shapes /\ m.state # "IDLE"
  BY DEF Waits
<1>2. e \in Entries /\ e.p = "CHAN_CONF"
  BY <1>1 DEF Entry, Entries, Signals, Shapes
<1>3. /\ n.state = m.state /\ n.est = m.est /\ n.cell = m.cell /\ n.l2 = m.l2
      /\ n.timers = m.timers /\ n.rsl = Append(m.rsl, e)
      /\ n.up = m.up /\ n.wait = m.wait /\ n.data = m.data
  BY <1>1 DEF Shapes
<1> HIDE DEF e
<1>4. Serves(m, n)
  BY <1>1, <1>3, SignalServes
<1>5. /\ First(m.rsl) = "none" => Situation(n, "CHAN_CONF", "none")
      /\ First(m.rsl) # "none" => Situation(n, First(m.rsl), "CHAN_CONF")
  <2>1. CASE m.state = "CONN_PEND"
    BY <1>3, <2>1 DEF Waits, Situation, InIdle, InAccess, InAssigned,
       InDedicated, InRelease
  <2>2. CASE m.state = "DEDICATED"
    BY <1>3, <2>2 DEF Waits, Situation, InIdle, InAccess, InAssigned,
       InDedicated, InRelease
  <2>3. CASE m.state = "REL_PEND"
    BY <1>3, <2>3 DEF Waits, Situation, InIdle, InAccess, InAssigned,
       InDedicated, InRelease
  <2> QED
    BY <1>1, <2>1, <2>2, <2>3 DEF Shapes
<1> QED
  BY <1>1, <1>2, <1>3, <1>4, <1>5, QueueGrows DEF Waits

\* The network answers an access that has no channel yet.
LEMMA NetworkAnswersStep ==
  ASSUME NEW m, Waits(m), m.state = "CONN_PEND", m.data, m.wait # 2,
         NEW id \in AccessIds, NEW p \in {"IMM_ASS", "IMM_ASS_REJ"},
         NEW n \in Shapes,
         n = [m EXCEPT !.rsl = Append(@, Entry(p, id))]
  PROVE  Good(m, n)
<1> DEFINE e == Entry(p, id)
<1>1. m \in Shapes /\ InAccess(m, "none", "none") /\ First(m.rsl) = "none"
  BY DEF Waits, Situation, InIdle, InAccess, InAssigned, InDedicated, InRelease
<1>2. e \in Entries /\ e.p = p
  BY DEF Entry, Entries, Signals
<1>3. /\ n.state = m.state /\ n.est = m.est /\ n.cell = m.cell /\ n.l2 = m.l2
      /\ n.timers = m.timers /\ n.rsl = Append(m.rsl, e)
      /\ n.up = m.up /\ n.wait = m.wait /\ n.data = TRUE
  BY <1>1 DEF Shapes
<1> HIDE DEF e
<1>4. Serves(m, n)
  BY <1>1, <1>3, SignalServes
<1>5. InAccess(n, p, "none")
  BY <1>1, <1>3 DEF InAccess
<1> QED
  BY <1>1, <1>2, <1>3, <1>4, <1>5, QueueGrows DEF Waits, Situation

\* The network pages a mobile that is camped.
LEMMA PageStep ==
  ASSUME NEW m, Waits(m), m.cell = "camped", NEW n \in Shapes,
         n = Rsl(m, "PAGING")
  PROVE  Good(m, n)
<1>1. InIdle(m, First(m.rsl), "none") /\ m \in Shapes
  BY DEF Waits, Situation, InIdle, InAccess, InAssigned, InDedicated, InRelease
<1>2. /\ n.state = m.state /\ n.est = m.est /\ n.cell = m.cell /\ n.l2 = m.l2
      /\ n.timers = m.timers /\ n.rsl = Append(m.rsl, Entry("PAGING", NoAccess))
      /\ n.up = m.up
  BY <1>1 DEF Rsl, Shapes
<1>3. Serves(m, n)
  BY <1>1, <1>2, SignalServes
<1>4. /\ First(m.rsl) = "none" => InIdle(n, "PAGING", "none")
      /\ First(m.rsl) # "none" => InIdle(n, First(m.rsl), "PAGING")
  BY <1>1, <1>2 DEF InIdle, Waits
<1> QED
  BY <1>1, <1>2, <1>3, <1>4, SignalAdded DEF Situation, Waits, Signals
-----------------------------------------------------------------------------
(* The steps of the service. *)

\* A handler that serves MM is a step of the service or a stutter.
LEMMA ServesNext ==
  ASSUME Serves(ms, ms'), mm' = "none", ms \in Shapes
  PROVE  Service!ServiceNext
<1>1. PICK p \in Seq(Prims) :
        Radio(Link, Link', p) /\ ms'.up = ms.up \o p
  <2>1. CASE Radio(LinkOf(ms), LinkOf(ms'), <<>>) /\ ms'.up = ms.up
    <3>1. ms.up = ms.up \o <<>> /\ <<>> \in Seq(Prims)
      BY DEF Shapes
    <3> QED
      BY <2>1, <3>1, LinkIsLinkOf
  <2>2. ASSUME NEW p \in Prims, Radio(LinkOf(ms), LinkOf(ms'), <<p>>),
               ms'.up = Append(ms.up, p)
        PROVE  \E q \in Seq(Prims) :
                 Radio(Link, Link', q) /\ ms'.up = ms.up \o q
    <3>1. ms'.up = ms.up \o <<p>>
      BY <2>2 DEF Shapes
    <3>2. <<p>> \in Seq(Prims)
      OBVIOUS
    <3> QED
      BY <2>2, <3>1, <3>2, LinkIsLinkOf
  <2> QED
    BY <2>1, <2>2 DEF Serves
<1>2. PICK g \in Service!Steps(Link) \cup {Service!Gives(Link, <<>>)} :
        Link' = [g.link EXCEPT !.asked = FALSE] /\ g.up = p
  BY <1>1 DEF Radio
<1>3. Service!Does(g)
  BY <1>1, <1>2 DEF Service!Does, Service!Asked
<1> QED
  BY <1>2, <1>3 DEF Service!ServiceNext, Service!Radio, Service!Quiet

\* A request of MM, or another step of the service.
LEMMA ServiceAsked ==
  ASSUME NEW l \in Service!Links, NEW q, NEW p, ms.up \o p = ms'.up, mm' = q,
         Link' \in Service!Links, Link'.st = l.st, Link'.est = l.est,
         ~Link'.asked, Link'.t3122 = l.t3122
  PROVE  Service!Asked(q, Service!Gives(l, p))
<1>1. Link' = [l EXCEPT !.asked = FALSE]
  BY Cleared
<1>2. Service!Gives(l, p).link = l /\ Service!Gives(l, p).up = p
  BY DEF Service!Gives
<1> QED
  BY <1>1, <1>2 DEF Service!Asked

\* The link the mobile has before a step ...
LEMMA LinkIs ==
  ASSUME ms \in Shapes
  PROVE  /\ Link \in Service!Links /\ Link.st = StateOf(ms) /\ Link.est = ms.est
         /\ ~Link.asked /\ Link.t3122 = ("T3122" \in ms.timers)
BY LinkIsLinkOf, LinkOfIs DEF Is

\* ... and after it.
LEMMA LinkNextIs ==
  ASSUME ms' \in Shapes
  PROVE  /\ Link' \in Service!Links /\ Link'.st = StateOf(ms')
         /\ Link'.est = ms'.est
         /\ ~Link'.asked /\ Link'.t3122 = ("T3122" \in ms'.timers)
BY LinkIsLinkOf, LinkOfIs DEF Is

\* T3122 ends the bar; MM is not told.
LEMMA T3122Step ==
  ASSUME Waits(ms), "T3122" \in ms.timers, ms' = Stop(ms, "T3122"),
         mm' = "none",
         ms' \in Shapes
  PROVE  Consistent(ms') /\ Service!ServiceNext
<1>1. ms \in Shapes
  BY DEF Waits
<1>2. /\ ms'.state = ms.state /\ ms'.est = ms.est /\ ms'.cell = ms.cell
      /\ ms'.l2 = ms.l2
      /\ ms'.timers = ms.timers \ {"T3122"} /\ ms'.rsl = ms.rsl
      /\ ms'.up = ms.up
      /\ ms'.wait = ms.wait /\ ms'.data = ms.data /\ ms'.rach = ms.rach
  BY <1>1 DEF Stop, Shapes
<1>3. Consistent(ms')
  <2>1. CASE InIdle(ms, First(ms.rsl), "none")
    BY <1>2, <2>1 DEF Waits, Consistent, Situation, InIdle
  <2>2. CASE InAccess(ms, First(ms.rsl), "none")
    BY <1>2, <2>2 DEF Waits, Consistent, Situation, InAccess
  <2>3. CASE InAssigned(ms, First(ms.rsl), "none")
    BY <1>2, <2>3 DEF Waits, Consistent, Situation, InAssigned
  <2>4. CASE InDedicated(ms, First(ms.rsl), "none")
    BY <1>2, <2>4 DEF Waits, Consistent, Situation, InDedicated
  <2>5. CASE InRelease(ms, First(ms.rsl), "none")
    BY <1>2, <2>5 DEF Waits, Consistent, Situation, InRelease
  <2> QED
    BY <2>1, <2>2, <2>3, <2>4, <2>5 DEF Waits, Situation
<1>4. StateOf(ms') = StateOf(ms)
  BY <1>1, <1>2, StateOfIs DEF Shapes
<1>5. ms.up \o <<>> = ms'.up
  BY <1>1, <1>2 DEF Shapes
<1> DEFINE l == [Link EXCEPT !.t3122 = FALSE]
<1>6. /\ l \in Service!Links /\ l.st = Link.st /\ l.est = Link.est
      /\ l.t3122 = FALSE
  BY <1>1, LinkIs DEF Service!Links
<1> HIDE DEF l
<1>7. /\ Link' \in Service!Links /\ Link'.st = l.st /\ Link'.est = l.est
      /\ ~Link'.asked /\ Link'.t3122 = l.t3122
  <2>1. ("T3122" \in ms'.timers) = FALSE
    BY <1>2
  <2> QED
    BY <1>1, <1>2, <1>4, <1>6, <2>1, LinkIs, LinkNextIs
<1>9. Service!Asked("none", Service!Gives(l, <<>>))
  BY <1>5, <1>6, <1>7, ServiceAsked
<1>8. Service!T3122
  BY <1>1, <1>9, LinkIs DEF Service!T3122, Service!Does, l
<1> QED
  BY <1>3, <1>8 DEF Service!ServiceNext

\* gsm322 reports that a cell is camped on.
LEMMA CampStep ==
  ASSUME Waits(ms), ms.cell = "choose", ms' = [ms EXCEPT !.cell = "camped"],
         mm' = "none",
         ms' \in Shapes
  PROVE  Consistent(ms') /\ Service!ServiceNext
<1>1. ms \in Shapes /\ InIdle(ms, First(ms.rsl), "none")
  BY DEF Waits, Situation, InIdle, InAccess, InAssigned, InDedicated, InRelease
<1>2. /\ ms'.state = ms.state /\ ms'.est = ms.est /\ ms'.cell = "camped"
      /\ ms'.l2 = ms.l2
      /\ ms'.timers = ms.timers /\ ms'.rsl = ms.rsl /\ ms'.up = ms.up
  BY <1>1 DEF Shapes
<1>3. Consistent(ms')
  BY <1>1, <1>2 DEF Waits, Consistent, Situation, InIdle
<1>4. StateOf(ms') = "camped" /\ StateOf(ms) = "choose"
  BY <1>1, <1>2, StateOfIs DEF InIdle
<1>5. ms.up \o <<>> = ms'.up
  BY <1>1, <1>2 DEF Shapes
<1> DEFINE l == [Link EXCEPT !.st = "camped"]
<1>6. /\ l \in Service!Links /\ l.st = "camped" /\ l.est = Link.est
      /\ l.t3122 = Link.t3122
  BY <1>1, LinkIs DEF Service!Links, Service!LinkStates
<1> HIDE DEF l
<1>7. Service!Asked("none", Service!Gives(l, <<>>))
  BY <1>1, <1>2, <1>4, <1>5, <1>6, LinkIs, LinkNextIs, ServiceAsked
<1>8. Service!Camp
  BY <1>1, <1>4, <1>7, LinkIs DEF Service!Camp, Service!Does, l
<1> QED
  BY <1>3, <1>8 DEF Service!ServiceNext

\* gsm48_rr_dequeue: MM takes a primitive; the link does not change.
LEMMA MmTakesStep ==
  ASSUME ms \in Shapes, Consistent(ms), ms.up # <<>>,
         ms' = [ms EXCEPT !.up = Tail(@)],
         mm' = "none", ms' \in Shapes
  PROVE  Consistent(ms') /\ Service!ServiceNext
<1>1. /\ ms'.state = ms.state /\ ms'.est = ms.est /\ ms'.cell = ms.cell
      /\ ms'.l2 = ms.l2
      /\ ms'.timers = ms.timers /\ ms'.rsl = ms.rsl /\ ms'.up = Tail(ms.up)
      /\ ms'.wait = ms.wait /\ ms'.data = ms.data /\ ms'.rach = ms.rach
  BY DEF Shapes
<1>2. Consistent(ms')
  BY <1>1 DEF Consistent, Situation, InIdle, InAccess, InAssigned, InDedicated,
     InRelease
<1>3. Link' = Link
  BY <1>1 DEF Link
<1>4. Service!Take
  BY <1>1, <1>3 DEF Service!Take
<1> QED
  BY <1>2, <1>4 DEF Service!ServiceNext

\* gsm48_rr_est_req: an access, or a refusal that is told at once.
LEMMA MmEstablishesStep ==
  ASSUME ms \in Shapes, Consistent(ms), ms.rsl = <<>>, ms' = EstReq(ms),
         mm' = "est", ms' \in Shapes, ms.state = "IDLE" => ms.rach = NoAccess
  PROVE  Consistent(ms') /\ Service!ServiceNext
<1>1. First(ms.rsl) = "none" /\ Second(ms.rsl) = "none" /\ Len(ms.rsl) = 0
  BY DEF First, Second
<1>2. Service!EstReq(Link) =
        IF "T3122" \in ms.timers \/ StateOf(ms) # "camped"
        THEN Service!Gives(Link, <<"REL_IND">>)
        ELSE Service!Gives([Link EXCEPT !.st = "pend", !.est = TRUE], <<>>)
  BY LinkIs DEF Service!EstReq
<1>3. StateOf(ms) = "camped" <=> ms.state = "IDLE" /\ ms.cell = "camped"
  BY StateOfIs DEF Shapes
<1>4. CASE "T3122" \in ms.timers \/ ms.state # "IDLE" \/ ms.cell # "camped"
  <2>1. /\ ms'.state = ms.state /\ ms'.est = ms.est /\ ms'.cell = ms.cell
        /\ ms'.l2 = ms.l2
        /\ ms'.timers = ms.timers /\ ms'.rsl = ms.rsl
        /\ ms'.up = Append(ms.up, "REL_IND")
        /\ ms'.wait = ms.wait /\ ms'.data = ms.data /\ ms'.rach = ms.rach
    BY <1>4 DEF EstReq, Tell, Shapes
  <2>2. Consistent(ms')
    BY <2>1 DEF Consistent, Situation, InIdle, InAccess, InAssigned,
       InDedicated, InRelease
  <2>3. Link' = Link
    BY <2>1 DEF Link
  <2>4. ms.up \o <<"REL_IND">> = ms'.up
    BY <2>1 DEF Shapes
  <2>5. Service!Asked("est", Service!Gives(Link, <<"REL_IND">>))
    BY <2>3, <2>4, LinkIs, ServiceAsked
  <2>6. Service!Establish
    BY <1>2, <1>3, <1>4, <2>5 DEF Service!Establish
  <2> QED
    BY <2>2, <2>6 DEF Service!ServiceNext
<1>5. CASE ~("T3122" \in ms.timers \/ ms.state # "IDLE" \/ ms.cell # "camped")
  <2>1. /\ ms'.state = "CONN_PEND" /\ ms'.est = TRUE /\ ms'.cell = "connected"
        /\ ms'.l2 = ms.l2 /\ ms'.timers = ms.timers /\ ms'.rsl = ms.rsl
        /\ ms'.up = ms.up /\ ms'.wait = 0 /\ ms'.rach = ms.rach
    BY <1>5 DEF EstReq, ChanReq, Shapes
  <2>2. InIdle(ms, "none", "none")
    BY <1>1, <1>5 DEF Consistent, Situation, InIdle, InAccess, InAssigned,
       InDedicated, InRelease
  <2>3. InAccess(ms', "none", "none")
    BY <1>5, <2>1, <2>2 DEF InIdle, InAccess
  <2>4. Consistent(ms')
    BY <1>1, <2>1, <2>3 DEF Consistent, Situation
  <2> DEFINE l == [Link EXCEPT !.st = "pend", !.est = TRUE]
  <2>5. /\ l \in Service!Links /\ l.st = "pend" /\ l.est = TRUE
        /\ l.t3122 = Link.t3122
    BY LinkIs DEF Service!Links, Service!LinkStates
  <2>6. Service!EstReq(Link) = Service!Gives(l, <<>>)
    BY <1>2, <1>3, <1>5
  <2> HIDE DEF l
  <2>7. StateOf(ms') = "pend"
    BY <2>1, StateOfIs
  <2>8. ms.up \o <<>> = ms'.up
    BY <2>1 DEF Shapes
  <2>9. Service!Asked("est", Service!Gives(l, <<>>))
    BY <2>1, <2>5, <2>7, <2>8, LinkIs, LinkNextIs, ServiceAsked
  <2>10. Service!Establish
    BY <2>6, <2>9 DEF Service!Establish
  <2> QED
    BY <2>4, <2>10 DEF Service!ServiceNext
<1> QED
  BY <1>4, <1>5

\* gsm48_rr_abort_req in a phase in which it leaves nothing behind.
LEMMA MmAbortsStep ==
  ASSUME ms \in Shapes, Consistent(ms), ms.rsl = <<>>, ms' = AbortReq(ms),
         mm' = "abort", ms' \in Shapes, Breakable(ms)
  PROVE  Consistent(ms') /\ Service!ServiceNext
<1>1. First(ms.rsl) = "none" /\ Second(ms.rsl) = "none" /\ Len(ms.rsl) = 0
  BY DEF First, Second
<1>2. CASE ms.state = "DEDICATED"
  <2>1. InDedicated(ms, "none", "none")
    BY <1>1, <1>2 DEF Consistent, Situation, InIdle, InAccess, InAssigned,
       InRelease
  <2>2. /\ ms'.state = "REL_PEND" /\ ms'.est = ms.est /\ ms'.cell = ms.cell
        /\ ms'.l2 = "disc" /\ ms'.rsl = ms.rsl /\ ms'.up = ms.up
        /\ ms'.timers = ms.timers \ {"T3126", "starting"}
    BY <1>2, <2>1 DEF AbortReq, L2Rel, Stop, NewState, Shapes, InDedicated
  <2>3. Consistent(ms')
    <3>1. InRelease(ms', "none", "none")
      BY <2>1, <2>2 DEF InDedicated, InRelease
    <3> QED
      BY <1>1, <2>2, <3>1 DEF Consistent, Situation
  <2> DEFINE l == [Link EXCEPT !.st = "release"]
  <2>4. /\ l \in Service!Links /\ l.st = "release" /\ l.est = Link.est
        /\ l.t3122 = Link.t3122
    BY LinkIs DEF Service!Links, Service!LinkStates
  <2>5. StateOf(ms') = "release" /\ Link.st = "dedic"
    BY <1>2, <2>1, <2>2, LinkIs, StateOfIs DEF InDedicated
  <2>6. Service!AbortReq(Link) = l
    BY <2>5 DEF Service!AbortReq
  <2> HIDE DEF l
  <2>7. /\ ("T3122" \in ms'.timers) = ("T3122" \in ms.timers)
        /\ ms.up \o <<>> = ms'.up
    BY <2>2 DEF Shapes
  <2>8. Service!Asked("abort", Service!Gives(l, <<>>))
    BY <2>2, <2>4, <2>5, <2>7, LinkIs, LinkNextIs, ServiceAsked
  <2> QED
    BY <2>3, <2>6, <2>8 DEF Service!Abort, Service!ServiceNext
<1>3. CASE ms.state = "CONN_PEND"
  <2>1. /\ ms.l2 = "idle" /\ ms.timers \subseteq {"T3122", "T3126"}
        /\ ms.cell = "connected"
    BY <1>1, <1>3 DEF Breakable, Consistent, Situation, InIdle, InAccess,
       InAssigned,
                      InDedicated, InRelease
  <2>2. /\ ms'.state = "IDLE" /\ ms'.est = FALSE /\ ms'.cell = "choose"
        /\ ms'.l2 = "idle" /\ ms'.rsl = ms.rsl /\ ms'.up = ms.up
        /\ ms'.timers = ms.timers \ {"T3126"}
    <3>1. ms' = NewState(Stop(ms, "T3126"), "IDLE")
      BY <1>3 DEF AbortReq
    <3> QED
      BY <1>3, <2>1, <3>1 DEF Stop, NewState, Shapes
  <2>3. Consistent(ms')
    <3>1. InIdle(ms', "none", "none")
      BY <2>1, <2>2 DEF InIdle
    <3> QED
      BY <1>1, <2>2, <3>1 DEF Consistent, Situation
  <2> DEFINE l == Service!Idle(Link)
  <2>4. /\ l \in Service!Links /\ l.st = "choose" /\ l.est = FALSE
        /\ l.t3122 = Link.t3122
    BY LinkIs, IdleLink
  <2>5. StateOf(ms') = "choose" /\ Link.st = "pend"
    BY <1>3, <2>2, LinkIs, StateOfIs
  <2>6. Service!AbortReq(Link) = l
    BY <2>5 DEF Service!AbortReq
  <2> HIDE DEF l
  <2>7. /\ ("T3122" \in ms'.timers) = ("T3122" \in ms.timers)
        /\ ms.up \o <<>> = ms'.up
    BY <2>2 DEF Shapes
  <2>8. Service!Asked("abort", Service!Gives(l, <<>>))
    BY <2>2, <2>4, <2>5, <2>7, LinkIs, LinkNextIs, ServiceAsked
  <2> QED
    BY <2>3, <2>6, <2>8 DEF Service!Abort, Service!ServiceNext
<1>4. CASE ms.state \notin {"DEDICATED", "CONN_PEND"}
  <2>1. ms' = ms
    BY <1>4 DEF AbortReq
  <2>2. Consistent(ms') /\ Link' = Link
    BY <2>1 DEF Link
  <2>3. Link.st \notin {"pend", "dedic"}
    BY <1>4, LinkIs, StateOfIs DEF Shapes
  <2>4. Service!AbortReq(Link) = Link
    BY <2>3 DEF Service!AbortReq
  <2>5. ms.up \o <<>> = ms'.up
    BY <2>1 DEF Shapes
  <2>6. Service!Asked("abort", Service!Gives(Link, <<>>))
    BY <2>2, <2>5, LinkIs, ServiceAsked
  <2> QED
    BY <2>2, <2>4, <2>6 DEF Service!Abort, Service!ServiceNext
<1> QED
  BY <1>2, <1>3, <1>4

\* Outside Sound are the phases with t_starting, SABM and t_rel_wait.
LEMMA PhaseIsBreakable ==
  ASSUME ms \in Shapes, Breaks \subseteq Sound,
         Phase \in Breaks
  PROVE  Breakable(ms)
<1>1. Phase \in {"pend", "dedic", "release"}
  BY DEF Sound
<1>2. CASE ms.state = "DEDICATED"
  BY <1>2 DEF Breakable
<1>3. CASE ms.state = "REL_PEND"
  <2>1. CASE "relwait" \in ms.timers
    <3>1. Phase = "relwait"
      BY <1>3, <2>1 DEF Phase
    <3> QED
      BY <1>1, <2>1, <3>1
  <2> QED
    BY <1>3, <2>1 DEF Breakable
<1>4. CASE ms.state \in {"IDLE", "CONN_PEND"}
  <2>1. CASE ms.l2 = "sabm"
    <3>1. Phase = "sabm"
      BY <1>4, <2>1 DEF Phase
    <3> QED
      BY <1>1, <3>1
  <2>2. CASE ms.l2 # "sabm" /\ "starting" \in ms.timers
    <3>1. Phase = "starting"
      BY <1>4, <2>2 DEF Phase
    <3> QED
      BY <1>1, <3>1
  <2> QED
    BY <1>4, <2>1, <2>2 DEF Breakable
<1> QED
  BY <1>2, <1>3, <1>4 DEF Shapes

-----------------------------------------------------------------------------
(* One turn of the queue. *)

\* Whatever signal gsm48_rcv_rsl dispatches is handled well.
LEMMA HandledWell ==
  ASSUME NEW m, NEW e \in Entries, Handles(m, e.p),
         m.state = "IDLE" => m.rach = NoAccess,
         NEW n \in Received(m, e), n \in Shapes
  PROVE  Good(m, n)
<1>1. e.p \in Signals /\ e.id \in AccessIds
  BY DEF Entries
<1>2. CASE e.p = "CHAN_CONF"
  BY <1>1, <1>2, ChanConfStep DEF Received
<1>3. CASE e.p = "BCCH"
  BY <1>1, <1>3, BcchStep DEF Received
<1>4. CASE e.p = "PAGING"
  BY <1>1, <1>4, PagingStep DEF Received
<1>5. CASE e.p = "IMM_ASS"
  <2>1. PICK how \in Ways : n = RxImmAss(m, e.id, how)
    BY <1>5 DEF Received, Ways
  <2> QED
    BY <1>1, <1>5, <2>1, ImmAssStep
<1>6. CASE e.p = "IMM_ASS_REJ"
  BY <1>1, <1>6, ImmAssRejStep DEF Received
<1>7. CASE e.p = "EST_CONF"
  BY <1>1, <1>7, EstabCnfStep DEF Received
<1>8. CASE e.p = "REL_IND"
  BY <1>1, <1>8, RelIndStep DEF Received
<1>9. CASE e.p = "REL_CONF"
  BY <1>1, <1>9, RelCnfStep DEF Received
<1>10. CASE e.p = "ERROR_IND"
  BY <1>1, <1>10, MdlErrorStep DEF Received
<1>11. CASE e.p = "CHAN_REL"
  BY <1>1, <1>11, ChanRelStep DEF Received
<1> QED
  BY <1>1, <1>2, <1>3, <1>4, <1>5, <1>6, <1>7, <1>8, <1>9, <1>10, <1>11
     DEF Signals

\* gsm48_rsl_dequeue: one entry of the queue is handled.
LEMMA WorkStep ==
  ASSUME IInv, Consistent(ms), Work
  PROVE  Good(ms, ms')
<1> DEFINE m == [ms EXCEPT !.rsl = Tail(@)]
           e == Head(ms.rsl)
<1>1. /\ OwnHistory(ms) /\ ms \in Shapes /\ ms.rsl # <<>>
      /\ ms.rsl \in Seq(Entries)
  BY DEF IInv, Work, OwnHistory, Shapes
<1>2. PICK n \in Received(m, e) : ms' = [n EXCEPT !.busy = n.rsl # <<>>]
  BY DEF Work
<1>3. /\ OwnHistory(m) /\ e \in Entries
      /\ e.p = "PAGING" => m.rsl \in Seq(NoConf)
      /\ e.p = "CHAN_CONF" => e.id \in Own(m.proc)
  BY <1>1, FirstEntry DEF Harmless
<1>4. /\ m.state = ms.state /\ m.est = ms.est /\ m.cell = ms.cell
      /\ m.l2 = ms.l2
      /\ m.timers = ms.timers /\ m.rsl = Tail(ms.rsl) /\ m.up = ms.up
      /\ m.wait = ms.wait /\ m.data = ms.data /\ m.rach = ms.rach
  BY <1>1 DEF Shapes
<1>5. /\ e.p = First(ms.rsl) /\ First(m.rsl) = Second(ms.rsl)
      /\ Second(m.rsl) = "none"
      /\ Len(m.rsl) <= 1
  BY <1>1, <1>4, QueueTail DEF Consistent
<1> HIDE DEF m, e
<1>6. n \in Shapes
  BY <1>2, <1>3, ReceivedIsOwn DEF OwnHistory
<1>7. Handles(m, e.p)
  <2>1. Situation(ms, e.p, First(m.rsl))
    BY <1>5 DEF Consistent
  <2>2. Situation(m, e.p, First(m.rsl))
    BY <1>4, <2>1 DEF Situation, InIdle, InAccess, InAssigned, InDedicated,
       InRelease
  <2> QED
    BY <1>3, <1>5, <2>2 DEF Handles, OwnHistory
<1>8. Good(m, n)
  BY <1>1, <1>2, <1>3, <1>4, <1>6, <1>7, HandledWell DEF OwnHistory
<1>9. /\ ms'.state = n.state /\ ms'.est = n.est /\ ms'.cell = n.cell
      /\ ms'.l2 = n.l2
      /\ ms'.timers = n.timers /\ ms'.rsl = n.rsl /\ ms'.up = n.up
      /\ ms'.wait = n.wait /\ ms'.data = n.data /\ ms'.rach = n.rach
  BY <1>2, <1>6 DEF Shapes
<1>10. Consistent(ms')
  BY <1>8, <1>9 DEF Good, Consistent, Situation, InIdle, InAccess, InAssigned,
     InDedicated,
                    InRelease
<1>11. LinkOf(ms) = LinkOf(m) /\ LinkOf(ms') = LinkOf(n)
  BY <1>4, <1>9 DEF LinkOf, StateOf
<1>12. Serves(ms, ms')
  BY <1>4, <1>8, <1>9, <1>11 DEF Good, Serves
<1> QED
  BY <1>10, <1>12 DEF Good
-----------------------------------------------------------------------------
(* One step per action. *)

\* The inductive invariant: IInv and the situations.
LinkInv == IInv /\ Consistent(ms)

\* Every step of Rr keeps the invariant and is a step of the service.
LEMMA NextServes ==
  ASSUME LinkInv, Next, Breaks \subseteq Sound
  PROVE  LinkInv' /\ Service!ServiceNext
<1> DEFINE Goal == Consistent(ms') /\ Service!ServiceNext
<1> SUFFICES Goal
  BY NextIsOwn DEF LinkInv
<1>1. /\ ms \in Shapes /\ ms' \in Shapes /\ net \in SUBSET AccessIds
      /\ ms.state = "IDLE" => ms.rach = NoAccess
  BY NextIsOwn DEF LinkInv, IInv, OwnHistory
<1>2. ASSUME Good(ms, ms'), mm' = "none"
      PROVE  Goal
  BY <1>1, <1>2, ServesNext DEF Good
<1>3. Selects => Waits(ms)
  BY <1>1, SelectsWaits DEF LinkInv
<1>4. CASE Work
  BY <1>2, <1>4, WorkStep DEF LinkInv, Work
<1>5. CASE MmEstablishes
  BY <1>1, <1>5, MmEstablishesStep DEF LinkInv, MmEstablishes, MmRuns, Asked
<1>6. CASE MmAborts
  BY <1>1, <1>6, MmAbortsStep, PhaseIsBreakable
     DEF LinkInv, MmAborts, MmRuns, Asked
<1>7. CASE MmTakes
  BY <1>1, <1>7, MmTakesStep DEF LinkInv, MmTakes, Becomes, Asked
<1>8. CASE T3126
  BY <1>1, <1>2, <1>3, <1>8, T3126Step DEF T3126, Fires, Becomes, Asked
<1>9. CASE T3122
  BY <1>1, <1>3, <1>9, T3122Step DEF T3122, Fires, Becomes, Asked
<1>10. CASE T3110
  BY <1>1, <1>2, <1>3, <1>10, T3110Step DEF T3110, Fires, Becomes, Asked
<1>11. CASE RelWait
  BY <1>1, <1>2, <1>3, <1>11, RelWaitStep DEF RelWait, Fires, Becomes, Asked
<1>12. CASE Starting
  BY <1>1, <1>2, <1>3, <1>12, StartingStep DEF Starting, Fires, Becomes, Asked
<1>13. CASE L2Fails
  BY <1>1, <1>2, <1>3, <1>13, L2FailsStep DEF L2Fails, Becomes, Asked
<1>14. CASE L2Established
  BY <1>1, <1>2, <1>3, <1>14, L2EstablishedStep
     DEF L2Established, Becomes, Asked
<1>15. CASE L2Network
  BY <1>1, <1>2, <1>3, <1>15, L2NetworkStep DEF L2Network, Becomes, Asked
<1>16. CASE Lose
  BY <1>1, <1>2, <1>3, <1>16, LoseStep, PhaseIsBreakable
     DEF Lose, Becomes, Asked
<1>17. CASE Sync
  BY <1>1, <1>2, <1>3, <1>17, SyncStep DEF Sync, Becomes, Asked
<1>18. CASE ChanConf
  BY <1>1, <1>2, <1>3, <1>18, ChanConfSentStep DEF ChanConf
<1>19. CASE NetworkAnswers
  BY <1>1, <1>2, <1>3, <1>19, NetworkAnswersStep DEF NetworkAnswers
<1>20. CASE Page
  BY <1>1, <1>2, <1>3, <1>20, PageStep DEF Page, Becomes, Asked
<1>21. CASE Camp
  BY <1>1, <1>3, <1>21, CampStep DEF Camp, Becomes, Asked
<1> QED
  BY <1>4, <1>5, <1>6, <1>7, <1>8, <1>9, <1>10, <1>11, <1>12, <1>13, <1>14,
     <1>15,
     <1>16, <1>17, <1>18, <1>19, <1>20, <1>21 DEF Next

\* Initially the mobile has no cell and no link.
LEMMA InitServes ==
  ASSUME Init, IInv
  PROVE  LinkInv /\ Service!ServiceInit
<1>1. ms \in Shapes
  BY DEF IInv, OwnHistory
<1>2. Consistent(ms)
  <2>1. First(ms.rsl) = "none" /\ Second(ms.rsl) = "none" /\ Len(ms.rsl) = 0
    BY DEF Init, First, Second
  <2>2. InIdle(ms, "none", "none")
    BY DEF Init, InIdle
  <2> QED
    BY <2>1, <2>2 DEF Consistent, Situation
<1>3. /\ StateOf(ms) = "choose" /\ ms.est = FALSE
      /\ ("T3122" \in ms.timers) = FALSE
  BY <1>1, StateOfIs DEF Init
<1>4. Link = Service!LinkInit
  BY <1>1, <1>3, LinkIs DEF Service!LinkInit, Service!Links
<1> QED
  BY <1>2, <1>4 DEF LinkInv, Service!ServiceInit, Init

\* The queue of layer 2, the timers and the link fit the state of the
\* connection: gsm48_rr_estab_cnf finds an access that has a channel,
\* gsm48_rr_rel_cnf a release it asked for, a link is never up for an IDLE
\* mobile, and at most two signals wait.
THEOREM Situations ==
  ASSUME Breaks \subseteq Sound
  PROVE  Spec => []LinkInv
<1>1. Init /\ IInv => LinkInv
  BY InitServes
<1>2. LinkInv /\ [Next]_vars => LinkInv'
  <2>1. LinkInv /\ UNCHANGED vars => LinkInv'
    BY DEF LinkInv, IInv, vars
  <2> QED
    BY <2>1, NextServes
<1> QED
  BY <1>1, <1>2, HistoryIsOwn, PTL DEF Spec

\* No timer of the radio resource layer runs in a state that does not own it
\* (start_rr_t*, stop_rr_t* and new_rr_state).
THEOREM TimersAreOwnTheorem ==
  ASSUME Breaks \subseteq Sound
  PROVE  Spec => []TimersAreOwn
<1>1. LinkInv => TimersAreOwn
  BY DEF LinkInv, Consistent, Situation, InIdle, InAccess, InAssigned,
     InDedicated, InRelease,
     TimersAreOwn
<1> QED
  BY <1>1, Situations, PTL

\* Rr implements RrService: MM is told of every connection that comes up or
\* ends, by the primitive gsm48_rr_upmsg carries, once, and of nothing else.
THEOREM ImplementsLinkTheorem ==
  ASSUME Breaks \subseteq Sound
  PROVE  Spec => ImplementsLink
<1>1. Init /\ IInv => Service!ServiceInit
  BY InitServes
<1>2. LinkInv /\ [Next]_vars => [Service!ServiceNext]_(Service!svars)
  <2>1. UNCHANGED vars => UNCHANGED Service!svars
    BY DEF vars, Service!svars, Link
  <2> QED
    BY <2>1, NextServes
<1> QED
  BY <1>1, <1>2, HistoryIsOwn, Situations, PTL
     DEF Spec, ImplementsLink, Service!ServiceSpec

-----------------------------------------------------------------------------
(* How long the queues become. *)

\* What MM may still be told of a connection, and of the one that a paging
\* request in the queue may begin.
Paged(q) == \E i \in 1..Len(q) : q[i].p = "PAGING"

Due(st) ==
  IF st = "pend" THEN 2 ELSE IF st \in {"dedic", "release"} THEN 1 ELSE 0

Owes(m) == IF Paged(m.rsl) THEN 2 ELSE Due(StateOf(m))

\* The history and the queue for MM are bounded: what is still to be told has
\* its place.
Short(m) == Len(m.hist) <= History

Fits(m) == Len(m.up) + Owes(m) <= UpCap + 3

SizedInv == LinkInv /\ Short(ms) /\ Fits(ms)

LEMMA OwesIs ==
  ASSUME NEW m \in Shapes
  PROVE  /\ Due(StateOf(m)) \in 0..2 /\ Owes(m) \in 0..2
         /\ Due(StateOf(m)) <= Owes(m)
BY DEF Due, Owes

\* The prims a step of the radio passes to MM were due.
LEMMA RadioPays ==
  ASSUME NEW l \in Service!Links, NEW k, NEW p \in Seq(Prims), Radio(l, k, p)
  PROVE  \/ Len(p) + Due(k.st) <= Due(l.st)
         \/ l.st = "camped" /\ k.st = "pend" /\ p = <<>>
         \/ l.st = "relwait" /\ p # <<>>
<1>1. PICK g \in Service!Steps(l) \cup {Service!Gives(l, <<>>)} :
        k = [g.link EXCEPT !.asked = FALSE] /\ g.up = p
  BY DEF Radio
<1>2. ASSUME NEW j \in Service!Links, NEW r, g = Service!Gives(j, r)
      PROVE  k.st = j.st /\ p = r
  BY <1>1, <1>2 DEF Service!Gives, Service!Links
<1>3. /\ Service!Idle(l) \in Service!Links /\ Service!Idle(l).st = "choose"
      /\ Len(<<"REL_IND">>) = 1 /\ Len(<<"ABORT_IND">>) = 1 /\ Len(<<>>) = 0
  BY IdleLink
<1>4. ASSUME NEW st \in Service!LinkStates
      PROVE  /\ [l EXCEPT !.st = st] \in Service!Links
             /\ [l EXCEPT !.st = st].st = st
  BY DEF Service!Links
<1>5. CASE g = Service!Gives(l, <<>>)
  BY <1>2, <1>3, <1>5 DEF Due
<1>6. CASE l.st = "camped" /\ g \in Service!Steps(l)
  <2>1. g = Service!Gives([l EXCEPT !.st = "pend"], <<>>)
    BY <1>6 DEF Service!Steps
  <2>2. "pend" \in Service!LinkStates
    BY DEF Service!LinkStates
  <2> QED
    BY <1>2, <1>4, <1>6, <2>1, <2>2
<1>7. CASE l.st = "choose" /\ g \in Service!Steps(l)
  BY <1>7 DEF Service!Steps
<1>8. CASE l.st = "pend" /\ g \in Service!Steps(l)
  <2>1. g \in {Service!Established(l), Service!Failed(l), Service!Los(l),
          Service!Gives([l EXCEPT !.st = "relwait"], <<"REL_IND">>),
          Service!Gives([l EXCEPT !.t3122 = TRUE], <<>>)}
    BY <1>8 DEF Service!Steps
  <2>2. Due(l.st) = 2 /\ \A st : Due(st) \in 0..2
    BY <1>8 DEF Due
  <2>3. CASE g = Service!Established(l)
    <3> DEFINE j == [l EXCEPT !.st = "dedic", !.asked = l.est]
               r == IF l.est THEN <<"EST_CNF">> ELSE <<"EST_IND">>
    <3>1. j \in Service!Links /\ j.st = "dedic"
      BY DEF Service!Links, Service!LinkStates
    <3>2. g = Service!Gives(j, r) /\ Len(r) = 1
      BY <2>3 DEF Service!Established
    <3> HIDE DEF j, r
    <3>3. k.st = "dedic" /\ Len(p) = 1
      BY <1>2, <3>1, <3>2
    <3> QED
      BY <2>2, <3>3 DEF Due
  <2>4. CASE g \in {Service!Failed(l), Service!Los(l)}
    <3>1. PICK r \in {<<"REL_IND">>, <<>>} : g = Service!Gives(Service!Idle(l), r)
      BY <2>4 DEF Service!Failed, Service!Los
    <3>2. k.st = "choose" /\ Len(p) <= 1 /\ Len(p) \in Nat
      BY <1>2, <1>3, <3>1
    <3> QED
      BY <2>2, <3>2 DEF Due
  <2>5. CASE g = Service!Gives([l EXCEPT !.st = "relwait"], <<"REL_IND">>)
    <3>1. k.st = "relwait" /\ Len(p) = 1
      BY <1>2, <1>3, <1>4, <2>5 DEF Service!LinkStates
    <3> QED
      BY <2>2, <3>1 DEF Due
  <2>6. CASE g = Service!Gives([l EXCEPT !.t3122 = TRUE], <<>>)
    <3> DEFINE j == [l EXCEPT !.t3122 = TRUE]
    <3>1. j \in Service!Links /\ j.st = l.st /\ g = Service!Gives(j, <<>>)
      BY <2>6 DEF Service!Links
    <3> HIDE DEF j
    <3>2. k.st = l.st /\ Len(p) = 0
      BY <1>2, <1>3, <2>6, <3>1 DEF j
    <3> QED
      BY <2>2, <3>2
  <2> QED
    BY <2>1, <2>3, <2>4, <2>5, <2>6
<1>9. CASE l.st = "dedic" /\ g \in Service!Steps(l)
  <2>1. \/ \E r \in {<<"REL_IND">>, <<"ABORT_IND">>} :
              g = Service!Gives(Service!Idle(l), r)
        \/ g = Service!Gives([l EXCEPT !.st = "relwait"], <<"REL_IND">>)
        \/ g = Service!Gives([l EXCEPT !.st = "release"], <<>>)
    BY <1>9 DEF Service!Steps, Service!Los
  <2>2. /\ "relwait" \in Service!LinkStates /\ "release" \in Service!LinkStates
        /\ Due(l.st) = 1 /\ Due("choose") = 0 /\ Due("relwait") = 0
        /\ Due("release") = 1
    BY <1>9 DEF Service!LinkStates, Due
  <2>3. CASE \E r \in {<<"REL_IND">>, <<"ABORT_IND">>} :
               g = Service!Gives(Service!Idle(l), r)
    <3>1. k.st = "choose" /\ Len(p) = 1
      BY <1>2, <1>3, <2>3
    <3> QED
      BY <2>2, <3>1
  <2>4. CASE g = Service!Gives([l EXCEPT !.st = "relwait"], <<"REL_IND">>)
    <3>1. k.st = "relwait" /\ Len(p) = 1
      BY <1>2, <1>3, <1>4, <2>2, <2>4
    <3> QED
      BY <2>2, <3>1
  <2>5. CASE g = Service!Gives([l EXCEPT !.st = "release"], <<>>)
    <3>1. k.st = "release" /\ Len(p) = 0
      BY <1>2, <1>3, <1>4, <2>2, <2>5
    <3> QED
      BY <2>2, <3>1
  <2> QED
    BY <2>1, <2>3, <2>4, <2>5
<1>10. CASE l.st = "release" /\ g \in Service!Steps(l)
  <2>1. g = Service!Gives(Service!Idle(l), <<"REL_IND">>)
    BY <1>10 DEF Service!Steps
  <2>2. k.st = "choose" /\ Len(p) = 1
    BY <1>2, <1>3, <2>1
  <2> QED
    BY <1>10, <2>2 DEF Due
<1>11. CASE l.st = "relwait" /\ p = <<>> /\ g \in Service!Steps(l)
  <2>1. PICK r \in {<<"REL_IND">>, <<>>} : g = Service!Gives(Service!Idle(l), r)
    <3>1. Service!Steps(l) =
            {Service!Gives(Service!Idle(l), <<>>), Service!Los(l)}
      BY <1>11 DEF Service!Steps
    <3> QED
      BY <1>11, <3>1 DEF Service!Los
  <2>2. k.st = "choose" /\ Len(p) = 0
    BY <1>2, <1>3, <1>11, <2>1
  <2> QED
    BY <2>2 DEF Due
<1> QED
  BY <1>1, <1>5, <1>6, <1>7, <1>8, <1>9, <1>10, <1>11
     DEF Service!Links, Service!LinkStates

\* The same for a handler.
LEMMA ServesPays ==
  ASSUME NEW m \in Shapes, NEW n \in Shapes, Serves(m, n),
         StateOf(m) = "relwait" => n.up = m.up
  PROVE  \/ Len(n.up) + Due(StateOf(n)) <= Len(m.up) + Due(StateOf(m))
         \/ StateOf(m) = "camped" /\ StateOf(n) = "pend" /\ n.up = m.up
<1> DEFINE l == LinkOf(m)
           k == LinkOf(n)
<1>1. l \in Service!Links /\ l.st = StateOf(m) /\ k.st = StateOf(n)
  BY LinkOfIs DEF Is
<1>2. /\ Len(m.up) \in Nat /\ m.up \in Seq(Prims)
      /\ \A st : Due(st) \in 0..2
  BY DEF Shapes, Prims, Due
<1> HIDE DEF l, k
<1>3. CASE Radio(l, k, <<>>) /\ n.up = m.up
  <2>1. \/ Len(<<>>) + Due(k.st) <= Due(l.st)
        \/ l.st = "camped" /\ k.st = "pend"
    <3>1. <<>> \in Seq(Prims)
      OBVIOUS
    <3> QED
      BY <1>1, <1>3, <3>1, RadioPays
  <2> QED
    BY <1>1, <1>2, <1>3, <2>1
<1>4. ASSUME NEW p \in Prims, Radio(l, k, <<p>>), n.up = Append(m.up, p)
      PROVE  Len(n.up) + Due(StateOf(n)) <= Len(m.up) + Due(StateOf(m))
  <2>1. Len(n.up) = Len(m.up) + 1 /\ l.st # "relwait"
    <3>1. Len(n.up) = Len(m.up) + 1
      BY <1>2, <1>4
    <3> QED
      BY <1>1, <1>2, <3>1
  <2>2. <<p>> \in Seq(Prims) /\ Len(<<p>>) = 1 /\ <<p>> # <<>>
    OBVIOUS
  <2>3. 1 + Due(k.st) <= Due(l.st)
    BY <1>1, <1>4, <2>1, <2>2, RadioPays
  <2> QED
    BY <1>1, <1>2, <2>1, <2>3
<1> QED
  BY <1>3, <1>4 DEF Serves, l, k

\* At most one prim is passed to MM at a time.
LEMMA ServesOnce ==
  ASSUME NEW m \in Shapes, NEW n, Serves(m, n)
  PROVE  Len(n.up) <= Len(m.up) + 1
<1>1. Len(m.up) \in Nat /\ \A p \in Prims : Len(Append(m.up, p)) = Len(m.up) + 1
  BY DEF Shapes, Prims
<1>2. CASE n.up = m.up
  BY <1>1, <1>2
<1>3. ASSUME NEW p \in Prims, n.up = Append(m.up, p)
      PROVE  Len(n.up) <= Len(m.up) + 1
  BY <1>1, <1>3
<1> QED
  BY <1>2, <1>3 DEF Serves

\* A handler that begins no connection but for a paging request in the queue,
\* and puts none into it.
Follows(m, n) ==
  /\ Paged(n.rsl) => Paged(m.rsl)
  /\ n.state = "CONN_PEND" => m.state = "CONN_PEND" \/ Paged(m.rsl)
  /\ StateOf(m) = "relwait" => n.up = m.up
  /\ Short(m) => Short(n)

\* A paging request waits for an IDLE mobile only.
LEMMA PagedIsIdle ==
  ASSUME NEW m \in Shapes, Consistent(m), Paged(m.rsl)
  PROVE  Due(StateOf(m)) = 0
<1>1. PICK i \in 1..Len(m.rsl) : m.rsl[i].p = "PAGING"
  BY DEF Paged
<1>2. Len(m.rsl) \in Nat /\ i \in {1, 2}
  BY <1>1 DEF Shapes, Consistent
<1>3. "PAGING" \in {First(m.rsl), Second(m.rsl)}
  BY <1>1, <1>2 DEF First, Second
<1>4. m.state = "IDLE"
  BY <1>3 DEF Consistent, Situation, InIdle, InAccess, InAssigned, InDedicated,
     InRelease
<1> QED
  BY <1>4, StateOfIs DEF Due

\* Such a handler keeps the queue for MM within its bound.
LEMMA FollowsFits ==
  ASSUME NEW m \in Shapes, NEW n \in Shapes, Consistent(m), Serves(m, n),
         Follows(m, n), Fits(m)
  PROVE  Fits(n)
<1>1. /\ Len(m.up) \in Nat /\ Len(n.up) \in Nat /\ UpCap \in Nat
      /\ \A st : Due(st) \in 0..2
  BY RrAssumption DEF Shapes, Due
<1>2. \/ Len(n.up) + Due(StateOf(n)) <= Len(m.up) + Due(StateOf(m))
      \/ StateOf(m) = "camped" /\ StateOf(n) = "pend" /\ n.up = m.up
  BY ServesPays DEF Follows
<1>3. CASE Paged(n.rsl)
  <2>1. Paged(m.rsl) /\ Due(StateOf(m)) = 0
    BY <1>3, PagedIsIdle DEF Follows
  <2>2. Len(n.up) <= Len(m.up)
    BY <1>1, <1>2, <2>1
  <2> QED
    BY <1>1, <1>3, <2>1, <2>2 DEF Fits, Owes
<1>4. CASE ~Paged(n.rsl) /\ StateOf(m) = "camped" /\ StateOf(n) = "pend"
           /\ n.up = m.up
  <2>1. n.state = "CONN_PEND" /\ m.state # "CONN_PEND"
    BY <1>4, StateOfIs DEF Shapes
  <2>2. Paged(m.rsl)
    BY <2>1 DEF Follows
  <2> QED
    BY <1>1, <1>4, <2>2 DEF Fits, Owes
<1>5. CASE /\ ~Paged(n.rsl)
           /\ Len(n.up) + Due(StateOf(n)) <= Len(m.up) + Due(StateOf(m))
  BY <1>1, <1>5, OwesIs DEF Fits, Owes
<1> QED
  BY <1>2, <1>3, <1>4, <1>5

\* Where there was room for more, what may be told now has its place.
LEMMA RoomFits ==
  ASSUME NEW m \in Shapes, NEW n \in Shapes, Len(m.up) <= UpCap,
         Len(n.up) <= Len(m.up) + 1
  PROVE  Fits(n)
<1>1. Len(m.up) \in Nat /\ Len(n.up) \in Nat /\ UpCap \in Nat
  BY RrAssumption DEF Shapes
<1> QED
  BY <1>1, OwesIs DEF Fits

\* What a handler does to the queue of layer 2 and to the history; only a
\* paging request begins an access.
Tame(m, n) ==
  /\ n.rsl \in {m.rsl, Append(m.rsl, Entry("REL_CONF", NoAccess))}
  /\ n.state = "CONN_PEND" => m.state = "CONN_PEND"
  /\ Short(m) => Short(n)

\* gsm48_rr_dl_est that fails touches neither queue.
LEMMA UnrenderedTame ==
  ASSUME NEW m \in Shapes
  PROVE  /\ Unrendered(m) \in Shapes /\ Tame(m, Unrendered(m))
         /\ Unrendered(m).up = m.up
BY DEF Unrendered, Shapes, Tame, Short

\* The parts of which handlers are made.
LEMMA PartsTame ==
  ASSUME NEW m \in Shapes
  PROVE  /\ \A p \in Prims : Tell(m, p) \in Shapes /\ Tame(m, Tell(m, p))
                             /\ Tell(m, p).rsl = m.rsl
         /\ \A t \in Timers : /\ Start(m, t) \in Shapes /\ Tame(m, Start(m, t))
                              /\ Stop(m, t) \in Shapes /\ Tame(m, Stop(m, t))
                              /\ Start(m, t).rsl = m.rsl /\ Stop(m, t).rsl = m.rsl
         /\ \A s \in {"IDLE", "DEDICATED", "REL_PEND"} :
              /\ Tame(m, NewState(m, s)) /\ NewState(m, s) \in Shapes
              /\ NewState(m, s).rsl = m.rsl
         /\ Tame(m, L2Rel(m)) /\ Tame(m, L2RelLocal(m)) /\ Tame(m, L2Est(m))
         /\ L2Rel(m) \in Shapes /\ L2RelLocal(m) \in Shapes /\ L2Est(m) \in Shapes
<1>1. NoAccess \in AccessIds /\ Entry("REL_CONF", NoAccess) \in Entries
  BY RrAssumption DEF NoAccess, AccessIds, Entry, Entries, Signals
<1>2. ASSUME NEW p \in Prims
      PROVE  /\ Tell(m, p) \in Shapes /\ Tame(m, Tell(m, p))
             /\ Tell(m, p).rsl = m.rsl
  <2>1. Append(m.up, p) \in Seq({"EST_CNF", "EST_IND", "REL_IND", "ABORT_IND"})
    BY DEF Shapes, Prims
  <2> QED
    BY <2>1 DEF Shapes, Tell, Tame, Short
<1>3. ASSUME NEW t \in Timers
      PROVE  /\ Start(m, t) \in Shapes /\ Tame(m, Start(m, t))
             /\ Stop(m, t) \in Shapes /\ Tame(m, Stop(m, t))
             /\ Start(m, t).rsl = m.rsl /\ Stop(m, t).rsl = m.rsl
  <2>1. m.timers \cup {t} \in SUBSET Timers /\ m.timers \ {t} \in SUBSET Timers
    BY DEF Shapes
  <2> QED
    BY <2>1 DEF Shapes, Start, Stop, Tame, Short
<1>4. ASSUME NEW s \in {"IDLE", "DEDICATED", "REL_PEND"}
      PROVE  /\ Tame(m, NewState(m, s)) /\ NewState(m, s) \in Shapes
             /\ NewState(m, s).rsl = m.rsl
  <2> DEFINE left == IF m.state = "DEDICATED" /\ s # "DEDICATED"
                     THEN Stop(m, "starting") ELSE m
  <2>1. left \in Shapes /\ left.rsl = m.rsl /\ (Short(m) => Short(left))
    BY <1>3 DEF Timers, Tame
  <2> HIDE DEF left
  <2>2. CASE s # "IDLE"
    <3>1. NewState(m, s) = [left EXCEPT !.state = s]
      BY <2>2 DEF NewState, left
    <3> QED
      BY <2>1, <2>2, <3>1 DEF Tame, Short, Shapes
  <2>3. CASE s = "IDLE"
    <3>1. NewState(m, s) =
            [left EXCEPT !.state = "IDLE", !.est = FALSE, !.rach = NoAccess,
                         !.unrendered = FALSE,
                         !.cell = IF @ = "connected" THEN "choose" ELSE @]
      BY <2>3 DEF NewState, left
    <3> QED
      BY <1>1, <2>1, <2>3, <3>1 DEF Tame, Short, Shapes
  <2> QED
    BY <2>2, <2>3
<1>5. /\ Tame(m, L2Rel(m)) /\ Tame(m, L2RelLocal(m)) /\ Tame(m, L2Est(m))
      /\ L2Rel(m) \in Shapes /\ L2RelLocal(m) \in Shapes /\ L2Est(m) \in Shapes
  <2> DEFINE r == Append(m.rsl, Entry("REL_CONF", NoAccess))
  <2>1. r \in Seq(Entries)
    BY <1>1 DEF Shapes
  <2>2. /\ L2Rel(m) = IF m.l2 = "idle" THEN [m EXCEPT !.rsl = r]
                      ELSE [m EXCEPT !.l2 = "disc"]
        /\ L2RelLocal(m) = [m EXCEPT !.l2 = "idle", !.rsl = r]
        /\ L2Est(m) = IF m.l2 = "idle" THEN [m EXCEPT !.l2 = "sabm"] ELSE m
    BY DEF L2Rel, L2RelLocal, L2Est, Rsl, Shapes
  <2>3. Tame(m, m) /\ r \in {m.rsl, Append(m.rsl, Entry("REL_CONF", NoAccess))}
    BY DEF Tame
  <2> HIDE DEF r
  <2>4. /\ [m EXCEPT !.rsl = r] \in Shapes /\ Tame(m, [m EXCEPT !.rsl = r])
        /\ [m EXCEPT !.l2 = "disc"] \in Shapes /\ Tame(m, [m EXCEPT !.l2 = "disc"])
    BY <2>1, <2>3 DEF Shapes, Tame, Short
  <2>5. L2RelLocal(m) \in Shapes /\ Tame(m, L2RelLocal(m))
    BY <2>1, <2>2, <2>3 DEF Shapes, Tame, Short
  <2>6. [m EXCEPT !.l2 = "sabm"] \in Shapes /\ Tame(m, [m EXCEPT !.l2 = "sabm"])
    BY DEF Shapes, Tame, Short
  <2> QED
    BY <2>2, <2>3, <2>4, <2>5, <2>6
<1> QED
  BY <1>2, <1>3, <1>4, <1>5

\* A part that leaves the queue alone, before another.
LEMMA TameTwice ==
  ASSUME NEW m, NEW n, NEW o, Tame(m, n), n.rsl = m.rsl, Tame(n, o)
  PROVE  Tame(m, o)
BY DEF Tame

\* The handlers of gsm48_rr.c.
LEMMA ReceivedTame ==
  ASSUME NEW m \in Shapes, NEW e \in Entries, NEW n \in Received(m, e)
  PROVE  Tame(m, n) \/ (e.p = "PAGING" /\ n.rsl = m.rsl /\ Short(n))
<1>1. Tame(m, m)
  BY DEF Tame
<1>2. e.p \in Signals /\ e.id \in AccessIds
  BY DEF Entries
<1>3. {"REL_IND", "ABORT_IND", "EST_CNF", "EST_IND"} \subseteq Prims
  BY DEF Prims
<1>4. {"T3110", "T3126", "T3122", "relwait", "starting"} \subseteq Timers
  BY DEF Timers
<1>5. ASSUME NEW o \in Shapes
      PROVE  Tame(o, Released(o))
  BY <1>3, PartsTame, TameTwice DEF Released
<1>6. ASSUME NEW o \in Shapes
      PROVE  Tame(o, RandAcc(o))
  <2>1. CASE o.wait = 2
    BY <2>1 DEF RandAcc, Tame
  <2>2. CASE o.wait # 2 /\ o.left = 0
    BY <1>4, <2>2, PartsTame DEF RandAcc
  <2>3. CASE o.wait # 2 /\ o.left # 0
    BY <2>3 DEF RandAcc, Tame, Shapes, Short
  <2> QED
    BY <2>1, <2>2, <2>3
<1>7. CASE e.p = "CHAN_CONF"
  <2>1. CASE m.state # "CONN_PEND" \/ m.wait = 2
    BY <1>1, <1>7, <2>1 DEF Received, RxChanConf
  <2>2. CASE m.state = "CONN_PEND" /\ m.wait # 2
    <3> DEFINE h == SubSeq(<<e.id>> \o m.hist, 1,
                           IF Len(m.hist) < History THEN Len(m.hist) + 1
                                                    ELSE History)
               o == [m EXCEPT !.hist = h]
    <3>1. n = RandAcc(o)
      BY <1>7, <2>2 DEF Received, RxChanConf
    <3>2. h \in Seq(AccessIds) /\ Len(h) <= History
      BY <1>2, HistoryShifts DEF Shapes
    <3> HIDE DEF h
    <3>3. o \in Shapes /\ o.rsl = m.rsl /\ Tame(m, o)
      BY <3>2 DEF Shapes, Tame, Short
    <3> HIDE DEF o
    <3> QED
      BY <1>6, <3>1, <3>3, TameTwice
  <2> QED
    BY <2>1, <2>2
<1>8. CASE e.p = "BCCH"
  <2> DEFINE o == [m EXCEPT !.data = TRUE]
  <2>1. n = m \/ n = RandAcc(o)
    BY <1>8 DEF Received, RxBcch
  <2>2. o \in Shapes /\ o.rsl = m.rsl /\ Tame(m, o)
    BY DEF Shapes, Tame, Short
  <2> HIDE DEF o
  <2> QED
    BY <1>1, <1>6, <2>1, <2>2, TameTwice
<1>9. CASE e.p = "PAGING"
  <2>1. CASE m.state = "IDLE" /\ m.cell = "camped"
    <3>1. n = ChanReq(m, FALSE)
      BY <1>9, <2>1 DEF Received, RxPaging
    <3> QED
      BY <1>9, <3>1 DEF ChanReq, Shapes, Short, History
  <2>2. CASE ~(m.state = "IDLE" /\ m.cell = "camped")
    BY <1>1, <1>9, <2>2 DEF Received, RxPaging
  <2> QED
    BY <2>1, <2>2
<1>10. CASE e.p = "IMM_ASS"
  <2> DEFINE o == [m EXCEPT !.wait = 2]
  <2>1. \/ n = m
        \/ n = Start(Stop(o, "T3126"), "starting")
        \/ n = L2Est(Stop(o, "T3126"))
        \/ n = Unrendered(Stop(o, "T3126"))
    BY <1>10 DEF Received, RxImmAss, DlEst
  <2>2. o \in Shapes /\ o.rsl = m.rsl /\ o.hist = m.hist /\ o.state = m.state
    BY DEF Shapes
  <2> HIDE DEF o
  <2>5. Tame(m, o)
    BY <2>2 DEF Tame, Short
  <2>3. Stop(o, "T3126") \in Shapes /\ Tame(m, Stop(o, "T3126"))
        /\ Stop(o, "T3126").rsl = m.rsl
    BY <1>4, <2>2, <2>5, PartsTame, TameTwice
  <2>4. /\ Tame(m, Start(Stop(o, "T3126"), "starting"))
        /\ Tame(m, L2Est(Stop(o, "T3126")))
        /\ Tame(m, Unrendered(Stop(o, "T3126")))
    BY <1>4, <2>3, PartsTame, UnrenderedTame, TameTwice
  <2> QED
    BY <1>1, <2>1, <2>4
<1>11. CASE e.p = "IMM_ASS_REJ"
  <2> DEFINE s == Start(m, "T3126")
             o == [s EXCEPT !.left = 0]
  <2>1. n = m \/ n = o \/ n = Start(o, "T3122")
    BY <1>11 DEF Received, RxImmAssRej
  <2>2. s \in Shapes /\ s.rsl = m.rsl /\ Tame(m, s)
    BY <1>4, PartsTame
  <2> HIDE DEF s
  <2>7. 0 \in 0..Accesses
    BY RrAssumption
  <2>3. o \in Shapes /\ o.rsl = s.rsl /\ o.hist = s.hist /\ o.state = s.state
    BY <2>2, <2>7 DEF Shapes
  <2> HIDE DEF o
  <2>4. Tame(s, o)
    BY <2>3 DEF Tame, Short
  <2>5. Tame(m, o) /\ o.rsl = m.rsl
    BY <2>2, <2>3, <2>4, TameTwice
  <2>6. Tame(o, Start(o, "T3122"))
    BY <1>4, <2>3, PartsTame
  <2> QED
    BY <1>1, <2>1, <2>5, <2>6, TameTwice
<1>12. CASE e.p = "EST_CONF"
  <2>1. \/ n = L2Rel(m) \/ n = m
        \/ \E p \in Prims : n = Tell(NewState(m, "DEDICATED"), p)
    BY <1>3, <1>12 DEF Received, EstabCnf
  <2> DEFINE s == NewState(m, "DEDICATED")
  <2>2. s \in Shapes /\ s.rsl = m.rsl /\ Tame(m, s)
    BY PartsTame
  <2>3. ASSUME NEW p \in Prims
        PROVE  Tame(m, Tell(s, p))
    BY <2>2, PartsTame, TameTwice
  <2>4. Tame(m, L2Rel(m))
    BY PartsTame
  <2> QED
    BY <1>1, <2>1, <2>3, <2>4
<1>13. CASE e.p = "REL_IND"
  <2>1. n = m \/ n = NewState(Start(Tell(m, "REL_IND"), "relwait"), "REL_PEND")
    BY <1>13 DEF Received, RelInd
  <2>2. /\ Tell(m, "REL_IND") \in Shapes /\ Tame(m, Tell(m, "REL_IND"))
        /\ Tell(m, "REL_IND").rsl = m.rsl
    BY <1>3, PartsTame
  <2>3. /\ Start(Tell(m, "REL_IND"), "relwait") \in Shapes
        /\ Tame(m, Start(Tell(m, "REL_IND"), "relwait"))
        /\ Start(Tell(m, "REL_IND"), "relwait").rsl = m.rsl
    BY <1>4, <2>2, PartsTame, TameTwice
  <2>4. Tame(m, NewState(Start(Tell(m, "REL_IND"), "relwait"), "REL_PEND"))
    BY <2>3, PartsTame, TameTwice
  <2> QED
    BY <1>1, <2>1, <2>4
<1>14. CASE e.p = "REL_CONF"
  <2>1. n = m \/ n = Released(Stop(m, "T3110"))
    BY <1>14 DEF Received, RelCnf
  <2> QED
    BY <1>1, <1>4, <1>5, <2>1, PartsTame, TameTwice
<1>15. CASE e.p = "ERROR_IND"
  <2> DEFINE r == L2RelLocal(m)
             t == Tell(r, "ABORT_IND")
  <2>1. n = m \/ n = NewState(t, "IDLE")
    BY <1>15 DEF Received, MdlError
  <2>2. r \in Shapes /\ Tame(m, r)
    BY PartsTame
  <2> HIDE DEF r
  <2>3. t \in Shapes /\ t.rsl = r.rsl /\ Tame(r, t)
    BY <1>3, <2>2, PartsTame
  <2> HIDE DEF t
  <2>4. Tame(t, NewState(t, "IDLE")) /\ NewState(t, "IDLE").rsl = t.rsl
    BY <2>3, PartsTame
  <2> QED
    BY <1>1, <2>1, <2>2, <2>3, <2>4 DEF Tame
<1>16. CASE e.p = "CHAN_REL"
  <2> DEFINE s == NewState(m, "REL_PEND")
             t == Start(s, "T3110")
  <2>1. n = m \/ n = L2Rel(t)
    BY <1>16 DEF Received, RxChanRel
  <2>2. s \in Shapes /\ s.rsl = m.rsl /\ Tame(m, s)
    BY PartsTame
  <2> HIDE DEF s
  <2>3. t \in Shapes /\ t.rsl = m.rsl /\ Tame(m, t)
    BY <1>4, <2>2, PartsTame, TameTwice
  <2> HIDE DEF t
  <2> QED
    BY <1>1, <2>1, <2>3, PartsTame, TameTwice
<1> QED
  BY <1>2, <1>7, <1>8, <1>9, <1>10, <1>11, <1>12, <1>13, <1>14, <1>15, <1>16
     DEF Signals

-----------------------------------------------------------------------------
\* What the operators make of a queue in which a paging request may wait.
LEMMA PagedQueues ==
  ASSUME NEW q \in Seq(Entries)
  PROVE  /\ \A e \in Entries : Paged(Append(q, e)) <=> Paged(q) \/ e.p = "PAGING"
         /\ q # <<>> => (Paged(q) <=> Paged(Tail(q)) \/ Head(q).p = "PAGING")
<1>1. Len(q) \in Nat
  OBVIOUS
<1>2. ASSUME NEW e \in Entries
      PROVE  Paged(Append(q, e)) <=> Paged(q) \/ e.p = "PAGING"
  <2>1. /\ Len(Append(q, e)) = Len(q) + 1
        /\ \A i \in 1..(Len(q) + 1) :
             Append(q, e)[i] = IF i = Len(q) + 1 THEN e ELSE q[i]
    BY AppendProperties
  <2> QED
    BY <1>1, <2>1 DEF Paged
<1>3. CASE q # <<>>
  <2>1. /\ Len(Tail(q)) = Len(q) - 1 /\ Len(q) >= 1
        /\ \A i \in 1..(Len(q) - 1) : Tail(q)[i] = q[i + 1]
        /\ Head(q) = q[1]
    BY <1>3, HeadTailProperties, EmptySeq
  <2>2. ASSUME NEW i \in 1..Len(q), q[i].p = "PAGING"
        PROVE  Paged(Tail(q)) \/ Head(q).p = "PAGING"
    <3>1. CASE i = 1
      BY <2>1, <2>2, <3>1
    <3>2. CASE i # 1
      <4>1. i - 1 \in 1..(Len(q) - 1) /\ (i - 1) + 1 = i
        BY <1>1, <2>1, <3>2
      <4> QED
        BY <2>1, <2>2, <4>1 DEF Paged
    <3> QED
      BY <3>1, <3>2
  <2>3. ASSUME NEW i \in 1..(Len(q) - 1), Tail(q)[i].p = "PAGING"
        PROVE  Paged(q)
    <3>1. i + 1 \in 1..Len(q) /\ q[i + 1].p = "PAGING"
      BY <1>1, <2>1, <2>3
    <3> QED
      BY <3>1 DEF Paged
  <2>4. 1 \in 1..Len(q)
    BY <1>1, <2>1
  <2> QED
    BY <2>1, <2>2, <2>3, <2>4 DEF Paged
<1> QED
  BY <1>2, <1>3

\* A handler that layer 2 answers at most with a confirmation.
LEMMA TameFollows ==
  ASSUME NEW m \in Shapes, NEW n, Tame(m, n), StateOf(m) = "relwait" => n.up = m.up
  PROVE  Follows(m, n)
<1>1. /\ Entry("REL_CONF", NoAccess) \in Entries
      /\ Entry("REL_CONF", NoAccess).p # "PAGING"
  BY RrAssumption DEF Entry, NoAccess, Entries, AccessIds, Signals
<1>2. m.rsl \in Seq(Entries)
  BY DEF Shapes
<1>3. Paged(Append(m.rsl, Entry("REL_CONF", NoAccess))) <=> Paged(m.rsl)
  BY <1>1, <1>2, PagedQueues
<1> QED
  BY <1>3 DEF Tame, Follows

\* An event that only adds a signal to the queue.
LEMMA SignalFollows ==
  ASSUME NEW m \in Shapes, NEW n, NEW e \in Entries, e.p # "PAGING",
         n.rsl = Append(m.rsl, e), n.state = m.state, n.hist = m.hist,
         n.up = m.up
  PROVE  Follows(m, n)
<1>1. m.rsl \in Seq(Entries)
  BY DEF Shapes
<1> QED
  BY <1>1, PagedQueues DEF Follows, Short

\* gsm48_rsl_dequeue.
LEMMA WorkFollows ==
  ASSUME LinkInv, Work
  PROVE  Follows(ms, ms')
<1> DEFINE m == [ms EXCEPT !.rsl = Tail(@)]
           e == Head(ms.rsl)
<1>1. /\ OwnHistory(ms) /\ ms \in Shapes /\ ms.rsl # <<>>
      /\ ms.rsl \in Seq(Entries) /\ Consistent(ms)
  BY DEF LinkInv, IInv, Work, OwnHistory, Shapes
<1>2. PICK n \in Received(m, e) : ms' = [n EXCEPT !.busy = n.rsl # <<>>]
  BY DEF Work
<1>3. OwnHistory(m) /\ e \in Entries
  BY <1>1, FirstEntry DEF Harmless
<1>4. /\ m \in Shapes /\ m.state = ms.state /\ m.timers = ms.timers
      /\ m.rsl = Tail(ms.rsl) /\ m.up = ms.up /\ m.hist = ms.hist
      /\ m.cell = ms.cell
  BY <1>1, <1>3 DEF Shapes, OwnHistory
<1>5. Paged(ms.rsl) <=> Paged(m.rsl) \/ e.p = "PAGING"
  BY <1>1, <1>4, PagedQueues
<1>6. e.p = First(ms.rsl) /\ e.p # "none"
  BY <1>1, QueueTail DEF Consistent
<1> HIDE DEF m, e
<1>7. n \in Shapes
  BY <1>1, <1>2, <1>3, FirstEntry, ReceivedIsOwn DEF OwnHistory, e, m
<1>8. Tame(m, n) \/ (e.p = "PAGING" /\ n.rsl = m.rsl /\ Short(n))
  BY <1>2, <1>3, <1>4, ReceivedTame
<1>9. StateOf(ms) = "relwait" => n.up = m.up
  <2>1. SUFFICES ASSUME StateOf(ms) = "relwait"
                 PROVE  n.up = m.up
    OBVIOUS
  <2>2. ms.state = "REL_PEND" /\ "relwait" \in ms.timers
    BY <1>1, <2>1, StateOfIs DEF Shapes
  <2>3. e.p = "CHAN_CONF"
    BY <1>1, <1>6, <2>2 DEF Consistent, Situation, InIdle, InAccess, InAssigned,
       InDedicated, InRelease
  <2>4. n = m
    BY <1>2, <1>4, <2>2, <2>3 DEF Received, RxChanConf
  <2> QED
    BY <2>4
<1>10. /\ ms'.rsl = n.rsl /\ ms'.state = n.state /\ ms'.hist = n.hist
       /\ ms'.up = n.up
  BY <1>2, <1>7 DEF Shapes
<1>11. StateOf(m) = StateOf(ms)
  BY <1>4 DEF StateOf
<1>12. CASE Tame(m, n)
  <2>1. Follows(m, n)
    BY <1>4, <1>9, <1>11, <1>12, TameFollows
  <2> QED
    BY <1>4, <1>5, <1>10, <1>11, <2>1 DEF Follows, Short
<1>13. CASE e.p = "PAGING" /\ n.rsl = m.rsl /\ Short(n)
  BY <1>4, <1>5, <1>9, <1>10, <1>13 DEF Follows, Short
<1> QED
  BY <1>8, <1>12, <1>13

\* All parts but gsm48_rr_upmsg leave the queue for MM alone.
LEMMA PartsQuiet ==
  ASSUME NEW m \in Shapes
  PROVE  /\ \A t \in Timers : Start(m, t).up = m.up /\ Stop(m, t).up = m.up
         /\ \A s \in {"IDLE", "DEDICATED", "REL_PEND"} : NewState(m, s).up = m.up
         /\ L2Rel(m).up = m.up /\ L2RelLocal(m).up = m.up /\ L2Est(m).up = m.up
<1>1. /\ \A t : Start(m, t).up = m.up /\ Stop(m, t).up = m.up
  BY DEF Start, Stop, Shapes
<1>4. Stop(m, "starting") \in Shapes
  BY PartsTame DEF Timers
<1>2. ASSUME NEW s \in {"IDLE", "DEDICATED", "REL_PEND"}
      PROVE  NewState(m, s).up = m.up
  BY <1>1, <1>4 DEF NewState, Shapes
<1>3. L2Rel(m).up = m.up /\ L2RelLocal(m).up = m.up /\ L2Est(m).up = m.up
  BY DEF L2Rel, L2RelLocal, L2Est, Rsl, Shapes
<1> QED
  BY <1>1, <1>2, <1>3

\* After the end of a connection only t_rel_wait and T3122 run.
LEMMA RelwaitIsLast ==
  ASSUME NEW m \in Shapes, Consistent(m), StateOf(m) = "relwait"
  PROVE  m.timers \subseteq {"T3122", "relwait"}
<1>1. m.state = "REL_PEND" /\ "relwait" \in m.timers
  BY StateOfIs DEF Shapes
<1> QED
  BY <1>1 DEF Consistent, Situation, InIdle, InAccess, InAssigned, InDedicated,
     InRelease

\* The timers.
LEMMA TimersFollow ==
  ASSUME ms \in Shapes, Consistent(ms), T3126 \/ T3110 \/ RelWait \/ Starting
  PROVE  Follows(ms, ms')
<1>1. {"T3126", "T3110", "relwait", "starting"} \subseteq Timers
  BY DEF Timers
<1>2. ASSUME NEW t \in Timers
      PROVE  /\ Stop(ms, t) \in Shapes /\ Tame(ms, Stop(ms, t))
             /\ Stop(ms, t).rsl = ms.rsl /\ Stop(ms, t).up = ms.up
  BY PartsTame, PartsQuiet
<1>3. CASE T3126
  <2> DEFINE s == Stop(ms, "T3126")
             u == IF s.est THEN Tell(s, "REL_IND") ELSE s
  <2>1. ms' = NewState(u, "IDLE") /\ "T3126" \in ms.timers
    BY <1>3 DEF T3126, Fires, Becomes, Asked, Failed
  <2>2. s \in Shapes /\ Tame(ms, s) /\ s.rsl = ms.rsl
    BY <1>1, <1>2
  <2> HIDE DEF s
  <2>3. u \in Shapes /\ Tame(ms, u) /\ u.rsl = ms.rsl
    BY <2>2, PartsTame, TameTwice DEF Prims
  <2> HIDE DEF u
  <2>4. Tame(ms, ms')
    BY <2>1, <2>3, PartsTame, TameTwice
  <2>5. StateOf(ms) # "relwait"
    BY <2>1, RelwaitIsLast
  <2> QED
    BY <2>4, <2>5, TameFollows
<1>4. CASE T3110
  <2> DEFINE s == Stop(ms, "T3110")
             r == NewState(s, "REL_PEND")
  <2>1. ms' = L2RelLocal(r)
    BY <1>4 DEF T3110, Becomes, Asked
  <2>2. s \in Shapes /\ Tame(ms, s) /\ s.rsl = ms.rsl /\ s.up = ms.up
    BY <1>1, <1>2
  <2> HIDE DEF s
  <2>3. r \in Shapes /\ Tame(ms, r) /\ r.rsl = ms.rsl /\ r.up = ms.up
    BY <2>2, PartsTame, PartsQuiet, TameTwice
  <2> HIDE DEF r
  <2>4. Tame(ms, ms') /\ ms'.up = ms.up
    BY <2>1, <2>3, PartsTame, PartsQuiet, TameTwice
  <2> QED
    BY <2>4, TameFollows
<1>5. CASE RelWait
  <2> DEFINE s == Stop(ms, "relwait")
  <2>1. ms' = NewState(s, "IDLE")
    BY <1>5 DEF RelWait, Becomes, Asked
  <2>2. s \in Shapes /\ Tame(ms, s) /\ s.rsl = ms.rsl /\ s.up = ms.up
    BY <1>1, <1>2
  <2> HIDE DEF s
  <2>3. Tame(ms, ms') /\ ms'.up = ms.up
    BY <2>1, <2>2, PartsTame, PartsQuiet, TameTwice
  <2> QED
    BY <2>3, TameFollows
<1>6. CASE Starting
  <2> DEFINE s == Stop(ms, "starting")
             r == Stop(s, "T3126")
  <2>1. ms' = L2Est(r) \/ ms' = Unrendered(r)
    BY <1>6 DEF Starting, DlEst, Becomes, Asked
  <2>2. s \in Shapes /\ Tame(ms, s) /\ s.rsl = ms.rsl /\ s.up = ms.up
    BY <1>1, <1>2
  <2> HIDE DEF s
  <2>3. r \in Shapes /\ Tame(ms, r) /\ r.rsl = ms.rsl /\ r.up = ms.up
    BY <1>1, <2>2, PartsTame, PartsQuiet, TameTwice
  <2> HIDE DEF r
  <2>4. Tame(ms, ms') /\ ms'.up = ms.up
    BY <2>1, <2>3, PartsTame, PartsQuiet, UnrenderedTame, TameTwice
  <2> QED
    BY <2>4, TameFollows
<1> QED
  BY <1>3, <1>4, <1>5, <1>6

\* The events that only queue a signal, for a mobile that has none to take.
LEMMA SignalsFollow ==
  ASSUME ms \in Shapes, net \in SUBSET AccessIds,
         L2Fails \/ Sync \/ ChanConf \/ NetworkAnswers
  PROVE  Follows(ms, ms')
<1>1. NoAccess \in AccessIds
  BY RrAssumption DEF NoAccess, AccessIds
<1>2. ASSUME NEW p \in Signals, NEW id \in AccessIds
      PROVE  Entry(p, id) \in Entries /\ Entry(p, id).p = p
  BY <1>2 DEF Entry, Entries
<1>3. CASE L2Fails
  <2>1. PICK p \in {"REL_IND", "REL_CONF"} : ms' = Rsl([ms EXCEPT !.l2 = "idle"], p)
    BY <1>3 DEF L2Fails, Becomes, Asked
  <2>2. /\ ms'.rsl = Append(ms.rsl, Entry(p, NoAccess))
        /\ ms'.state = ms.state /\ ms'.hist = ms.hist /\ ms'.up = ms.up
    BY <2>1 DEF Rsl, Shapes
  <2>3. Entry(p, NoAccess) \in Entries /\ Entry(p, NoAccess).p # "PAGING"
    BY <1>1, <1>2 DEF Signals
  <2> QED
    BY <2>2, <2>3, SignalFollows
<1>4. CASE Sync
  <2>1. /\ ms'.rsl = Append(ms.rsl, Entry("BCCH", NoAccess))
        /\ ms'.state = ms.state /\ ms'.hist = ms.hist /\ ms'.up = ms.up
    BY <1>4 DEF Sync, Becomes, Asked, Rsl, Shapes
  <2>2. /\ Entry("BCCH", NoAccess) \in Entries
        /\ Entry("BCCH", NoAccess).p # "PAGING"
    BY <1>1, <1>2 DEF Signals
  <2> QED
    BY <2>1, <2>2, SignalFollows
<1>5. CASE ChanConf
  <2>1. /\ ms'.rsl = Append(ms.rsl, Entry("CHAN_CONF", ms.rach))
        /\ ms'.state = ms.state /\ ms'.hist = ms.hist /\ ms'.up = ms.up
    BY <1>5 DEF ChanConf, Shapes
  <2>2. /\ Entry("CHAN_CONF", ms.rach) \in Entries
        /\ Entry("CHAN_CONF", ms.rach).p # "PAGING"
    BY <1>2 DEF Signals, Shapes
  <2> QED
    BY <2>1, <2>2, SignalFollows
<1>6. CASE NetworkAnswers
  <2>1. PICK id \in net, p \in {"IMM_ASS", "IMM_ASS_REJ"} :
          ms' = [ms EXCEPT !.rsl = Append(@, Entry(p, id))]
    BY <1>6 DEF NetworkAnswers
  <2>2. /\ ms'.rsl = Append(ms.rsl, Entry(p, id))
        /\ ms'.state = ms.state /\ ms'.hist = ms.hist /\ ms'.up = ms.up
    BY <2>1 DEF Shapes
  <2>3. Entry(p, id) \in Entries /\ Entry(p, id).p # "PAGING"
    BY <1>2 DEF Signals
  <2> QED
    BY <2>2, <2>3, SignalFollows
<1> QED
  BY <1>3, <1>4, <1>5, <1>6

\* The steps that are bounded by the room in the queue for MM.
LEMMA RoomySteps ==
  ASSUME ms \in Shapes, ms' \in Shapes, Short(ms),
         \/ MmEstablishes \/ MmAborts \/ Camp \/ Page \/ Lose
         \/ L2Established \/ L2Network
  PROVE  Short(ms') /\ Fits(ms')
<1>1. Len(ms.up) \in Nat /\ Len(ms.up) <= UpCap
  BY DEF Shapes, MmEstablishes, MmAborts, MmRuns, Camp, Page, Lose,
     L2Established, L2Network, Room
<1> SUFFICES Short(ms') /\ Len(ms'.up) <= Len(ms.up) + 1
  BY <1>1, RoomFits
<1>2. {"REL_IND", "T3126", "T3110"} \subseteq Prims \cup Timers
  BY DEF Prims, Timers
<1>3. CASE MmEstablishes
  <2>1. ms' = Tell(ms, "REL_IND") \/ ms' = ChanReq(ms, TRUE)
    BY <1>3 DEF MmEstablishes, Asked, EstReq
  <2>2. CASE ms' = Tell(ms, "REL_IND")
    BY <1>1, <2>2 DEF Tell, Shapes, Short
  <2>3. CASE ms' = ChanReq(ms, TRUE)
    BY <1>1, <2>3 DEF ChanReq, Shapes, Short, History
  <2> QED
    BY <2>1, <2>2, <2>3
<1>4. CASE MmAborts
  <2> DEFINE s == Stop(ms, "T3126")
             r == NewState(s, "REL_PEND")
  <2>1. ms' = ms \/ ms' = L2Rel(r) \/ ms' = NewState(s, "IDLE")
    BY <1>4 DEF MmAborts, Asked, AbortReq
  <2>2. s \in Shapes /\ s.rsl = ms.rsl /\ s.up = ms.up /\ Tame(ms, s)
    BY PartsTame, PartsQuiet DEF Timers
  <2> HIDE DEF s
  <2>3. /\ r \in Shapes /\ r.rsl = ms.rsl /\ r.up = ms.up /\ Tame(ms, r)
        /\ NewState(s, "IDLE").up = ms.up /\ Tame(ms, NewState(s, "IDLE"))
    BY <2>2, PartsTame, PartsQuiet, TameTwice
  <2> HIDE DEF r
  <2>4. L2Rel(r).up = ms.up /\ Tame(ms, L2Rel(r))
    BY <2>3, PartsTame, PartsQuiet, TameTwice
  <2> QED
    BY <1>1, <2>1, <2>3, <2>4 DEF Tame
<1>5. CASE Camp
  <2>1. ms'.up = ms.up /\ ms'.hist = ms.hist
    BY <1>5 DEF Camp, Becomes, Asked, Shapes
  <2> QED
    BY <1>1, <2>1 DEF Short
<1>6. CASE Page \/ L2Established \/ L2Network
  <2>1. \/ \E p \in Signals : ms' = Rsl(ms, p)
        \/ \E p \in Signals, l2 \in {"mf", "idle"} :
             ms' = Rsl([ms EXCEPT !.l2 = l2], p)
    BY <1>6 DEF Page, L2Established, L2Network, Becomes, Asked, Signals
  <2>2. ms'.up = ms.up /\ ms'.hist = ms.hist
    BY <2>1 DEF Rsl, Shapes
  <2> QED
    BY <1>1, <2>2 DEF Short
<1>7. CASE Lose
  <2> DEFINE s == Stop(ms, "T3110")
             t == Stop(s, "T3126")
             u == Tell(t, "REL_IND")
             r == NewState(s, "REL_PEND")
  <2>1. ms' = ms \/ ms' = NewState(u, "IDLE") \/ ms' = L2RelLocal(r)
    BY <1>7 DEF Lose, Becomes, Asked, Los, Released
  <2>2. s \in Shapes /\ s.rsl = ms.rsl /\ s.up = ms.up /\ Tame(ms, s)
    BY PartsTame, PartsQuiet DEF Timers
  <2> HIDE DEF s
  <2>3. t \in Shapes /\ t.rsl = ms.rsl /\ t.up = ms.up /\ Tame(ms, t)
    BY <2>2, PartsTame, PartsQuiet, TameTwice DEF Timers
  <2> HIDE DEF t
  <2>4. u \in Shapes /\ u.rsl = ms.rsl /\ Tame(ms, u)
    BY <2>3, PartsTame, TameTwice DEF Prims
  <2>5. Len(u.up) = Len(ms.up) + 1
    BY <2>3 DEF Tell, Shapes
  <2> HIDE DEF u
  <2>6. NewState(u, "IDLE").up = u.up /\ Tame(ms, NewState(u, "IDLE"))
    BY <2>4, PartsTame, PartsQuiet, TameTwice
  <2>7. r \in Shapes /\ r.rsl = ms.rsl /\ r.up = ms.up /\ Tame(ms, r)
    BY <2>2, PartsTame, PartsQuiet, TameTwice
  <2> HIDE DEF r
  <2>8. L2RelLocal(r).up = ms.up /\ Tame(ms, L2RelLocal(r))
    BY <2>7, PartsTame, PartsQuiet, TameTwice
  <2> QED
    BY <1>1, <2>1, <2>5, <2>6, <2>8 DEF Tame
<1> QED
  BY <1>3, <1>4, <1>5, <1>6, <1>7

\* MM takes a prim; T3122 is nothing MM or layer 2 is told of.
LEMMA OtherSteps ==
  ASSUME ms \in Shapes, Consistent(ms), Short(ms), Fits(ms),
         MmTakes \/ (T3122 /\ Consistent(ms'))
  PROVE  Short(ms') /\ Fits(ms')
<1>1. Len(ms.up) \in Nat /\ UpCap \in Nat /\ Owes(ms) \in 0..2
  BY RrAssumption, OwesIs DEF Shapes
<1>2. CASE MmTakes
  <2>1. /\ ms'.up = Tail(ms.up) /\ ms'.hist = ms.hist /\ ms'.rsl = ms.rsl
        /\ ms'.state = ms.state /\ ms'.timers = ms.timers /\ ms'.cell = ms.cell
        /\ ms.up # <<>>
    BY <1>2 DEF MmTakes, Becomes, Asked, Shapes
  <2>2. Len(ms'.up) = Len(ms.up) - 1
    BY <2>1 DEF Shapes
  <2>3. Owes(ms') = Owes(ms)
    BY <2>1 DEF Owes, StateOf
  <2> QED
    BY <1>1, <2>1, <2>2, <2>3 DEF Short, Fits
<1>3. CASE T3122
  <2>1. /\ ms'.up = ms.up /\ ms'.hist = ms.hist /\ ms'.rsl = ms.rsl
        /\ ms'.state = ms.state /\ ms'.timers = ms.timers \ {"T3122"}
        /\ ms'.cell = ms.cell
    BY <1>3 DEF T3122, Becomes, Asked, Shapes, Stop
  <2>2. StateOf(ms') = StateOf(ms)
    BY <2>1 DEF StateOf
  <2> QED
    BY <1>1, <2>1, <2>2 DEF Short, Fits, Owes
<1> QED
  BY <1>2, <1>3

\* Every step leaves the history and the queue for MM within their bounds.
LEMMA NextSized ==
  ASSUME SizedInv, Next, Breaks \subseteq Sound
  PROVE  SizedInv'
<1>1. LinkInv /\ LinkInv'
  BY NextServes DEF SizedInv
<1>2. /\ ms \in Shapes /\ ms' \in Shapes /\ net \in SUBSET AccessIds
      /\ Consistent(ms) /\ Short(ms) /\ Fits(ms)
      /\ ms.state = "IDLE" => ms.rach = NoAccess
  BY <1>1 DEF LinkInv, IInv, OwnHistory, SizedInv
<1> SUFFICES Short(ms') /\ Fits(ms')
  BY <1>1 DEF SizedInv
<1>3. ASSUME Follows(ms, ms'), Good(ms, ms')
      PROVE  Short(ms') /\ Fits(ms')
  BY <1>2, <1>3, FollowsFits DEF Follows, Good
<1>4. Selects => Waits(ms)
  BY <1>2, SelectsWaits
<1>5. CASE Work
  BY <1>1, <1>3, <1>5, WorkFollows, WorkStep DEF LinkInv
<1>6. CASE T3126 \/ T3110 \/ RelWait \/ Starting
  <2>1. Good(ms, ms')
    BY <1>2, <1>4, <1>6, T3126Step, T3110Step, RelWaitStep, StartingStep
       DEF T3126, T3110, RelWait, Starting, Fires, Becomes, Asked
  <2> QED
    BY <1>2, <1>3, <1>6, <2>1, TimersFollow
<1>7. CASE L2Fails \/ Sync \/ ChanConf \/ NetworkAnswers
  <2>1. ASSUME L2Fails
        PROVE  Good(ms, ms')
    BY <1>2, <1>4, <2>1, L2FailsStep DEF L2Fails, Becomes, Asked
  <2>2. ASSUME Sync
        PROVE  Good(ms, ms')
    BY <1>2, <1>4, <2>2, SyncStep DEF Sync, Becomes, Asked
  <2>3. ASSUME ChanConf
        PROVE  Good(ms, ms')
    BY <1>2, <1>4, <2>3, ChanConfSentStep DEF ChanConf
  <2>4. ASSUME NetworkAnswers
        PROVE  Good(ms, ms')
    BY <1>2, <1>4, <2>4, NetworkAnswersStep DEF NetworkAnswers
  <2>5. Good(ms, ms')
    BY <1>7, <2>1, <2>2, <2>3, <2>4
  <2> QED
    BY <1>2, <1>3, <1>7, <2>5, SignalsFollow
<1>8. CASE \/ MmEstablishes \/ MmAborts \/ Camp \/ Page \/ Lose
           \/ L2Established \/ L2Network
  BY <1>2, <1>8, RoomySteps
<1>9. CASE MmTakes \/ T3122
  <2>1. Consistent(ms')
    BY <1>1 DEF LinkInv
  <2> QED
    BY <1>2, <1>9, <2>1, OtherSteps
<1> QED
  BY <1>5, <1>6, <1>7, <1>8, <1>9 DEF Next

\* The sequences of at most n elements, as the type invariant has them.
LEMMA SeqOfIs ==
  ASSUME NEW S, NEW n \in Nat, NEW q \in Seq(S), Len(q) <= n
  PROVE  q \in SeqOf(S, n)
<1>1. q \in [1..Len(q) -> S] /\ Len(q) \in 0..n
  OBVIOUS
<1> QED
  BY <1>1 DEF SeqOf

\* Types, and the bounds of the history (IMM_ASS_HISTORY), of rsl_upqueue and
\* of the queue for MM, which holds what one connection may still be told.
THEOREM TypeCorrect ==
  ASSUME Breaks \subseteq Sound
  PROVE  Spec => []TypeOK
<1> DEFINE M == mm \in {"est", "abort", "none"}
<1>1. Init /\ IInv => SizedInv
  <2> SUFFICES ASSUME Init, IInv
               PROVE  SizedInv
    OBVIOUS
  <2>1. LinkInv /\ ms \in Shapes
    BY InitServes DEF IInv, OwnHistory
  <2>2. Len(ms.hist) = 0 /\ Len(ms.up) = 0
    BY DEF Init
  <2> QED
    BY <2>1, <2>2, OwesIs, RrAssumption DEF SizedInv, Short, Fits, History
<1>2. SizedInv /\ [Next]_vars => SizedInv'
  <2>1. SizedInv /\ UNCHANGED vars => SizedInv'
    BY DEF SizedInv, LinkInv, IInv, vars
  <2> QED
    BY <2>1, NextSized
<1>3. Init => M
  BY DEF Init
<1>4. M /\ [Next]_vars => M'
  BY DEF Next, vars, Work, MmEstablishes, MmAborts, MmTakes, T3126, T3122, T3110,
     RelWait, Starting, L2Fails, L2Established, L2Network, Lose, Sync, ChanConf,
     NetworkAnswers, Page, Camp, Becomes, Asked
<1>5. SizedInv /\ M => TypeOK
  <2> SUFFICES ASSUME SizedInv, M
               PROVE  TypeOK
    OBVIOUS
  <2>1. ms \in Shapes /\ net \in SUBSET AccessIds
    BY DEF SizedInv, LinkInv, IInv, OwnHistory
  <2>2. /\ ms.hist \in Seq(AccessIds) /\ ms.rsl \in Seq(Entries)
        /\ ms.up \in Seq(Prims) /\ Len(ms.hist) <= History
        /\ Len(ms.rsl) <= 3 /\ Len(ms.up) <= UpCap + 3
        /\ UpCap + 3 \in Nat /\ History \in Nat
    BY <2>1, OwesIs, RrAssumption DEF Shapes, Prims, SizedInv, LinkInv, Short, Fits,
       Consistent, History
  <2>3. /\ ms.hist \in SeqOf(AccessIds, History)
        /\ ms.rsl \in SeqOf(Entries, 3)
        /\ ms.up \in SeqOf(Prims, UpCap + 3)
    BY <2>2, SeqOfIs
  <2>4. ms \in Mobiles
    <3> DEFINE H == SeqOf(AccessIds, History)
               R == SeqOf(Entries, 3)
               U == SeqOf(Prims, UpCap + 3)
    <3>1. Mobiles =
            [state : {"IDLE", "CONN_PEND", "DEDICATED", "REL_PEND"}, est : BOOLEAN,
             wait : 0..2, left : 0..Accesses, hist : H, timers : SUBSET Timers,
             cell : {"choose", "camped", "connected"}, data : BOOLEAN,
             l2 : {"idle", "sabm", "mf", "disc"}, rach : AccessIds,
             proc : BOOLEAN, busy : BOOLEAN, unrendered : BOOLEAN,
             rsl : R, up : U]
      BY DEF Mobiles, Entries, Prims
    <3>2. ms.hist \in H /\ ms.rsl \in R /\ ms.up \in U
      BY <2>3
    <3> HIDE DEF H, R, U
    <3> QED
      BY <2>1, <3>1, <3>2 DEF Shapes
  <2> QED
    BY <2>1, <2>4 DEF TypeOK
<1> HIDE DEF M
<1> QED
  BY <1>1, <1>2, <1>3, <1>4, <1>5, HistoryIsOwn, PTL DEF Spec
=============================================================================
