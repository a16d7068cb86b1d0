------------------------------- MODULE Trxcon -------------------------------
(***************************************************************************)
(* One trxcon instance: the L1CTL request handlers and the FSM of           *)
(* trxcon_fsm.c, the timeslot table of the scheduler it configures, and the *)
(* TRXC queue and transceiver of TrxIf below it.                            *)
(*                                                                          *)
(* One action is one L1CTL request, one primitive of the scheduler, one     *)
(* expired timer or one datagram, as the select loop hands them out.  The   *)
(* commands a handler issues are queued in one go: every trx_ctrl_cmd of a  *)
(* handler runs before the loop is entered again.                           *)
(***************************************************************************)
EXTENDS Naturals, Sequences

CONSTANTS NULL,      \* the null pointer
          Tn,        \* number of timeslots, numbered from 0
          Dch,       \* channel types L1CTL_DM_EST_REQ asks for
          ArfcnNr,   \* ARFCNs of the power scans
          BadNr,     \* those that no frequency is defined for in the band
          Serving,   \* ARFCNs a client asks to tune to
          TaNr,      \* timing advance values, with 0
          Scan,      \* power scans: pairs of first and last ARFCN
          QueueCap,  \* bound on the length of trx_ctrl_list
          NetCap     \* datagrams one direction of the socket can hold

NoArfcn == 65535

States == {"RESET", "FULL_POWER_SCAN", "FBSB_SEARCH", "BCCH_CCCH",
           "DEDICATED", "PACKET_DATA"}
Pchan  == {"CCCH", "CCCH_SDCCH4", "SDCCH8", "TCH_F", "PDCH"}
NoPchan == "NONE"

\* trx_if_cmd_setslot: the channel combination numbers of SETSLOT.
ChanType == [p \in Pchan \cup {NoPchan} |->
               CASE p = "NONE"        -> 0
                 [] p = "TCH_F"       -> 1
                 [] p = "CCCH"        -> 4
                 [] p = "CCCH_SDCCH4" -> 5
                 [] p = "SDCCH8"      -> 7
                 [] p = "PDCH"        -> 13]

Tns == 0 .. (Tn - 1)

ASSUME TrxconAssumption ==
  /\ Tn \in Nat \ {0}
  /\ Dch \subseteq {"SDCCH8", "TCH_F", "PDCH"}
  /\ ArfcnNr \subseteq Nat
  /\ BadNr \subseteq ArfcnNr /\ Serving \subseteq ArfcnNr
  /\ TaNr \subseteq Nat /\ 0 \in TaNr
  /\ Scan \subseteq ArfcnNr \X ArfcnNr
  /\ \A s \in Scan : s[1] .. s[2] \subseteq ArfcnNr
  /\ \A P \in SUBSET Tns : NULL # P

VARIABLES open, fi_state, prev_state, powered_up, trx_ctrl_list, retry_cnt,
          trx_ctrl_timer, cmdNet, rspNet, radio   \* see TrxIf

VARIABLES state,    \* state of the trxcon FSM
          scan,     \* fi_data: the rest of the power scan, or NULL
          arfcn,    \* l1p.band_arfcn
          ta,       \* l1p.ta
          ts,       \* sched->ts[]: channel combination of each timeslot
          pdchs,    \* gprs: the timeslots in use by TBFs, or NULL
          air,      \* what the transceiver was last told to do
          late      \* auxiliary: a command was repeated while it, or its
                    \* answer, was still on its way

phyVars == <<open, fi_state, prev_state, powered_up, trx_ctrl_list,
             retry_cnt, trx_ctrl_timer, cmdNet, rspNet, radio>>
fsmVars == <<state, scan, arfcn, ta, ts, pdchs>>
vars == <<phyVars, fsmVars, air, late>>

ArfcnArg(a)   == <<"arfcn", a>>
TaArg(t)      == <<"ta", t>>
SlotArg(t, p) == <<"slot", t, ChanType[p]>>
Hopping       == <<"ma">>

Phy == INSTANCE TrxIf WITH
         Arfcn    <- {ArfcnArg(a) : a \in ArfcnNr \ BadNr} \cup {Hopping},
         BadArfcn <- {ArfcnArg(a) : a \in BadNr},
         Slot     <- {SlotArg(t, p) : t \in Tns, p \in Pchan \cup {NoPchan}},
         TA       <- {TaArg(t) : t \in TaNr},
         Request  <- {}, Linger <- FALSE

Cmds(t, a) == Phy!Expand([type |-> t, arg |-> a])

\* The commands of one handler reach the queue together.
Issue(cs) == IF cs = <<>> THEN open /\ UNCHANGED phyVars ELSE Phy!Submit(cs)

-----------------------------------------------------------------------------
(* The timeslot table.  A timeslot that is taken away or set up is announced *)
(* to the transceiver with SETSLOT (l1sched_cfg_pchan_comb_ind).             *)

NoSlots == [t \in Tns |-> NoPchan]

SlotCmd(t, p) == Cmds("SETSLOT", SlotArg(t, p))

\* l1sched_del_ts: only an allocated timeslot is deleted and announced.
DelCmds(slots, t) == IF slots[t] = NoPchan THEN <<>> ELSE SlotCmd(t, NoPchan)

\* l1sched_reset: delete them all, in order.
DelAllCmds(slots) ==
  LET del[n \in 0 .. Tn] ==
        IF n = 0 THEN <<>> ELSE del[n - 1] \o DelCmds(slots, n - 1)
  IN  del[Tn]

\* Mutated form of ConfigureCmds: the new combination is announced before
\* the old timeslot is taken away.
ConfigureCmdsSwapped(slots, t, p) == SlotCmd(t, p) \o DelCmds(slots, t)

\* l1sched_configure_ts: an allocated timeslot is reset first.
ConfigureCmds(slots, t, p) == DelCmds(slots, t) \o SlotCmd(t, p)

-----------------------------------------------------------------------------
(* L1CTL requests.  A request the FSM does not accept in its state is        *)
(* logged and dropped.                                                       *)

\* Mutated form of ResetFullReq: the power scan is not dropped.
ResetFullReqKeepsScan ==
  /\ state' = "RESET"
  /\ pdchs' = NULL
  /\ ts' = NoSlots
  /\ arfcn' = NoArfcn
  /\ ta' = 0
  /\ Issue(DelAllCmds(ts) \o Cmds("RESET", Phy!NoArg))
  /\ UNCHANGED <<scan, air, late>>

\* L1CTL_RESET_REQ (full).
ResetFullReq ==
  /\ state' = "RESET"
  /\ scan' = NULL
  /\ pdchs' = NULL                 \* PACKET_DATA is left
  /\ ts' = NoSlots
  /\ arfcn' = NoArfcn
  /\ ta' = 0
  /\ Issue(DelAllCmds(ts) \o Cmds("RESET", Phy!NoArg))
  /\ UNCHANGED <<air, late>>

\* L1CTL_RESET_REQ (sched), in any state, and L1CTL_DM_REL_REQ.
ResetSched ==
  /\ ts' = NoSlots
  /\ Issue(DelAllCmds(ts))
  /\ UNCHANGED <<state, scan, arfcn, ta, pdchs, air, late>>

ResetSchedReq == ResetSched
DmRelReq      == state \in {"DEDICATED", "PACKET_DATA"} /\ ResetSched

\* L1CTL_PM_REQ.  Both ends must be in the band, what is between them need
\* not.  The first measurement is issued on entering the state.
PmReq(first, last) ==
  /\ state \in {"RESET", "FULL_POWER_SCAN"}
  /\ scan = NULL
  /\ {first, last} \cap BadNr = {}
  /\ scan' = [first |-> first, last |-> last]
  /\ state' = "FULL_POWER_SCAN"
  /\ Issue(Cmds("MEASURE", ArfcnArg(first)))
  /\ UNCHANGED <<arfcn, ta, ts, pdchs, air, late>>

\* L1CTL_FBSB_REQ: timeslot 0 is set up, the transceiver retuned unless it
\* already is on that ARFCN, and powered on.  An ARFCN without a frequency is
\* remembered like any other, but nothing is queued to tune to it.
FbsbReq(a, p) ==
  /\ state = "RESET"
  /\ state' = "FBSB_SEARCH"
  /\ ts' = [ts EXCEPT ![0] = p]
  /\ arfcn' = a
  /\ Issue(ConfigureCmds(ts, 0, p)
             \o (IF arfcn # a THEN Cmds("SETFREQ_H0", ArfcnArg(a)) ELSE <<>>)
             \o Cmds("POWERON", Phy!NoArg))
  /\ UNCHANGED <<scan, ta, pdchs, air, late>>

\* L1CTL_CCCH_MODE_REQ.
CcchModeReq(p) ==
  /\ state = "BCCH_CCCH"
  /\ ts[0] \notin {NoPchan, p}
  /\ ts' = [ts EXCEPT ![0] = p]
  /\ Issue(ConfigureCmds(ts, 0, p))
  /\ UNCHANGED <<state, scan, arfcn, ta, pdchs, air, late>>

\* Mutated form of DmEstReq: the ARFCN of a channel without hopping is not
\* remembered.
DmEstReqKeepsArfcn(t, p, f) ==
  /\ state \in {"BCCH_CCCH", "DEDICATED", "PACKET_DATA"}
  /\ f \notin {ArfcnArg(a) : a \in BadNr}
  /\ arfcn' = IF f = Hopping THEN NoArfcn ELSE arfcn
  /\ ts' = [NoSlots EXCEPT ![t] = p]
  /\ state' = IF p = "PDCH" THEN "PACKET_DATA" ELSE "DEDICATED"
  /\ pdchs' = IF p = "PDCH" THEN {} ELSE NULL
  /\ Issue(Cmds(IF f = Hopping THEN "SETFREQ_H1" ELSE "SETFREQ_H0", f)
             \o DelAllCmds(ts) \o SlotCmd(t, p))
  /\ UNCHANGED <<scan, ta, air, late>>

\* L1CTL_DM_EST_REQ for timeslot t as p, on the ARFCN or hopping list f.
\* Entering PACKET_DATA, also from itself, starts with a fresh GPRS state.
\* When f has no frequency the handler returns before it changes anything.
DmEstReq(t, p, f) ==
  /\ state \in {"BCCH_CCCH", "DEDICATED", "PACKET_DATA"}
  /\ f \notin {ArfcnArg(a) : a \in BadNr}
  /\ arfcn' = IF f = Hopping THEN NoArfcn ELSE f[2]
  /\ ts' = [NoSlots EXCEPT ![t] = p]
  /\ state' = IF p = "PDCH" THEN "PACKET_DATA" ELSE "DEDICATED"
  /\ pdchs' = IF p = "PDCH" THEN {} ELSE NULL
  /\ Issue(Cmds(IF f = Hopping THEN "SETFREQ_H1" ELSE "SETFREQ_H0", f)
             \o DelAllCmds(ts) \o SlotCmd(t, p))
  /\ UNCHANGED <<scan, ta, air, late>>

\* L1CTL_PARAM_REQ: the timing advance is passed on only when it changes.
ParamReq(t) ==
  /\ ta' = t
  /\ Issue(IF ta = t THEN <<>> ELSE Cmds("SETTA", TaArg(t)))
  /\ UNCHANGED <<state, scan, arfcn, ts, pdchs, air, late>>

\* L1CTL_GPRS_{UL,DL}_TBF_CFG_REQ, as far as l1gprs reports that the first
\* TBF came to a timeslot or the last one left it.
TbfOn(t) ==
  /\ state = "PACKET_DATA" /\ t \notin pdchs
  /\ pdchs' = pdchs \cup {t}
  /\ IF ts[t] = NoPchan
       THEN /\ ts' = [ts EXCEPT ![t] = "PDCH"]
            /\ Issue(SlotCmd(t, "PDCH"))
       ELSE Issue(<<>>) /\ UNCHANGED ts
  /\ UNCHANGED <<state, scan, arfcn, ta, air, late>>

TbfOff(t) ==
  /\ state = "PACKET_DATA" /\ t \in pdchs
  /\ pdchs' = pdchs \ {t}
  /\ ts' = [ts EXCEPT ![t] = NoPchan]
  /\ Issue(DelCmds(ts, t))
  /\ UNCHANGED <<state, scan, arfcn, ta, air, late>>

-----------------------------------------------------------------------------
(* Events from below.                                                        *)

\* A decoded SCH burst: the scheduler hears one only while timeslot 0 is set
\* up and the transceiver runs.
FbsbRes ==
  /\ state = "FBSB_SEARCH"
  /\ radio.running /\ ts[0] # NoPchan
  /\ state' = "BCCH_CCCH"
  /\ Issue(<<>>)
  /\ UNCHANGED <<scan, arfcn, ta, ts, pdchs, air, late>>

\* trxcon_timer_cb.
FbsbTimeout ==
  /\ state = "FBSB_SEARCH"
  /\ state' = "RESET"
  /\ Issue(<<>>)
  /\ UNCHANGED <<scan, arfcn, ta, ts, pdchs, air, late>>

\* The answer to a MEASURE: the scan becomes rest, and next is queued.
PmStep(rest, next) ==
  /\ rspNet # <<>> /\ trx_ctrl_list # <<>>
  /\ Head(trx_ctrl_list).name = "MEASURE"
  /\ scan' = rest
  /\ Phy!ReadAnswer(next)
  /\ UNCHANGED <<state, arfcn, ta, ts, pdchs, air, late>>

Expected == /\ rspNet # <<>>
            /\ state = "FULL_POWER_SCAN" /\ scan # NULL
            /\ Head(rspNet).arg = ArfcnArg(scan.first)

NextOf(sc) == [sc EXCEPT !.first = @ + 1]
\* Nothing is queued for an ARFCN without a frequency, and the error that
\* trx_if.c returns is not looked at: the scan then waits for an answer to
\* nothing.
MeasureCmds(sc) == Cmds("MEASURE", ArfcnArg(sc.first))

\* Mutated form of PmRes: the scan runs one ARFCN too far.
PmResOffByOne ==
  IF Expected /\ scan.first <= scan.last
    THEN PmStep(NextOf(scan), MeasureCmds(NextOf(scan)))
    ELSE PmStep(IF Expected THEN NULL ELSE scan, <<>>)

\* Mutated form of PmRes: the next measurement is not asked for.
PmResForgetsNext ==
  IF Expected /\ scan.first < scan.last
    THEN PmStep(NextOf(scan), <<>>)
    ELSE PmStep(IF Expected THEN NULL ELSE scan, <<>>)

\* Mutated form of PmRes: the end of the scan is not noticed.
PmResNeverDone ==
  IF Expected /\ scan.first < scan.last
    THEN PmStep(NextOf(scan), MeasureCmds(NextOf(scan)))
    ELSE PmStep(scan, <<>>)

\* The answer to a MEASURE reaches the FSM before it leaves the queue.  Only
\* the ARFCN the scan waits for moves the scan on.
PmRes ==
  IF Expected /\ scan.first < scan.last
    THEN PmStep(NextOf(scan), MeasureCmds(NextOf(scan)))
    ELSE PmStep(IF Expected THEN NULL ELSE scan, <<>>)

\* The answer to any other command concerns trx_if.c alone.
OtherRes ==
  /\ trx_ctrl_list # <<>> /\ Head(trx_ctrl_list).name # "MEASURE"
  /\ Phy!ReadAnswer(<<>>)
  /\ UNCHANGED <<fsmVars, air, late>>

\* An answer that finds nothing queued.
StrayRes == Phy!ReadStray /\ UNCHANGED <<fsmVars, air, late>>

\* The response timer expires, whatever is on its way.
Resend ==
  /\ Phy!Resend
  /\ late' = (late \/ cmdNet # <<>> \/ rspNet # <<>>)
  /\ UNCHANGED <<fsmVars, air>>

\* The instance goes with its transceiver interface or its L1CTL connection.
\* Its timeslots are deleted, but an FSM that is terminating takes no more
\* events, so that no SETSLOT is issued for them.
FreeInst ==
  /\ state' = "RESET"
  /\ scan' = NULL
  /\ arfcn' = 0
  /\ ta' = 0
  /\ ts' = NoSlots
  /\ pdchs' = NULL
  /\ UNCHANGED <<air, late>>

PhyFailure == (Phy!GiveUp \/ Phy!ReadError) /\ FreeInst
L2Failure  == Phy!CloseReq /\ FreeInst
Connect    == Phy!Open /\ late' = FALSE /\ UNCHANGED <<fsmVars, air>>

\* The transceiver: what it was last told to do.
Execute ==
  /\ Phy!Execute
  /\ LET c == Head(cmdNet)
     IN  air' = CASE c.name = "RXTUNE"   -> [air EXCEPT !.arfcn = c.arg[2]]
                  [] c.name = "SETFH"    -> [air EXCEPT !.hopping = TRUE]
                  [] c.name = "POWEROFF" -> [air EXCEPT !.hopping = FALSE]
                  [] c.name = "SETTA"    -> [air EXCEPT !.ta = c.arg[2]]
                  [] c.name = "SETSLOT"  -> [air EXCEPT !.slot[c.arg[2]] = c.arg[3]]
                  [] OTHER               -> air
  /\ UNCHANGED <<fsmVars, late>>

Lose == (Phy!LoseCmd \/ Phy!LoseRsp) /\ UNCHANGED <<fsmVars, air, late>>

-----------------------------------------------------------------------------
Init ==
  /\ Phy!Init
  /\ state = "RESET"
  /\ scan = NULL
  /\ arfcn = 0
  /\ ta = 0
  /\ ts = NoSlots
  /\ pdchs = NULL
  /\ air = [arfcn |-> NoArfcn, hopping |-> FALSE, ta |-> 0,
            slot |-> [t \in Tns |-> 0]]
  /\ late = FALSE

Request ==
  \/ ResetFullReq
  \/ ResetSchedReq
  \/ DmRelReq
  \/ \E s \in Scan : PmReq(s[1], s[2])
  \/ \E a \in Serving, p \in {"CCCH", "CCCH_SDCCH4"} : FbsbReq(a, p)
  \/ \E p \in {"CCCH", "CCCH_SDCCH4"} : CcchModeReq(p)
  \/ \E t \in Tns, p \in Dch,
        f \in {Hopping} \cup {ArfcnArg(a) : a \in Serving} : DmEstReq(t, p, f)
  \/ \E t \in TaNr : ParamReq(t)
  \/ \E t \in Tns : TbfOn(t) \/ TbfOff(t)

Next ==
  \/ Request
  \/ FbsbRes
  \/ FbsbTimeout
  \/ PmRes
  \/ OtherRes
  \/ StrayRes
  \/ Resend
  \/ PhyFailure
  \/ L2Failure
  \/ Connect
  \/ Execute
  \/ Lose

Safety == Init /\ [][Next]_vars

Spec ==
  /\ Safety
  /\ WF_vars(Execute)
  /\ WF_vars(PmRes \/ OtherRes \/ PhyFailure)
  /\ WF_vars(Resend)

-----------------------------------------------------------------------------
TypeOK ==
  /\ Phy!TypeOK
  /\ state \in States
  /\ scan = NULL \/ scan \in [first : ArfcnNr, last : ArfcnNr]
  /\ arfcn \in ArfcnNr \cup {0, NoArfcn}
  /\ ta \in TaNr
  /\ ts \in [Tns -> Pchan \cup {NoPchan}]
  /\ pdchs = NULL \/ pdchs \in SUBSET Tns
  /\ air \in [arfcn : ArfcnNr \cup {NoArfcn}, hopping : BOOLEAN, ta : TaNr,
              slot : [Tns -> 0 .. 13]]
  /\ late \in BOOLEAN

\* Nothing is queued for the transceiver or on its way to it.
Settled == open /\ trx_ctrl_list = <<>> /\ cmdNet = <<>>

\* The power scan data belongs to FULL_POWER_SCAN, whose entry dereferences
\* it, and the GPRS state to PACKET_DATA, whose entry asserts that there is
\* none yet and whose handlers dereference it.
StateOwnsItsData ==
  /\ scan # NULL => state = "FULL_POWER_SCAN"
  /\ pdchs # NULL <=> state = "PACKET_DATA"

\* The scan has come to an ARFCN that cannot be measured.
Stalled == scan # NULL /\ scan.first \in BadNr

\* A scan that is going on is being worked on: the one measurement it waits
\* for is queued.  Nothing else would ever restart it ("TODO: timeout").  The
\* code has two ways to lose it: an ARFCN for which no measurement can be
\* queued, and a repetition that crossed its answer, which is then answered
\* twice, the second time in the place of the next measurement.
ScanIsServed ==
  scan # NULL /\ ~Stalled /\ ~late =>
    \E i \in 1 .. Len(trx_ctrl_list) :
       trx_ctrl_list[i] = Phy!Cmd("MEASURE", ArfcnArg(scan.first))

\* Once the queue has drained, every timeslot the scheduler has a channel on
\* has that very combination in the transceiver, whatever was reset,
\* reconfigured, repeated or lost in between, as long as no repetition crossed
\* its answer.
SlotsAgree ==
  Settled /\ ~late
    => \A t \in Tns : ts[t] # NoPchan => air.slot[t] = ChanType[ts[t]]

\* Once the queue has drained, an instance that knows its ARFCN has a
\* transceiver tuned to it, if that ARFCN has a frequency and no repetition
\* crossed its answer.
ArfcnAgrees ==
  Settled /\ ~late
          /\ state \in {"FBSB_SEARCH", "BCCH_CCCH", "DEDICATED", "PACKET_DATA"}
          /\ arfcn \notin {NoArfcn} \cup BadNr
    => air.arfcn = arfcn

\* What is taken for the answer to a command is the answer to that command,
\* although the name is all that is compared, until a command is repeated
\* while it or its answer is still on its way: nothing else puts a second
\* answer of that name on the wire, whatever is lost, queued meanwhile, reset,
\* or left over by a client before.
AnswerIsOwn == [][ ~late => Phy!OwnAnswer ]_vars

\* A power scan is completed, reset by the client or lost with the instance,
\* unless it stalls or a repetition crosses its answer.
ScanEnds == scan # NULL ~> scan = NULL \/ Stalled \/ late

\* Once the queue has drained, the transceiver receives on the ARFCN it was
\* told to tune to ("Tune transceiver to required ARFCN").
TunedToRequired ==
  Settled /\ state = "DEDICATED" /\ arfcn # NoArfcn
    => ~air.hopping /\ air.arfcn = arfcn
=============================================================================
