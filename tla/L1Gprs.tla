------------------------------- MODULE L1Gprs -------------------------------
(***************************************************************************)
(* The GPRS TBF bookkeeping of src/shared/l1gprs.c, used by trxcon and by   *)
(* virt_phy: which TBFs are active, which wait for their starting time, and *)
(* the per-timeslot counters and TFI mask derived from them by increments   *)
(* and decrements.  The first user of a timeslot and the last one to leave  *)
(* it are reported to the lower layers, which set the timeslot up or take   *)
(* it down; only a timeslot that is set up delivers the Downlink blocks     *)
(* that drive the starting times.                                           *)
(*                                                                          *)
(* Time is counted in radio blocks, modulo HyperFrame.                      *)
(***************************************************************************)
EXTENDS Integers, Sequences, FiniteSets

CONSTANTS Tns,         \* timeslot numbers
          UlRef,       \* Uplink TBF references
          DlRef,       \* Downlink TBF references
          Tfi,         \* Downlink TFIs
          Now,         \* start_fn of a request that takes effect at once
          HyperFrame,  \* number of blocks after which time wraps
          Horizon,     \* starting times lie less than this ahead
          MaxGap,      \* blocks that may be missed in a row, plus one
          PendingCap   \* bound on the length of tbf_list_pending

ASSUME L1GprsAssumption ==
  /\ {HyperFrame, Horizon, MaxGap, PendingCap} \subseteq Nat
  /\ 0 < MaxGap /\ Horizon + MaxGap < HyperFrame \div 2
  /\ Now \notin Nat

Blocks == 0 .. (HyperFrame - 1)
NoTfi  == -1

Tbf == [dir : {"ul"}, ref : UlRef, slots : (SUBSET Tns) \ {{}}, tfi : {NoTfi}]
  \cup [dir : {"dl"}, ref : DlRef, slots : (SUBSET Tns) \ {{}}, tfi : Tfi]

VARIABLES gprs,     \* struct l1gprs_state, and what pdch_changed_cb last said
          fn        \* the current block

vars == <<gprs, fn>>

\* The four counters of a PDCH.
Counter == {"ul", "dl", "pending_ul", "pending_dl"}
PendingOf(dir) == IF dir = "ul" THEN "pending_ul" ELSE "pending_dl"

UseCount(count, t) == count[<<t, "ul">>] + count[<<t, "dl">>]
                        + count[<<t, "pending_ul">>] + count[<<t, "pending_dl">>]

TfisOf(tbf) == IF tbf.dir = "dl" THEN {tbf.tfi} ELSE {}

\* gsm0502_fncmp(a, b) < 0: a lies in the half of the hyperframe before b.
Before(a, b) == (b - a) % HyperFrame \in 1 .. ((HyperFrame \div 2) - 1)

-----------------------------------------------------------------------------
(* One more user, or one less, for counter c on the timeslots slots.         *)

Add(g, slots, c, n) ==
  [x \in Tns \X Counter |->
     IF x[1] \in slots /\ x[2] = c THEN (g.count[x] + n) % 256 ELSE g.count[x]]

\* Mutated form of Link: the callback takes only active TBFs for users.
LinkCountsActive(g, slots, c, tfis) ==
  LET count == Add(g, slots, c, 1)
  IN  [g EXCEPT
         !.count = count,
         !.dl_tfi_mask = [t \in Tns |-> IF t \in slots THEN @[t] \cup tfis ELSE @[t]],
         !.enabled = @ \cup {t \in slots : count[<<t, "ul">>] + count[<<t, "dl">>] = 1}]

Link(g, slots, c, tfis) ==
  LET count == Add(g, slots, c, 1)
  IN  [g EXCEPT
         !.count = count,
         !.dl_tfi_mask = [t \in Tns |-> IF t \in slots THEN @[t] \cup tfis ELSE @[t]],
         !.enabled = @ \cup {t \in slots : UseCount(count, t) = 1}]

Unlink(g, slots, c, tfis) ==
  LET count == Add(g, slots, c, -1)
  IN  [g EXCEPT
         !.count = count,
         !.dl_tfi_mask = [t \in Tns |-> IF t \in slots THEN @[t] \ tfis ELSE @[t]],
         !.enabled = @ \ {t \in slots : UseCount(count, t) = 0}]

-----------------------------------------------------------------------------
(* The TBF lists.                                                            *)

FindTbf(g, dir, ref) == {b \in g.tbf_list : b.dir = dir /\ b.ref = ref}

\* l1gprs_register_tbf.
Register(g, tbf) ==
  [Link(g, tbf.slots, tbf.dir, TfisOf(tbf))
     EXCEPT !.tbf_list = @ \cup {tbf}]

\* Mutated form of Update: timeslots no longer used stay linked.
UpdateOnlyAdds(g, tbf, slots) ==
  [Link(g, slots \ tbf.slots, tbf.dir, TfisOf(tbf))
     EXCEPT !.tbf_list = (@ \ {tbf}) \cup {[tbf EXCEPT !.slots = slots]}]

\* l1gprs_update_tbf: nothing but the timeslots changes.
Update(g, tbf, slots) ==
  LET g1 == Unlink(g, tbf.slots \ slots, tbf.dir, TfisOf(tbf))
      g2 == Link(g1, slots \ tbf.slots, tbf.dir, TfisOf(tbf))
  IN  [g2 EXCEPT !.tbf_list = (@ \ {tbf}) \cup {[tbf EXCEPT !.slots = slots]}]

\* l1gprs_unregister_tbf.
Unregister(g, tbf) ==
  [Unlink(g, tbf.slots, tbf.dir, TfisOf(tbf))
     EXCEPT !.tbf_list = @ \ {tbf}]

\* l1gprs_add_tbf_pending_req: the TFI is not activated yet.
AddPending(g, preq) ==
  [Link(g, preq.tbf.slots, PendingOf(preq.tbf.dir), {})
     EXCEPT !.tbf_list_pending = Append(@, preq)]

\* Mutated form of Activate: the existing TBF is not looked for.
ActivateRegisters(g, new) == Register(g, new)

\* A request that takes effect: an existing TBF is updated, and only then
\* takes over the TFI; otherwise a new one is registered.
Activate(g, new) ==
  LET old == FindTbf(g, new.dir, new.ref)
  IN  IF old = {}
        THEN Register(g, new)
        ELSE LET tbf == CHOOSE b \in old : TRUE
                 g1  == Update(g, tbf, new.slots)
             IN  [g1 EXCEPT !.tbf_list =
                    (@ \ FindTbf(g1, new.dir, new.ref)) \cup {new}]

\* Mutated form of Due: the starting time has to be hit exactly.
DueExactly(preq, now) == preq.start = now

\* The starting time has come.
Due(preq, now) == ~Before(now, preq.start)

\* One turn of the loop: a request whose time has come leaves the list, and
\* its counters, without a callback; the others stay in it, in order.
Move(g, preq, now) ==
  IF Due(preq, now)
    THEN Activate([g EXCEPT !.count = Add(g, preq.tbf.slots,
                                          PendingOf(preq.tbf.dir), -1)],
                  preq.tbf)
    ELSE [g EXCEPT !.tbf_list_pending = Append(@, preq)]

\* l1gprs_check_pending_tbfs.
CheckPending(g, now) ==
  LET q == g.tbf_list_pending
      moved[i \in 0 .. Len(q)] ==
        IF i = 0 THEN [g EXCEPT !.tbf_list_pending = <<>>]
                 ELSE Move(moved[i - 1], q[i], now)
  IN  moved[Len(q)]

-----------------------------------------------------------------------------
\* l1gprs_handle_{ul,dl}_tbf_cfg_req with a slotmask.  A TBF that exists takes
\* the new timeslots at once, but not the new TFI.
CfgReq(tbf, start) ==
  /\ IF start # Now
       THEN /\ Len(gprs.tbf_list_pending) < PendingCap
            /\ gprs' = AddPending(gprs, [tbf |-> tbf, start |-> start])
       ELSE LET old == FindTbf(gprs, tbf.dir, tbf.ref)
            IN  gprs' = IF old = {} THEN Register(gprs, tbf)
                        ELSE Update(gprs, CHOOSE b \in old : TRUE, tbf.slots)
  /\ UNCHANGED fn

\* The same with an empty slotmask.  A TBF that is only pending is not found.
ReleaseReq(dir, ref) ==
  /\ \E tbf \in FindTbf(gprs, dir, ref) : gprs' = Unregister(gprs, tbf)
  /\ UNCHANGED fn

\* A Downlink block of timeslot t, gap blocks after the last one: the
\* starting times are checked for the block received and for the next one,
\* which is offered for transmission (l1gprs_handle_dl_block_ind, then
\* l1gprs_handle_rts_ind).  A PDCH without TBFs is checked for all the same.
DlBlock(t, gap) ==
  /\ t \in gprs.enabled
  /\ fn' = (fn + gap) % HyperFrame
  /\ \E g \in {CheckPending(gprs, fn')} :
       gprs' = CheckPending(g, (fn' + 1) % HyperFrame)

\* Would a data block for this TFI be delivered on timeslot t?
\* (l1gprs_pdch_filter_dl_block)
Delivered(t, tfi) == tfi \in gprs.dl_tfi_mask[t]

Empty == [tbf_list |-> {}, tbf_list_pending |-> <<>>,
          count |-> [x \in Tns \X Counter |-> 0],
          dl_tfi_mask |-> [t \in Tns |-> {}],
          enabled |-> {}]

\* The state is freed and, with the next packet channel, allocated anew; the
\* scheduler is reset on the way.
Restart == gprs' = Empty /\ UNCHANGED fn

-----------------------------------------------------------------------------
Init == gprs = Empty /\ fn = 0

Starts == {Now} \cup {(fn + d) % HyperFrame : d \in 0 .. (Horizon - 1)}

Next ==
  \/ \E tbf \in Tbf, start \in Starts : CfgReq(tbf, start)
  \/ \E ref \in UlRef : ReleaseReq("ul", ref)
  \/ \E ref \in DlRef : ReleaseReq("dl", ref)
  \/ \E t \in Tns, gap \in 0 .. MaxGap : DlBlock(t, gap)
  \/ Restart

NextBlock == \E t \in Tns, gap \in 1 .. MaxGap : DlBlock(t, gap)

\* A timeslot that is set up delivers blocks, some of which may be missed:
\* WF_vars(NextBlock), with its ENABLED spelled out, since a later block
\* always changes fn.
Spec ==
  /\ Init
  /\ [][Next]_vars
  /\ <>[](gprs.enabled # {}) => []<><<NextBlock>>_vars

-----------------------------------------------------------------------------
Pending == {gprs.tbf_list_pending[i].tbf : i \in 1 .. Len(gprs.tbf_list_pending)}

TypeOK ==
  /\ gprs.tbf_list \subseteq Tbf
  /\ Len(gprs.tbf_list_pending) <= PendingCap
  /\ \A i \in 1 .. Len(gprs.tbf_list_pending) :
       gprs.tbf_list_pending[i] \in [tbf : Tbf, start : Blocks]
  /\ gprs.count \in [Tns \X Counter -> 0 .. 255]
  /\ gprs.dl_tfi_mask \in [Tns -> SUBSET Tfi]
  /\ gprs.enabled \subseteq Tns
  /\ fn \in Blocks
  /\ \A b, c \in gprs.tbf_list : b.dir = c.dir /\ b.ref = c.ref => b = c

\* The counters of a timeslot count the TBFs that use it: no chain of
\* configurations, reconfigurations, overdue starts and releases, in whatever
\* order they take effect, leaves a counter behind or takes one below zero
\* (what the OSMO_ASSERTs of the decrements ask for).
CountsAgree ==
  \A t \in Tns :
    LET Active(dir)  == {b \in gprs.tbf_list : b.dir = dir /\ t \in b.slots}
        Waiting(dir) == {i \in 1 .. Len(gprs.tbf_list_pending) :
                           LET b == gprs.tbf_list_pending[i].tbf
                           IN  b.dir = dir /\ t \in b.slots}
    IN  \A dir \in {"ul", "dl"} :
          /\ gprs.count[<<t, dir>>] = Cardinality(Active(dir))
          /\ gprs.count[<<t, PendingOf(dir)>>] = Cardinality(Waiting(dir))

\* The lower layers were told about every timeslot that is in use by a TBF,
\* active or pending, and about no other: moving a TBF from pending to active
\* neither loses the timeslot nor leaves one on that nobody uses.
EnabledAgrees ==
  gprs.enabled = UNION {b.slots : b \in gprs.tbf_list \cup Pending}

\* A pending configuration takes effect, or is gone with the whole state,
\* though blocks are missed and the frame number wraps in between.
PendingTakesEffect ==
  \A tbf \in Tbf : tbf \in Pending ~> tbf \notin Pending

\* A Downlink TBF that is active receives the blocks sent to its TFI
\* (l1gprs.c: a pending request is "moved/merged into the main list at
\* start_fn time").
OwnBlocksDelivered ==
  \A b \in gprs.tbf_list :
    b.dir = "dl" => \A t \in b.slots : Delivered(t, b.tfi)
=============================================================================
