-------------------------------- MODULE Pdch --------------------------------
(***************************************************************************)
(* One packet data timeslot of trxcon's scheduler: the PDTCH channel in     *)
(* both directions (sched_trx.c, sched_lchan_pdtch.c), fed by the Downlink  *)
(* bursts that arrive over UDP and may be lost or overtaken on the way.     *)
(*                                                                          *)
(* Every Downlink burst that arrives has two effects: it is processed, after*)
(* dummy bursts were substituted for those lost before it, and it asks for  *)
(* the Uplink burst of the frame Advance later.  A Downlink burst that is   *)
(* lost takes its request with it.                                          *)
(*                                                                          *)
(* Frames are numbered modulo HyperFrame.  A multiframe consists of groups  *)
(* of Blks blocks of four frames and one frame of another channel (in the   *)
(* code eight groups of three blocks).                                      *)
(***************************************************************************)
EXTENDS Integers, Sequences

CONSTANTS None,        \* no prim
          Blks,        \* blocks between two frames of another channel
          Groups,      \* groups in a multiframe
          HyperFrame,  \* number of frames after which fn wraps
          Advance,     \* trx->fn_advance
          MaxLoss,     \* bound on the frames missed in a row
          MaxDelay,    \* bound on the frames by which a burst is overtaken
          GrantCap,    \* bound on the RTS.ind a client remembers
          QueueCap     \* bound on the length of tx_prims

Group  == 4 * Blks + 1
Period == Groups * Group

ASSUME PdchAssumption ==
  /\ {Blks, Groups, HyperFrame, Advance, MaxLoss, MaxDelay, GrantCap, QueueCap} \subseteq Nat
  /\ Blks > 0 /\ Groups > 0 /\ HyperFrame > 0
  /\ HyperFrame % Period = 0
  /\ MaxLoss + Period + Advance < HyperFrame \div 2
  /\ MaxDelay + Period < HyperFrame \div 2
  /\ None \notin Nat

Frames == 0 .. (HyperFrame - 1)
Sum(fn, n)    == (fn + n) % HyperFrame
Before(a, b)  == (b - a) % HyperFrame \in 1 .. ((HyperFrame \div 2) - 1)

IsPdtch(fn) == fn % Group < 4 * Blks
Bid(fn)     == (fn % Group) % 4
First(fn)   == fn - Bid(fn)     \* the first frame of the block
\* The first frame of the block after the one that starts with fn.
NextBlock(fn) == Sum(fn, IF fn % Group = 4 * (Blks - 1) THEN 5 ELSE 4)

VARIABLES air,     \* the frame the transceiver sends next
          held,    \* a burst that was overtaken, or None
          rx,      \* the Downlink half of the lchan
          tx,      \* the Uplink half of the lchan
          grants,  \* RTS.ind the client has not dealt with
          out,     \* what the last step put out
          aborted  \* an assertion has failed

vars == <<air, held, rx, tx, grants, out, aborted>>

\* A burst is known by its frame, received or substituted.
\* The masks are kept as the set of the bits of the current block; high tells
\* whether a bit of an earlier block is left in rx_burst_mask.
IdleRx == [num_proc |-> FALSE, last_proc |-> 0, mask |-> {}, high |-> FALSE,
           bursts |-> [b \in 0 .. 3 |-> b],
           meas |-> <<0, 0, 0, 0>>,
           outage |-> FALSE]   \* auxiliary: since a gap nothing made up for
IdleTx == [tx_prims |-> <<>>, prim |-> None, mask |-> {}, bursts |-> None,
           begun |-> None]   \* auxiliary: the block whose first burst was asked for last

NoOut == [ind |-> <<>>, burst |-> None, cnf |-> None]

-----------------------------------------------------------------------------
(* Downlink.                                                                 *)

\* Mutated form of RxPdtch: the mask is not moved on with the block.
RxPdtchKeepsMask(s, fn) ==
  LET bid    == Bid(fn)
      bursts == [s.lchan.bursts EXCEPT ![bid] = fn]
      meas   == Append(Tail(s.lchan.meas), fn)
      lchan  == [s.lchan EXCEPT !.bursts = bursts, !.meas = meas,
                                !.mask = @ \cup {bid},
                                !.outage = @ /\ bid # 0]
  IN  IF s.lchan.mask = {} /\ bid # 0
        THEN s
        ELSE [lchan |-> lchan,
              ind   |-> IF bid # 3 THEN s.ind
                        ELSE Append(s.ind, [fn |-> meas[1], bursts |-> bursts,
                                            end |-> fn, outage |-> lchan.outage])]

\* rx_pdtch_fn, for a block of four bursts.  The frame number of a DATA.ind is
\* the one of the fourth last burst measured.
RxPdtch(s, fn) ==
  LET bid    == Bid(fn)
      bursts == [s.lchan.bursts EXCEPT ![bid] = fn]
      meas   == Append(Tail(s.lchan.meas), fn)
      lchan  == [s.lchan EXCEPT !.bursts = bursts, !.meas = meas,
                                !.outage = @ /\ bid # 0]
  IN  IF s.lchan.mask = {} /\ ~s.lchan.high /\ bid # 0
        THEN s
        ELSE IF bid # 3
        THEN [s EXCEPT !.lchan = [lchan EXCEPT !.mask = @ \cup {bid}]]
        ELSE [lchan |-> [lchan EXCEPT !.mask = {}, !.high = TRUE],
              ind   |-> Append(s.ind, [fn |-> meas[1], bursts |-> bursts,
                                       end |-> fn, outage |-> lchan.outage])]

Processed(s, fn) ==
  LET r == RxPdtch(s, fn)
  IN  [r EXCEPT !.lchan.last_proc = fn, !.lchan.num_proc = TRUE]

Elapsed(fn) == (fn - rx.last_proc) % HyperFrame

\* Mutated form of Lost: one frame too few is made up for.
LostOffByOne(fn) ==
  IF rx.num_proc /\ Elapsed(fn) \in 2 .. Period THEN Elapsed(fn) - 2 ELSE 0

\* subst_frame_loss: the number of frames that were missed before fn; too many
\* are not made up for.
Lost(fn) ==
  IF rx.num_proc /\ Elapsed(fn) \in 1 .. Period THEN Elapsed(fn) - 1 ELSE 0

\* Its loop: the n frames after the last one processed, if of this channel.
MakeUp(s, n) ==
  LET frame(i)        == Sum(s.lchan.last_proc, i)
      made[i \in 0 .. n] ==
        IF i = 0 THEN s
        ELSE IF IsPdtch(frame(i)) THEN Processed(made[i - 1], frame(i))
        ELSE made[i - 1]
  IN  made[n]

\* Mutated form of TooLate: bursts are taken in whatever order they come.
NeverTooLate(fn) == FALSE

\* The burst was made up for already.
TooLate(fn) == rx.num_proc /\ Before(fn, rx.last_proc)

\* l1sched_handle_rx_burst.
HandleRxBurst(fn) ==
  LET gap   == rx.num_proc /\ Elapsed(fn) > Period
      start == [lchan |-> [rx EXCEPT !.outage = @ \/ gap], ind |-> <<>>]
  IN  IF ~IsPdtch(fn) \/ TooLate(fn)
        THEN [lchan |-> rx, ind |-> <<>>]
        ELSE Processed(MakeUp(start, Lost(fn)), fn)

-----------------------------------------------------------------------------
(* Uplink.                                                                   *)

\* Mutated form of Dequeue: stale prims stay in the queue.
DequeueKeepsStale(q, fn) ==
  IF q # <<>> /\ Head(q) = fn THEN [got |-> fn, rest |-> Tail(q)]
  ELSE [got |-> None, rest |-> q]

\* The number of prims at the head of the queue whose frame has passed.
Stale(q, fn) ==
  CHOOSE n \in 0 .. Len(q) : /\ \A i \in 1 .. n : Before(q[i], fn)
                             /\ n < Len(q) => ~Before(q[n + 1], fn)

\* prim_dequeue_pdtch: stale prims are dropped, the head of what is left is
\* taken when it is for this frame.
Dequeue(q, fn) ==
  LET left == SubSeq(q, 1 + Stale(q, fn), Len(q))
  IN  IF left # <<>> /\ Head(left) = fn
        THEN [got |-> fn, rest |-> Tail(left)]
        ELSE [got |-> None, rest |-> left]

\* tx_pdtch_fn.  The result is the new lchan, the prim whose burst is sent,
\* the prim confirmed, and whether the assertion fails.
Nothing(t) == [lchan |-> t, burst |-> None, cnf |-> None, abort |-> FALSE]

FirstBurst(fn) ==
  LET d == Dequeue(tx.tx_prims, fn)
      t == [tx EXCEPT !.tx_prims = d.rest, !.mask = {}, !.begun = fn]
  IN  IF d.got = None THEN Nothing(t)
      ELSE IF tx.prim # None THEN [Nothing(t) EXCEPT !.abort = TRUE]
      ELSE [Nothing([t EXCEPT !.prim = d.got, !.bursts = d.got, !.mask = {0}])
              EXCEPT !.burst = d.got]

\* Mutated form of LaterBurst: the bursts of a block that was not begun are
\* sent as well.
LaterBurstUnguarded(bid) ==
  [lchan |-> [tx EXCEPT !.mask = @ \cup {bid},
                        !.prim = IF bid = 3 THEN None ELSE @],
   burst |-> tx.bursts, cnf |-> IF bid = 3 THEN tx.prim ELSE None,
   abort |-> FALSE]

LaterBurst(bid) ==
  IF 0 \notin tx.mask THEN Nothing(tx)
  ELSE [lchan |-> [tx EXCEPT !.mask = @ \cup {bid},
                             !.prim = IF bid = 3 THEN None ELSE @],
        burst |-> tx.bursts, cnf |-> IF bid = 3 THEN tx.prim ELSE None,
        abort |-> FALSE]

\* l1sched_pull_burst.
PullBurst(fn) ==
  IF ~IsPdtch(fn) THEN Nothing(tx)
  ELSE IF Bid(fn) = 0 THEN FirstBurst(fn) ELSE LaterBurst(Bid(fn))

-----------------------------------------------------------------------------
\* trx_data_rx_cb: a Downlink burst arrives.  Each DATA.ind is followed by an
\* RTS.ind for the block after it; a client that is behind gives up the
\* oldest.
Receive(fn) ==
  LET down == HandleRxBurst(fn)
      up   == PullBurst(Sum(fn, Advance))
      all  == grants \o [i \in 1 .. Len(down.ind) |-> NextBlock(down.ind[i].fn)]
  IN  /\ rx' = down.lchan
      /\ tx' = up.lchan
      /\ aborted' = up.abort
      /\ out' = [ind |-> down.ind, burst |-> up.burst, cnf |-> up.cnf]
      /\ grants' = IF Len(all) > GrantCap
                     THEN SubSeq(all, Len(all) - GrantCap + 1, Len(all)) ELSE all

\* The transceiver's next burst arrives, overtakes one, is lost, or is held
\* up on the way.
\* Is frame fn at most n frames old, or yet to come?
Within(n, fn) == (air - fn) % HyperFrame \notin (n + 1) .. (HyperFrame \div 2)

Arrive ==
  /\ held # None => Within(MaxDelay - 1, held)
  /\ Receive(air)
  /\ air' = Sum(air, 1)
  /\ UNCHANGED held

ArriveLate ==
  /\ held # None
  /\ Receive(held)
  /\ held' = None
  /\ UNCHANGED air

\* Frames may be missed as long as all that is remembered is recent.
InReach ==
  /\ rx.num_proc => Within(MaxLoss, rx.last_proc)
  /\ held # None => Within(MaxDelay - 1, held)
  /\ \A i \in 1 .. Len(grants) : Within(MaxLoss, grants[i])
  /\ \A i \in 1 .. Len(tx.tx_prims) : Within(MaxLoss, tx.tx_prims[i])

Lose ==
  /\ InReach
  /\ air' = Sum(air, 1) /\ out' = NoOut
  /\ UNCHANGED <<held, rx, tx, grants, aborted>>

Hold ==
  /\ held = None /\ InReach
  /\ held' = air
  /\ air' = Sum(air, 1) /\ out' = NoOut
  /\ UNCHANGED <<rx, tx, grants, aborted>>

\* A burst held up for as long as that is lost.
HoldEnds ==
  /\ held # None
  /\ held' = None /\ out' = NoOut
  /\ UNCHANGED <<air, rx, tx, grants, aborted>>

\* GPRS_UL_BLOCK.req: the client uses the oldest grant, or lets it pass.
UlBlockReq ==
  /\ grants # <<>>
  /\ Len(tx.tx_prims) < QueueCap
  /\ tx' = [tx EXCEPT !.tx_prims = Append(@, Head(grants))]
  /\ grants' = Tail(grants) /\ out' = NoOut
  /\ UNCHANGED <<air, held, rx, aborted>>

Pass ==
  /\ grants # <<>>
  /\ grants' = Tail(grants) /\ out' = NoOut
  /\ UNCHANGED <<air, held, rx, tx, aborted>>

\* The timeslot is deleted and configured anew.
Reconfigure ==
  /\ rx' = IdleRx /\ tx' = IdleTx /\ out' = NoOut
  /\ UNCHANGED <<air, held, grants, aborted>>

Init ==
  /\ air \in 0 .. (Period - 1)
  /\ held = None
  /\ rx = IdleRx
  /\ tx = IdleTx
  /\ grants = <<>>
  /\ out = NoOut
  /\ aborted = FALSE

Next ==
  /\ ~aborted
  /\ \/ Arrive
     \/ ArriveLate
     \/ Lose
     \/ Hold
     \/ HoldEnds
     \/ UlBlockReq
     \/ Pass
     \/ Reconfigure

Spec == Init /\ [][Next]_vars
-----------------------------------------------------------------------------
\* What is handed up of a Downlink block.
Block == [fn : Frames, bursts : [0 .. 3 -> Frames], end : Frames,
          outage : BOOLEAN]

TypeOK ==
  /\ air \in Frames /\ held \in Frames \cup {None}
  /\ rx \in [num_proc : BOOLEAN, last_proc : Frames, mask : SUBSET (0 .. 2),
             high : BOOLEAN, bursts : [0 .. 3 -> Frames], meas : Seq(Frames),
             outage : BOOLEAN]
  /\ Len(rx.meas) = 4
  /\ tx \in [tx_prims : Seq(Frames), prim : Frames \cup {None},
             mask : SUBSET (0 .. 3), bursts : Frames \cup {None},
             begun : Frames \cup {None}]
  /\ 0 \in tx.mask => tx.bursts # None
  /\ Len(tx.tx_prims) <= QueueCap
  /\ grants \in Seq(Frames) /\ Len(grants) <= GrantCap
  /\ out \in [ind : Seq(Block), burst : Frames \cup {None},
              cnf : Frames \cup {None}]
  /\ aborted \in BOOLEAN

\* A block is handed up with the four bursts of that block, received or made
\* up for, and with the number of its first frame, which decides what block
\* the client is granted next; whatever was lost or overtaken, unless more
\* than a multiframe was missed since the block began.
IndIsWhole ==
  \A i \in 1 .. Len(out.ind) :
    LET d == out.ind[i]
    IN  ~d.outage => /\ d.fn = First(d.end)
                     /\ \A b \in 0 .. 3 : d.bursts[b] = d.fn + b

\* Blocks are handed up in order and none is handed up twice, though lost
\* bursts are made up for and may arrive afterwards ("better drop it").
IndsInOrder ==
  [][ LET last == IF rx.num_proc THEN <<rx.last_proc>> ELSE <<>>
          ends == last \o [i \in 1 .. Len(out'.ind) |-> out'.ind[i].end]
      IN  \A i \in 1 .. (Len(ends) - 1) : Before(ends[i], ends[i + 1]) ]_vars

\* The frame whose Uplink burst the step asks for.
Requested == Sum(IF air' # air THEN air ELSE held, Advance)

\* A block the client sent in time goes out in its own frames, whatever
\* blocks before it have missed theirs, unless the prim before it still waits
\* for its confirmation.
GrantIsUsed ==
  [][ \A i \in 1 .. Len(tx.tx_prims) :
        (/\ Arrive \/ ArriveLate
         /\ tx.tx_prims[i] = Requested
         /\ IsPdtch(Requested) /\ Bid(Requested) = 0
         /\ \A j \in 1 .. (i - 1) : Before(tx.tx_prims[j], Requested)
         /\ tx.prim = None)
          => out'.burst = Requested ]_vars

\* Whatever is sent, and whatever is confirmed as sent, is of the block whose
\* first burst was asked for last: a block that has no prim ends the one before
\* it and stays silent in frames that may be granted to someone else.  That
\* bit 0 of tx_burst_mask is all that later bursts look at leaves one case, in
\* which the block begun last is repeated in frames that are not its own: the
\* request for the first burst of the next block was lost.
OnlyBegunBlock ==
  [][ Arrive \/ ArriveLate
        => {out'.burst, out'.cnf} \subseteq {None, tx'.begun} ]_vars

\* When the next prim is taken, the one before it was confirmed: the assertion
\* of tx_pdtch_fn holds.
PrimIsConfirmedFirst == ~aborted
=============================================================================
