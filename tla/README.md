# TLA+ models of OsmocomBB

OsmocomBB is a GSM mobile station in three layers: a layer 1 (the *firmware* on a
Calypso phone, or *trxcon* on a host with an SDR or the simulated `fake_trx`
below it), a *layer23* host application above it (`mobile`, `modem` and smaller
tools), and L1CTL messages between the two. This directory holds TLA+ modules that
model its control logic, TLC configurations that check them, and TLAPS proofs.

## 1. The system: components, state, interaction

| component | state it keeps | operations | correct when |
|---|---|---|---|
| trxcon: transceiver interface (`src/host/trxcon/src/trx_if.c`) | FSM, `prev_state`, `powered_up`, the queue `trx_ctrl_list`, `retry_cnt`, response timer | `trx_ctrl_cmd`, `trx_ctrl_send`, `trx_ctrl_timer_cb`, `trx_ctrl_read_cb`, open, close | commands are answered in order and none is stuck; FSM and `powered_up` follow the transceiver |
| trxcon: L1CTL and FSM (`l1ctl.c`, `trxcon_fsm.c`, `trxcon_shim.c`, `trxcon_main.c`) | FSM state, `fi_data` (power scan), `l1p` (ARFCN, TA), `gprs` | one handler per L1CTL request and per event from below | data belongs to one state; scans end; what the FSM believes of the transceiver is true |
| trxcon: TDMA scheduler (`sched_trx.c`, `sched_prim.c`, `sched_mframe.c`) | `ts[]`, per logical channel burst buffers and masks, Tx queue, last processed frame | configure/delete timeslots, `l1sched_handle_rx_burst`, `l1sched_pull_burst`, enqueue | timeslots agree with the transceiver; blocks are whole, in order, in their own frames |
| trxcon: channel handlers (`sched_lchan_*.c`) | in the channel | rx/tx of one burst | as above, for each channel type |
| GPRS L1 (`src/shared/l1gprs.c`) | active and pending TBFs, use counters, TFI masks | TBF configuration, block indication, RTS | derived counters agree with the lists; starting times take effect |
| fake_trx (`src/target/trx_toolkit`) | running, frequencies, hopping, TA | TRXC commands | the transceiver end of the TRXC protocol |
| firmware L1 scheduler (`src/target/firmware/layer1`: `tdma_sched.c`, `mframe_sched.c`, `sync.c`, `prim_*.c`, `l23_api.c`) | ring of TDMA buckets, multiframe tasks with `safe_fn`, pages of the DSP, state of the search, one-shot events, completions | frame interrupt `l1_sync`; the main loop executes completions and L1CTL requests | each item runs in its frame, once; a response reads what its command asked for; a client is answered |
| firmware comm (`comm/sercomm.c`, `comm/timer.c`, `comm/msgb.c`) | DLCI queues, framer states, timer list | pull/push an octet, send a message, run timers | messages arrive unmixed; timers fire once |
| layer23 SAP and SIM (`common/sap_fsm.c`, `sap_interface.c`, `sim.c`) | SAP FSM, message size, SIM job queue | requests, responses, status indications, timeouts | each job gets its own answer, or an error |
| layer23 mobile RR (`mobile/gsm48_rr.c`) | RR state, access history, T31xx, t_starting, t_rel_wait | random access, immediate assignment, establishment, release; handover, measurements, group calls | an assignment answers an access of this attempt; a connection that was asked for ends once; nothing stays half built |
| layer23 mobile MM (`mobile/gsm48_mm.c`) | MM state, list of MM connections, T32xx | requests of CC/SS/SMS, primitives of RR, MM messages, location updating, authentication | connections of MM and transactions of its users agree; whatever waits is timed |
| layer23 mobile CC and layer 4 (`mobile/gsm48_cc.c`, `transaction.c`, `mnccms.c`) | transactions with their state and timer; the user's list of calls | messages of the network, MNCC requests, timers; dial, answer, hold, hang up | the user's calls and the transactions agree; a call goes forward until it is gone |
| layer23 mobile PLMN/cell selection, SS, SMS; modem; misc tools | protocol machines | events and timers | per the 3GPP specifications |
| virt_phy, osmocon, gprsdecode, calypso_pll, rita_pll, fb_tools | — | — | — |

Interaction. layer23 sends L1CTL requests over a Unix socket (`l1ctl_server.c`) or, with
a phone, over sercomm. In trxcon, `l1ctl.c` turns each into an event of `trxcon_fsm.c`,
whose handlers call the scheduler and `trx_if.c`; the scheduler calls back (a timeslot
was set up or taken down, a block was received, a prim was sent), and so does
`trx_if.c` (a measurement was answered, the interface failed). `trx_if.c` talks to the
transceiver over UDP: TRXC for commands, TRXD for bursts. All of trxcon is one thread
around `osmo_select_main`, so that a handler with every call it makes is one step;
what is concurrent is the peer at the other end of each socket, and the timers.

In the firmware two activities share everything: the frame interrupt (every 4.615 ms) and
the main loop, which takes locks only here and there. In `mobile`, all layers are one
thread: a request goes down by function calls, with its whole effect, and what a layer has
to say upwards is put on a queue; `mobile_work` (`app_mobile.c:69`) serves the queues in a
fixed round until all are empty, and only then timers, layer 1 and the user are looked at.

What is hard: commands that are repeated while their answers are late; FSM state saved
and restored around a command; caches of the transceiver's state (ARFCN, TA, timeslots);
work continued only by an answer or only by the next received burst; incremental
counters; frame numbers that wrap; the Uplink being clocked by Downlink bursts that
may be lost; resets in the main loop while the interrupt runs what they reset; queues in which
a release going up crosses a request going down; timers that outlive their phase.
`PROJECT.json` lists the hazards, each at its line, with the properties that
would catch it.

## 2. Modules

| module | models | composes |
|---|---|---|
| `TrxCtrl` | what the command queue promises (abstract) | |
| `TrxIf` | TRXC in `trx_if.c`, the UDP link, `fake_trx` | implements `TrxCtrl` |
| `TrxIf_proofs` | proofs about `TrxIf` | extends `TrxIf` |
| `Trxcon` | L1CTL handlers, `trxcon_fsm.c`, timeslot table, transceiver | instances `TrxIf` as `Phy` |
| `Trxcon_proofs` | proofs about `Trxcon` | extends `Trxcon`, `Inductions` |
| `L1Gprs` | `l1gprs.c` | |
| `L1Gprs_proofs` | proofs about `L1Gprs` | extends `L1Gprs`, `Inductions` |
| `Pdch` | one packet data timeslot: `sched_trx.c`, `sched_lchan_pdtch.c`, RTS in `trxcon_fsm.c` | |
| `Pdch_proofs` | proofs about `Pdch` | extends `Pdch`, `Inductions` |
| `L1Sync` | the firmware's layer 1: frame interrupt, schedulers, search for a cell, main loop | |
| `L1Sync_proofs` | proofs about `L1Sync` | extends `L1Sync`, `Inductions` |
| `RrLink` | the radio connection as MM sees it: operators (abstract) | |
| `RrService` | the service of RR as a specification, with the queue to MM (abstract) | extends `RrLink` |
| `Rr` | random access to release in `gsm48_rr.c`, with what LAPDm and the cell selection do of it | implements `RrService` |
| `Rr_proofs` | proofs about `Rr`: the history of accesses, the timers, the refinement of `RrService`, the bounds | extends `Rr` |
| `MmConn` | MM connections in `gsm48_mm.c` | |
| `Cc` | call control, `gsm48_cc.c`, one transaction | |
| `Mncc` | layer 4, `mnccms.c`, the list of calls | |
| `Call` | a mobile's calls: all queues, timers, the user, the network | instances `Mncc`, `Cc`, `MmConn`, `RrLink` |
| `Inductions` | lemmas: induction, and lists walked while entries are freed | |
| `Call_proofs` | proofs about `Call`, layer by layer and composed | extends `Call`, `Inductions` |
| `MCTrxIf`, `MCTrxcon`, `MCL1Gprs`, `MCPdch`, `MCL1Sync`, `MCRr`, `MCCall` | instances for TLC | |

State and actions keep the names of the code where they can.

**TrxIf.** `trx_ctrl_list`, `retry_cnt` (of the head; all others are 0), `trx_ctrl_timer`
(armed?), `fi_state`, `prev_state`, `powered_up` are the fields of `struct trx_instance`;
`cmdNet` and `rspNet` are the datagrams on the way, `radio` the transceiver. `Submit` is
`trx_ctrl_cmd` for all commands of one PHYIF command (`Expand`), `Resend` and `GiveUp` are
`trx_ctrl_timer_cb`, `ReadStray`, `ReadError` and `ReadAnswer` the three outcomes of
`trx_ctrl_read_cb`, `Terminate` the cleanup of the FSM, `Execute` the transceiver's handling of
one command and its answer. The measurement callback queues the next `MEASURE` while
the answered one is still in the list; `ReadAnswer(more)` is that whole step.
Payloads are abstract: an argument is a tagged tuple. A frequency that cannot be
converted (`BadArfcn`) ends the handler before anything is queued.

**Trxcon.** One action per L1CTL request that changes the configuration, per event from
below and per datagram. All commands that a handler issues reach the queue together
(`Issue`). `ts` is the combination of each timeslot, `arfcn` and `ta` are `l1p.*`, `scan` is
`fi_data`, `pdchs` the timeslots that `l1gprs` reports in use, `air` what the transceiver
was last told. Requests that the FSM does not accept in its state have no action: they
are logged and dropped. `BadNr` are the ARFCNs that no frequency is defined for: nothing is queued for
them, and the handlers that ignore the error go on. `late` is auxiliary: a command was repeated while it, or its answer, was
still on its way, since the instance last connected.

**L1Gprs.** `gprs` is `struct l1gprs_state` with the TBF lists, the four counters per
timeslot (modulo 256), the TFI masks, and `enabled`, what `pdch_changed_cb` last said of
each timeslot. The operators are the functions of the file, from state to state
(`Link`/`Unlink` are the loops over the timeslots shared by all of them, `Move` one turn of the loop of
`l1gprs_check_pending_tbfs`); the actions are the two
configuration requests and the block indication with the RTS that follows it. Time is
counted in blocks.

**Pdch.** `rx` and `tx` are the two halves of `struct l1sched_lchan_state`; a burst is known by its
frame number, received or made up; `Receive` is `trx_data_rx_cb`: the burst is handled
(`HandleRxBurst`, with `Lost` made up first), each block is handed up and answered by an RTS
(`grants`), and the Uplink burst of `fn + Advance` is pulled (`PullBurst`). `out` holds what
the step put out. `held` is a burst that was overtaken. `outage`, `begun` are auxiliary.
The multiframe has `Groups` groups of `Blks` blocks and one foreign frame (8 and 3 in the code).

**L1Sync.** `l1s` is what both activities share. `ring` are the buckets of `tdma_sched.c`, counted from
the current one, `w`/`r`/`used` the pages (`dsp_api.w_page`, `r_page`, `r_page_used`), `tasks`/`tgt`/`safe`
`mframe_sched`'s fields, the rest belongs to the search (`fbs`). `Frame` is `l1_sync`: the frame number,
the commands and responses of the bucket, the multiframe scheduler, the page toggles, atomically, since
nothing preempts it. A request of the main loop is a sequence of steps (`ResetReq`, `MframeReset`,
`TdmaReset`, `DspAbort`, `HwReset`, and `Fill`, one bucket per step), with frames in between. Each item
carries the page its command was written to, which the code does not know. `host` is what the
client made of the answers. `fn` is the raw frame number, which wraps at `Hyper` (`GSM_MAX_FN`), and `safe` the raw `safe_fn`, compared
as a plain number as the code does (`InTheWay`, `MframeScheduleSet`); `Hyper` stands for the value above all frame numbers that
`mframe_reset` gives it. `wrapped` is auxiliary: since the last reset, the frame number has wrapped over a block or over what `safe_fn`
still says of one.

**Rr.** `ms` is `struct gsm48_rrlayer` with the queue `rsl_upqueue` (`rsl`), the queue to MM (`up`), the state of
LAPDm (`l2`) and of the cell selection (`cell`, `data`); one operator per handler, from mobile to mobile. `Work` is
a turn of `gsm48_rsl_dequeue`, `MmTakes` of `gsm48_rr_dequeue`; the others are timers, requests of MM, and
what layer 1 and the network send. `net` are the accesses the network heard: it may answer any of them,
once, at any time, also when that attempt is over. An access is known by its attempt and number instead of random
reference and frame number.

**Cc, MmConn, Mncc.** Pure operators, from the state of one layer and an input to the new state and what is
sent up and down; `Cc` is written as the tables of `gsm48_cc.c` are (`datastatelist`,
`downstatelist`): rows of states, input, new state, timer and output.

**Call.** Composes them. `MmDoes`, `CcDoes`, `L4Does` carry a layer's output down to the radio in the same
step and append to the queues up (`rrUp`, `mmxx`, `events`, `mncc`). `Serve*` is one delivery of
`mobile_work`; timers, the radio, the network and the user act only when the loop is in
`osmo_select_main`. The radio is `RrLink`: what `Rr` implements is what `Call` is built on.

## 3. What the runs check

| run | states | shows |
|---|---|---|
| `TrxIf` | 341k | type; `WaitingMeansTimed`: a queue that waits has its timer and is in RSP_WAIT; `ActiveMeansPowered`: ACTIVE is never a leftover; `PoweredUpMeansRunning`: once settled, `powered_up` is true of the transceiver; `ImplementsCtrl`: refines `TrxCtrl`, liveness included |
| `PowerOn` (violation) | | a repeated POWERON is rejected, and the rejection is fatal |
| `Trxcon` | 798k | `StateOwnsItsData`, `ScanIsServed`, `SlotsAgree`, `ArfcnAgrees`, `AnswerIsOwn`, `ScanEnds` |
| `Tune` (violation) | | a fixed ARFCN after a hopping channel leaves the transceiver hopping |
| `L1Gprs` | 30k | `CountsAgree`, `EnabledAgrees`, `PendingTakesEffect` |
| `L1Gprs_Tfi` (violation) | | a TBF whose TFI changes by a pending request no longer receives its blocks |
| `Pdch` | 792k | `IndIsWhole`, `IndsInOrder`, `GrantIsUsed`, `OnlyBegunBlock` |
| `Pdch_Prim` (violation) | | a lost burst leads to a failing assertion |
| `L1Sync` | 182k | `ReadsOwnPage`, `OneBlock`, `FbsbAnswered` |
| `Rr` | 737k | `TimersAreOwn`, `AssignmentIsOwn`, `ImplementsLink` (refines `RrService`), `AccessEnds`, `ReleaseEnds` |
| `Call` | 1637k | `TransactionHasConnection`, `CallHasTransaction`, `ConfirmIsExpected`, `WaitsAreTimed`, `WaitIsKept`, `DedicatedIsActive`, `CampedMeansIdle`, `NoWayBack` |
| `Call_More` (violation) | | a call made between the release of the radio connection and the next camping blocks all later calls |

The comment above each property says what it means. Three of the violations are disagreements between two parts of the
repository that each look right alone; `L1Gprs_Tfi` is an order of two statements, `Call_More` a state that
is left behind until an event that comes too late.

### Bounds, and why they are enough

- `TrxIf`: queue of 3, 2 datagrams per direction, one request of each kind that the code
  treats differently, two measurements (the one case of two commands with the same name and
  different arguments) and one that cannot be converted. The code looks at the head of the
  queue and at whether it is empty; two or three entries show every case of that. What does
  not fit on the link is lost, which the code allows anyway. All three repetitions and the
  give-up happen (`retry_cnt` runs to `MaxRetry` = 3, the value of the code).
- `Linger = FALSE`: a datagram does not outlive the instance that sent it. With `TRUE`
  `PoweredUpMeansRunning` fails (the late POWEROFF of the last instance, or its late answers,
  reach the next), and the proof of that property supposes it; the other proofs about `TrxIf` do not.
- `Trxcon`: two timeslots, a queue of 5 (`DM_EST` issues up to 5 commands on two timeslots), one datagram per
  direction, a dedicated and a packet channel. Four ARFCNs, the second without a frequency (`BadNr`); one scan runs over it and
  one does not. A client tunes to the first three (`Serving`).
  The response timer expires at any time. Once a command has been repeated while it or its answer was under way (`late`), an
  answer may be taken for that of a later command of the same name: this is what the code does, and from there on
  `AnswerIsOwn`, `ScanIsServed`, `ScanEnds`, `SlotsAgree` and `ArfcnAgrees` are false of it and say nothing, until
  the instance connects again. The constraint `FewOnceLate` keeps TLC from looking into long queues in that part.
- A scan that comes to an ARFCN without a frequency stalls: `trxcon_fsm.c:205-220` ignores the error, nothing is queued, and
  nothing but a full reset or the loss of the instance ends it (`Stalled`). `ScanIsServed` and `ScanEnds` except it.
  ARFCN 0 is not among the ARFCNs: a new instance remembers it without having tuned to it (`trxcon_inst.c:74`), and
  `ArfcnAgrees` fails of an instance with one timeslot, `ArfcnNr = {0, 1}` and no scans. Any client that resets first never gets there.
- `L1Gprs`: two timeslots, one TBF per direction, two pending requests, which may be for the same
  TBF; a hyperframe of 12 blocks, starting times less than 2 blocks ahead, gaps of up to
  3 blocks: the frame number wraps, starting times are missed and pass in the wrong order.
- `Pdch`: a multiframe of one block and one foreign frame, a hyperframe of 5 multiframes,
  up to 5 frames missed in a row and delays of up to 3 frames: a gap may be within a block, over
  a block, over a multiframe, and over the wrap. With one block per multiframe the code's
  limit (one multiframe) is reached by few lost frames; with the code's 24 blocks the same
  comparisons are made on larger numbers. `Advance` = 0 is one value of `-f` (`fn_advance`):
  with a larger one a block granted at the end of the block before is always late for its own.
- `L1Sync`: 3 tries per burst search (12), 3 retries (the value of the code), 2 corrections of the
  frequency (30), a gap of 2 frames (11), a ring of 7 buckets (25), multiframe of 8 frames (51) with the
  blocks of two tasks overlapping, a hyperframe of two multiframes (53248): the frame number wraps at every point of a block, and between two. Every length of time the code compares is there, only shorter;
  the ring is as short as `L1SyncAssumption` (no set is longer than the ring) allows. The FB1 results that
  are too far off are not bounded, as in the code. `Preempts` bounds the frames within one
  request (a request takes less than a frame). `Untimely = FALSE`: a reset does not come just before
  the frame that ends a step of the search. With `TRUE`, `ReadsOwnPage` and `OneBlock` fail: the item in the current
  bucket survives `tdma_sched_reset` outside of the interrupt and continues a search that is over.
- `Rr`: 4 accesses, one more than the history holds. `UpCap` = 0: MM reads what it was told before the next event
  adds to it, as `mobile_work` does. `Breaks`, the phases in which the signal is lost or MM aborts, are
  random access, dedicated mode and release. In the others (waiting for a starting time, establishing
  layer 2, waiting for the UA to be sent) the code leaves a timer or the LAPDm link behind that hits the next
  connection, and the properties fail; see the hazards.
- `Call`: one call of the user and one of the network: two calls collide, wait and are held. `Burst` = 1: two events
  may come in before the queues are served, so that every pair of them meets in the queues; `AirCap`
  = 1 message of the network under way. The proofs about `Call` have none of these bounds. References are reused when nothing mentions them.
- Deadlock is checked where the system never rests (`Call`, `Rr`): the queues are always served and a
  radio event is always possible. The others may rest when the client is idle.

### Fairness

- `TrxIf`: `WF(Resend \/ GiveUp)`. The select loop runs expired timers before it sleeps.
  Nothing is assumed of the link and the transceiver.
- `Trxcon`: the same for `Resend`; the transceiver executes what arrives (`WF(Execute)`),
  and the loop reads what can be read. Loss is not excluded: `ScanEnds` then follows from the
  repetitions, or from the instance going down.
- `L1Gprs`: a timeslot that is set up keeps delivering blocks, some of which may be missed; nothing
  is assumed when no timeslot is set up, where no block can arrive.
- `Pdch` has no liveness property.
- `L1Sync`: frames go on (`WF(Frame)`) and the main loop runs (`WF(MainLoop)`). Nothing is assumed of what the DSP
  finds, nor that the client sends anything: `prim_fbsb.c:488-495` repeats FB1 without limit while its frequency is too far off, and
  `FbsbAnswered` says that a client is answered unless that happens (each such result leads to `FarOff`).
- `Rr`: the queues are served, timers expire, layer 1 confirms what was sent and finds or loses the
  cell it synchronises to, LAPDm gives up after N200. The network need not answer, MM need not
  do anything. `AccessEnds` excepts an assignment without a usable frequency, after which the code waits for nothing.
- `Call` states no fairness and has no liveness property: with all layers in one record, TLC does not
  get through the temporal check. What must not wait for ever is stated by invariants and an action property instead:
  a call that waits for its connection has it pending in MM or its answer queued, and while MM or a call is in a state that waits, a timer runs or RR is at work (`WaitsAreTimed`), and MM leaves
  such a state only with an answer to the connection that waits (`WaitIsKept`). Two waits have no timer, and neither is
  claimed to end: that of a connection over which CELL_SELECTED made MM idle (`Call_More` shows it; `WaitIsKept` excepts that step),
  and that for RR, which has its own timers and one case in which none of them runs (`Unrendered`, section 5).

### External behaviour assumed

libosmocore is not part of the modelled source. Its FSM ignores events dispatched to an
instance that is terminating (so that no SETSLOT is issued when the scheduler is freed in
`trxcon_fsm_pre_term_cb`); a state change to the same state runs the leave and enter
callbacks; `gsm0502_fncmp` compares modulo half a hyperframe. UDP loses, and in `Pdch`
overtakes, datagrams; duplicates are left out. LAPDm (`lapd_core.c`) is reduced to its states and to the
primitives it sends to RR. The DSP answers a command in the frame after the next, by the page it was
written to; what it finds is open. The network may send any message at any time on a connection.

## 4. What is proved

`TrxIf_proofs`, for all values of the constants under the three assumptions of
`TrxIf` (requests are well typed, capacities are natural, `Linger` is Boolean):

- `TypeCorrect`, `QueueIsTimed`, `ActiveIsPowered`: `TypeOK`, `WaitingMeansTimed` and
  `ActiveMeansPowered` are invariants of `Safety`;
- `QueueRefinement`: `Safety => Ctrl!Safety`, the safety half of `ImplementsCtrl`.

The inductive invariant is the conjunction of the three. `ActiveMeansPowered` is not inductive
alone: the answer to a `MEASURE` keeps the FSM in the state it has, and the next send saves
that state in `prev_state` unless it is RSP_WAIT; that it is RSP_WAIT whenever a command is
being answered is `WaitingMeansTimed`. That one in turn needs the types (the queue is a
sequence, the counter is within bounds). The proof that `Next` preserves it has one
step per action; `Send` and `Terminate`, on which most actions end, have lemmas of their own.
The refinement needs only the invariant's fact that a closed interface has an empty queue:
`Submit` is `Accept`, `ReadAnswer` is `Answer` (the consumer's commands are appended in the
same step), `GiveUp`, `ReadError` and `CloseReq` are `Fail`, the rest stutters.

`Rr_proofs`, for any number of accesses, wherever the signal is lost or MM aborts (also in the phases
that the run leaves out), and with any backlog for MM:

- `HistoryIsOwn`: `Spec => []IInv`;
- `AssignmentIsOwnTheorem`: `Spec => AssignmentIsOwn`.

That an assignment matches an access of the present attempt is a statement about the history
at the moment of the match; that nothing older can be in it is the invariant. An access comes into the
history when layer 1 confirms it, through a queue, so that the invariant covers all three
places: the history, the access being sent (`rach`), and the confirmations in `rsl`. It holds across the
start of an attempt because of two facts that the code does not state: a mobile in IDLE
has nothing being sent (`new_rr_state(IDLE)` resets layer 1), and a paging in the queue, which starts an attempt,
has no confirmation behind it (layer 1 sends one message per turn). Every handler but
`RxImmAss` is *harmless*: it keeps the invariant and does not take a channel. Harmless steps compose
(`HarmlessTwice`), so that each handler is proved from the lemmas about the blocks it is made of; `NextIsOwn` has one step per
action.

The second part of `Rr_proofs`, for any number of accesses and any backlog for MM, under the hypothesis `Breaks \subseteq Sound`:
the signal is lost, and MM aborts, in random access, dedicated mode and release only, as in the run. In the other
phases the properties are false of the code (see the hazards), so that the hypothesis cannot be dropped.

- `Situations`: the inductive invariant, one formula per state of RR: which timers run, what LAPDm does, what the
  queue `rsl` may hold and in which order, whether MM waits for an end;
- `TimersAreOwnTheorem`: `TimersAreOwn`, which reads it off;
- `ImplementsLinkTheorem`: `Spec => Service!Spec`, all of `ImplementsLink`. Every handler is shown to be a step of
  the service or a stutter, and to say to MM what the service says in that step. The situations are what excludes the
  handlers of the tables that would tell MM twice or not at all;
- `TypeCorrect`: `TypeOK`, with the bounds of the queues in it. `SizedInv` adds to the situations what MM may still be
  told (`Owes`): 2 messages of a connection being established (its confirmation and its end) and of a paging that waits in
  the queue, 1 of a channel in use or being released. What is in MM's queue and what is owed never exceed the bound together,
  since nothing begins that has no room; a message said is one owed less.

`L1Gprs_proofs`, for any timeslots, TBFs and hyperframe, under `Few`: fewer than 256 TBFs of a direction and fewer than 256 pending
requests. The four counters of a timeslot are `uint8_t` and incremented without a check (`l1gprs.h:46`), so that
more would wrap them to 0.

- `TypeCorrect`, `CountsAgreeTheorem`, `EnabledAgreesTheorem`.

The properties count sets that change with every operation, the code counts incrementally: the proof shows of each
operation that it changes set and counter alike (`Sound`, `PendingCounted`). Between the two halves of an operation, a
timeslot may be announced although nobody uses it yet or any more; `Enabled(g, S)` says for which. The loop of
`l1gprs_check_pending_tbfs` walks a list while it removes its entries; its invariant (`Turned`) is carried over the loop by
induction over the turns.

`TrxIf_proofs`, `PoweredUpIsRunning`: `PoweredUpMeansRunning` under `~Linger`. Its invariant, `PowerInv`, is about the
wire: while `powered_up` is set and no POWEROFF waits, nothing on the wire can stop the transceiver; while a POWERON waits, no
POWEROFF is behind a POWERON, at most one answer grants it, and it is granted only by a transceiver that runs; and the same
the other way round for POWEROFF.

`Trxcon_proofs`, for any timeslots, ARFCNs, scans and capacities under `TrxconAssumption` (channels of the right kinds, scans
within the ARFCNs, a timing advance of 0):

- `TypeCorrect`, `StateOwnsItsDataTheorem`, `ScanIsServedTheorem`, `SlotsAgreeTheorem`, `ArfcnAgreesTheorem`: the invariants
  of those names, of `Safety`, the last one under `0 \notin ArfcnNr`;
- `AnswerIsOwnTheorem`: `Safety => AnswerIsOwn`.

`SlotsAgree` and `ArfcnAgrees` speak of the moment when the queue has drained; what has to be kept is a statement about every
moment before. `SlotsTold` and `ArfcnTold` say that among the queued commands for a timeslot, or for the receiver, the *last*
one has the value that the instance remembers, or that none is queued and the transceiver has it already. A handler
that queues keeps this because it queues the new value last (`Behind`, `ToldBehind`); the answer keeps it because the command that leaves
the queue has been executed. The latter is `Wire`: at most one datagram is under way, it is the head of the
queue or its answer, and once it is answered the transceiver follows it (`Follows`). That holds while `~late`, and so does
all that is built on it (`InStep`); `Base`, the types and the data of the states, holds always, and is enough to have `InStep` again
when a new instance connects, since it starts with nothing queued and nothing under way.
The attempt to prove `ArfcnAgrees` without the hypothesis about ARFCN 0 failed at `FbsbReq` in a new instance, and TLC
then showed why: `talloc_zero` (`trxcon_inst.c:74`) leaves `l1p.band_arfcn` 0, a valid ARFCN, where a reset writes 0xffff
(`trxcon_fsm.c:65`); a search on ARFCN 0 that comes before a full reset does not tune (`trxcon_fsm.c:178`, "Only if current ARFCN
differs"), although the transceiver still has the ARFCN of the last client, or none. The clients of this repository
send a full reset first, which hides it.

`Call_proofs`, for any references of calls, any length of the queues (`Burst`, `AirCap`), any order in which events come in:

- `TypeCorrect`, `TransactionHasConnectionTheorem`, `ConfirmIsExpectedTheorem`,
  `WaitsAreTimedTheorem`, `DedicatedIsActiveTheorem`, `CampedMeansIdleTheorem`: the invariants of those names;
- `NoWayBackTheorem`, `WaitIsKeptTheorem`: `Spec => NoWayBack` and `Spec => WaitIsKept`.

Its first part has a lemma for each handler of each layer, about that layer alone: which connections it leaves, whom
it tells, which states and timers it leads to (of `Cc`, row by row of the two tables). The second lifts them to the whole mobile
(`World`): a handler with all it calls below it keeps the invariant, and only changes that the other layers bear. The
inductive invariant (`Sound`) is, for the properties that need each part:

- `Owed` is `TransactionHasConnection` and `WaitIsAnswered` (the part of `WaitsAreTimed` about a call without a timer), with the entries of `mmxx` named. It is kept because
  nothing that ends a connection is in `mmxx` while the connection is there (`Released`) and because a connection in
  PEND and its transaction agree while MM waits (`Waits`).
- `Confirmed`, for `ConfirmIsExpected`: a confirmation is the first thing said of its call but for SYNC_IND, its call waits and its
  connection is no longer pending. It is created only while MM waits for an answer of the network. Why none is created for a
  call that has been hung up meanwhile: the hang-up released the connection, and what MM had asked is forgotten
  before it asks again (`Unasked`: no CM SERVICE ACCEPT in the queue, no question on the connection). It is gone before the user
  acts again (`Passed`): the queue of MM is passed in each round before the user is looked at.
- `Unknown` and `Early`: neither the network nor layer 4 has heard of a call that waits for its connection, so that no message
  of either takes it out of that state. `NoWayBack` and `Confirmed` need it.
- `Air`: where there is no radio connection, MM's connections in DEDIC are about to be released, and whatever in the queue of RR
  would raise MM again comes before that release. With `Rests` (a mobile that camps is idle, or will be told) this gives
  `CampedMeansIdle`.
- `Sane` and `TimedCalls`: the types, different references of the connections, `DedicatedIsActive` and the timers of `WaitsAreTimed`
  by the layer.

What `WaitsAreTimed` says of RR is an invariant of its own, `Promised`: while MM waits for the radio connection, RR is
setting it up or has its answer in the queue. It is proved beside `Sound`, together with `WaitIsKept`, since both ask the same of a handler:
that it begins no such wait without asking RR, and that it leaves no pending connection where MM does not wait (`Holds`, `Heeds`).

An entry that has been taken from a queue is in none: `Base` is what holds without it, and `RrEntryOk`, `MmxxEntryOk` say what
the entry stands for until its handler is done. That the order of `mobile_work` matters is in `TurnIs`: the queue of events
is served only when RR's is empty, so that no CELL_SELECTED overtakes a release.

`Pdch_proofs`, for any multiframe and hyperframe (a whole number of multiframes) and any bounds, under `PdchAssumption`:

- `TypeCorrect`, `IndsAreWhole` (`IndIsWhole`), `IndsAreInOrder` (`IndsInOrder`), `GrantsAreUsed` (`GrantIsUsed`), `OnlyBegunBlocks`
  (`OnlyBegunBlock`): all properties that the run checks.

Three facts carry it. The last frame processed is a frame of the channel and less than half a hyperframe old, so that the
modular comparison of the code tells what is before it (`Before`). The loop over the lost frames (`MakeUp`) steps from it
from one frame of the channel to the next, up to the frame before the one received, or does nothing (`MakeUpReaches`); this is an induction
over the length of the gap. And the bursts and frame numbers that the channel keeps are those of its present block, from the
first to the last frame processed (`Whole`), which is why four bursts are one block and the first number is the block's. For
the Uplink, each block queued or being sent is of one of the frames it was granted (`OwnPrim`), and what is stale is dropped before what is due is looked for.
The last two assumptions are needed and mild: all delays, gaps and one multiframe together are less than half of a
hyperframe (1.7 hours); a burst delayed for longer would be taken for a new one.

`L1Sync_proofs`, for any number of tries and retries, any gap, ring, multiframe and blocks that satisfy
`L1SyncAssumption` and `BlocksApart`:

- `L1SyncTypeCorrect`, `OwnPages`, `BlocksAlone`: `TypeOK` (with the room in each bucket), `ReadsOwnPage`, `OneBlock`. After the
  frame number has wrapped over a block (`wrapped`, until a reset), the ranges of the fields are proved; the room in the
  buckets and `ReadsOwnPage` are then only model-checked, and `OneBlock` does not hold (section 5).

Two hypotheses and two assumptions carry facts of the code and its clock. `~Untimely` and `Preempts <= 1` are those of the run: a reset
does not come right before the frame that ends a step of a search (with `Untimely` TLC finds `ReadsOwnPage` and `OneBlock` violated), and a request,
which takes far less than 4.6 ms, meets at most one frame. Neither can be dropped: with `Preempts = 2` TLC finds the same two
violated (a second frame within a reset reaches a bucket that no one asked about). `TypeOK` holds on the instance without them; its theorem has
them because it is read off the same invariant. `BlocksApart` says of a single task that the four bursts of a block are over, as
commands, before its next block begins: in the tables of Downlink blocks in `mframe_sched.c` the blocks of a task are at least four frames
apart. Blocks of different tasks may overlap in any way. `Slots >= 4` (8 in the code) is what the room needs: two items and a window.

No property here is inductive, since each speaks of the current bucket, and what is there was put into the ring many frames ago. The
inductive invariant (`IInv`) says what the whole ring holds. It is always in one of five phases, four in the order
in which a cell is found and used, and one for what comes after a wrap:

- `Resting`: nothing but what a reset left in the current bucket (`Left`), which is marked `Late` and ends nothing; here and in the
  two searches `safe` is as `mframe_reset` left it;
- `FbSearch`: each bucket holds at most one item of the search for the FB, none of which uses the pages;
- `SbSearch`: the ring holds the SB set as it is `d` frames before its end, `w` and `r` and the page of each response are functions of `d`;
- `Blocks`: bucket by bucket, which burst's command and which burst's response it has (`c`). Two responses are outstanding at most, `w`
  differs from `r` when their number is odd, and a response reads `r`, or the other page if one more is before it. `safe`
  is at most four frames ahead (`Soon`); no command is as far ahead as it is (`Due`), and while it is ahead each task that runs has a block that
  began accordingly: since its own blocks are apart it begins none, and a task that does not run has to wait;
- `Unruly`: from the wrap of the frame number over a block to the next reset, the ring holds items of blocks and nothing else.

`Frame` is proved phase by phase (`RestFrame`, `FbFrame`, `SbFrame`, `NbFrame`, and `UnrulyFrame`): the order of execution of a bucket of these shapes is
the order in which it was filled (`ShapedSorted`), each item does one of few things (`MissedIs`, `FoundIs`, `SbRespIs`, `NbResponse`), and the ring shifts. The steps of the main loop
take a phase to `Resting` or leave it as it is; `Fill` adds one bucket to it at a time.

Writing the proofs showed that two definitions had relied on the order in which TLC takes overlapping guards
of a CASE (`Phase` of `Rr`, `SetupInd` of `Mncc`); they are nested IFs now. Lists that the code filters are written as recursive
functions (`Omit`, `Drop`, `MakeUp` and `Stale` of `Pdch`, `Only` and `Executed` of `L1Sync`), since nothing is known to the provers of `SelectSeq`, `DelAllCmds` of `Trxcon` is one over the number of a timeslot, and `L4Does` as three
requests in a row, since no handler of layer 4 makes more.

Only model-checked: liveness (`ImplementsCtrl`'s second half, `ScanEnds`, `PendingTakesEffect`, `FbsbAnswered`,
`AccessEnds`, `ReleaseEnds`), which is beyond the prover; `CallHasTransaction` of `Call`, whose invariant would have to say for each
state of a call and each primitive in `mncc` what the user's list holds; `ReadsOwnPage` and the room in the buckets of `L1Sync` after a
wrap of the frame number.

## 5. What is not modelled, and why

Channel coding, burst contents, message parsing and logging (data that no property tells
apart). RACH, traffic, ciphering, AMR, SACCH and CCCH contents in trxcon. Encoder failures, and
activation of a channel again within a block, in `Pdch`. More than one L1CTL client. In the firmware:
power measurement, RACH, Uplink and traffic, gain and frequency control, one-shot events, the serial line,
timers. In `mobile`: handover, assignment, measurements, ciphering, group calls, SAPI 3 and location updates in RR;
location updating, authentication and detach in MM, and what a CM SERVICE REJECT or an ABORT makes of the SIM's data; supplementary services, SMS, DTMF and
in-call modification above it; the selection of PLMN and cell, of which `Rr` has only whether it camps. virt_phy,
the modem and the tools. Vendored libosmocore (but for LAPDm as RR sees it), hardware drivers whose other side
is not in the repository, and off-line tools will stay out.

A failure of `gsm48_rr_render_ma` in `gsm48_rr_dl_est` (`gsm48_rr.c:4163`) leaves RR in CONN PEND with T3126 stopped and nothing under
way: only a loss of the signal or an abort of MM ends it. `Rr` has it (`Unrendered`) and `AccessEnds` excepts it. The failures
of `gsm48_rr_tx_rand_acc` before an access (`gsm48_rr.c:2435-2459`) are left out: they need a selected cell without SI 3, but a cell is
stored, and its copy replaced, only with SI 1 to 3 (`gsm322.c:2668`, `gsm322.c:2555`), or a CCCH that
loses its data in CONN PEND, but only a new synchronisation does that. `EST_CONF` in IDLE, which the table
of RR accepts, needs a LAPDm link that outlived its connection and does not happen either.

`safe_fn` (`mframe_sched.c:508-513`) does not survive the wrap of the hyperframe, every 3.5 hours: it is compared as a plain number, so that it is
not raised any more once the frame number starts again at 0, until the frame number passes it. For half a hyperframe nothing is in the way
(`mframe_sched.c:529`), and tasks are switched while blocks of the old ones are under way; for the other half everything is,
and no new task begins, until `mframe_reset`. `L1Sync` has this; without its exception for `wrapped`, TLC finds `OneBlock` violated.

T308 (`gsm48_cc.c:256`) frees the transaction at its first expiry, although its comment speaks of a second one; `Cc` does what the
code does.

## 6. Plan

1. *(done)* trxcon's command queue and FSM, TBFs, packet data timeslot; proofs of the queue.
2. *(done)* the firmware's schedulers under the interrupt; calls through all layers of `mobile`; random access
   and release in RR, with the service of RR between the two; proof of `AssignmentIsOwn`.
3. *(done)* Proofs: `ImplementsLink` and the timers of `Rr`; the counters of `L1Gprs`; `powered_up` of `TrxIf`; all but one invariant
   of `Call`, and `NoWayBack`; all of `Trxcon` but `ScanEnds`; all of `Pdch`; the types and bounds of `Rr`; all of `L1Sync`
   but `FbsbAnswered`. Left: `CallHasTransaction` of `Call`.
4. One-shot events in `L1Sync` (`sched_gsmtime.c`).
5. `Sercomm`: two ends of the serial line, lost octets, messages unmixed.
6. `SapSim`: SAP client FSM and SIM job queue, answers late or never.
7. Handover and assignment in `Rr`; location updating in `MmConn`.
