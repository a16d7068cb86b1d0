------------------------------- MODULE L1Sync -------------------------------
(***************************************************************************)
(* Layer 1 of the firmware (target/firmware/layer1): the TDMA scheduler     *)
(* with its ring of buckets (tdma_sched.c), the multiframe scheduler        *)
(* (mframe_sched.c), the pages through which the ARM and the DSP exchange   *)
(* commands and results (sync.c), the search for a cell (prim_fbsb.c) and   *)
(* the L1CTL requests that start and end it (l23_api.c).                    *)
(*                                                                          *)
(* Two activities share this state: the frame interrupt (l1_sync, Frame)    *)
(* and the main loop, which a frame interrupt may preempt between any two   *)
(* of its steps.  The ring is counted from the current bucket.  A search    *)
(* has all of its steps (FB0, FB1, SB).  Power measurement, RACH, uplink,   *)
(* TCH, neighbour cells and the one-shot events of sched_gsmtime.c are left *)
(* out; tdma_sched_reset is one step of the main loop.                      *)
(***************************************************************************)
EXTENDS Naturals, Sequences

CONSTANTS Tries,     \* frames in which an FB task is polled (12)
          Retries,   \* FB0_RETRY_COUNT (3)
          AfcRetries,\* AFC_RETRY_COUNT (30)
          Gap,       \* delay from a found FB to the next task, in frames
          Ahead,      \* TDMASCHED_NUM_FRAMES - 1 (24)
          Slots,     \* TDMASCHED_NUM_CB (8)
          Cycle,     \* frames of a multiframe (51)
          Hyper,     \* GSM_MAX_FN, frames of a hyperframe (2715648)
          Trigger,   \* for a multiframe task, the frames where a block starts
          ResetIn,   \* states of the client in which it may send RESET_REQ
          Untimely,  \* a reset may meet a frame that ends a step of the search
          Preempts   \* bound: frame interrupts during one request (4.6 ms each)

Tasks == {"ccch", "dedic"}

ASSUME L1SyncAssumption ==
  /\ {Tries, Retries, AfcRetries, Gap, Ahead, Slots, Cycle, Hyper, Preempts}
       \subseteq Nat
  /\ Tries > 0 /\ Gap > 0 /\ Cycle > 0
  /\ Ahead >= Gap + Tries + 1 /\ Ahead >= Gap + 4 /\ Ahead >= 6
  /\ Slots >= 4 /\ Hyper % Cycle = 0 /\ Hyper >= 10
  /\ Trigger \in [Tasks -> SUBSET (0..(Cycle - 1))]
  /\ ResetIn \subseteq {"idle", "wait", "sync", "dedic"} /\ Untimely \in BOOLEAN

\* The blocks of one task do not overlap (sched_set_for_task of mframe_sched.c).
ASSUME BlocksApart ==
  \A t \in Tasks : \A a \in Trigger[t] : \A k \in 1..3 : (a + k) % Cycle \notin Trigger[t]

VARIABLES
  l1s,   \* the state that both activities share: struct l1s_state, dsp_api, fbs
  main,  \* what the main loop does
  host   \* the client at the other end of the serial line

vars == <<l1s, main, host>>

None == 2   \* no page
Late == 3   \* a reset out of the interrupt has left the item in its bucket

\* arg is the attempt, the FB mode or the burst; page is the page to which the
\* command of this response was written.
Item(cb, arg, mode) == [cb |-> cb, arg |-> arg, mode |-> mode, page |-> None]

Commands  == {"fb_cmd", "sb_cmd", "nb_cmd"}
Responses == {"fb_resp", "sb_resp", "nb_resp"}

Items == [cb : Commands \cup Responses, arg : 0..(Tries + 3), mode : {0, 1},
          page : {0, 1, None, Late}]

\* w, r are w_page and r_page, used is r_page_used; abort tells that an abort
\* is in the current bucket, where its priority makes it the last; compl is
\* the bit of L1_COMPL_FB and failed is fbs.mon.attempt >= 13; fn is the frame
\* number, safe is safe_fn, Hyper for any value that no frame number has.
\* wrapped is auxiliary: since the last reset, the frame number has wrapped over
\* a block, or over what safe_fn still says of one.
States ==
  [ring : [0..Ahead -> Seq(Items)], abort : BOOLEAN,
   w : {0, 1}, r : {0, 1}, used : BOOLEAN, compl : BOOLEAN, failed : BOOLEAN,
   retries : 0..Retries, afc : 0..AfcRetries,
   tasks : SUBSET Tasks, tgt : SUBSET Tasks, safe : 0..Hyper, fn : 0..(Hyper - 1),
   wrapped : BOOLEAN]

\* pc is "compl" at l1a_compl_execute, "loop" at l1a_l23_handler; the others are
\* places within a request.
Mains == [pc : {"compl", "loop", "mframe", "tdma", "abort", "hw", "fill"},
          for : {"none", "reset", "fbsb"}, next : 0..(Tries + 1),
          irqs : 0..Preempts]

\* No bucket ever lacks the two slots that l1s_win_init takes in a frame with
\* a window (tdma_schedule would drop the item).
TypeOK ==
  /\ l1s \in States /\ main \in Mains /\ host \in {"idle", "wait", "sync", "dedic"}
  /\ \A i \in 0..Ahead : Len(l1s.ring[i]) <= Slots - 2

-----------------------------------------------------------------------------
(***************************************************************************)
(* The TDMA scheduler and the pages.                                        *)
(***************************************************************************)
\* The sets of items, one sequence for each frame.
FbSet(mode) ==
  [i \in 1..(Tries + 2) |-> CASE i = 1 -> <<Item("fb_cmd", 0, mode)>>
                              [] i = 2 -> <<>>
                              [] OTHER -> <<Item("fb_resp", i - 2, mode)>>]

SbSet == << <<Item("sb_cmd", 1, 0)>>, <<Item("sb_cmd", 2, 0)>>, <<>>,
            <<Item("sb_resp", 1, 0)>>, <<Item("sb_resp", 2, 0)>> >>

NbSet == << <<Item("nb_cmd", 0, 0)>>, <<Item("nb_cmd", 1, 0)>>,
            <<Item("nb_resp", 0, 0), Item("nb_cmd", 2, 0)>>,
            <<Item("nb_resp", 1, 0), Item("nb_cmd", 3, 0)>>,
            <<Item("nb_resp", 2, 0)>>, <<Item("nb_resp", 3, 0)>> >>

\* tdma_schedule_set.
ScheduleSet(f, offset, set) ==
  [f EXCEPT !.ring = [i \in 0..Ahead |->
     IF i + 1 - offset \in DOMAIN set THEN @[i] \o set[i + 1 - offset] ELSE @[i]]]

\* Mutated form of SchedReset: the items of the next frames survive it.
NoSchedReset(f) == f

\* tdma_sched_reset: the current bucket keeps its items.
SchedReset(f) ==
  [f EXCEPT !.ring = [i \in 0..Ahead |-> IF i = 0 THEN @[0] ELSE <<>>]]

\* Mutated form of ResetHw: the page that the DSP writes is left as it is.
HalfResetHw(f) == [f EXCEPT !.w = 0, !.used = FALSE]

\* l1s_reset_hw
ResetHw(f) == [f EXCEPT !.w = 0, !.r = 0, !.used = FALSE]

\* A command is written to the present page, and so is its result.
Tagged(f, cb, arg, offset) ==
  LET Tag(it) == IF it.cb = cb /\ it.arg = arg THEN [it EXCEPT !.page = f.w] ELSE it
  IN [f EXCEPT !.ring[offset] = [i \in DOMAIN @ |-> Tag(@[i])]]

Failed(f) == [f EXCEPT !.failed = TRUE, !.compl = TRUE]

-----------------------------------------------------------------------------
(***************************************************************************)
(* What the items of a bucket do: the states in which each may end.         *)
(***************************************************************************)
\* Mutated form of Missed: the last attempt leaves the completion out.
SilentMiss(f, it) ==
  IF it.arg < Tries THEN f
  ELSE IF f.retries < Retries
       THEN [ScheduleSet(SchedReset(f), 1, FbSet(0)) EXCEPT !.retries = @ + 1]
       ELSE [SchedReset(f) EXCEPT !.failed = TRUE]

\* l1s_fbdet_resp, no FB: after the last attempt the task is started again.
Missed(f, it) ==
  IF it.arg < Tries THEN f
  ELSE IF f.retries < Retries
       THEN [ScheduleSet(SchedReset(f), 1, FbSet(0)) EXCEPT !.retries = @ + 1]
       ELSE Failed(SchedReset(f))

\* The other half of l1s_fbdet_resp: a result in mode 0 is followed by mode 1,
\* one in mode 1 by the SB, unless the frequency was too far off (not good).
\* There is no limit to the results in mode 1 that are.
Found(f, it, good) ==
  LET g == [SchedReset(ResetHw(f)) EXCEPT !.failed = FALSE]
  IN CASE it.mode = 0 /\ good -> ScheduleSet(g, 1, FbSet(1))
       [] it.mode = 0 /\ ~good /\ f.afc < AfcRetries
            -> [ScheduleSet(g, 1, FbSet(0)) EXCEPT !.afc = @ + 1]
       [] it.mode = 0 /\ ~good /\ f.afc = AfcRetries -> Failed(g)
       [] it.mode = 1 /\ good -> ScheduleSet(g, Gap, SbSet)
       [] it.mode = 1 /\ ~good -> ScheduleSet(g, Gap, FbSet(1))

At(pc) == main.pc = pc

\* The responses that end a step of the search though nothing was found, and
\* whether one may find something.  What l1s_reset leaves in the current
\* bucket runs in the next frame; unless Untimely it does neither.
LastAttempt(it) == <<it.cb, it.arg>> \in {<<"fb_resp", Tries>>, <<"sb_resp", 2>>}

MayFind(it) == Untimely \/ (it.page # Late /\ ~At("mframe") /\ ~At("tdma"))

FbResp(f, it) ==
  {Missed(f, it)}
  \cup {Found(f, it, good) : good \in IF MayFind(it) THEN BOOLEAN ELSE {}}

\* l1s_sbdet_resp with a CRC error, and with an SB, whose frame number becomes
\* the present one.
SbResp(f, it) ==
  {IF it.arg = 2 THEN Failed([f EXCEPT !.used = TRUE]) ELSE [f EXCEPT !.used = TRUE]}
  \cup {[ResetHw(IF it.arg = 2 THEN f ELSE [SchedReset(f) EXCEPT !.abort = TRUE])
           EXCEPT !.failed = FALSE, !.compl = TRUE, !.fn = fn, !.tgt = @ \cup {"ccch"}]
         : fn \in IF MayFind(it) THEN 0..(Hyper - 1) ELSE {}}

\* l1s_nb_resp takes no page that does not hold this burst.
NbResp(f, it) ==
  {[f EXCEPT !.used = u] : u \in IF it.page = f.r THEN {TRUE} ELSE {TRUE, f.used}}

Exec(f, it) ==
  CASE it.cb = "fb_resp" -> FbResp(f, it)
    [] it.cb = "sb_resp" -> SbResp(f, it)
    [] it.cb = "nb_resp" -> NbResp(f, it)
    [] it.cb = "fb_cmd"  -> {f}
    [] it.cb = "sb_cmd"  -> {Tagged(f, "sb_resp", it.arg, 3)}
    [] it.cb = "nb_cmd"  -> {Tagged(f, "nb_resp", it.arg, 2)}

\* The items of a bucket of some kinds, in their order.
Only(items, cbs) ==
  LET first[i \in 0..Len(items)] ==
        IF i = 0 THEN <<>>
        ELSE IF items[i].cb \in cbs THEN Append(first[i - 1], items[i])
        ELSE first[i - 1]
  IN first[Len(items)]

\* tdma_sched_execute: responses have a higher priority than commands.
Sorted(items) == Only(items, Responses) \o Only(items, Commands)

Executed(f) ==
  LET items == Sorted(f.ring[0])
      after[i \in 0..Len(items)] ==
        IF i = 0 THEN {f} ELSE UNION {Exec(g, items[i]) : g \in after[i - 1]}
  IN after[Len(items)]

\* l1s_abort_cmd
Aborted(f) == IF f.abort THEN ResetHw(f) ELSE f

\* The end of l1_sync: the read page is switched when it was used, the write
\* page (dsp_end_scenario) when an item had a command for the DSP.
SwitchPages(f, dsp) ==
  [f EXCEPT !.r = IF f.used THEN 1 - @ ELSE @, !.w = IF dsp THEN 1 - @ ELSE @]

-----------------------------------------------------------------------------
(***************************************************************************)
(* The multiframe scheduler.                                                *)
(***************************************************************************)
\* Mutated form of SafeAfter: the last command of the block is forgotten.
SafeTooSoon == Len(NbSet) - 3

\* Frames after a block is scheduled in which new tasks have to wait.
SafeAfter == Len(NbSet) - 2

\* mframe_schedule_set: a block is scheduled two frames ahead of its first burst.
\* safe_fn is only raised, and the end of a block that reaches over the wrap is
\* a small number.
MframeScheduleSet(f, t) ==
  LET end == (f.fn + SafeAfter) % Hyper
  IN IF (f.fn + 2) % Cycle \in Trigger[t]
     THEN [ScheduleSet(f, 1, NbSet) EXCEPT
             !.safe = IF end > @ \/ @ = Hyper THEN end ELSE @,
             !.wrapped = @ \/ end < f.fn]
     ELSE f

\* The condition of mframe_schedule, on the plain difference of two numbers.
InTheWay(f) ==
  f.safe # Hyper /\ f.safe > f.fn /\ f.safe - f.fn < Hyper \div 2

\* mframe_schedule: tasks end at once, and begin when nothing is in the way.
MframeSchedule(f) ==
  LET now == IF InTheWay(f) THEN f.tasks \cap f.tgt ELSE f.tgt
      g   == [f EXCEPT !.tasks = now]
      Run(h, t) == IF t \in now THEN MframeScheduleSet(h, t) ELSE h
  IN Run(Run(g, "ccch"), "dedic")

-----------------------------------------------------------------------------
(***************************************************************************)
(* The frame interrupt.                                                     *)
(***************************************************************************)
\* Nothing is scheduled any more but what a reset left in the current bucket.
Cleared(f) == \A i \in 1..Ahead : \A k \in DOMAIN f.ring[i] :
                f.ring[i][k].cb \notin {"nb_cmd", "nb_resp"}

\* The beginning of l1_sync: the time, and r_page_used.
Ticked(f) ==
  [f EXCEPT !.fn = (@ + 1) % Hyper, !.used = FALSE,
            !.wrapped = IF f.safe = Hyper THEN @ /\ ~Cleared(f)
                        ELSE @ \/ f.fn = Hyper - 1]

\* tdma_sched_advance
Advanced(f) ==
  [f EXCEPT !.abort = FALSE,
            !.ring = [i \in 0..Ahead |-> IF i < Ahead THEN @[i + 1] ELSE <<>>]]

\* l1_sync.  tdma_schedule leaves an item the flags that its slot had before:
\* an abort may or may not look like a command for the DSP.
Frame ==
  /\ LET command == \E i \in DOMAIN l1s.ring[0] : l1s.ring[0][i].cb \in Commands
     IN \E f \in Executed(Ticked(l1s)) :
        \E dsp \in {d \in BOOLEAN : IF command THEN d ELSE d => l1s.abort} :
          l1s' = Advanced(MframeSchedule(SwitchPages(Aborted(f), dsp)))
  /\ UNCHANGED host
  /\ IF At("compl") \/ At("loop") THEN UNCHANGED main
     ELSE main.irqs < Preempts /\ main' = [main EXCEPT !.irqs = @ + 1]

-----------------------------------------------------------------------------
(***************************************************************************)
(* The main loop.                                                           *)
(***************************************************************************)
Goto(pc, for, next) ==
  main' = [pc |-> pc, for |-> for, next |-> next,
           irqs |-> IF pc \in {"compl", "loop"} THEN 0 ELSE main.irqs]

\* l1a_fb_compl: what L1CTL_FBSB_CONF makes of the client.
Confirmed == IF host # "wait" THEN host ELSE IF l1s.failed THEN "idle" ELSE "sync"

\* l1a_compl_execute: before each request, and when the loop has come round
\* without one.
Complete ==
  /\ At("compl") \/ (At("loop") /\ l1s.compl)
  /\ Goto("loop", "none", 0)
  /\ l1s' = [l1s EXCEPT !.compl = FALSE]
  /\ host' = IF l1s.compl THEN Confirmed ELSE host

\* l1ctl_rx_reset_req and l1ctl_rx_fbsb_req begin with l1s_reset; mframe_reset
\* begins with its tasks.
Reset(for) ==
  /\ At("loop") /\ Goto("mframe", for, 0)
  /\ Untimely \/ \A j \in {0, 1} :
                    ~\E i \in DOMAIN l1s.ring[j] : LastAttempt(l1s.ring[j][i])
  /\ l1s' = [l1s EXCEPT !.tasks = {}]

ResetReq == host \in ResetIn /\ Reset("reset") /\ UNCHANGED host

FbsbReq == host \in {"idle", "sync"} /\ Reset("fbsb") /\ host' = "wait"

\* mframe_reset, the other fields
MframeReset ==
  /\ At("mframe") /\ Goto("tdma", main.for, 0)
  /\ l1s' = [l1s EXCEPT !.tgt = {}, !.safe = Hyper]
  /\ UNCHANGED host

\* tdma_sched_reset out of the interrupt: what is left in the current bucket
\* will run, and what it reads is of no interest any more.
TdmaReset ==
  /\ At("tdma") /\ Goto("abort", main.for, 0)
  /\ l1s' = [SchedReset(l1s) EXCEPT !.ring[0] =
                [i \in DOMAIN @ |-> [@[i] EXCEPT !.page = Late]]]
  /\ UNCHANGED host

\* l1s_dsp_abort; then l1s_fbsb_req clears its counters.
DspAbort ==
  /\ At("abort") /\ UNCHANGED host
  /\ \/ main.for = "reset" /\ Goto("hw", "reset", 0)
        /\ l1s' = [l1s EXCEPT !.abort = TRUE]
     \/ main.for = "fbsb" /\ Goto("fill", "fbsb", 0)
        /\ l1s' = [l1s EXCEPT !.abort = TRUE, !.retries = 0, !.afc = 0]

\* l1s_reset_hw, and the L1CTL_RESET_CONF
HwReset ==
  /\ At("hw") /\ Goto("compl", "none", 0)
  /\ l1s' = ResetHw(l1s) /\ host' = "idle"

\* l1s_fbsb_req: tdma_schedule_set with the interrupts on, frame by frame; each
\* bucket is found from the bucket that is current then.
Fill ==
  /\ At("fill")
  /\ l1s' = ScheduleSet(l1s, 1 + main.next, <<FbSet(0)[main.next + 1]>>)
  /\ IF main.next = Tries + 1 THEN Goto("compl", "none", 0)
     ELSE Goto("fill", "fbsb", main.next + 1)
  /\ UNCHANGED host

\* l1ctl_rx_dm_est_req, l1ctl_rx_dm_rel_req
DmEst ==
  /\ At("loop") /\ host = "sync" /\ host' = "dedic"
  /\ l1s' = [l1s EXCEPT !.tgt = {"dedic"}]
  /\ Goto("compl", "none", 0)

DmRel ==
  /\ At("loop") /\ host = "dedic" /\ host' = "idle"
  /\ l1s' = [l1s EXCEPT !.tgt = {}]
  /\ Goto("compl", "none", 0)

-----------------------------------------------------------------------------
Init ==
  /\ l1s = [ring |-> [i \in 0..Ahead |-> <<>>], abort |-> FALSE, w |-> 0, r |-> 0,
            used |-> FALSE, compl |-> FALSE, failed |-> FALSE, retries |-> 0,
            afc |-> 0, tasks |-> {}, tgt |-> {}, safe |-> 0, fn |-> 0,
            wrapped |-> FALSE]
  /\ main = [pc |-> "loop", for |-> "none", next |-> 0, irqs |-> 0]
  /\ host = "idle"

MainLoop == Complete \/ MframeReset \/ TdmaReset \/ DspAbort \/ HwReset \/ Fill

Next == Frame \/ MainLoop \/ ResetReq \/ FbsbReq \/ DmEst \/ DmRel

Spec == Init /\ [][Next]_vars /\ WF_vars(Frame) /\ WF_vars(MainLoop)

-----------------------------------------------------------------------------
\* A response reads the page to which its command was written, whichever tasks
\* began, ended or were cut off before: nothing flips one page without the
\* other (l1s_sbdet_resp explains what it costs otherwise).
ReadsOwnPage ==
  \A i \in DOMAIN l1s.ring[0] : l1s.ring[0][i].page \in {None, Late, l1s.r}

\* There is one d_task_d in a page: no frame carries the commands of two blocks,
\* although tasks are switched while blocks of the old ones are under way.  Not
\* so once the frame number has wrapped over a block: from then on, safe_fn
\* does not tell what is in the way ("Compute the next safe time to queue a DSP
\* command", mframe_sched.c:506), until a reset.
OneBlock ==
  ~l1s.wrapped => \A i, j \in DOMAIN l1s.ring[0] :
    l1s.ring[0][i].cb = "nb_cmd" /\ l1s.ring[0][j].cb = "nb_cmd" => i = j

\* The FB was found in mode 1, and with its frequency too far off; another task
\* in mode 1 has been scheduled, as often as this happens.
FarOff ==
  \E i \in DOMAIN l1s.ring[Gap - 1] : l1s.ring[Gap - 1][i] = Item("fb_cmd", 0, 1)

\* The client that asked for a cell is answered, however many resets and
\* retries cut the search, and whatever a frame interrupt does in between; or
\* FB1 is found too far off again and again, which the code does not limit.
FbsbAnswered == (host = "wait") ~> (host # "wait" \/ FarOff)
=============================================================================
