------------------------------- MODULE TrxIf -------------------------------
(***************************************************************************)
(* The TRXC half of trxcon's transceiver interface                          *)
(* (src/host/trxcon/src/trx_if.c) together with the transceiver it controls *)
(* (trx_toolkit's fake_trx) and the two UDP directions between them.        *)
(*                                                                          *)
(* trx_if.c keeps a queue of commands.  Only the head is on the wire; it is *)
(* sent again every two seconds until a response with its NAME comes back,  *)
(* and after the third repetition went unanswered the whole interface is    *)
(* torn down.  Any response of another name, and any rejection of a         *)
(* critical command, tears it down as well.                                 *)
(***************************************************************************)
EXTENDS Naturals, Sequences

CONSTANTS Arfcn,     \* the ARFCNs that gsm_arfcn2freq10 can convert
          BadArfcn,  \* ARFCNs it cannot
          Slot,      \* timeslot/channel combination pairs of SETSLOT
          TA,        \* timing advance values of SETTA
          Request,   \* the PHYIF commands the code above may issue
          QueueCap,  \* bound on the length of trx_ctrl_list
          NetCap,    \* datagrams one direction of the socket can hold
          Linger     \* do datagrams outlive the instance that sent them?

CmdTypes == {"RESET", "POWERON", "POWEROFF", "MEASURE", "SETFREQ_H0",
             "SETFREQ_H1", "SETSLOT", "SETTA"}
NoArg == <<>>   \* every other argument is a tuple, headed by its kind
CmdArgs == Arfcn \cup BadArfcn \cup Slot \cup TA \cup {NoArg}

ASSUME RequestAssumption == Request \subseteq [type : CmdTypes, arg : CmdArgs]
ASSUME CapAssumption     == QueueCap \in Nat /\ NetCap \in Nat
ASSUME LingerAssumption  == Linger \in BOOLEAN

Names == {"POWERON", "POWEROFF", "ECHO", "MEASURE", "RXTUNE", "TXTUNE",
          "SETFH", "SETSLOT", "SETTA"}
Command  == [name : Names, arg : CmdArgs]
Response == [name : Names, arg : CmdArgs, ok : BOOLEAN]
States   == {"OFFLINE", "IDLE", "ACTIVE", "RSP_WAIT"}
MaxRetry == 3

VARIABLES open,            \* the instance exists (trx_if_open .. cleanup)
          fi_state,        \* state of the trx_interface FSM
          prev_state,      \* trx->prev_state
          powered_up,      \* trx->powered_up
          trx_ctrl_list,   \* queued commands, the head is the one sent
          retry_cnt,       \* retry_cnt of the head (0 for all the others)
          trx_ctrl_timer,  \* is the response timer armed?
          cmdNet,          \* datagrams on the way to the transceiver
          rspNet,          \* datagrams on the way back
          radio            \* the transceiver: running? tuned?

trxVars == <<open, fi_state, prev_state, powered_up, trx_ctrl_list,
             retry_cnt, trx_ctrl_timer>>
vars == <<trxVars, cmdNet, rspNet, radio>>

Radio == [running : BOOLEAN, rx : BOOLEAN, tx : BOOLEAN, fh : BOOLEAN]

Cmd(n, a) == [name |-> n, arg |-> a]

\* Only trx_if_cmd_setta passes critical = 0.
Critical(c) == c.name # "SETTA"

\* The TRXC commands one PHYIF command is turned into.  A frequency that
\* cannot be converted ends the handler before anything is queued.
Expand(r) ==
  CASE r.type = "RESET"      -> <<Cmd("POWEROFF", NoArg), Cmd("ECHO", NoArg)>>
    [] r.type = "SETFREQ_H0" -> IF r.arg \in BadArfcn THEN <<>>
                                ELSE <<Cmd("RXTUNE", r.arg), Cmd("TXTUNE", r.arg)>>
    [] r.type = "SETFREQ_H1" -> IF r.arg \in BadArfcn THEN <<>>
                                ELSE <<Cmd("SETFH", r.arg)>>
    [] r.type = "MEASURE"    -> IF r.arg \in BadArfcn THEN <<>>
                                ELSE <<Cmd("MEASURE", r.arg)>>
    [] OTHER                 -> <<Cmd(r.type, r.arg)>>

-----------------------------------------------------------------------------
\* The link.  send() is never checked: what does not fit is gone.
Transmit(net, m) == IF Len(net) < NetCap THEN Append(net, m) ELSE net

Without(s, i) == [j \in 1 .. (Len(s) - 1) |-> IF j < i THEN s[j] ELSE s[j + 1]]

\* trx_ctrl_send for the queue q, entered with the FSM in state st and no
\* timer pending: the head of q goes out (again) and the timer is armed.
Send(q, st) ==
  /\ trx_ctrl_timer' = (q # <<>>)
  /\ fi_state' = IF q = <<>> THEN st ELSE "RSP_WAIT"
  /\ prev_state' = IF q # <<>> /\ st # "RSP_WAIT" THEN st ELSE prev_state
  /\ cmdNet' = IF q = <<>> THEN cmdNet ELSE Transmit(cmdNet, Head(q))

\* Termination of the FSM instance: the timer is stopped, the queue flushed,
\* the transceiver told to power off when the instance thinks it is up, the
\* sockets closed and the instance freed.
Terminate ==
  /\ open' = FALSE
  /\ fi_state' = "OFFLINE"
  /\ prev_state' = "OFFLINE"
  /\ powered_up' = FALSE
  /\ trx_ctrl_list' = <<>>
  /\ retry_cnt' = 0
  /\ trx_ctrl_timer' = FALSE
  /\ cmdNet' = IF powered_up THEN Transmit(cmdNet, Cmd("POWEROFF", NoArg))
               ELSE cmdNet

-----------------------------------------------------------------------------
\* Mutated form of Submit: a queue that was not empty is kicked as well.
SubmitAlwaysSends(cs) ==
  /\ open
  /\ cs # <<>>
  /\ Len(trx_ctrl_list) + Len(cs) <= QueueCap
  /\ trx_ctrl_list' = trx_ctrl_list \o cs
  /\ Send(trx_ctrl_list', fi_state)
  /\ UNCHANGED <<open, powered_up, retry_cnt, rspNet, radio>>

\* trx_ctrl_cmd for each of the commands cs: queued at the tail; only a
\* queue that was empty is kicked.
Submit(cs) ==
  /\ open
  /\ cs # <<>>
  /\ Len(trx_ctrl_list) + Len(cs) <= QueueCap
  /\ trx_ctrl_list' = trx_ctrl_list \o cs
  /\ IF trx_ctrl_list = <<>>
       THEN Send(cs, fi_state)
       ELSE UNCHANGED <<fi_state, prev_state, trx_ctrl_timer, cmdNet>>
  /\ UNCHANGED <<open, powered_up, retry_cnt, rspNet, radio>>

\* Mutated form of Resend: one repetition too many.
ResendOffByOne ==
  /\ open /\ trx_ctrl_timer
  /\ trx_ctrl_list # <<>>
  /\ retry_cnt <= MaxRetry
  /\ retry_cnt' = retry_cnt + 1
  /\ Send(trx_ctrl_list, fi_state)
  /\ UNCHANGED <<open, powered_up, trx_ctrl_list, rspNet, radio>>

\* Mutated form of Resend: the timer is not scheduled again.
ResendWithoutTimer ==
  /\ open /\ trx_ctrl_timer
  /\ trx_ctrl_list # <<>>
  /\ retry_cnt < MaxRetry
  /\ retry_cnt' = retry_cnt + 1
  /\ trx_ctrl_timer' = FALSE
  /\ cmdNet' = Transmit(cmdNet, Head(trx_ctrl_list))
  /\ UNCHANGED <<open, fi_state, prev_state, powered_up, trx_ctrl_list,
                 rspNet, radio>>

\* trx_ctrl_timer_cb, the first three expirations: send the head again.
Resend ==
  /\ open /\ trx_ctrl_timer
  /\ trx_ctrl_list # <<>>
  /\ retry_cnt < MaxRetry
  /\ retry_cnt' = retry_cnt + 1
  /\ Send(trx_ctrl_list, fi_state)
  /\ UNCHANGED <<open, powered_up, trx_ctrl_list, rspNet, radio>>

\* trx_ctrl_timer_cb, the fourth expiration: "Transceiver offline".
GiveUp ==
  /\ open /\ trx_ctrl_timer
  /\ trx_ctrl_list # <<>>
  /\ retry_cnt + 1 > MaxRetry
  /\ Terminate
  /\ UNCHANGED <<rspNet, radio>>

\* trx_ctrl_read_cb with an empty queue: "Response message without command".
ReadStray ==
  /\ open
  /\ rspNet # <<>> /\ trx_ctrl_list = <<>>
  /\ trx_ctrl_timer' = FALSE
  /\ rspNet' = Tail(rspNet)
  /\ UNCHANGED <<open, fi_state, prev_state, powered_up, trx_ctrl_list,
                 retry_cnt, cmdNet, radio>>

\* Mutated form of Matches: any response answers the head.
MatchesAny(r, c) == TRUE

Matches(r, c) == r.name = c.name
Accepted(r, c) == Matches(r, c) /\ (r.ok \/ ~Critical(c))

\* Mutated form of ReadError: the response is ignored instead, after the
\* timer was already stopped.
ReadErrorIgnored ==
  /\ open
  /\ rspNet # <<>> /\ trx_ctrl_list # <<>>
  /\ ~Accepted(Head(rspNet), Head(trx_ctrl_list))
  /\ rspNet' = Tail(rspNet)
  /\ trx_ctrl_timer' = FALSE
  /\ UNCHANGED <<open, fi_state, prev_state, powered_up, trx_ctrl_list,
                 retry_cnt, cmdNet, radio>>

\* trx_ctrl_read_cb, rsp_error: another name, or a critical command rejected.
ReadError ==
  /\ open
  /\ rspNet # <<>> /\ trx_ctrl_list # <<>>
  /\ ~Accepted(Head(rspNet), Head(trx_ctrl_list))
  /\ rspNet' = Tail(rspNet)
  /\ Terminate
  /\ UNCHANGED radio

\* Mutated form of StateAfter: POWEROFF is treated like the other commands.
StateAfterForgetsPowerOff(n) ==
  CASE n = "POWERON" -> "ACTIVE"
    [] n = "ECHO"    -> "IDLE"
    [] n = "MEASURE" -> fi_state
    [] OTHER         -> prev_state

\* The FSM state after the answer to a command of this name.  MEASURE is the
\* one command whose answer changes no state.
StateAfter(n) ==
  CASE n = "POWERON"              -> "ACTIVE"
    [] n \in {"POWEROFF", "ECHO"} -> "IDLE"
    [] n = "MEASURE"              -> fi_state
    [] OTHER                      -> prev_state

\* trx_ctrl_read_cb, the answer to the head: the commands more are queued by
\* the consumer of a MEASURE answer (a scan moves on to another ARFCN than the
\* one answered) while the head is still in the queue, so they are not sent at
\* once; then the head is taken off and its successor goes out.
ReadAnswer(more) ==
  /\ open
  /\ rspNet # <<>> /\ trx_ctrl_list # <<>>
  /\ LET c == Head(trx_ctrl_list)
     IN  /\ Accepted(Head(rspNet), c)
         /\ more # <<>> => /\ c.name = "MEASURE"
                          /\ Head(more).arg # Head(rspNet).arg
         /\ powered_up' = CASE c.name = "POWERON"  -> TRUE
                            [] c.name = "POWEROFF" -> FALSE
                            [] OTHER               -> powered_up
         /\ trx_ctrl_list' = Tail(trx_ctrl_list) \o more
         /\ Len(trx_ctrl_list') <= QueueCap
         /\ Send(trx_ctrl_list', StateAfter(c.name))
  /\ retry_cnt' = 0
  /\ rspNet' = Tail(rspNet)
  /\ UNCHANGED <<open, radio>>

\* trx_if_close.
CloseReq == open /\ Terminate /\ UNCHANGED <<rspNet, radio>>

\* trx_if_open for the next L1CTL client.  The new socket is bound to the
\* same port: with Linger the datagrams that are still on the way reach it,
\* without Linger the client takes longer to reconnect than they travel.
Open ==
  /\ ~open
  /\ Linger \/ (cmdNet = <<>> /\ rspNet = <<>>)
  /\ open' = TRUE
  /\ UNCHANGED <<fi_state, prev_state, powered_up, trx_ctrl_list, retry_cnt,
                 trx_ctrl_timer, cmdNet, rspNet, radio>>

-----------------------------------------------------------------------------
\* The transceiver executes a command and answers it; the answer repeats the
\* command and its arguments.
Ready == (radio.rx /\ radio.tx) \/ radio.fh

Obeys(c) == c.name = "POWERON" => ~radio.running /\ Ready

Effect(c) ==
  CASE c.name = "POWERON"  -> [radio EXCEPT !.running = TRUE]
    [] c.name = "POWEROFF" -> [radio EXCEPT !.running = FALSE, !.fh = FALSE]
    [] c.name = "RXTUNE"   -> [radio EXCEPT !.rx = TRUE]
    [] c.name = "TXTUNE"   -> [radio EXCEPT !.tx = TRUE]
    [] c.name = "SETFH"    -> [radio EXCEPT !.fh = TRUE]
    [] OTHER               -> radio

Execute ==
  /\ cmdNet # <<>>
  /\ LET c == Head(cmdNet)
     IN  /\ radio' = IF Obeys(c) THEN Effect(c) ELSE radio
         /\ rspNet' = Transmit(rspNet, [name |-> c.name, arg |-> c.arg,
                                        ok |-> Obeys(c)])
  /\ cmdNet' = Tail(cmdNet)
  /\ UNCHANGED trxVars

\* A datagram is lost.
LoseCmd == /\ \E i \in 1 .. Len(cmdNet) : cmdNet' = Without(cmdNet, i)
           /\ UNCHANGED <<trxVars, rspNet, radio>>
LoseRsp == /\ \E i \in 1 .. Len(rspNet) : rspNet' = Without(rspNet, i)
           /\ UNCHANGED <<trxVars, cmdNet, radio>>

-----------------------------------------------------------------------------
Init ==
  /\ open = TRUE
  /\ fi_state = "OFFLINE"
  /\ prev_state = "OFFLINE"
  /\ powered_up = FALSE
  /\ trx_ctrl_list = <<>>
  /\ retry_cnt = 0
  /\ trx_ctrl_timer = FALSE
  /\ cmdNet = <<>>
  /\ rspNet = <<>>
  /\ radio = [running |-> FALSE, rx |-> FALSE, tx |-> FALSE, fh |-> FALSE]

\* What the consumer of a MEASURE answer may queue: the next measurement of
\* the scan, when there is one.
Followers == {<<>>} \cup {Expand(r) : r \in {q \in Request : q.type = "MEASURE"}}

Next ==
  \/ \E r \in Request : Submit(Expand(r))
  \/ Resend
  \/ GiveUp
  \/ ReadStray
  \/ ReadError
  \/ \E more \in Followers : ReadAnswer(more)
  \/ CloseReq
  \/ Open
  \/ Execute
  \/ LoseCmd
  \/ LoseRsp

Safety == Init /\ [][Next]_vars

\* The select loop runs expired timers before it sleeps again, and timers
\* expire by themselves.  Nothing is assumed of the link or the transceiver.
Spec == Safety /\ WF_vars(Resend \/ GiveUp)

-----------------------------------------------------------------------------
TypeOK ==
  /\ open \in BOOLEAN
  /\ fi_state \in States
  /\ prev_state \in States \ {"RSP_WAIT"}
  /\ powered_up \in BOOLEAN
  /\ trx_ctrl_list \in Seq(Command)
  /\ retry_cnt \in 0 .. MaxRetry
  /\ trx_ctrl_timer \in BOOLEAN
  /\ cmdNet \in Seq(Command)
  /\ rspNet \in Seq(Response)
  /\ radio \in Radio

\* A queue that waits is being worked on: as long as commands are queued the
\* FSM is in RSP_WAIT and the response timer runs, and an idle queue has no
\* timer.  trx_ctrl_cmd kicks only an empty queue and trx_ctrl_read_cb stops
\* the timer before it looks at the response, so one path that forgets to
\* arm the timer would block every later command for good.
WaitingMeansTimed ==
  /\ trx_ctrl_list # <<>> => open /\ fi_state = "RSP_WAIT"
  /\ trx_ctrl_timer <=> trx_ctrl_list # <<>>
  /\ trx_ctrl_list = <<>> => retry_cnt = 0

\* The FSM is in ACTIVE, or will fall back to it, only when the transceiver
\* was told to power on and not told to power off since, whatever commands
\* were answered in between.
ActiveMeansPowered ==
  (fi_state = "ACTIVE" \/ (fi_state = "RSP_WAIT" /\ prev_state = "ACTIVE"))
    => powered_up

\* Once nothing is queued or on its way, a transceiver that trx_if.c holds to
\* be up is running, in spite of lost and repeated datagrams, as long as none
\* of them outlives the instance that sent it.
PoweredUpMeansRunning ==
  (open /\ trx_ctrl_list = <<>> /\ cmdNet = <<>> /\ powered_up) => radio.running

\* What trx_ctrl_read_cb takes for the answer to a command is the answer to
\* that very command ("Check if response matches command").
OwnAnswer ==
  (/\ open /\ open' /\ trx_ctrl_list # <<>> /\ rspNet # <<>>
   /\ rspNet' = Tail(rspNet) /\ trx_ctrl_list' # trx_ctrl_list)
    => Head(rspNet).arg = Head(trx_ctrl_list).arg

\* A POWERON that reaches a transceiver which already runs is answered with
\* success (the interface description above trx_if_cmd_echo says so), so that
\* repeating a POWERON whose answer was lost does no harm.
PowerOnIsIdempotent ==
  [][ \A i \in 1 .. Len(rspNet') :
        (/\ cmdNet # <<>> /\ cmdNet' = Tail(cmdNet)
         /\ i = Len(rspNet) + 1
         /\ Head(cmdNet).name = "POWERON" /\ radio.running)
          => rspNet'[i].ok ]_vars

Ctrl == INSTANCE TrxCtrl WITH up <- open, pending <- trx_ctrl_list

\* The queue implements the abstract command queue, liveness included.
ImplementsCtrl == Ctrl!Spec
=============================================================================
