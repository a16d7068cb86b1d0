---------------------------- MODULE TrxIf_proofs ----------------------------
(***************************************************************************)
(* Proofs about TrxIf: its type invariant, that a queue that waits is       *)
(* always worked on, and that the FSM's ACTIVE state is never a leftover of *)
(* a transceiver that was told to power off.  They hold for every set of    *)
(* requests, every queue and socket capacity, and with datagrams that       *)
(* outlive the instance that sent them.  That a transceiver which is held   *)
(* to be up is running holds without such datagrams only.                   *)
(***************************************************************************)
EXTENDS TrxIf, TLAPS

-----------------------------------------------------------------------------
(* Lemmas about the operators. *)

\* What one PHYIF command is turned into is a sequence of TRXC commands.
LEMMA ExpandType ==
  ASSUME NEW r \in Request
  PROVE  Expand(r) \in Seq(Command)
<1>1. r.type \in CmdTypes /\ r.arg \in CmdArgs
  BY RequestAssumption
<1>2. NoArg \in CmdArgs
  BY DEF CmdArgs
<1>3. \A n \in Names, a \in CmdArgs : Cmd(n, a) \in Command
  BY DEF Cmd, Command
<1>4. \A x, y \in Command : <<>> \in Seq(Command) /\ <<x>> \in Seq(Command)
                            /\ <<x, y>> \in Seq(Command)
  OBVIOUS
<1>5. CASE r.type = "RESET"
  BY <1>2, <1>3, <1>4, <1>5 DEF Expand, Names
<1>6. CASE r.type = "SETFREQ_H0"
  BY <1>1, <1>3, <1>4, <1>6 DEF Expand, Names
<1>7. CASE r.type = "SETFREQ_H1"
  BY <1>1, <1>3, <1>4, <1>7 DEF Expand, Names
<1>8. CASE r.type = "MEASURE"
  BY <1>1, <1>3, <1>4, <1>8 DEF Expand, Names
<1>9. CASE r.type \in {"POWERON", "POWEROFF", "SETSLOT", "SETTA"}
  <2>1. Expand(r) = <<Cmd(r.type, r.arg)>>
    BY <1>9 DEF Expand
  <2> QED
    BY <1>1, <1>3, <1>4, <1>9, <2>1 DEF Names
<1> QED
  BY <1>1, <1>5, <1>6, <1>7, <1>8, <1>9 DEF CmdTypes

\* What the consumer of a measurement may queue is one, too.
LEMMA FollowersType == Followers \subseteq Seq(Command)
<1>1. <<>> \in Seq(Command)
  OBVIOUS
<1> QED
  BY <1>1, ExpandType DEF Followers

\* The empty sequence is a sequence of anything.
LEMMA EmptySeqType == ASSUME NEW S PROVE <<>> \in Seq(S)
OBVIOUS

\* Sending on a socket keeps what travels a sequence of messages.
LEMMA TransmitType ==
  ASSUME NEW S, NEW net \in Seq(S), NEW m \in S
  PROVE  Transmit(net, m) \in Seq(S)
BY DEF Transmit

\* Losing a datagram keeps it one, too.
LEMMA WithoutType ==
  ASSUME NEW S, NEW s \in Seq(S), NEW i \in 1 .. Len(s)
  PROVE  Without(s, i) \in Seq(S)
<1>1. Len(s) - 1 \in Nat
  OBVIOUS
<1>2. \A j \in 1 .. (Len(s) - 1) : s[j] \in S /\ s[j + 1] \in S
  OBVIOUS
<1> QED
  BY <1>1, <1>2 DEF Without

-----------------------------------------------------------------------------
(* The inductive invariant.  Neither of the two properties is inductive by  *)
(* itself: the answer to MEASURE leaves the FSM in the state it is in, and   *)
(* that this state is RSP_WAIT follows from the queue being non-empty.       *)
IInv == TypeOK /\ WaitingMeansTimed /\ ActiveMeansPowered

\* The initial state satisfies it.
LEMMA InitIInv == Init => IInv
<1> SUFFICES ASSUME Init PROVE IInv
  OBVIOUS
<1>1. <<>> \in Seq(Command) /\ <<>> \in Seq(Response)
  BY EmptySeqType
<1>2. radio \in Radio
  BY DEF Init, Radio
<1>3. open \in BOOLEAN /\ powered_up \in BOOLEAN /\ trx_ctrl_timer \in BOOLEAN
  BY DEF Init
<1>4. /\ fi_state \in States /\ prev_state \in States \ {"RSP_WAIT"}
      /\ retry_cnt \in 0 .. MaxRetry
  BY DEF Init, States, MaxRetry
<1>5. /\ trx_ctrl_list \in Seq(Command) /\ cmdNet \in Seq(Command)
      /\ rspNet \in Seq(Response)
  BY <1>1 DEF Init
<1>6. TypeOK
  BY <1>2, <1>3, <1>4, <1>5 DEF TypeOK
<1> QED
  BY <1>6 DEF Init, IInv, WaitingMeansTimed, ActiveMeansPowered

\* The steps of trx_ctrl_send preserve what the invariant says of the
\* variables they set.
LEMMA SendIInv ==
  ASSUME TypeOK,
         NEW q \in Seq(Command), NEW st \in States,
         Send(q, st)
  PROVE  /\ fi_state' \in States
         /\ prev_state' \in States \ {"RSP_WAIT"}
         /\ trx_ctrl_timer' \in BOOLEAN
         /\ cmdNet' \in Seq(Command)
         /\ trx_ctrl_timer' <=> q # <<>>
         /\ q # <<>> => fi_state' = "RSP_WAIT"
<1>1. q # <<>> => Head(q) \in Command
  OBVIOUS
<1>2. cmdNet' \in Seq(Command)
  BY <1>1, TransmitType DEF Send, TypeOK
<1> QED
  BY <1>2 DEF Send, TypeOK, States

\* So does the termination of the instance.
LEMMA TerminateIInv ==
  ASSUME TypeOK, Terminate, rspNet' \in Seq(Response), radio' \in Radio
  PROVE  IInv'
<1>1. Cmd("POWEROFF", NoArg) \in Command
  BY DEF Cmd, Command, Names, CmdArgs
<1>2. cmdNet' \in Seq(Command)
  BY <1>1, TransmitType DEF Terminate, TypeOK
<1>3. /\ open' \in BOOLEAN /\ powered_up' \in BOOLEAN
      /\ trx_ctrl_timer' \in BOOLEAN
  BY DEF Terminate
<1>4. /\ fi_state' \in States /\ prev_state' \in States \ {"RSP_WAIT"}
      /\ retry_cnt' \in 0 .. MaxRetry
  BY DEF Terminate, States, MaxRetry
<1>5. trx_ctrl_list' \in Seq(Command)
  BY EmptySeqType DEF Terminate
<1>6. TypeOK'
  BY <1>2, <1>3, <1>4, <1>5 DEF TypeOK
<1> QED
  BY <1>6 DEF Terminate, IInv, WaitingMeansTimed, ActiveMeansPowered

\* Every step preserves it.
LEMMA NextIInv == IInv /\ [Next]_vars => IInv'
<1> SUFFICES ASSUME IInv, [Next]_vars
             PROVE  IInv'
  OBVIOUS
<1> USE DEF IInv
<1>1. ASSUME NEW r \in Request, Submit(Expand(r))
      PROVE  IInv'
  <2> DEFINE cs == Expand(r)
  <2>1. cs \in Seq(Command) /\ cs # <<>>
    BY <1>1, ExpandType DEF Submit
  <2> HIDE DEF cs
  <2>2. Submit(cs)
    BY <1>1 DEF cs
  <2>3. trx_ctrl_list' \in Seq(Command) /\ trx_ctrl_list' # <<>>
    BY <2>1, <2>2 DEF Submit, TypeOK
  <2>4. CASE trx_ctrl_list = <<>>
    <3>1. Send(cs, fi_state)
      BY <2>2, <2>4 DEF Submit
    <3>2. fi_state' = "RSP_WAIT" /\ trx_ctrl_timer'
      BY <2>1, <3>1, SendIInv DEF TypeOK
    <3>3. TypeOK'
      BY <2>1, <2>2, <2>3, <3>1, SendIInv DEF TypeOK, Submit
    <3>4. ActiveMeansPowered'
      BY <2>1, <2>2, <3>1 DEF Send, Submit, ActiveMeansPowered, TypeOK
    <3> QED
      BY <2>2, <2>3, <3>2, <3>3, <3>4 DEF WaitingMeansTimed, Submit, TypeOK
  <2>5. CASE trx_ctrl_list # <<>>
    BY <2>2, <2>3, <2>5
       DEF Submit, TypeOK, WaitingMeansTimed, ActiveMeansPowered
  <2> QED
    BY <2>4, <2>5
<1>2. CASE Resend
  <2>1. Send(trx_ctrl_list, fi_state)
    BY <1>2 DEF Resend
  <2>2. TypeOK'
    BY <1>2, <2>1, SendIInv DEF Resend, TypeOK, MaxRetry
  <2>3. WaitingMeansTimed'
    BY <1>2, <2>1, SendIInv DEF Resend, TypeOK, WaitingMeansTimed
  <2>4. ActiveMeansPowered'
    BY <1>2, <2>1 DEF Resend, Send, WaitingMeansTimed, ActiveMeansPowered
  <2> QED
    BY <2>2, <2>3, <2>4
<1>3. CASE GiveUp
  BY <1>3, TerminateIInv DEF GiveUp, TypeOK
<1>4. CASE ReadStray
  <2>1. rspNet' \in Seq(Response)
    BY <1>4 DEF ReadStray, TypeOK
  <2> QED
    BY <1>4, <2>1 DEF ReadStray, TypeOK, WaitingMeansTimed, ActiveMeansPowered
<1>5. CASE ReadError
  BY <1>5, TerminateIInv DEF ReadError, TypeOK
<1>6. ASSUME NEW more \in Followers, ReadAnswer(more)
      PROVE  IInv'
  <2> DEFINE c  == Head(trx_ctrl_list)
             q  == Tail(trx_ctrl_list) \o more
             st == StateAfter(c.name)
  <2>1. /\ open /\ trx_ctrl_list # <<>> /\ fi_state = "RSP_WAIT"
        /\ c \in Command
    BY <1>6 DEF ReadAnswer, WaitingMeansTimed, TypeOK
  <2>2. q \in Seq(Command)
    BY <2>1, FollowersType DEF TypeOK
  <2>3. st \in States
    BY DEF StateAfter, TypeOK, States
  <2>4. trx_ctrl_list' = q /\ Send(q, st)
    BY <1>6 DEF ReadAnswer
  <2>5. TypeOK'
    <3>1. powered_up' \in BOOLEAN
      BY <1>6 DEF ReadAnswer, TypeOK
    <3>2. rspNet' \in Seq(Response) /\ retry_cnt' = 0
      BY <1>6 DEF ReadAnswer, TypeOK
    <3> HIDE DEF c, q, st
    <3>3. /\ fi_state' \in States /\ prev_state' \in States \ {"RSP_WAIT"}
          /\ trx_ctrl_timer' \in BOOLEAN /\ cmdNet' \in Seq(Command)
      BY <2>2, <2>3, <2>4, SendIInv
    <3>4. retry_cnt' \in 0 .. MaxRetry
      BY <3>2 DEF MaxRetry
    <3>5. open' \in BOOLEAN /\ radio' \in Radio
      BY <1>6 DEF ReadAnswer, TypeOK
    <3>6. trx_ctrl_list' \in Seq(Command)
      BY <2>2, <2>4
    <3> QED
      BY <3>1, <3>2, <3>3, <3>4, <3>5, <3>6 DEF TypeOK
  <2>6. WaitingMeansTimed'
    BY <1>6, <2>1, <2>2, <2>3, <2>4, SendIInv DEF ReadAnswer, WaitingMeansTimed
  <2>7. ActiveMeansPowered'
    <3>1. CASE c.name = "POWERON"
      BY <1>6, <3>1 DEF ReadAnswer, ActiveMeansPowered
    <3>2. CASE c.name \in {"POWEROFF", "ECHO"}
      BY <2>4, <3>2 DEF Send, StateAfter, ActiveMeansPowered
    <3>3. CASE c.name \notin {"POWERON", "POWEROFF", "ECHO"}
      <4>1. powered_up' = powered_up
        BY <1>6, <3>3 DEF ReadAnswer
      <4>2. st = "RSP_WAIT" \/ st = prev_state
        BY <2>1, <3>3 DEF StateAfter
      <4> QED
        BY <2>1, <2>4, <4>1, <4>2 DEF Send, ActiveMeansPowered, TypeOK
    <3> QED
      BY <3>1, <3>2, <3>3
  <2> QED
    BY <2>5, <2>6, <2>7
<1>7. CASE CloseReq
  BY <1>7, TerminateIInv DEF CloseReq, TypeOK
<1>8. CASE Open
  BY <1>8 DEF Open, TypeOK, WaitingMeansTimed, ActiveMeansPowered
<1>9. CASE Execute
  <2> DEFINE c == Head(cmdNet)
  <2>1. c \in Command /\ cmdNet' \in Seq(Command)
    BY <1>9 DEF Execute, TypeOK
  <2>2. radio' \in Radio
    BY <1>9 DEF Execute, Effect, Radio, TypeOK
  <2>3. [name |-> c.name, arg |-> c.arg, ok |-> Obeys(c)] \in Response
    BY <2>1 DEF Command, Response, Obeys
  <2>4. rspNet' \in Seq(Response)
    BY <1>9, <2>3, TransmitType DEF Execute, TypeOK
  <2> QED
    BY <1>9, <2>1, <2>2, <2>4
       DEF Execute, trxVars, TypeOK, WaitingMeansTimed, ActiveMeansPowered
<1>10. CASE LoseCmd
  <2>1. cmdNet' \in Seq(Command)
    BY <1>10, WithoutType DEF LoseCmd, TypeOK
  <2> QED
    BY <1>10, <2>1
       DEF LoseCmd, trxVars, TypeOK, WaitingMeansTimed, ActiveMeansPowered
<1>11. CASE LoseRsp
  <2>1. rspNet' \in Seq(Response)
    BY <1>11, WithoutType DEF LoseRsp, TypeOK
  <2> QED
    BY <1>11, <2>1
       DEF LoseRsp, trxVars, TypeOK, WaitingMeansTimed, ActiveMeansPowered
<1>12. CASE UNCHANGED vars
  BY <1>12 DEF vars, trxVars, TypeOK, WaitingMeansTimed, ActiveMeansPowered
<1> QED
  BY <1>1, <1>2, <1>3, <1>4, <1>5, <1>6, <1>7, <1>8, <1>9, <1>10, <1>11,
     <1>12 DEF Next

-----------------------------------------------------------------------------
\* Every reachable state satisfies the inductive invariant.
THEOREM Invariance == Safety => []IInv
BY InitIInv, NextIInv, PTL DEF Safety

\* The variables of the interface keep their types; in particular no command
\* is ever repeated more than three times.
THEOREM TypeCorrect == Safety => []TypeOK
BY Invariance, PTL DEF IInv

\* The command queue never waits without its timer (trx_ctrl_send arms it
\* on every path that leaves a command at the head).
THEOREM QueueIsTimed == Safety => []WaitingMeansTimed
BY Invariance, PTL DEF IInv

\* The ACTIVE state is never left over from before a POWEROFF.
THEOREM ActiveIsPowered == Safety => []ActiveMeansPowered
BY Invariance, PTL DEF IInv

-----------------------------------------------------------------------------
(* TrxIf implements the abstract command queue.                              *)

\* What is queued behind leaves what waits as it is.
LEMMA ConcatExtends ==
  ASSUME NEW s \in Seq(Command), NEW t \in Seq(Command)
  PROVE  s \o t \in Seq(Command) /\ Ctrl!Extends(s, s \o t)
BY DEF Ctrl!Extends

\* The initial states are initial states of TrxCtrl ...
LEMMA InitCtrl == Init => Ctrl!Init
BY DEF Init, Ctrl!Init

\* ... and the steps are steps of TrxCtrl or leave it as it is.
LEMMA NextCtrl == IInv /\ [Next]_vars => [Ctrl!Next]_Ctrl!vars
<1> SUFFICES ASSUME IInv, [Next]_vars
             PROVE  [Ctrl!Next]_Ctrl!vars
  OBVIOUS
<1> USE DEF IInv
<1>1. ASSUME NEW r \in Request, Submit(Expand(r))
      PROVE  Ctrl!Accept
  <2>1. Expand(r) \in Seq(Command) /\ trx_ctrl_list \in Seq(Command)
    BY ExpandType DEF TypeOK
  <2>2. /\ open /\ open' = open
        /\ trx_ctrl_list' = trx_ctrl_list \o Expand(r)
    BY <1>1 DEF Submit
  <2> QED
    BY <2>1, <2>2, ConcatExtends DEF Ctrl!Accept
<1>2. ASSUME NEW more \in Followers, ReadAnswer(more)
      PROVE  Ctrl!Answer
  <2>1. more \in Seq(Command) /\ trx_ctrl_list \in Seq(Command)
    BY FollowersType DEF TypeOK
  <2>2. /\ open /\ open' = open
        /\ trx_ctrl_list # <<>>
        /\ trx_ctrl_list' = Tail(trx_ctrl_list) \o more
    BY <1>2 DEF ReadAnswer
  <2>3. Tail(trx_ctrl_list) \in Seq(Command)
    BY <2>1, <2>2
  <2> QED
    BY <2>1, <2>2, <2>3, ConcatExtends DEF Ctrl!Answer
<1>3. ASSUME GiveUp \/ ReadError \/ CloseReq
      PROVE  Ctrl!Fail
  BY <1>3 DEF GiveUp, ReadError, CloseReq, Terminate, Ctrl!Fail
<1>4. CASE Open
  BY <1>4 DEF Open, Ctrl!Open, Ctrl!Next
<1>5. ASSUME Resend \/ ReadStray \/ Execute \/ LoseCmd \/ LoseRsp \/ UNCHANGED vars
      PROVE  UNCHANGED Ctrl!vars
  BY <1>5 DEF Resend, ReadStray, Execute, LoseCmd, LoseRsp, vars, trxVars,
              Ctrl!vars
<1> QED
  BY <1>1, <1>2, <1>3, <1>4, <1>5 DEF Next, Ctrl!Next

\* Whatever the sockets lose or repeat, the queue of trx_if.c behaves like a
\* plain first-in first-out queue that only a failing interface empties.
THEOREM QueueRefinement == Safety => Ctrl!Safety
BY InitCtrl, NextCtrl, Invariance, PTL DEF Safety, Ctrl!Safety

-----------------------------------------------------------------------------
(* A transceiver that is held to be up is running.  What matters is the      *)
(* order of POWERON and POWEROFF on the wire, which answers and then         *)
(* commands make up: only a POWERON that was obeyed sets powered_up, and it  *)
(* is read when nothing of an earlier POWEROFF is on the way any more.       *)

\* A message of this name is among s; a POWERON that was obeyed is; no two
\* of these are; and none called y comes behind one called x.
Has(s, n)   == \E i \in 1 .. Len(s) : s[i].name = n
Grant(m)    == m.name = "POWERON" /\ m.ok = TRUE
Granted(s)  == \E i \in 1 .. Len(s) : Grant(s[i])
Once(s)     == \A i, j \in 1 .. Len(s) : Grant(s[i]) /\ Grant(s[j]) => i = j
Ordered(s, x, y) ==
  \A i, j \in 1 .. Len(s) : i < j /\ s[i].name = x => s[j].name # y

\* The same of the whole wire: the answers r and, behind them, the commands c.
NoneBehind(r, c, x, y) ==
  Ordered(r, x, y) /\ Ordered(c, x, y) /\ ~(Has(r, x) /\ Has(c, y))

\* The name of the command that waits for its answer.
NameOf(q) == IF q = <<>> THEN "none" ELSE Head(q).name

\* What is on the wire when the instance holds the transceiver to be up (on)
\* or not, waits for the answer to a command of name h, and the transceiver
\* is running (run) or not.
Power(on, h, c, r, run) ==
  /\ ~on /\ h = "POWERON" =>
       NoneBehind(r, c, "POWERON", "POWEROFF") /\ Once(r) /\ (Granted(r) => run)
  /\ ~on /\ h # "POWERON" => ~Has(r, "POWERON") /\ ~Has(c, "POWERON")
  /\ on /\ h # "POWEROFF" =>
       ~Has(r, "POWEROFF") /\ ~Has(c, "POWEROFF") /\ ~Granted(r) /\ run
  /\ on /\ h = "POWEROFF" =>
       /\ NoneBehind(r, c, "POWEROFF", "POWERON") /\ ~Granted(r)
       /\ Has(c, "POWERON") => run

\* The inductive invariant.
PowerInv ==
  /\ ~open => ~powered_up
  /\ open => Power(powered_up, NameOf(trx_ctrl_list), cmdNet, rspNet,
                   radio.running)

\* t is s, or what is left of it.
Within(t, s) ==
  /\ \A n : Has(t, n) => Has(s, n)
  /\ Granted(t) => Granted(s)
  /\ Once(s) => Once(t)
  /\ \A x, y : Ordered(s, x, y) => Ordered(t, x, y)

\* Messages that are taken from s in their order.
LEMMA WithinAny ==
  ASSUME NEW S, NEW s \in Seq(S), NEW t \in Seq(S),
         NEW f \in [1 .. Len(t) -> 1 .. Len(s)],
         \A i \in 1 .. Len(t) : t[i] = s[f[i]],
         \A i, j \in 1 .. Len(t) : i < j => f[i] < f[j]
  PROVE  Within(t, s)
<1>1. \A n : Has(t, n) => Has(s, n)
  BY DEF Has
<1>2. Granted(t) => Granted(s)
  BY DEF Granted
<1>3. Once(s) => Once(t)
  <2> SUFFICES ASSUME Once(s), NEW i \in 1 .. Len(t), NEW j \in 1 .. Len(t),
                      Grant(t[i]), Grant(t[j])
               PROVE  i = j
    BY DEF Once
  <2>1. f[i] = f[j]
    BY DEF Once
  <2>2. Len(t) \in Nat /\ Len(s) \in Nat
    OBVIOUS
  <2>3. f[i] \in Nat /\ f[j] \in Nat
    BY <2>2
  <2> QED
    BY <2>1, <2>2, <2>3
<1>4. ASSUME NEW x, NEW y, Ordered(s, x, y)
      PROVE  Ordered(t, x, y)
  BY <1>4 DEF Ordered
<1> QED
  BY <1>1, <1>2, <1>3, <1>4 DEF Within

\* All of them.
LEMMA WithinSelf == ASSUME NEW s PROVE Within(s, s)
BY DEF Within

\* What remains when the first message is read.
LEMMA WithinTail ==
  ASSUME NEW S, NEW s \in Seq(S), s # <<>>
  PROVE  /\ Within(Tail(s), s)
         /\ Has(s, Head(s).name)
         /\ \A y : Ordered(s, Head(s).name, y) => ~Has(Tail(s), y)
         /\ Once(s) /\ Grant(Head(s)) => ~Granted(Tail(s))
<1> DEFINE t == Tail(s)
           f == [i \in 1 .. Len(t) |-> i + 1]
<1>1. /\ t \in Seq(S) /\ Len(s) \in Nat /\ Len(s) # 0 /\ Len(t) = Len(s) - 1
      /\ \A i \in 1 .. Len(t) : t[i] = s[i + 1]
      /\ Head(s) = s[1]
  OBVIOUS
<1> HIDE DEF t
<1>2. /\ f \in [1 .. Len(t) -> 1 .. Len(s)]
      /\ \A i \in 1 .. Len(t) : t[i] = s[f[i]]
      /\ \A i, j \in 1 .. Len(t) : i < j => f[i] < f[j]
  BY <1>1
<1> HIDE DEF f
<1>3. Within(t, s)
  BY <1>1, <1>2, WithinAny
<1>4. Has(s, Head(s).name)
  BY <1>1 DEF Has
<1>5. \A y : Ordered(s, Head(s).name, y) => ~Has(t, y)
  BY <1>1 DEF Ordered, Has
<1>6. Once(s) /\ Grant(Head(s)) => ~Granted(t)
  <2> SUFFICES ASSUME Once(s), Grant(s[1]), NEW i \in 1 .. Len(t), Grant(t[i])
               PROVE  FALSE
    BY <1>1 DEF Granted
  <2>1. i + 1 \in 1 .. Len(s) /\ 1 \in 1 .. Len(s) /\ Grant(s[i + 1]) /\ i + 1 # 1
    BY <1>1
  <2> QED
    BY <2>1 DEF Once
<1> QED
  BY <1>3, <1>4, <1>5, <1>6 DEF t

\* What remains when one is lost.
LEMMA WithinWithout ==
  ASSUME NEW S, NEW s \in Seq(S), NEW i \in 1 .. Len(s)
  PROVE  Within(Without(s, i), s)
<1> DEFINE t == Without(s, i)
           f == [j \in 1 .. Len(t) |-> IF j < i THEN j ELSE j + 1]
<1>1. /\ t \in Seq(S) /\ Len(s) \in Nat /\ Len(t) = Len(s) - 1
      /\ \A j \in 1 .. Len(t) : t[j] = IF j < i THEN s[j] ELSE s[j + 1]
  BY WithoutType DEF Without
<1> HIDE DEF t
<1>2. /\ f \in [1 .. Len(t) -> 1 .. Len(s)]
      /\ \A j \in 1 .. Len(t) : t[j] = s[f[j]]
      /\ \A j, k \in 1 .. Len(t) : j < k => f[j] < f[k]
  BY <1>1
<1> HIDE DEF f
<1> QED
  BY <1>1, <1>2, WithinAny DEF t

\* What one more message adds.
More(t, s, m) ==
  /\ \A n : Has(t, n) => Has(s, n) \/ m.name = n
  /\ Granted(t) => Granted(s) \/ Grant(m)
  /\ Once(s) /\ ~(Granted(s) /\ Grant(m)) => Once(t)
  /\ \A x, y : Ordered(s, x, y) /\ ~(Has(s, x) /\ m.name = y) => Ordered(t, x, y)

\* What a socket holds after one more message was sent on it.
LEMMA TransmitMore ==
  ASSUME NEW S, NEW s \in Seq(S), NEW m \in S
  PROVE  More(Transmit(s, m), s, m)
<1>1. More(s, s, m)
  BY DEF More
<1>2. More(Append(s, m), s, m)
  <2> DEFINE t == Append(s, m)
             k == Len(s) + 1
  <2>1. /\ Len(s) \in Nat /\ Len(t) = k /\ t[k] = m
        /\ \A i \in 1 .. Len(s) : t[i] = s[i]
        /\ \A i \in 1 .. k : i \in 1 .. Len(s) \/ i = k
    OBVIOUS
  <2> HIDE DEF t
  <2>2. \A n : Has(t, n) => Has(s, n) \/ m.name = n
    BY <2>1 DEF Has
  <2>3. Granted(t) => Granted(s) \/ Grant(m)
    BY <2>1 DEF Granted
  <2>4. Once(s) /\ ~(Granted(s) /\ Grant(m)) => Once(t)
    BY <2>1 DEF Once, Granted
  <2>5. \A x, y : Ordered(s, x, y) /\ ~(Has(s, x) /\ m.name = y) => Ordered(t, x, y)
    BY <2>1 DEF Ordered, Has
  <2> QED
    BY <2>2, <2>3, <2>4, <2>5 DEF More, t
<1> QED
  BY <1>1, <1>2 DEF Transmit

\* Messages that get lost, and answers that are read, make it no worse.
LEMMA PowerWithin ==
  ASSUME NEW on, NEW h, NEW c, NEW r, NEW run, Power(on, h, c, r, run),
         NEW c2, NEW r2, Within(c2, c), Within(r2, r)
  PROVE  Power(on, h, c2, r2, run)
<1>1. \A x, y : NoneBehind(r, c, x, y) => NoneBehind(r2, c2, x, y)
  BY DEF NoneBehind, Within
<1> QED
  BY <1>1 DEF Power, Within

\* A command that is sent again, behind everything that is on the wire.
LEMMA PowerAgain ==
  ASSUME NEW on, NEW h, NEW c, NEW r, NEW run, Power(on, h, c, r, run),
         NEW m, m.name = h, NEW c2, More(c2, c, m)
  PROVE  Power(on, h, c2, r, run)
<1>1. h = "POWERON" /\ NoneBehind(r, c, "POWERON", "POWEROFF") =>
        NoneBehind(r, c2, "POWERON", "POWEROFF")
  BY DEF NoneBehind, More
<1>2. h = "POWEROFF" /\ NoneBehind(r, c, "POWEROFF", "POWERON") =>
        NoneBehind(r, c2, "POWEROFF", "POWERON")
  BY DEF NoneBehind, More
<1> QED
  BY <1>1, <1>2 DEF Power, More

\* Between two commands, only copies of what agrees with powered_up are left.
Settled(on, c, r, run) ==
  /\ on => ~Has(r, "POWEROFF") /\ ~Has(c, "POWEROFF") /\ ~Granted(r) /\ run
  /\ ~on => ~Has(r, "POWERON") /\ ~Has(c, "POWERON")

\* That is the state of the wire when nothing is queued.
LEMMA SettledIdle ==
  ASSUME NEW on, NEW c, NEW r, NEW run
  PROVE  Settled(on, c, r, run) <=> Power(on, "none", c, r, run)
BY DEF Settled, Power

\* The first copy of the next command.
LEMMA SettledNext ==
  ASSUME NEW on, NEW c, NEW r, NEW run, Settled(on, c, r, run),
         NEW m, NEW c2, More(c2, c, m)
  PROVE  Power(on, m.name, c2, r, run)
<1>1. \A s, x, y : ~Has(s, x) \/ ~Has(s, y) => Ordered(s, x, y)
  BY DEF Has, Ordered
<1>2. Once(r) \/ Granted(r)
  BY DEF Once, Granted
<1>3. Granted(r) => Has(r, "POWERON")
  BY DEF Granted, Grant, Has
<1>4. CASE on /\ m.name # "POWEROFF"
  BY <1>4 DEF Settled, Power, More
<1>5. CASE on /\ m.name = "POWEROFF"
  <2>1. Ordered(c2, "POWEROFF", "POWERON")
    BY <1>1, <1>5 DEF Settled, More
  <2>2. Ordered(r, "POWEROFF", "POWERON")
    BY <1>1, <1>5 DEF Settled
  <2> QED
    BY <1>5, <2>1, <2>2 DEF Settled, Power, NoneBehind
<1>6. CASE ~on /\ m.name = "POWERON"
  <2>1. Ordered(c2, "POWERON", "POWEROFF")
    BY <1>1, <1>6 DEF Settled, More
  <2>2. Ordered(r, "POWERON", "POWEROFF")
    BY <1>1, <1>6 DEF Settled
  <2> QED
    BY <1>2, <1>3, <1>6, <2>1, <2>2 DEF Settled, Power, NoneBehind
<1>7. CASE ~on /\ m.name # "POWERON"
  BY <1>7 DEF Settled, Power, More
<1> QED
  BY <1>4, <1>5, <1>6, <1>7

\* The answer to the command h is read.
LEMMA PowerRead ==
  ASSUME NEW on, NEW h, NEW c, NEW r, NEW run, Power(on, h, c, r, run),
         NEW S, r \in Seq(S), r # <<>>, Head(r).name = h,
         NEW on2,
         h = "POWERON" => on2 /\ Head(r).ok = TRUE,
         h = "POWEROFF" => ~on2,
         h \notin {"POWERON", "POWEROFF"} => on2 = on
  PROVE  Settled(on2, c, Tail(r), run)
<1> DEFINE t == Tail(r)
<1>1. /\ Within(t, r) /\ Has(r, Head(r).name)
      /\ \A y : Ordered(r, Head(r).name, y) => ~Has(t, y)
      /\ Once(r) /\ Grant(Head(r)) => ~Granted(t)
  BY WithinTail
<1> SUFFICES Settled(on2, c, t, run)
  OBVIOUS
<1> HIDE DEF t
<1>2. h = "POWERON" => Grant(Head(r)) /\ Granted(r)
  <2>1. Head(r) = r[1] /\ 1 \in 1 .. Len(r)
    OBVIOUS
  <2> QED
    BY <2>1 DEF Grant, Granted
<1>3. CASE h = "POWERON"
  <2>1. ~on /\ on2
    BY <1>2, <1>3 DEF Power
  <2>2. NoneBehind(r, c, "POWERON", "POWEROFF") /\ Once(r) /\ run
    BY <1>2, <1>3, <2>1 DEF Power
  <2>3. ~Has(t, "POWEROFF") /\ ~Has(c, "POWEROFF") /\ ~Granted(t)
    BY <1>1, <1>2, <1>3, <2>2 DEF NoneBehind
  <2> QED
    BY <2>1, <2>2, <2>3 DEF Settled
<1>4. CASE h = "POWEROFF"
  <2>1. ~on2
    BY <1>4
  <2>2. CASE on
    <3>1. NoneBehind(r, c, "POWEROFF", "POWERON")
      BY <1>4, <2>2 DEF Power
    <3>2. ~Has(t, "POWERON") /\ ~Has(c, "POWERON")
      BY <1>1, <1>4, <3>1 DEF NoneBehind
    <3> QED
      BY <2>1, <3>2 DEF Settled
  <2>3. CASE ~on
    <3>1. ~Has(r, "POWERON") /\ ~Has(c, "POWERON")
      BY <1>4, <2>3 DEF Power
    <3> QED
      BY <1>1, <2>1, <3>1 DEF Settled, Within
  <2> QED
    BY <2>2, <2>3
<1>5. CASE h \notin {"POWERON", "POWEROFF"}
  <2>1. on2 = on /\ h # "POWERON" /\ h # "POWEROFF"
    BY <1>5
  <2>2. Settled(on, c, r, run)
    BY <2>1 DEF Power, Settled
  <2>3. Settled(on, c, t, run)
    BY <1>1, <2>2 DEF Settled, Within
  <2> QED
    BY <2>1, <2>3
<1> QED
  BY <1>3, <1>4, <1>5

\* The transceiver takes the first command and answers it.
LEMMA PowerExecute ==
  ASSUME NEW on, NEW h, NEW c, NEW r, NEW run, Power(on, h, c, r, run),
         NEW S, c \in Seq(S), c # <<>>,
         NEW m, m.name = Head(c).name, NEW r2, More(r2, r, m), NEW run2,
         Grant(m) => ~run /\ run2,
         m.name # "POWEROFF" => (run => run2)
  PROVE  Power(on, h, Tail(c), r2, run2)
<1> DEFINE t == Tail(c)
<1>1. /\ Within(t, c) /\ Has(c, m.name)
      /\ \A y : Ordered(c, m.name, y) => ~Has(t, y)
  BY WithinTail
<1> HIDE DEF t
<1>2. Grant(m) => m.name = "POWERON"
  BY DEF Grant
<1>3. \A x, y : NoneBehind(r, c, x, y) => NoneBehind(r2, t, x, y)
  <2> SUFFICES ASSUME NEW x, NEW y, NoneBehind(r, c, x, y)
               PROVE  NoneBehind(r2, t, x, y)
    OBVIOUS
  <2>1. Ordered(t, x, y)
    BY <1>1 DEF NoneBehind, Within
  <2>2. Ordered(r2, x, y)
    BY <1>1 DEF NoneBehind, More
  <2>3. ~(Has(r2, x) /\ Has(t, y))
    BY <1>1 DEF NoneBehind, More, Within
  <2> QED
    BY <2>1, <2>2, <2>3 DEF NoneBehind
<1>4. ASSUME ~on, h = "POWERON"
      PROVE  /\ NoneBehind(r2, t, "POWERON", "POWEROFF") /\ Once(r2)
             /\ Granted(r2) => run2
  <2>1. NoneBehind(r, c, "POWERON", "POWEROFF") /\ Once(r) /\ (Granted(r) => run)
    BY <1>4 DEF Power
  <2>2. Granted(r) => Has(r, "POWERON")
    BY DEF Granted, Grant, Has
  <2>3. Granted(r) => m.name # "POWEROFF"
    BY <1>1, <2>1, <2>2 DEF NoneBehind
  <2>4. Once(r2)
    BY <2>1 DEF More
  <2>5. Granted(r2) => run2
    BY <2>1, <2>3 DEF More
  <2> QED
    BY <1>3, <2>1, <2>4, <2>5
<1>5. ASSUME ~on, h # "POWERON"
      PROVE  ~Has(r2, "POWERON") /\ ~Has(t, "POWERON")
  BY <1>1, <1>5 DEF Power, More, Within
<1>6. ASSUME on, h # "POWEROFF"
      PROVE  ~Has(r2, "POWEROFF") /\ ~Has(t, "POWEROFF") /\ ~Granted(r2) /\ run2
  BY <1>1, <1>6 DEF Power, More, Within
<1>7. ASSUME on, h = "POWEROFF"
      PROVE  /\ NoneBehind(r2, t, "POWEROFF", "POWERON") /\ ~Granted(r2)
             /\ Has(t, "POWERON") => run2
  <2>1. /\ NoneBehind(r, c, "POWEROFF", "POWERON") /\ ~Granted(r)
        /\ Has(c, "POWERON") => run
    BY <1>7 DEF Power
  <2>2. ~Granted(r2)
    BY <1>1, <1>2, <2>1 DEF More
  <2>3. Has(t, "POWERON") => run2
    BY <1>1, <2>1 DEF NoneBehind, Within
  <2> QED
    BY <1>3, <2>1, <2>2, <2>3
<1> QED
  BY <1>4, <1>5, <1>6, <1>7 DEF Power, t

\* Every step keeps the wire in order.
LEMMA PowerNext ==
  ASSUME ~Linger, IInv, PowerInv, [Next]_vars
  PROVE  PowerInv'
<1> DEFINE on  == powered_up
           h   == NameOf(trx_ctrl_list)
           run == radio.running
<1>1. /\ cmdNet \in Seq(Command) /\ rspNet \in Seq(Response)
      /\ trx_ctrl_list \in Seq(Command)
      /\ powered_up \in BOOLEAN /\ radio \in Radio
  BY DEF IInv, TypeOK
<1>2. open => Power(on, h, cmdNet, rspNet, run)
  BY DEF PowerInv
<1>3. Within(cmdNet, cmdNet) /\ Within(rspNet, rspNet)
  BY WithinSelf
<1>4. ASSUME NEW q \in Seq(Command), NEW st, Send(q, st), q # <<>>
      PROVE  More(cmdNet', cmdNet, Head(q))
  <2>1. cmdNet' = Transmit(cmdNet, Head(q)) /\ Head(q) \in Command
    BY <1>4 DEF Send
  <2> QED
    BY <1>1, <2>1, TransmitMore
<1>5. ASSUME NEW req \in Request, Submit(Expand(req))
      PROVE  PowerInv'
  <2> DEFINE cs == Expand(req)
  <2>1. cs \in Seq(Command) /\ cs # <<>>
    BY <1>5, ExpandType DEF Submit
  <2> HIDE DEF cs
  <2>2. /\ open /\ open' /\ trx_ctrl_list' = trx_ctrl_list \o cs
        /\ powered_up' = powered_up /\ rspNet' = rspNet /\ radio' = radio
    BY <1>5 DEF Submit, cs
  <2>3. CASE trx_ctrl_list = <<>>
    <3>1. Send(cs, fi_state) /\ trx_ctrl_list' = cs
      BY <1>5, <2>1, <2>2, <2>3 DEF Submit, cs
    <3>2. More(cmdNet', cmdNet, Head(cs))
      BY <1>4, <2>1, <3>1
    <3>3. Settled(on, cmdNet, rspNet, run)
      BY <1>2, <2>2, <2>3, SettledIdle DEF NameOf
    <3>4. Power(on, Head(cs).name, cmdNet', rspNet, run)
      BY <3>2, <3>3, SettledNext
    <3> QED
      BY <2>1, <2>2, <3>1, <3>4 DEF PowerInv, NameOf
  <2>4. CASE trx_ctrl_list # <<>>
    <3>1. cmdNet' = cmdNet
      BY <1>5, <2>4 DEF Submit
    <3>2. NameOf(trx_ctrl_list') = h
      <4>1. trx_ctrl_list' # <<>> /\ Head(trx_ctrl_list') = Head(trx_ctrl_list)
        BY <1>1, <2>1, <2>2, <2>4
      <4> QED
        BY <2>4, <4>1 DEF NameOf
    <3> QED
      BY <1>2, <2>2, <3>1, <3>2 DEF PowerInv
  <2> QED
    BY <2>3, <2>4
<1>6. CASE Resend
  <2>1. /\ open /\ trx_ctrl_list # <<>> /\ Send(trx_ctrl_list, fi_state)
        /\ UNCHANGED <<open, powered_up, trx_ctrl_list, rspNet, radio>>
    BY <1>6 DEF Resend
  <2>2. More(cmdNet', cmdNet, Head(trx_ctrl_list)) /\ Head(trx_ctrl_list).name = h
    BY <1>1, <1>4, <2>1 DEF NameOf
  <2>3. Power(on, h, cmdNet', rspNet, run)
    <3> HIDE DEF on, h, run
    <3> QED
      BY <1>2, <2>1, <2>2, PowerAgain
  <2> QED
    BY <2>1, <2>3 DEF PowerInv
<1>7. CASE GiveUp \/ ReadError \/ CloseReq
  BY <1>7 DEF GiveUp, ReadError, CloseReq, Terminate, PowerInv
<1>8. CASE ReadStray
  <2>1. /\ open /\ rspNet # <<>> /\ rspNet' = Tail(rspNet)
        /\ UNCHANGED <<open, powered_up, trx_ctrl_list, cmdNet, radio>>
    BY <1>8 DEF ReadStray
  <2>2. Within(rspNet', rspNet)
    BY <1>1, <2>1, WithinTail
  <2>3. Power(on, h, cmdNet, rspNet', run)
    <3> HIDE DEF on, h, run
    <3> QED
      BY <1>2, <1>3, <2>1, <2>2, PowerWithin
  <2> QED
    BY <2>1, <2>3 DEF PowerInv
<1>9. ASSUME NEW more \in Followers, ReadAnswer(more)
      PROVE  PowerInv'
  <2> DEFINE k == Head(trx_ctrl_list)
             a == Head(rspNet)
             q == trx_ctrl_list'
  <2>1. /\ open /\ open' = open /\ radio' = radio
        /\ rspNet # <<>> /\ trx_ctrl_list # <<>> /\ rspNet' = Tail(rspNet)
        /\ Accepted(a, k)
        /\ powered_up' = CASE k.name = "POWERON"  -> TRUE
                           [] k.name = "POWEROFF" -> FALSE
                           [] OTHER               -> powered_up
        /\ q = Tail(trx_ctrl_list) \o more
        /\ Send(q, StateAfter(k.name))
    BY <1>9 DEF ReadAnswer
  <2>2. a \in Response /\ k \in Command /\ k.name = h
    BY <1>1, <2>1 DEF NameOf
  <2>3. a.name = h /\ (h = "POWERON" => a.ok = TRUE)
    BY <2>1, <2>2 DEF Accepted, Matches, Critical, Response
  <2>4. /\ h = "POWERON" => powered_up'
        /\ h = "POWEROFF" => ~powered_up'
        /\ h \notin {"POWERON", "POWEROFF"} => powered_up' = on
    BY <2>1, <2>2
  <2>5. Settled(powered_up', cmdNet, rspNet', run)
    <3> DEFINE on2 == powered_up'
    <3>1. /\ h = "POWERON" => on2 /\ Head(rspNet).ok = TRUE
          /\ h = "POWEROFF" => ~on2
          /\ h \notin {"POWERON", "POWEROFF"} => on2 = on
          /\ Head(rspNet).name = h
          /\ Power(on, h, cmdNet, rspNet, run)
      BY <1>2, <2>1, <2>3, <2>4
    <3> HIDE DEF on2, h, on, run
    <3>2. Settled(on2, cmdNet, Tail(rspNet), run)
      BY <1>1, <2>1, <3>1, PowerRead
    <3> QED
      BY <2>1, <3>2 DEF on2
  <2>6. q \in Seq(Command)
    BY <1>1, <2>1, FollowersType
  <2>7. CASE q = <<>>
    <3>1. cmdNet' = cmdNet
      BY <2>1, <2>7 DEF Send
    <3>2. Power(powered_up', "none", cmdNet, rspNet', run)
      BY <2>5, SettledIdle
    <3> QED
      BY <2>1, <2>7, <3>1, <3>2 DEF PowerInv, NameOf
  <2>8. CASE q # <<>>
    <3>1. More(cmdNet', cmdNet, Head(q))
      <4> HIDE DEF q
      <4> QED
        BY <1>4, <2>1, <2>6, <2>8
    <3>2. Power(powered_up', Head(q).name, cmdNet', rspNet', run)
      BY <2>5, <3>1, SettledNext
    <3> QED
      BY <2>1, <2>8, <3>2 DEF PowerInv, NameOf
  <2> QED
    BY <2>7, <2>8
<1>10. CASE Open
  <2>1. /\ open' /\ ~open /\ cmdNet = <<>> /\ rspNet = <<>>
        /\ UNCHANGED <<powered_up, trx_ctrl_list, cmdNet, rspNet, radio>>
    BY <1>10 DEF Open
  <2>2. trx_ctrl_list = <<>>
    BY <2>1 DEF IInv, WaitingMeansTimed
  <2>3. ~Has(<<>>, "POWERON") /\ ~powered_up
    BY <2>1 DEF Has, PowerInv
  <2>4. Power(powered_up, "none", cmdNet, rspNet, run)
    BY <2>1, <2>3 DEF Power
  <2> QED
    BY <2>1, <2>2, <2>4 DEF PowerInv, NameOf
<1>11. CASE Execute
  <2> DEFINE k == Head(cmdNet)
             m == [name |-> k.name, arg |-> k.arg, ok |-> Obeys(k)]
             r == rspNet'
  <2>1. /\ cmdNet # <<>> /\ cmdNet' = Tail(cmdNet) /\ r = Transmit(rspNet, m)
        /\ radio' = (IF Obeys(k) THEN Effect(k) ELSE radio)
        /\ UNCHANGED <<open, powered_up, trx_ctrl_list>>
    BY <1>11 DEF Execute, trxVars
  <2>2. k \in Command
    BY <1>1, <2>1
  <2>3. m \in Response
    BY <2>2 DEF Command, Response, Obeys
  <2>4. m.name = k.name /\ (Grant(m) => k.name = "POWERON" /\ Obeys(k))
    BY DEF Grant
  <2> HIDE DEF m
  <2>5. More(r, rspNet, m)
    BY <1>1, <2>1, <2>3, TransmitMore
  <2>6. /\ Grant(m) => ~run /\ radio'.running
        /\ k.name # "POWEROFF" => (run => radio'.running)
    BY <1>1, <2>1, <2>4 DEF Obeys, Effect, Radio
  <2>7. open => Power(on, h, Tail(cmdNet), r, radio'.running)
    <3> DEFINE run2 == radio'.running
    <3>1. /\ Grant(m) => ~run /\ run2
          /\ m.name # "POWEROFF" => (run => run2)
          /\ m.name = Head(cmdNet).name
      BY <2>4, <2>6
    <3> HIDE DEF run2, run, on, h, r, k
    <3>2. open => Power(on, h, Tail(cmdNet), r, run2)
      BY <1>1, <1>2, <2>1, <2>5, <3>1, PowerExecute
    <3> QED
      BY <3>2 DEF run2
  <2> QED
    BY <2>1, <2>7 DEF PowerInv
<1>12. CASE LoseCmd
  <2>1. PICK i \in 1 .. Len(cmdNet) : cmdNet' = Without(cmdNet, i)
    BY <1>12 DEF LoseCmd
  <2>2. Within(cmdNet', cmdNet)
    BY <1>1, <2>1, WithinWithout
  <2>3. open => Power(on, h, cmdNet', rspNet, run)
    <3> HIDE DEF on, h, run
    <3> QED
      BY <1>2, <1>3, <2>2, PowerWithin
  <2> QED
    BY <1>12, <2>3 DEF LoseCmd, trxVars, PowerInv
<1>13. CASE LoseRsp
  <2>1. PICK i \in 1 .. Len(rspNet) : rspNet' = Without(rspNet, i)
    BY <1>13 DEF LoseRsp
  <2>2. Within(rspNet', rspNet)
    BY <1>1, <2>1, WithinWithout
  <2>3. open => Power(on, h, cmdNet, rspNet', run)
    <3> HIDE DEF on, h, run
    <3> QED
      BY <1>2, <1>3, <2>2, PowerWithin
  <2> QED
    BY <1>13, <2>3 DEF LoseRsp, trxVars, PowerInv
<1>14. CASE UNCHANGED vars
  BY <1>14 DEF vars, trxVars, PowerInv
<1> QED
  BY <1>5, <1>6, <1>7, <1>8, <1>9, <1>10, <1>11, <1>12, <1>13, <1>14 DEF Next

\* Nothing is on the wire initially.
LEMMA PowerInit == Init => PowerInv
<1>1. ~Has(<<>>, "POWERON")
  BY DEF Has
<1> QED
  BY <1>1 DEF Init, PowerInv, Power, NameOf

\* A transceiver that is held to be up is running once the last command was
\* answered, whatever was lost, repeated or answered late, provided that no
\* datagram outlives the instance of trx_if.c that sent it: a POWEROFF, or an
\* answer, that reaches the next instance would break it.
THEOREM PoweredUpIsRunning ==
  ASSUME ~Linger
  PROVE  Safety => []PoweredUpMeansRunning
<1>1. Init => PowerInv
  BY PowerInit
<1>2. IInv /\ PowerInv /\ [Next]_vars => PowerInv'
  BY PowerNext
<1>3. PowerInv => PoweredUpMeansRunning
  BY DEF PowerInv, Power, NameOf, PoweredUpMeansRunning
<1> QED
  BY <1>1, <1>2, <1>3, Invariance, PTL DEF Safety
=============================================================================
