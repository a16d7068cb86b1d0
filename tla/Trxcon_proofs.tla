---------------------------- MODULE Trxcon_proofs ----------------------------
(***************************************************************************)
(* Proofs about Trxcon: its type invariant, and that the timeslot table,    *)
(* the ARFCN and the power scan of an instance stay in step with what the   *)
(* transceiver was told, for every number of timeslots, every set of ARFCNs *)
(* and every capacity of the queue and of the socket.                       *)
(*                                                                          *)
(* The argument: as long as no repetition crosses its answer, at most one   *)
(* datagram is on its way, it carries the command at the head of the queue  *)
(* or the answer to it, and by the time of the answer the transceiver does  *)
(* what it says.  For every timeslot and for the ARFCN, the last command    *)
(* queued for it, or when there is none the transceiver itself, then has    *)
(* the value the instance remembers.  Once a repetition did cross, only the *)
(* types are left, until the instance is gone and the next one starts with  *)
(* an empty queue.                                                           *)
(***************************************************************************)
EXTENDS Trxcon, Inductions

-----------------------------------------------------------------------------
(* The inductive invariant.                                                  *)

Freqs == {ArfcnArg(a) : a \in ArfcnNr}
Slots == {SlotArg(t, p) : t \in Tns, p \in Pchan \cup {NoPchan}}
Tas   == {TaArg(t) : t \in TaNr}

\* The commands that can be queued.
Queued == {c \in Phy!Command :
             /\ c.name \in {"RXTUNE", "TXTUNE", "MEASURE"} => c.arg \in Freqs
             /\ c.name = "SETSLOT" => c.arg \in Slots
             /\ c.name = "SETTA" => c.arg \in Tas}

PhyTyped ==
  /\ Phy!TypeOK
  /\ trx_ctrl_list \in Seq(Queued)
  /\ cmdNet \in Seq(Queued)

\* A transceiver in the state a does what the command c says.
Follows(c, a) ==
  /\ c.name = "RXTUNE" => a.arfcn = c.arg[2]
  /\ c.name = "SETSLOT" => a.slot[c.arg[2]] = c.arg[3]

\* r answers c.
Answers(r, c) == r.name = c.name /\ r.arg = c.arg

\* At most one datagram is on its way: the head of the queue or its answer.
Wire ==
  /\ open /\ trx_ctrl_list = <<>> => cmdNet = <<>> /\ rspNet = <<>>
  /\ open /\ trx_ctrl_list # <<>> =>
       \/ cmdNet = <<>> /\ rspNet = <<>>
       \/ cmdNet = <<Head(trx_ctrl_list)>> /\ rspNet = <<>>
       \/ /\ cmdNet = <<>> /\ Len(rspNet) = 1
          /\ Answers(Head(rspNet), Head(trx_ctrl_list))
          /\ Follows(Head(trx_ctrl_list), air)

\* Among the commands K queued in q the last one is c; or none is queued, and
\* the transceiver already is as it should be (now).
Told(q, K, c, now) ==
  \/ now /\ \A i \in 1 .. Len(q) : q[i] \notin K
  \/ \E i \in 1 .. Len(q) :
       q[i] = c /\ \A j \in (i + 1) .. Len(q) : q[j] \notin K

SlotCmds(t) == {c \in Queued : c.name = "SETSLOT" /\ c.arg[2] = t}
TuneCmds    == {c \in Queued : c.name = "RXTUNE"}

SlotTold(q, t, p, a) ==
  Told(q, SlotCmds(t), Phy!Cmd("SETSLOT", SlotArg(t, p)),
       a.slot[t] = ChanType[p])

SlotsTold ==
  \A t \in Tns : ts[t] # NoPchan => SlotTold(trx_ctrl_list, t, ts[t], air)

TuneTold(q, f, a) ==
  Told(q, TuneCmds, Phy!Cmd("RXTUNE", ArfcnArg(f)), a.arfcn = f)

ArfcnTold ==
  arfcn \notin {0, NoArfcn} \cup BadNr => TuneTold(trx_ctrl_list, arfcn, air)

\* The measurement a scan waits for is queued, unless there can be none.
ScanTold ==
  scan # NULL /\ ~Stalled =>
    \E i \in 1 .. Len(trx_ctrl_list) :
       trx_ctrl_list[i] = Phy!Cmd("MEASURE", ArfcnArg(scan.first))

Tuned == {"FBSB_SEARCH", "BCCH_CCCH", "DEDICATED", "PACKET_DATA"}

FsmTyped ==
  /\ state \in States
  /\ scan = NULL \/ (/\ scan \in [first : ArfcnNr, last : ArfcnNr]
                     /\ scan.first .. scan.last \subseteq ArfcnNr)
  /\ arfcn \in ArfcnNr \cup {0, NoArfcn}
  /\ ta \in TaNr
  /\ ts \in [Tns -> Pchan \cup {NoPchan}]
  /\ pdchs = NULL \/ pdchs \in SUBSET Tns
  /\ state \in Tuned => arfcn \in ArfcnNr \cup {NoArfcn}

AirTyped ==
  air \in [arfcn : ArfcnNr \cup {NoArfcn}, hopping : BOOLEAN, ta : TaNr,
           slot : [Tns -> 0 .. 13]]

\* Nothing is left of an instance that is gone.
Down ==
  ~open => trx_ctrl_list = <<>> /\ ts = NoSlots /\ arfcn = 0 /\ scan = NULL

\* What holds whatever crosses.
Base ==
  /\ PhyTyped /\ FsmTyped /\ AirTyped
  /\ StateOwnsItsData /\ Down /\ late \in BOOLEAN

\* What holds as long as no repetition crosses its answer.
InStep == Wire /\ SlotsTold /\ ArfcnTold /\ ScanTold

Inv == Base /\ (~late => InStep)

-----------------------------------------------------------------------------
(* Lemmas about queued commands.                                             *)

\* None of the commands of q is in K.
None(q, K) == \A i \in 1 .. Len(q) : q[i] \notin K

\* A queue and what is put behind it.
LEMMA Behind ==
  ASSUME NEW S, NEW q \in Seq(S), NEW cs \in Seq(S)
  PROVE  /\ q \o cs \in Seq(S)
         /\ Len(q) \in Nat /\ Len(cs) \in Nat
         /\ Len(q \o cs) = Len(q) + Len(cs)
         /\ \A i \in 1 .. Len(q) : (q \o cs)[i] = q[i]
         /\ \A j \in 1 .. Len(cs) : (q \o cs)[Len(q) + j] = cs[j]
         /\ \A k \in 1 .. Len(q \o cs) :
              \/ k \in 1 .. Len(q)
              \/ k - Len(q) \in 1 .. Len(cs) /\ (q \o cs)[k] = cs[k - Len(q)]
OBVIOUS

LEMMA NoneBehind ==
  ASSUME NEW S, NEW q \in Seq(S), NEW cs \in Seq(S), NEW K,
         None(q, K), None(cs, K)
  PROVE  None(q \o cs, K)
<1> DEFINE r == q \o cs
<1>1. \A k \in 1 .. Len(r) :
        \/ k \in 1 .. Len(q) /\ r[k] = q[k]
        \/ k - Len(q) \in 1 .. Len(cs) /\ r[k] = cs[k - Len(q)]
  BY Behind
<1> HIDE DEF r
<1>2. None(r, K)
  BY <1>1 DEF None
<1> QED
  BY <1>2 DEF r

\* Commands of another kind do not disturb what was queued.
LEMMA ToldBehind ==
  ASSUME NEW S, NEW q \in Seq(S), NEW cs \in Seq(S), NEW K, NEW c, NEW now,
         Told(q, K, c, now), None(cs, K)
  PROVE  Told(q \o cs, K, c, now)
<1> DEFINE r == q \o cs
<1>1. /\ Len(q) \in Nat /\ Len(cs) \in Nat /\ Len(r) = Len(q) + Len(cs)
      /\ \A i \in 1 .. Len(q) : r[i] = q[i]
      /\ \A k \in 1 .. Len(r) :
           \/ k \in 1 .. Len(q) /\ r[k] = q[k]
           \/ k - Len(q) \in 1 .. Len(cs) /\ r[k] = cs[k - Len(q)]
  BY Behind
<1> HIDE DEF r
<1>2. CASE now /\ \A i \in 1 .. Len(q) : q[i] \notin K
  BY <1>1, <1>2 DEF Told, None
<1>3. ASSUME NEW i \in 1 .. Len(q), q[i] = c,
             \A j \in (i + 1) .. Len(q) : q[j] \notin K
      PROVE  Told(r, K, c, now)
  <2>1. i \in 1 .. Len(r) /\ r[i] = c
    BY <1>1, <1>3
  <2>2. \A j \in (i + 1) .. Len(r) : r[j] \notin K
    <3> SUFFICES ASSUME NEW j \in (i + 1) .. Len(r) PROVE r[j] \notin K
      OBVIOUS
    <3>1. j \in 1 .. Len(r) /\ (j \in 1 .. Len(q) => j \in (i + 1) .. Len(q))
      BY <1>1
    <3> QED
      BY <1>1, <1>3, <3>1 DEF None
  <2> QED
    BY <2>1, <2>2 DEF Told
<1> QED
  BY <1>2, <1>3 DEF Told, r

\* The last command counts, whatever was queued before.
LEMMA ToldLast ==
  ASSUME NEW S, NEW q \in Seq(S), NEW cs \in Seq(S), NEW K, NEW c, NEW now,
         Told(cs, K, c, FALSE)
  PROVE  Told(q \o cs, K, c, now)
<1> DEFINE r == q \o cs
<1>1. /\ Len(q) \in Nat /\ Len(cs) \in Nat /\ Len(r) = Len(q) + Len(cs)
      /\ \A j \in 1 .. Len(cs) : r[Len(q) + j] = cs[j]
      /\ \A k \in 1 .. Len(r) :
           \/ k \in 1 .. Len(q) /\ r[k] = q[k]
           \/ k - Len(q) \in 1 .. Len(cs) /\ r[k] = cs[k - Len(q)]
  BY Behind
<1> HIDE DEF r
<1>2. PICK i \in 1 .. Len(cs) :
        cs[i] = c /\ \A j \in (i + 1) .. Len(cs) : cs[j] \notin K
  BY DEF Told
<1> DEFINE k == Len(q) + i
<1>3. k \in 1 .. Len(r) /\ r[k] = c
  BY <1>1, <1>2
<1>4. \A j \in (k + 1) .. Len(r) : r[j] \notin K
  <2> SUFFICES ASSUME NEW j \in (k + 1) .. Len(r) PROVE r[j] \notin K
    OBVIOUS
  <2>1. /\ j \in 1 .. Len(r) /\ ~(j \in 1 .. Len(q))
        /\ j - Len(q) \in (i + 1) .. Len(cs)
    BY <1>1
  <2> QED
    BY <1>1, <1>2, <2>1
<1> QED
  BY <1>3, <1>4 DEF Told, r

LEMMA ToldOne ==
  ASSUME NEW K, NEW c
  PROVE  Told(<<c>>, K, c, FALSE)
<1>1. Len(<<c>>) = 1 /\ <<c>>[1] = c
  OBVIOUS
<1> QED
  BY <1>1 DEF Told

\* What is known when the first command is taken off: it has taken effect.
LEMMA ToldTail ==
  ASSUME NEW S, NEW q \in Seq(S), q # <<>>, NEW K, NEW c, NEW now,
         Told(q, K, c, now), Head(q) = c => now
  PROVE  Told(Tail(q), K, c, now)
<1> DEFINE r == Tail(q)
<1>1. /\ Len(q) \in Nat /\ Len(r) = Len(q) - 1 /\ Head(q) = q[1]
      /\ \A i \in 1 .. Len(r) : r[i] = q[i + 1] /\ i + 1 \in 1 .. Len(q)
  OBVIOUS
<1> HIDE DEF r
<1>2. CASE now /\ \A i \in 1 .. Len(q) : q[i] \notin K
  BY <1>1, <1>2 DEF Told
<1>3. ASSUME NEW i \in 1 .. Len(q), q[i] = c,
             \A j \in (i + 1) .. Len(q) : q[j] \notin K
      PROVE  Told(r, K, c, now)
  <2>1. CASE i = 1
    <3>1. \A j \in 1 .. Len(r) : r[j] \notin K
      <4> TAKE j \in 1 .. Len(r)
      <4>1. j + 1 \in (i + 1) .. Len(q)
        BY <1>1, <2>1
      <4> QED
        BY <1>1, <1>3, <4>1
    <3> QED
      BY <1>1, <1>3, <2>1, <3>1 DEF Told
  <2>2. CASE i # 1
    <3>1. i - 1 \in 1 .. Len(r) /\ r[i - 1] = c
      BY <1>1, <1>3, <2>2
    <3>2. \A j \in ((i - 1) + 1) .. Len(r) : r[j] \notin K
      <4> TAKE j \in ((i - 1) + 1) .. Len(r)
      <4>1. j \in 1 .. Len(r) /\ j + 1 \in (i + 1) .. Len(q)
        BY <1>1
      <4> QED
        BY <1>1, <1>3, <4>1
    <3> QED
      BY <3>1, <3>2 DEF Told
  <2> QED
    BY <2>1, <2>2
<1> QED
  BY <1>2, <1>3 DEF Told, r

\* The transceiver executes the first command.
LEMMA ToldNow ==
  ASSUME NEW S, NEW q \in Seq(S), NEW K, NEW c, NEW now, NEW now2,
         Told(q, K, c, now),
         now => now2 \/ (q # <<>> /\ Head(q) \in K)
  PROVE  Told(q, K, c, now2)
<1>1. q # <<>> => Head(q) = q[1] /\ 1 \in 1 .. Len(q)
  OBVIOUS
<1> QED
  BY <1>1 DEF Told

-----------------------------------------------------------------------------
(* Lemmas about the commands.                                                *)

\* The arguments are what a command may carry, and tell their parts.
LEMMA Args ==
  /\ Phy!CmdArgs = Freqs \cup {Hopping} \cup Slots \cup Tas \cup {Phy!NoArg}
  /\ \A a : ArfcnArg(a)[2] = a /\ ArfcnArg(a) # Hopping
  /\ \A t, p : SlotArg(t, p)[2] = t /\ SlotArg(t, p)[3] = ChanType[p]
  /\ \A t : TaArg(t)[2] = t
<1>1. Phy!CmdArgs = Freqs \cup {Hopping} \cup Slots \cup Tas \cup {Phy!NoArg}
  <2>1. Freqs = {ArfcnArg(a) : a \in ArfcnNr \ BadNr}
                  \cup {ArfcnArg(a) : a \in BadNr}
    BY TrxconAssumption DEF Freqs
  <2> QED
    BY <2>1 DEF Phy!CmdArgs, Slots, Tas
<1>2. \A a : ArfcnArg(a) # Hopping
  <2> TAKE a
  <2>1. ArfcnArg(a)[1] = "arfcn" /\ Hopping[1] = "ma"
    BY DEF ArfcnArg, Hopping
  <2> QED
    BY <2>1
<1> QED
  BY <1>1, <1>2 DEF ArfcnArg, SlotArg, TaArg

LEMMA CmdIs ==
  ASSUME NEW n, NEW a
  PROVE  Phy!Cmd(n, a).name = n /\ Phy!Cmd(n, a).arg = a
BY DEF Phy!Cmd

\* The commands of each kind can be queued.
LEMMA CmdQueued ==
  /\ \A n \in {"RXTUNE", "TXTUNE", "MEASURE"}, a \in ArfcnNr :
       Phy!Cmd(n, ArfcnArg(a)) \in Queued
  /\ Phy!Cmd("SETFH", Hopping) \in Queued
  /\ \A t \in Tns, p \in Pchan \cup {NoPchan} :
       Phy!Cmd("SETSLOT", SlotArg(t, p)) \in Queued
  /\ \A t \in TaNr : Phy!Cmd("SETTA", TaArg(t)) \in Queued
  /\ \A n \in {"POWERON", "POWEROFF", "ECHO"} :
       Phy!Cmd(n, Phy!NoArg) \in Queued
<1>1. \A n \in Phy!Names, a \in Phy!CmdArgs :
        /\ n \in {"RXTUNE", "TXTUNE", "MEASURE"} => a \in Freqs
        /\ n = "SETSLOT" => a \in Slots
        /\ n = "SETTA" => a \in Tas
        => Phy!Cmd(n, a) \in Queued
  <2> SUFFICES ASSUME NEW n \in Phy!Names, NEW a \in Phy!CmdArgs,
                      n \in {"RXTUNE", "TXTUNE", "MEASURE"} => a \in Freqs,
                      n = "SETSLOT" => a \in Slots,
                      n = "SETTA" => a \in Tas
               PROVE  Phy!Cmd(n, a) \in Queued
    OBVIOUS
  <2> DEFINE c == Phy!Cmd(n, a)
  <2>1. c \in Phy!Command /\ c.name = n /\ c.arg = a
    BY CmdIs DEF Phy!Cmd, Phy!Command
  <2> HIDE DEF c
  <2> QED
    BY <2>1 DEF Queued, c
<1>2. /\ {"RXTUNE", "TXTUNE", "MEASURE", "SETFH", "SETSLOT", "SETTA",
          "POWERON", "POWEROFF", "ECHO"} \subseteq Phy!Names
  BY DEF Phy!Names
<1>3. /\ \A a \in ArfcnNr : ArfcnArg(a) \in Freqs
      /\ \A t \in Tns, p \in Pchan \cup {NoPchan} : SlotArg(t, p) \in Slots
      /\ \A t \in TaNr : TaArg(t) \in Tas
  BY DEF Freqs, Slots, Tas
<1>4. \A a \in Freqs \cup {Hopping} \cup Slots \cup Tas \cup {Phy!NoArg} :
        a \in Phy!CmdArgs
  BY Args
<1> QED
  BY <1>1, <1>2, <1>3, <1>4

\* The arguments no frequency is defined for.
BadFreqs == {ArfcnArg(a) : a \in BadNr}

LEMMA BadIs ==
  /\ Hopping \notin BadFreqs
  /\ \A a \in ArfcnNr : ArfcnArg(a) \in BadFreqs <=> a \in BadNr
BY Args DEF BadFreqs

\* What each PHYIF command is turned into.
LEMMA CmdsAre ==
  /\ Cmds("RESET", Phy!NoArg)
       = <<Phy!Cmd("POWEROFF", Phy!NoArg), Phy!Cmd("ECHO", Phy!NoArg)>>
  /\ \A f : Cmds("SETFREQ_H0", f)
              = IF f \in BadFreqs THEN <<>>
                ELSE <<Phy!Cmd("RXTUNE", f), Phy!Cmd("TXTUNE", f)>>
  /\ \A f : Cmds("SETFREQ_H1", f)
              = IF f \in BadFreqs THEN <<>> ELSE <<Phy!Cmd("SETFH", f)>>
  /\ \A f : Cmds("MEASURE", f)
              = IF f \in BadFreqs THEN <<>> ELSE <<Phy!Cmd("MEASURE", f)>>
  /\ \A n \in {"POWERON", "SETTA", "SETSLOT"} :
       \A a : Cmds(n, a) = <<Phy!Cmd(n, a)>>
<1>1. \A n, a : Cmds(n, a) = Phy!Expand([type |-> n, arg |-> a])
  BY DEF Cmds
<1>2. Cmds("RESET", Phy!NoArg)
        = <<Phy!Cmd("POWEROFF", Phy!NoArg), Phy!Cmd("ECHO", Phy!NoArg)>>
  BY <1>1 DEF Phy!Expand
<1>3. \A f : Cmds("SETFREQ_H0", f)
              = IF f \in BadFreqs THEN <<>>
                ELSE <<Phy!Cmd("RXTUNE", f), Phy!Cmd("TXTUNE", f)>>
  BY <1>1 DEF Phy!Expand, BadFreqs
<1>4. \A f : Cmds("SETFREQ_H1", f)
              = IF f \in BadFreqs THEN <<>> ELSE <<Phy!Cmd("SETFH", f)>>
  BY <1>1 DEF Phy!Expand, BadFreqs
<1>5. \A f : Cmds("MEASURE", f)
              = IF f \in BadFreqs THEN <<>> ELSE <<Phy!Cmd("MEASURE", f)>>
  BY <1>1 DEF Phy!Expand, BadFreqs
<1>6. \A n \in {"POWERON", "SETTA", "SETSLOT"} :
        \A a : Cmds(n, a) = <<Phy!Cmd(n, a)>>
  BY <1>1 DEF Phy!Expand
<1> QED
  BY <1>2, <1>3, <1>4, <1>5, <1>6

\* The channel combination of the transceiver for each of the scheduler's.
LEMMA ChanTypes ==
  \A p \in Pchan \cup {NoPchan} : ChanType[p] \in 0 .. 13
BY DEF ChanType, Pchan, NoPchan

\* Commands that disturb neither the ARFCN nor any timeslot.
Neutral(cs) ==
  /\ cs \in Seq(Queued)
  /\ \A i \in 1 .. Len(cs) : cs[i].name \notin {"RXTUNE", "SETSLOT"}

\* Commands that take timeslots away or set them up, and nothing else.
OnlySlots(cs) ==
  /\ cs \in Seq(Queued)
  /\ \A i \in 1 .. Len(cs) : cs[i].name = "SETSLOT"

LEMMA Kinds ==
  /\ \A cs : Neutral(cs) =>
       None(cs, TuneCmds) /\ \A t : None(cs, SlotCmds(t))
  /\ \A cs : OnlySlots(cs) => None(cs, TuneCmds)
BY DEF Neutral, OnlySlots, None, TuneCmds, SlotCmds

LEMMA OnlySlotsBoth ==
  ASSUME NEW a, NEW b, OnlySlots(a), OnlySlots(b)
  PROVE  OnlySlots(a \o b)
<1> DEFINE r == a \o b
<1>1. /\ r \in Seq(Queued)
      /\ Len(a) \in Nat /\ Len(b) \in Nat
      /\ \A k \in 1 .. Len(r) :
           \/ k \in 1 .. Len(a) /\ r[k] = a[k]
           \/ k - Len(a) \in 1 .. Len(b) /\ r[k] = b[k - Len(a)]
  BY Behind DEF OnlySlots
<1> HIDE DEF r
<1>2. OnlySlots(r)
  BY <1>1 DEF OnlySlots
<1> QED
  BY <1>2 DEF r

LEMMA OnlySlotsEmpty == OnlySlots(<<>>) /\ Neutral(<<>>)
BY DEF OnlySlots, Neutral

\* SETSLOT is such a command.
LEMMA SlotCmdIs ==
  ASSUME NEW t \in Tns, NEW p \in Pchan \cup {NoPchan}
  PROVE  /\ OnlySlots(SlotCmd(t, p))
         /\ SlotCmd(t, p) = <<Phy!Cmd("SETSLOT", SlotArg(t, p))>>
         /\ \A s \in Tns \ {t} : None(SlotCmd(t, p), SlotCmds(s))
<1> DEFINE c == Phy!Cmd("SETSLOT", SlotArg(t, p))
           cs == SlotCmd(t, p)
<1>1. cs = <<c>>
  BY CmdsAre DEF SlotCmd
<1>2. c \in Queued /\ c.name = "SETSLOT" /\ c.arg[2] = t
  BY Args, CmdIs, CmdQueued
<1> HIDE DEF c, cs
<1>3. cs \in Seq(Queued) /\ Len(cs) = 1 /\ cs[1] = c
  BY <1>1, <1>2
<1> QED
  BY <1>1, <1>2, <1>3 DEF OnlySlots, None, SlotCmds, c, cs

LEMMA DelCmdsIs ==
  ASSUME NEW slots, NEW t \in Tns
  PROVE  /\ OnlySlots(DelCmds(slots, t))
         /\ \A s \in Tns \ {t} : None(DelCmds(slots, t), SlotCmds(s))
BY SlotCmdIs, OnlySlotsEmpty DEF DelCmds, None

\* l1sched_reset: f[n] is what the first n timeslots bring.
Dels(f, m, slots) ==
  f = [n \in 0 .. m |-> IF n = 0 THEN <<>>
                        ELSE f[n - 1] \o DelCmds(slots, n - 1)]

LEMMA DelsExist ==
  ASSUME NEW m \in Nat, NEW slots
  PROVE  \E f : Dels(f, m, slots)
<1> DEFINE S == {k \in Nat : \E f : Dels(f, k, slots)}
<1>1. 0 \in S
  <2> DEFINE f == [n \in 0 .. 0 |-> <<>>]
  <2>1. f = [n \in 0 .. 0 |-> IF n = 0 THEN <<>>
                              ELSE f[n - 1] \o DelCmds(slots, n - 1)]
    OBVIOUS
  <2> QED
    BY <2>1 DEF Dels
<1>2. ASSUME NEW k \in Nat, k \in S
      PROVE  k + 1 \in S
  <2>1. PICK f : Dels(f, k, slots)
    BY <1>2
  <2>2. /\ DOMAIN f = 0 .. k /\ f[0] = <<>>
        /\ \A n \in 1 .. k : f[n] = f[n - 1] \o DelCmds(slots, n - 1)
    BY <2>1 DEF Dels
  <2> DEFINE h == [n \in 0 .. (k + 1) |->
                     IF n = k + 1 THEN f[k] \o DelCmds(slots, k) ELSE f[n]]
  <2>3. \A n \in 0 .. (k + 1) :
          h[n] = IF n = 0 THEN <<>> ELSE h[n - 1] \o DelCmds(slots, n - 1)
    <3> SUFFICES ASSUME NEW n \in 0 .. (k + 1)
                 PROVE  h[n] = IF n = 0 THEN <<>>
                               ELSE h[n - 1] \o DelCmds(slots, n - 1)
      OBVIOUS
    <3>1. CASE n = k + 1
      <4>1. n - 1 = k /\ n # 0 /\ h[k] = f[k]
        BY <3>1
      <4>2. h[n] = f[k] \o DelCmds(slots, k)
        BY <3>1
      <4> HIDE DEF h
      <4> QED
        BY <4>1, <4>2
    <3>2. CASE n # k + 1
      <4>1. n \in 0 .. k /\ h[n] = f[n] /\ (n # 0 => h[n - 1] = f[n - 1])
        BY <3>2
      <4> HIDE DEF h
      <4> QED
        BY <2>2, <4>1
    <3> QED
      BY <3>1, <3>2
  <2>4. h = [n \in 0 .. (k + 1) |-> h[n]]
    OBVIOUS
  <2> HIDE DEF h
  <2>5. h = [n \in 0 .. (k + 1) |->
               IF n = 0 THEN <<>> ELSE h[n - 1] \o DelCmds(slots, n - 1)]
    BY <2>3, <2>4
  <2> QED
    BY <2>5 DEF Dels
<1> HIDE DEF S
<1>3. m \in S
  BY <1>1, <1>2, SetInduction
<1> QED
  BY <1>3 DEF S

LEMMA DelAllCmdsIs ==
  ASSUME NEW slots
  PROVE  OnlySlots(DelAllCmds(slots))
<1> DEFINE del[n \in 0 .. Tn] ==
             IF n = 0 THEN <<>> ELSE del[n - 1] \o DelCmds(slots, n - 1)
<1>1. Dels(del, Tn, slots)
  <2>1. \E f : Dels(f, Tn, slots)
    BY DelsExist, TrxconAssumption
  <2> QED
    BY <2>1 DEF Dels
<1>2. DelAllCmds(slots) = del[Tn]
  BY DEF DelAllCmds
<1> HIDE DEF del
<1> DEFINE S == {k \in Nat : k <= Tn => OnlySlots(del[k])}
<1>3. /\ Tn \in Nat /\ del[0] = <<>>
      /\ \A n \in 1 .. Tn : del[n] = del[n - 1] \o DelCmds(slots, n - 1)
  <2>1. Tn \in Nat
    BY TrxconAssumption
  <2> QED
    BY <1>1, <2>1 DEF Dels
<1>4. 0 \in S
  BY <1>3, OnlySlotsEmpty
<1>5. ASSUME NEW k \in Nat, k \in S
      PROVE  k + 1 \in S
  <2> SUFFICES ASSUME k + 1 <= Tn PROVE OnlySlots(del[k + 1])
    OBVIOUS
  <2>1. del[k + 1] = del[k] \o DelCmds(slots, k) /\ OnlySlots(del[k])
    <3> DEFINE n == k + 1
    <3>1. n \in 1 .. Tn /\ n - 1 = k /\ OnlySlots(del[k])
      BY <1>3, <1>5
    <3>2. del[n] = del[n - 1] \o DelCmds(slots, n - 1)
      BY <1>3, <3>1
    <3> HIDE DEF n
    <3>3. del[n] = del[k] \o DelCmds(slots, k)
      BY <3>1, <3>2
    <3> QED
      BY <3>1, <3>3 DEF n
  <2>2. OnlySlots(DelCmds(slots, k))
    <3>1. k \in Tns
      BY <1>3 DEF Tns
    <3> QED
      BY <3>1, DelCmdsIs
  <2> QED
    BY <2>1, <2>2, OnlySlotsBoth
<1> HIDE DEF S
<1>6. Tn \in S
  BY <1>3, <1>4, <1>5, SetInduction
<1> QED
  BY <1>2, <1>3, <1>6 DEF S

-----------------------------------------------------------------------------
(* The steps of the transceiver interface.                                   *)

\* What can be queued is a command.
LEMMA QueuedTyped ==
  /\ Seq(Queued) \subseteq Seq(Phy!Command)
  /\ Phy!Cmd("POWEROFF", Phy!NoArg) \in Queued
  /\ \A c \in Queued : c \in Phy!Command /\ c.name \in Phy!Names
                       /\ c.arg \in Phy!CmdArgs
<1>1. Queued \subseteq Phy!Command
  BY DEF Queued
<1>2. Seq(Queued) \subseteq Seq(Phy!Command)
  BY <1>1
<1> QED
  BY <1>1, <1>2, CmdQueued DEF Phy!Command

\* A datagram is sent: it arrives behind the others or is lost at once.
LEMMA TransmitIs ==
  ASSUME NEW S, NEW net \in Seq(S), NEW m \in S
  PROVE  /\ Phy!Transmit(net, m) \in Seq(S)
         /\ net = <<>> => \/ Phy!Transmit(net, m) = <<>>
                          \/ Phy!Transmit(net, m) = <<m>>
<1>1. Append(net, m) \in Seq(S)
  OBVIOUS
<1>2. net = <<>> => Append(net, m) = <<m>>
  OBVIOUS
<1> QED
  BY <1>1, <1>2 DEF Phy!Transmit

LEMMA WithoutIs ==
  ASSUME NEW S, NEW s \in Seq(S), NEW i \in 1 .. Len(s)
  PROVE  /\ Phy!Without(s, i) \in Seq(S)
         /\ Len(s) = 1 => Phy!Without(s, i) = <<>>
<1> DEFINE w == Phy!Without(s, i)
<1>1. Len(s) \in Nat /\ Len(s) - 1 \in Nat
  OBVIOUS
<1>2. \A j \in 1 .. (Len(s) - 1) : s[j] \in S /\ s[j + 1] \in S
  OBVIOUS
<1>3. w \in Seq(S) /\ Len(w) = Len(s) - 1
  BY <1>1, <1>2 DEF Phy!Without
<1> HIDE DEF w
<1>4. Len(s) = 1 => w = <<>>
  BY <1>3
<1> QED
  BY <1>3, <1>4 DEF w

\* The head of the queue is sent.
LEMMA SendStep ==
  ASSUME PhyTyped, NEW q \in Seq(Queued), NEW st \in Phy!States,
         Phy!Send(q, st)
  PROVE  /\ trx_ctrl_timer' \in BOOLEAN
         /\ fi_state' \in Phy!States
         /\ prev_state' \in Phy!States \ {"RSP_WAIT"}
         /\ cmdNet' \in Seq(Queued)
         /\ q = <<>> => cmdNet' = cmdNet
         /\ q # <<>> /\ cmdNet = <<>> => \/ cmdNet' = <<>>
                                         \/ cmdNet' = <<Head(q)>>
<1>1. /\ prev_state \in Phy!States \ {"RSP_WAIT"} /\ cmdNet \in Seq(Queued)
      /\ "RSP_WAIT" \in Phy!States
  BY DEF PhyTyped, Phy!TypeOK, Phy!States
<1>2. /\ trx_ctrl_timer' = (q # <<>>)
      /\ fi_state' = IF q = <<>> THEN st ELSE "RSP_WAIT"
      /\ prev_state' = IF q # <<>> /\ st # "RSP_WAIT" THEN st ELSE prev_state
      /\ cmdNet' = IF q = <<>> THEN cmdNet ELSE Phy!Transmit(cmdNet, Head(q))
  BY DEF Phy!Send
<1>3. q # <<>> => Head(q) \in Queued
  OBVIOUS
<1>4. cmdNet' \in Seq(Queued)
  BY <1>1, <1>2, <1>3, TransmitIs
<1>5. q # <<>> /\ cmdNet = <<>> => cmdNet' = <<>> \/ cmdNet' = <<Head(q)>>
  BY <1>1, <1>2, <1>3, TransmitIs
<1> QED
  BY <1>1, <1>2, <1>4, <1>5

\* The commands of a handler are queued.
LEMMA IssueStep ==
  ASSUME PhyTyped, NEW cs \in Seq(Queued), Issue(cs), UNCHANGED air
  PROVE  /\ open /\ open' /\ trx_ctrl_list' = trx_ctrl_list \o cs
         /\ PhyTyped' /\ (Wire => Wire')
<1>1. /\ Phy!TypeOK
      /\ trx_ctrl_list \in Seq(Queued) /\ cmdNet \in Seq(Queued)
  BY DEF PhyTyped
<1>2. CASE cs = <<>>
  <2>1. open /\ UNCHANGED phyVars
    BY <1>2 DEF Issue
  <2>2. trx_ctrl_list \o cs = trx_ctrl_list
    BY <1>1, <1>2
  <2>3. PhyTyped'
    BY <2>1 DEF PhyTyped, Phy!TypeOK, phyVars
  <2>4. Wire => Wire'
    BY <2>1 DEF Wire, Follows, phyVars
  <2> QED
    BY <2>1, <2>2, <2>3, <2>4 DEF phyVars
<1>3. CASE cs # <<>>
  <2>1. Phy!Submit(cs)
    BY <1>3 DEF Issue
  <2>2. /\ open /\ open' = open /\ trx_ctrl_list' = trx_ctrl_list \o cs
        /\ UNCHANGED <<powered_up, retry_cnt, rspNet, radio>>
        /\ IF trx_ctrl_list = <<>>
             THEN Phy!Send(cs, fi_state)
             ELSE UNCHANGED <<fi_state, prev_state, trx_ctrl_timer, cmdNet>>
    BY <2>1 DEF Phy!Submit
  <2>3. /\ trx_ctrl_list' \in Seq(Queued) /\ trx_ctrl_list' # <<>>
        /\ trx_ctrl_list # <<>> => Head(trx_ctrl_list') = Head(trx_ctrl_list)
        /\ trx_ctrl_list = <<>> => trx_ctrl_list' = cs
    BY <1>1, <1>3, <2>2
  <2>4. CASE trx_ctrl_list = <<>>
    <3>1. Wire => cmdNet = <<>> /\ rspNet = <<>>
      BY <2>2, <2>4 DEF Wire
    <3>2. fi_state \in Phy!States /\ Phy!Send(cs, fi_state)
      BY <1>1, <2>2, <2>4 DEF Phy!TypeOK
    <3>3. /\ trx_ctrl_timer' \in BOOLEAN /\ fi_state' \in Phy!States
          /\ prev_state' \in Phy!States \ {"RSP_WAIT"}
          /\ cmdNet' \in Seq(Queued)
          /\ cmdNet = <<>> => cmdNet' = <<>> \/ cmdNet' = <<Head(cs)>>
      BY <1>3, <3>2, SendStep
    <3>4. PhyTyped'
      BY <1>1, <2>2, <2>3, <3>3, QueuedTyped DEF PhyTyped, Phy!TypeOK
    <3>5. Wire => Wire'
      BY <2>2, <2>3, <2>4, <3>1, <3>3 DEF Wire
    <3> QED
      BY <2>2, <3>4, <3>5
  <2>5. CASE trx_ctrl_list # <<>>
    <3>1. UNCHANGED <<fi_state, prev_state, trx_ctrl_timer, cmdNet>>
      BY <2>2, <2>5
    <3>2. PhyTyped'
      BY <1>1, <2>2, <2>3, <3>1, QueuedTyped DEF PhyTyped, Phy!TypeOK
    <3>3. Wire => Wire'
      BY <2>2, <2>3, <2>5, <3>1 DEF Wire, Follows
    <3> QED
      BY <2>2, <3>2, <3>3
  <2> QED
    BY <2>4, <2>5
<1> QED
  BY <1>2, <1>3

\* The answer to the head of the queue is read, and more is queued.
LEMMA ReadStep ==
  ASSUME PhyTyped, NEW more \in Seq(Queued), Phy!ReadAnswer(more),
         UNCHANGED air
  PROVE  /\ open /\ open' /\ trx_ctrl_list # <<>>
         /\ trx_ctrl_list' = Tail(trx_ctrl_list) \o more
         /\ PhyTyped'
         /\ Wire => /\ Answers(Head(rspNet), Head(trx_ctrl_list))
                    /\ Follows(Head(trx_ctrl_list), air)
                    /\ Wire'
<1> DEFINE c == Head(trx_ctrl_list)
           q == Tail(trx_ctrl_list) \o more
<1>1. /\ Phy!TypeOK
      /\ trx_ctrl_list \in Seq(Queued) /\ cmdNet \in Seq(Queued)
  BY DEF PhyTyped
<1>2. /\ open /\ open' = open /\ radio' = radio
      /\ rspNet # <<>> /\ trx_ctrl_list # <<>>
      /\ powered_up' = CASE c.name = "POWERON"  -> TRUE
                         [] c.name = "POWEROFF" -> FALSE
                         [] OTHER               -> powered_up
      /\ trx_ctrl_list' = q
      /\ Phy!Send(trx_ctrl_list', Phy!StateAfter(c.name))
      /\ retry_cnt' = 0
      /\ rspNet' = Tail(rspNet)
  BY DEF Phy!ReadAnswer
<1>3. Wire => /\ cmdNet = <<>> /\ Len(rspNet) = 1
              /\ Answers(Head(rspNet), c) /\ Follows(c, air)
  BY <1>2 DEF Wire
<1>4. q \in Seq(Queued)
  <2>1. Tail(trx_ctrl_list) \in Seq(Queued)
    BY <1>1, <1>2
  <2> QED
    BY <2>1, Behind
<1>5. rspNet' \in Seq(Phy!Response) /\ (Wire => rspNet' = <<>>)
  <2>1. rspNet \in Seq(Phy!Response)
    BY <1>1 DEF Phy!TypeOK
  <2> QED
    BY <1>2, <1>3, <2>1
<1>6. Phy!StateAfter(c.name) \in Phy!States
  BY <1>1 DEF Phy!StateAfter, Phy!TypeOK, Phy!States
<1> HIDE DEF q
<1>7. /\ trx_ctrl_timer' \in BOOLEAN /\ fi_state' \in Phy!States
      /\ prev_state' \in Phy!States \ {"RSP_WAIT"}
      /\ cmdNet' \in Seq(Queued)
      /\ q = <<>> => cmdNet' = cmdNet
      /\ q # <<>> /\ cmdNet = <<>> => cmdNet' = <<>> \/ cmdNet' = <<Head(q)>>
  BY <1>2, <1>4, <1>6, SendStep
<1>8. powered_up' \in BOOLEAN
  BY <1>1, <1>2 DEF Phy!TypeOK
<1>9. PhyTyped'
  <2>1. retry_cnt' \in 0 .. Phy!MaxRetry
    BY <1>2 DEF Phy!MaxRetry
  <2>2. rspNet' \in Seq(Phy!Response)
    BY <1>5
  <2>3. /\ open' \in BOOLEAN /\ radio' \in Phy!Radio
        /\ trx_ctrl_list' \in Seq(Queued)
    BY <1>1, <1>2, <1>4 DEF Phy!TypeOK
  <2> QED
    BY <1>7, <1>8, <2>1, <2>2, <2>3, QueuedTyped DEF PhyTyped, Phy!TypeOK
<1>10. Wire => Wire'
  BY <1>2, <1>3, <1>5, <1>7 DEF Wire
<1> QED
  BY <1>2, <1>3, <1>9, <1>10 DEF q

\* An answer that finds nothing queued is read.
LEMMA StrayStep ==
  ASSUME PhyTyped, Phy!ReadStray
  PROVE  open /\ open' /\ trx_ctrl_list' = trx_ctrl_list /\ PhyTyped' /\ ~Wire
<1>1. /\ open /\ rspNet # <<>> /\ trx_ctrl_list = <<>>
      /\ trx_ctrl_timer' = FALSE /\ rspNet' = Tail(rspNet)
      /\ UNCHANGED <<open, fi_state, prev_state, powered_up, trx_ctrl_list,
                     retry_cnt, cmdNet, radio>>
  BY DEF Phy!ReadStray
<1>2. rspNet' \in Seq(Phy!Response)
  BY <1>1 DEF PhyTyped, Phy!TypeOK
<1>3. PhyTyped'
  BY <1>1, <1>2 DEF PhyTyped, Phy!TypeOK
<1> QED
  BY <1>1, <1>3 DEF Wire

\* The head of the queue is sent again.
LEMMA ResendStep ==
  ASSUME PhyTyped, Phy!Resend
  PROVE  /\ open /\ open' /\ trx_ctrl_list' = trx_ctrl_list /\ PhyTyped'
         /\ cmdNet = <<>> /\ rspNet = <<>> => Wire'
<1>1. /\ Phy!TypeOK
      /\ trx_ctrl_list \in Seq(Queued) /\ cmdNet \in Seq(Queued)
  BY DEF PhyTyped
<1>2. /\ open /\ trx_ctrl_list # <<>> /\ retry_cnt < Phy!MaxRetry
      /\ retry_cnt' = retry_cnt + 1
      /\ Phy!Send(trx_ctrl_list, fi_state)
      /\ UNCHANGED <<open, powered_up, trx_ctrl_list, rspNet, radio>>
  BY DEF Phy!Resend
<1>4. fi_state \in Phy!States
  BY <1>1 DEF Phy!TypeOK
<1>5. /\ trx_ctrl_timer' \in BOOLEAN /\ fi_state' \in Phy!States
      /\ prev_state' \in Phy!States \ {"RSP_WAIT"}
      /\ cmdNet' \in Seq(Queued)
      /\ cmdNet = <<>> =>
           cmdNet' = <<>> \/ cmdNet' = <<Head(trx_ctrl_list)>>
  BY <1>1, <1>2, <1>4, SendStep
<1>6. retry_cnt' \in 0 .. Phy!MaxRetry
  BY <1>1, <1>2 DEF Phy!TypeOK, Phy!MaxRetry
<1>7. PhyTyped'
  BY <1>1, <1>2, <1>5, <1>6, QueuedTyped DEF PhyTyped, Phy!TypeOK
<1>8. cmdNet = <<>> /\ rspNet = <<>> => Wire'
  BY <1>2, <1>5 DEF Wire
<1> QED
  BY <1>2, <1>7, <1>8

\* The interface goes down, and the instance with it.
LEMMA DownStep ==
  ASSUME PhyTyped, FreeInst, Phy!Terminate, rspNet' \in Seq(Phy!Response),
         radio' = radio
  PROVE  PhyTyped' /\ Down' /\ Wire'
<1>1. /\ Phy!TypeOK
      /\ trx_ctrl_list \in Seq(Queued) /\ cmdNet \in Seq(Queued)
  BY DEF PhyTyped
<1>2. /\ open' = FALSE /\ fi_state' = "OFFLINE" /\ prev_state' = "OFFLINE"
      /\ powered_up' = FALSE /\ trx_ctrl_list' = <<>> /\ retry_cnt' = 0
      /\ trx_ctrl_timer' = FALSE
      /\ cmdNet' = IF powered_up
                     THEN Phy!Transmit(cmdNet, Phy!Cmd("POWEROFF", Phy!NoArg))
                     ELSE cmdNet
  BY DEF Phy!Terminate
<1>3. cmdNet' \in Seq(Queued)
  BY <1>1, <1>2, QueuedTyped, TransmitIs
<1>4. trx_ctrl_list' \in Seq(Queued)
  BY <1>2
<1>5. /\ fi_state' \in Phy!States /\ prev_state' \in Phy!States \ {"RSP_WAIT"}
      /\ retry_cnt' \in 0 .. Phy!MaxRetry /\ radio' \in Phy!Radio
  BY <1>1, <1>2 DEF Phy!TypeOK, Phy!States, Phy!MaxRetry
<1>6. PhyTyped'
  BY <1>2, <1>3, <1>4, <1>5, QueuedTyped DEF PhyTyped, Phy!TypeOK
<1>7. Down' /\ Wire'
  BY <1>2 DEF Wire, Down, FreeInst
<1> QED
  BY <1>6, <1>7

\* The next client connects.
LEMMA OpenStep ==
  ASSUME PhyTyped, Down, Phy!Open
  PROVE  ~open /\ open' /\ trx_ctrl_list' = <<>> /\ PhyTyped' /\ Wire'
<1>1. /\ ~open /\ open' = TRUE /\ cmdNet = <<>> /\ rspNet = <<>>
      /\ UNCHANGED <<fi_state, prev_state, powered_up, trx_ctrl_list,
                     retry_cnt, trx_ctrl_timer, cmdNet, rspNet, radio>>
  BY DEF Phy!Open
<1>2. PhyTyped'
  BY <1>1 DEF PhyTyped, Phy!TypeOK
<1>3. Wire' /\ trx_ctrl_list' = <<>>
  BY <1>1 DEF Wire, Down
<1> QED
  BY <1>1, <1>2, <1>3

\* A datagram is lost.
LEMMA LoseStep ==
  ASSUME PhyTyped, Phy!LoseCmd \/ Phy!LoseRsp, UNCHANGED air
  PROVE  /\ open' = open /\ trx_ctrl_list' = trx_ctrl_list
         /\ PhyTyped' /\ (Wire => Wire')
<1>1. /\ Phy!TypeOK /\ rspNet \in Seq(Phy!Response)
      /\ trx_ctrl_list \in Seq(Queued) /\ cmdNet \in Seq(Queued)
  BY DEF PhyTyped, Phy!TypeOK
<1>2. /\ UNCHANGED <<open, fi_state, prev_state, powered_up, trx_ctrl_list,
                     retry_cnt, trx_ctrl_timer, radio>>
  BY DEF Phy!LoseCmd, Phy!LoseRsp, Phy!trxVars
<1>3. CASE Phy!LoseCmd
  <2>1. rspNet' = rspNet
    BY <1>3 DEF Phy!LoseCmd
  <2>2. PICK i \in 1 .. Len(cmdNet) : cmdNet' = Phy!Without(cmdNet, i)
    BY <1>3 DEF Phy!LoseCmd
  <2>3. cmdNet' \in Seq(Queued) /\ (Len(cmdNet) = 1 => cmdNet' = <<>>)
    BY <1>1, <2>2, WithoutIs
  <2>4. PhyTyped'
    BY <1>1, <1>2, <2>1, <2>3, QueuedTyped DEF PhyTyped, Phy!TypeOK
  <2>5. cmdNet # <<>>
    BY <2>2
  <2>6. Wire => Wire'
    BY <1>2, <2>1, <2>3, <2>5 DEF Wire
  <2> QED
    BY <1>2, <2>4, <2>6
<1>4. CASE Phy!LoseRsp
  <2>1. cmdNet' = cmdNet
    BY <1>4 DEF Phy!LoseRsp
  <2>2. PICK i \in 1 .. Len(rspNet) : rspNet' = Phy!Without(rspNet, i)
    BY <1>4 DEF Phy!LoseRsp
  <2>3. /\ rspNet' \in Seq(Phy!Response)
        /\ Len(rspNet) = 1 => rspNet' = <<>>
    BY <1>1, <2>2, WithoutIs
  <2>4. PhyTyped'
    BY <1>1, <1>2, <2>1, <2>3 DEF PhyTyped, Phy!TypeOK
  <2>5. rspNet # <<>>
    BY <2>2
  <2>6. Wire => Wire'
    BY <1>2, <2>1, <2>3, <2>5 DEF Wire
  <2> QED
    BY <1>2, <2>4, <2>6
<1> QED
  BY <1>3, <1>4

-----------------------------------------------------------------------------
(* What the steps mean for the last commands queued.                         *)

\* What a command does to the transceiver, and what it leaves alone.
LEMMA Obeyed ==
  ASSUME AirTyped, NEW c \in Queued,
         air' = CASE c.name = "RXTUNE"   -> [air EXCEPT !.arfcn = c.arg[2]]
                  [] c.name = "SETFH"    -> [air EXCEPT !.hopping = TRUE]
                  [] c.name = "POWEROFF" -> [air EXCEPT !.hopping = FALSE]
                  [] c.name = "SETTA"    -> [air EXCEPT !.ta = c.arg[2]]
                  [] c.name = "SETSLOT"  ->
                       [air EXCEPT !.slot[c.arg[2]] = c.arg[3]]
                  [] OTHER               -> air
  PROVE  /\ AirTyped'
         /\ Follows(c, air')
         /\ c.name # "RXTUNE" => air'.arfcn = air.arfcn
         /\ \A t \in Tns : ~(c.name = "SETSLOT" /\ c.arg[2] = t)
                             => air'.slot[t] = air.slot[t]
<1>1. /\ air \in [arfcn : ArfcnNr \cup {NoArfcn}, hopping : BOOLEAN, ta : TaNr,
                  slot : [Tns -> 0 .. 13]]
      /\ air.slot \in [Tns -> 0 .. 13]
  BY DEF AirTyped
<1>2. /\ c.name = "RXTUNE" => c.arg[2] \in ArfcnNr
      /\ c.name = "SETTA" => c.arg[2] \in TaNr
      /\ c.name = "SETSLOT" => c.arg[2] \in Tns /\ c.arg[3] \in 0 .. 13
  <2>1. c.name = "RXTUNE" => \E a \in ArfcnNr : c.arg = ArfcnArg(a)
    BY DEF Queued, Freqs
  <2>2. c.name = "SETTA" => \E t \in TaNr : c.arg = TaArg(t)
    BY DEF Queued, Tas
  <2>3. c.name = "SETSLOT" => \E t \in Tns, p \in Pchan \cup {NoPchan} :
                                c.arg = SlotArg(t, p)
    BY DEF Queued, Slots
  <2> QED
    BY <2>1, <2>2, <2>3, Args, ChanTypes
<1>3. CASE c.name = "RXTUNE"
  <2>1. air' = [air EXCEPT !.arfcn = c.arg[2]]
    BY <1>3
  <2> QED
    BY <1>1, <1>2, <1>3, <2>1 DEF AirTyped, Follows
<1>4. CASE c.name = "SETFH"
  <2>1. air' = [air EXCEPT !.hopping = TRUE]
    BY <1>4
  <2> QED
    BY <1>1, <1>4, <2>1 DEF AirTyped, Follows
<1>5. CASE c.name = "POWEROFF"
  <2>1. air' = [air EXCEPT !.hopping = FALSE]
    BY <1>5
  <2> QED
    BY <1>1, <1>5, <2>1 DEF AirTyped, Follows
<1>6. CASE c.name = "SETTA"
  <2>1. air' = [air EXCEPT !.ta = c.arg[2]]
    BY <1>6
  <2> QED
    BY <1>1, <1>2, <1>6, <2>1 DEF AirTyped, Follows
<1>7. CASE c.name = "SETSLOT"
  <2>1. air' = [air EXCEPT !.slot = [air.slot EXCEPT ![c.arg[2]] = c.arg[3]]]
    BY <1>7
  <2>2. [air.slot EXCEPT ![c.arg[2]] = c.arg[3]] \in [Tns -> 0 .. 13]
    BY <1>1, <1>2, <1>7
  <2>3. air'.slot = [air.slot EXCEPT ![c.arg[2]] = c.arg[3]]
        /\ air'.arfcn = air.arfcn /\ AirTyped'
    BY <1>1, <2>1, <2>2 DEF AirTyped
  <2> QED
    BY <1>1, <1>2, <1>7, <2>3 DEF Follows
<1>8. CASE c.name \notin {"RXTUNE", "SETFH", "POWEROFF", "SETTA", "SETSLOT"}
  <2>1. air' = air
    BY <1>8
  <2> QED
    BY <1>1, <1>8, <2>1 DEF AirTyped, Follows
<1> QED
  BY <1>3, <1>4, <1>5, <1>6, <1>7, <1>8

\* The transceiver executes a command.
LEMMA ExecuteStep ==
  ASSUME PhyTyped, AirTyped, Down, Execute
  PROVE  /\ open' = open /\ trx_ctrl_list' = trx_ctrl_list
         /\ PhyTyped' /\ AirTyped'
         /\ Wire => /\ Wire'
                    /\ SlotsTold => SlotsTold'
                    /\ ArfcnTold => ArfcnTold'
<1> DEFINE c == Head(cmdNet)
           r == [name |-> c.name, arg |-> c.arg, ok |-> Phy!Obeys(c)]
<1>1. /\ Phy!TypeOK /\ rspNet \in Seq(Phy!Response)
      /\ trx_ctrl_list \in Seq(Queued) /\ cmdNet \in Seq(Queued)
  BY DEF PhyTyped, Phy!TypeOK
<1>2. /\ cmdNet # <<>> /\ cmdNet' = Tail(cmdNet)
      /\ rspNet' = Phy!Transmit(rspNet, r)
      /\ radio' = IF Phy!Obeys(c) THEN Phy!Effect(c) ELSE radio
      /\ UNCHANGED <<open, fi_state, prev_state, powered_up, trx_ctrl_list,
                     retry_cnt, trx_ctrl_timer>>
      /\ UNCHANGED <<state, scan, arfcn, ta, ts, pdchs>>
  BY DEF Execute, Phy!Execute, Phy!trxVars, fsmVars
<1>3. c \in Queued
  BY <1>1, <1>2
<1>4. r \in Phy!Response
  BY <1>3, QueuedTyped DEF Phy!Response, Phy!Obeys
<1>5. /\ AirTyped' /\ Follows(c, air')
      /\ c.name # "RXTUNE" => air'.arfcn = air.arfcn
      /\ \A t \in Tns : ~(c.name = "SETSLOT" /\ c.arg[2] = t)
                          => air'.slot[t] = air.slot[t]
  <2>1. air' = CASE c.name = "RXTUNE"   -> [air EXCEPT !.arfcn = c.arg[2]]
                 [] c.name = "SETFH"    -> [air EXCEPT !.hopping = TRUE]
                 [] c.name = "POWEROFF" -> [air EXCEPT !.hopping = FALSE]
                 [] c.name = "SETTA"    -> [air EXCEPT !.ta = c.arg[2]]
                 [] c.name = "SETSLOT"  ->
                      [air EXCEPT !.slot[c.arg[2]] = c.arg[3]]
                 [] OTHER               -> air
    BY DEF Execute
  <2> HIDE DEF c
  <2> QED
    BY <1>3, <2>1, Obeyed
<1>6. /\ cmdNet' \in Seq(Queued) /\ rspNet' \in Seq(Phy!Response)
      /\ rspNet = <<>> => rspNet' = <<>> \/ rspNet' = <<r>>
  <2> HIDE DEF r
  <2> QED
    BY <1>1, <1>2, <1>4, TransmitIs
<1>7. radio' \in Phy!Radio
  BY <1>1, <1>2 DEF Phy!TypeOK, Phy!Effect, Phy!Radio
<1>8. PhyTyped'
  BY <1>1, <1>2, <1>6, <1>7, QueuedTyped DEF PhyTyped, Phy!TypeOK
<1>9. Wire /\ open =>
        /\ trx_ctrl_list # <<>> /\ cmdNet = <<Head(trx_ctrl_list)>>
        /\ rspNet = <<>> /\ c = Head(trx_ctrl_list)
  BY <1>2 DEF Wire
<1>10. Wire => Wire'
  <2> SUFFICES ASSUME Wire PROVE Wire'
    OBVIOUS
  <2>1. r.name = c.name /\ r.arg = c.arg
    OBVIOUS
  <2> HIDE DEF r
  <2>2. open => cmdNet' = <<>> /\ (rspNet' = <<>> \/ rspNet' = <<r>>)
    BY <1>2, <1>6, <1>9
  <2>3. rspNet' = <<r>> => Len(rspNet') = 1 /\ Head(rspNet') = r
    OBVIOUS
  <2>5. open => Head(trx_ctrl_list') = c /\ trx_ctrl_list' # <<>>
    BY <1>2, <1>9
  <2> HIDE DEF c
  <2>6. open /\ rspNet' = <<r>> =>
          Answers(Head(rspNet'), Head(trx_ctrl_list'))
    BY <2>1, <2>3, <2>5 DEF Answers
  <2>7. open => Follows(Head(trx_ctrl_list'), air')
    BY <1>5, <2>5
  <2> QED
    BY <1>2, <2>2, <2>3, <2>5, <2>6, <2>7 DEF Wire, Answers
<1>11. Wire /\ SlotsTold => SlotsTold'
  <2> SUFFICES ASSUME Wire, SlotsTold, NEW t \in Tns, ts[t] # NoPchan
               PROVE  SlotTold(trx_ctrl_list, t, ts[t], air')
    BY <1>2 DEF SlotsTold
  <2>1. open
    BY DEF Down, NoSlots
  <2>2. SlotTold(trx_ctrl_list, t, ts[t], air)
    BY DEF SlotsTold
  <2>3. ~(c.name = "SETSLOT" /\ c.arg[2] = t) => air'.slot[t] = air.slot[t]
    BY <1>5
  <2>4. c.name = "SETSLOT" /\ c.arg[2] = t => c \in SlotCmds(t)
    BY <1>3 DEF SlotCmds
  <2>5. (air.slot[t] = ChanType[ts[t]]) =>
          \/ (air'.slot[t] = ChanType[ts[t]])
          \/ trx_ctrl_list # <<>> /\ Head(trx_ctrl_list) \in SlotCmds(t)
    BY <1>9, <2>1, <2>3, <2>4
  <2> QED
    BY <1>1, <2>2, <2>5, ToldNow DEF SlotTold
<1>12. Wire /\ ArfcnTold => ArfcnTold'
  <2> SUFFICES ASSUME Wire, ArfcnTold, arfcn \notin {0, NoArfcn} \cup BadNr
               PROVE  TuneTold(trx_ctrl_list, arfcn, air')
    BY <1>2 DEF ArfcnTold
  <2>1. open
    BY DEF Down
  <2>2. TuneTold(trx_ctrl_list, arfcn, air)
    BY DEF ArfcnTold
  <2>3. c.name = "RXTUNE" => c \in TuneCmds
    BY <1>3 DEF TuneCmds
  <2>4. (air.arfcn = arfcn) =>
          \/ (air'.arfcn = arfcn)
          \/ trx_ctrl_list # <<>> /\ Head(trx_ctrl_list) \in TuneCmds
    BY <1>5, <1>9, <2>1, <2>3
  <2> QED
    BY <1>1, <2>2, <2>4, ToldNow DEF TuneTold
<1> QED
  BY <1>2, <1>5, <1>8, <1>10, <1>11, <1>12

\* A handler queues commands that do not concern the timeslot t.
LEMMA SlotKept ==
  ASSUME NEW q \in Seq(Queued), NEW cs \in Seq(Queued), NEW t, NEW p, NEW a,
         SlotTold(q, t, p, a), None(cs, SlotCmds(t))
  PROVE  SlotTold(q \o cs, t, p, a)
BY ToldBehind DEF SlotTold

\* The last of the commands cs that concerns the timeslot t sets it up as p.
SlotEnds(cs, t, p) ==
  Told(cs, SlotCmds(t), Phy!Cmd("SETSLOT", SlotArg(t, p)), FALSE)

LEMMA SlotEnd ==
  ASSUME NEW pre \in Seq(Queued), NEW t \in Tns, NEW p \in Pchan \cup {NoPchan}
  PROVE  SlotEnds(pre \o SlotCmd(t, p), t, p)
<1> DEFINE c == Phy!Cmd("SETSLOT", SlotArg(t, p))
<1>1. SlotCmd(t, p) = <<c>> /\ <<c>> \in Seq(Queued)
  BY SlotCmdIs DEF OnlySlots
<1> HIDE DEF c
<1>2. Told(<<c>>, SlotCmds(t), c, FALSE)
  BY ToldOne
<1>3. Told(pre \o <<c>>, SlotCmds(t), c, FALSE)
  BY <1>1, <1>2, ToldLast
<1> QED
  BY <1>1, <1>3 DEF SlotEnds, c

\* It does not tune the transceiver.
LEMMA TuneKept ==
  ASSUME NEW q \in Seq(Queued), NEW cs \in Seq(Queued), NEW f, NEW a,
         TuneTold(q, f, a), None(cs, TuneCmds)
  PROVE  TuneTold(q \o cs, f, a)
BY ToldBehind DEF TuneTold

\* The last of the commands cs that tunes the transceiver tunes it to f.
TuneEnds(cs, f) ==
  Told(cs, TuneCmds, Phy!Cmd("RXTUNE", ArfcnArg(f)), FALSE)

LEMMA TuneEnd ==
  ASSUME NEW f \in ArfcnNr \ BadNr
  PROVE  /\ Cmds("SETFREQ_H0", ArfcnArg(f)) \in Seq(Queued)
         /\ TuneEnds(Cmds("SETFREQ_H0", ArfcnArg(f)), f)
         /\ \A t : None(Cmds("SETFREQ_H0", ArfcnArg(f)), SlotCmds(t))
<1> DEFINE c == Phy!Cmd("RXTUNE", ArfcnArg(f))
           d == Phy!Cmd("TXTUNE", ArfcnArg(f))
           cs == Cmds("SETFREQ_H0", ArfcnArg(f))
<1>1. cs = <<c, d>>
  BY BadIs, CmdsAre
<1>2. /\ c \in Queued /\ d \in Queued
      /\ c.name = "RXTUNE" /\ d.name = "TXTUNE"
  BY CmdIs, CmdQueued
<1> HIDE DEF c, d, cs
<1>3. cs \in Seq(Queued) /\ Len(cs) = 2 /\ cs[1] = c /\ cs[2] = d
  BY <1>1, <1>2
<1>4. Told(cs, TuneCmds, c, FALSE)
  BY <1>2, <1>3 DEF Told, TuneCmds
<1>5. \A t : None(cs, SlotCmds(t))
  BY <1>2, <1>3 DEF None, SlotCmds
<1> QED
  BY <1>3, <1>4, <1>5 DEF TuneEnds, c, cs

\* The head of the queue, which was executed, is taken off.
LEMMA ReadTold ==
  ASSUME PhyTyped, Wire, SlotsTold, ArfcnTold, NEW more, Neutral(more),
         Phy!ReadAnswer(more), UNCHANGED <<ts, arfcn, air>>
  PROVE  SlotsTold' /\ ArfcnTold'
<1> DEFINE q == trx_ctrl_list
<1>1. /\ q # <<>> /\ q' = Tail(q) \o more /\ Follows(Head(q), air)
      /\ q \in Seq(Queued) /\ Tail(q) \in Seq(Queued) /\ more \in Seq(Queued)
      /\ None(more, TuneCmds) /\ \A t : None(more, SlotCmds(t))
  <2>1. more \in Seq(Queued) /\ q \in Seq(Queued)
    BY DEF Neutral, PhyTyped
  <2> QED
    BY <2>1, ReadStep, Kinds
<1>2. SlotsTold'
  <2> SUFFICES ASSUME NEW t \in Tns, ts[t] # NoPchan
               PROVE  SlotTold(Tail(q) \o more, t, ts[t], air)
    BY <1>1 DEF SlotsTold
  <2> DEFINE c == Phy!Cmd("SETSLOT", SlotArg(t, ts[t]))
             now == air.slot[t] = ChanType[ts[t]]
  <2>1. Told(q, SlotCmds(t), c, now)
    BY DEF SlotsTold, SlotTold
  <2>2. c.name = "SETSLOT" /\ c.arg[2] = t /\ c.arg[3] = ChanType[ts[t]]
    BY Args, CmdIs
  <2>3. Head(q) = c => now
    BY <1>1, <2>2 DEF Follows
  <2> HIDE DEF c, now, q
  <2>4. Told(Tail(q), SlotCmds(t), c, now)
    BY <1>1, <2>1, <2>3, ToldTail
  <2>5. SlotTold(Tail(q), t, ts[t], air)
    BY <2>4 DEF SlotTold, c, now
  <2> QED
    BY <1>1, <2>5, SlotKept
<1>3. ArfcnTold'
  <2> SUFFICES ASSUME arfcn \notin {0, NoArfcn} \cup BadNr
               PROVE  TuneTold(Tail(q) \o more, arfcn, air)
    BY <1>1 DEF ArfcnTold
  <2> DEFINE c == Phy!Cmd("RXTUNE", ArfcnArg(arfcn))
             now == air.arfcn = arfcn
  <2>1. Told(q, TuneCmds, c, now)
    BY DEF ArfcnTold, TuneTold
  <2>2. c.name = "RXTUNE" /\ c.arg[2] = arfcn
    BY Args, CmdIs
  <2>3. Head(q) = c => now
    BY <1>1, <2>2 DEF Follows
  <2> HIDE DEF c, now, q
  <2>4. Told(Tail(q), TuneCmds, c, now)
    BY <1>1, <2>1, <2>3, ToldTail
  <2>5. TuneTold(Tail(q), arfcn, air)
    BY <2>4 DEF TuneTold, c, now
  <2> QED
    BY <1>1, <2>5, TuneKept
<1> QED
  BY <1>2, <1>3

\* The command m is queued.
Has(q, m) == \E i \in 1 .. Len(q) : q[i] = m

LEMMA HasBehind ==
  ASSUME NEW S, NEW q \in Seq(S), NEW cs \in Seq(S), NEW m,
         Has(q, m) \/ Has(cs, m)
  PROVE  Has(q \o cs, m)
<1> DEFINE r == q \o cs
<1>1. /\ Len(q) \in Nat /\ Len(cs) \in Nat /\ Len(r) = Len(q) + Len(cs)
      /\ \A i \in 1 .. Len(q) : r[i] = q[i]
      /\ \A j \in 1 .. Len(cs) : r[Len(q) + j] = cs[j]
  BY Behind
<1> HIDE DEF r
<1>2. CASE Has(q, m)
  <2>1. PICK i \in 1 .. Len(q) : q[i] = m
    BY <1>2 DEF Has
  <2>2. i \in 1 .. Len(r) /\ r[i] = m
    BY <1>1, <2>1
  <2> QED
    BY <2>2 DEF Has, r
<1>3. CASE Has(cs, m)
  <2>1. PICK j \in 1 .. Len(cs) : cs[j] = m
    BY <1>3 DEF Has
  <2>2. Len(q) + j \in 1 .. Len(r) /\ r[Len(q) + j] = m
    BY <1>1, <2>1
  <2> QED
    BY <2>2 DEF Has, r
<1> QED
  BY <1>2, <1>3

-----------------------------------------------------------------------------
(* Requests and primitives: a handler changes the state of the instance and *)
(* queues commands.  What has to be shown of each one.                       *)

LEMMA HandlerStep ==
  ASSUME Inv, NEW cs \in Seq(Queued), Issue(cs), UNCHANGED <<air, late>>,
         FsmTyped', StateOwnsItsData',
         \A t \in Tns : ts'[t] # NoPchan =>
           \/ SlotEnds(cs, t, ts'[t])
           \/ ts'[t] = ts[t] /\ None(cs, SlotCmds(t)),
         arfcn' \notin {0, NoArfcn} \cup BadNr =>
           \/ TuneEnds(cs, arfcn')
           \/ arfcn' = arfcn /\ None(cs, TuneCmds),
         \/ scan' = NULL \/ scan'.first \in BadNr
         \/ scan' = scan
         \/ Has(cs, Phy!Cmd("MEASURE", ArfcnArg(scan'.first)))
  PROVE  Inv'
<1> DEFINE q == trx_ctrl_list
<1>1. Base /\ PhyTyped /\ AirTyped /\ late \in BOOLEAN
  BY DEF Inv, Base
<1>2. open' /\ q' = q \o cs /\ PhyTyped' /\ (Wire => Wire')
  BY <1>1, IssueStep
<1>3. q \in Seq(Queued)
  BY <1>1 DEF PhyTyped
<1>4. Base'
  BY <1>1, <1>2 DEF Base, AirTyped, Down
<1> SUFFICES ASSUME InStep PROVE InStep'
  BY <1>4 DEF Inv
<1>5. SlotsTold'
  <2> SUFFICES ASSUME NEW t \in Tns, ts'[t] # NoPchan
               PROVE  SlotTold(q \o cs, t, ts'[t], air)
    BY <1>2 DEF SlotsTold
  <2>1. CASE SlotEnds(cs, t, ts'[t])
    <3> HIDE DEF q
    <3> QED
      BY <1>3, <2>1, ToldLast DEF SlotEnds, SlotTold
  <2>2. CASE ts'[t] = ts[t] /\ None(cs, SlotCmds(t))
    <3>1. SlotTold(q, t, ts'[t], air)
      BY <2>2 DEF InStep, SlotsTold
    <3> HIDE DEF q
    <3> QED
      BY <1>3, <2>2, <3>1, SlotKept
  <2> QED
    BY <2>1, <2>2
<1>6. ArfcnTold'
  <2> SUFFICES ASSUME arfcn' \notin {0, NoArfcn} \cup BadNr
               PROVE  TuneTold(q \o cs, arfcn', air)
    BY <1>2 DEF ArfcnTold
  <2>1. CASE TuneEnds(cs, arfcn')
    <3> HIDE DEF q
    <3> QED
      BY <1>3, <2>1, ToldLast DEF TuneEnds, TuneTold
  <2>2. CASE arfcn' = arfcn /\ None(cs, TuneCmds)
    <3>1. TuneTold(q, arfcn', air)
      BY <2>2 DEF InStep, ArfcnTold
    <3> HIDE DEF q
    <3> QED
      BY <1>3, <2>2, <3>1, TuneKept
  <2> QED
    BY <2>1, <2>2
<1>7. ScanTold'
  <2> SUFFICES ASSUME scan' # NULL, scan'.first \notin BadNr
               PROVE  Has(q \o cs, Phy!Cmd("MEASURE", ArfcnArg(scan'.first)))
    BY <1>2 DEF ScanTold, Stalled, Has
  <2> DEFINE m == Phy!Cmd("MEASURE", ArfcnArg(scan'.first))
  <2>1. Has(q, m) \/ Has(cs, m)
    BY DEF InStep, ScanTold, Stalled, Has
  <2> HIDE DEF q, m
  <2>2. Has(q \o cs, m)
    BY <1>3, <2>1, HasBehind
  <2> QED
    BY <2>2 DEF m
<1> QED
  BY <1>2, <1>5, <1>6, <1>7 DEF InStep

\* A handler that leaves the timeslots and the ARFCN alone.
LEMMA NeutralStep ==
  ASSUME Inv, NEW cs, Neutral(cs), Issue(cs), UNCHANGED <<ts, arfcn, air, late>>,
         FsmTyped', StateOwnsItsData',
         \/ scan' = NULL \/ scan'.first \in BadNr
         \/ scan' = scan
         \/ Has(cs, Phy!Cmd("MEASURE", ArfcnArg(scan'.first)))
  PROVE  Inv'
<1>1. /\ cs \in Seq(Queued)
      /\ None(cs, TuneCmds) /\ \A t : None(cs, SlotCmds(t))
  BY Kinds DEF Neutral
<1> QED
  BY <1>1, HandlerStep

\* The neutral commands.
LEMMA NeutralCmds ==
  /\ Neutral(<<>>)
  /\ Neutral(Cmds("RESET", Phy!NoArg))
  /\ Neutral(Cmds("POWERON", Phy!NoArg))
  /\ Neutral(Cmds("SETFREQ_H1", Hopping))
  /\ \A f \in ArfcnNr : Neutral(Cmds("MEASURE", ArfcnArg(f)))
  /\ \A t \in TaNr : Neutral(Cmds("SETTA", TaArg(t)))
<1>1. \A c \in Queued : c.name \notin {"RXTUNE", "SETSLOT"} => Neutral(<<c>>)
  BY DEF Neutral
<1>2. Neutral(Cmds("RESET", Phy!NoArg))
  <2> DEFINE c == Phy!Cmd("POWEROFF", Phy!NoArg)
             d == Phy!Cmd("ECHO", Phy!NoArg)
             cs == Cmds("RESET", Phy!NoArg)
  <2>1. cs = <<c, d>>
    BY CmdsAre
  <2>2. c \in Queued /\ d \in Queued /\ c.name = "POWEROFF" /\ d.name = "ECHO"
    BY CmdIs, CmdQueued
  <2> HIDE DEF c, d, cs
  <2>3. cs \in Seq(Queued) /\ Len(cs) = 2 /\ cs[1] = c /\ cs[2] = d
    BY <2>1, <2>2
  <2>4. Neutral(cs)
    BY <2>2, <2>3 DEF Neutral
  <2> QED
    BY <2>4 DEF cs
<1>3. /\ Neutral(Cmds("POWERON", Phy!NoArg))
      /\ Neutral(Cmds("SETFREQ_H1", Hopping))
  BY <1>1, BadIs, CmdIs, CmdQueued, CmdsAre
<1>4. \A f \in ArfcnNr : Neutral(Cmds("MEASURE", ArfcnArg(f)))
  BY <1>1, CmdIs, CmdQueued, CmdsAre, OnlySlotsEmpty
<1>5. \A t \in TaNr : Neutral(Cmds("SETTA", TaArg(t)))
  BY <1>1, CmdIs, CmdQueued, CmdsAre
<1> QED
  BY <1>2, <1>3, <1>4, <1>5, OnlySlotsEmpty

\* Nothing is set up.
LEMMA NoSlotsTyped ==
  /\ NoSlots \in [Tns -> Pchan \cup {NoPchan}]
  /\ \A t \in Tns : NoSlots[t] = NoPchan
BY DEF NoSlots

\* None of the commands that take timeslots away or set them up, and then
\* others, tunes the transceiver.
LEMMA SlotsThenNeutral ==
  ASSUME NEW a, NEW b, OnlySlots(a), Neutral(b)
  PROVE  a \o b \in Seq(Queued) /\ None(a \o b, TuneCmds)
<1>1. /\ a \in Seq(Queued) /\ b \in Seq(Queued)
      /\ None(a, TuneCmds) /\ None(b, TuneCmds)
  BY Kinds DEF OnlySlots, Neutral
<1> QED
  BY <1>1, Behind, NoneBehind

\* L1CTL_RESET_REQ (full).
LEMMA ResetFullStep == Inv /\ ResetFullReq => Inv'
<1> SUFFICES ASSUME Inv, ResetFullReq PROVE Inv'
  OBVIOUS
<1> DEFINE cs == DelAllCmds(ts) \o Cmds("RESET", Phy!NoArg)
<1>1. /\ state' = "RESET" /\ scan' = NULL /\ pdchs' = NULL /\ ts' = NoSlots
      /\ arfcn' = NoArfcn /\ ta' = 0 /\ Issue(cs) /\ UNCHANGED <<air, late>>
  BY DEF ResetFullReq
<1>2. cs \in Seq(Queued)
  BY DelAllCmdsIs, NeutralCmds, SlotsThenNeutral
<1>3. FsmTyped'
  BY <1>1, NoSlotsTyped, TrxconAssumption DEF FsmTyped, States, Tuned
<1>4. StateOwnsItsData'
  BY <1>1 DEF StateOwnsItsData
<1> HIDE DEF cs
<1> QED
  BY <1>1, <1>2, <1>3, <1>4, NoSlotsTyped, HandlerStep

\* L1CTL_RESET_REQ (sched) and L1CTL_DM_REL_REQ.
LEMMA ResetSchedStep == Inv /\ (ResetSchedReq \/ DmRelReq) => Inv'
<1> SUFFICES ASSUME Inv, ResetSched PROVE Inv'
  BY DEF ResetSchedReq, DmRelReq
<1> DEFINE cs == DelAllCmds(ts)
<1>1. /\ ts' = NoSlots /\ Issue(cs)
      /\ UNCHANGED <<state, scan, arfcn, ta, pdchs, air, late>>
  BY DEF ResetSched
<1>2. cs \in Seq(Queued) /\ None(cs, TuneCmds)
  BY DelAllCmdsIs, Kinds DEF OnlySlots
<1>3. FsmTyped'
  BY <1>1, NoSlotsTyped DEF Inv, Base, FsmTyped
<1>4. StateOwnsItsData'
  BY <1>1 DEF Inv, Base, StateOwnsItsData
<1> HIDE DEF cs
<1> QED
  BY <1>1, <1>2, <1>3, <1>4, NoSlotsTyped, HandlerStep

\* L1CTL_PM_REQ.
LEMMA PmReqStep ==
  ASSUME Inv, NEW s \in Scan, PmReq(s[1], s[2])
  PROVE  Inv'
<1> DEFINE cs == Cmds("MEASURE", ArfcnArg(s[1]))
           sc == [first |-> s[1], last |-> s[2]]
<1>1. /\ state \in {"RESET", "FULL_POWER_SCAN"} /\ state' = "FULL_POWER_SCAN"
      /\ scan' = sc /\ Issue(cs)
      /\ UNCHANGED <<arfcn, ta, ts, pdchs, air, late>>
  BY DEF PmReq
<1>2. s[1] \in ArfcnNr /\ s[2] \in ArfcnNr /\ s[1] .. s[2] \subseteq ArfcnNr
  BY TrxconAssumption
<1>3. Neutral(cs)
  BY <1>2, NeutralCmds
<1>4. FsmTyped'
  BY <1>1, <1>2 DEF Inv, Base, FsmTyped, States, Tuned
<1>5. StateOwnsItsData'
  BY <1>1 DEF Inv, Base, StateOwnsItsData
<1>6. Has(cs, Phy!Cmd("MEASURE", ArfcnArg(sc.first)))
  <2>1. cs = <<Phy!Cmd("MEASURE", ArfcnArg(s[1]))>>
    BY <1>2, BadIs, CmdsAre DEF PmReq
  <2>2. Len(cs) = 1 /\ cs[1] = Phy!Cmd("MEASURE", ArfcnArg(sc.first))
    BY <2>1
  <2> QED
    BY <2>2 DEF Has
<1> HIDE DEF cs, sc
<1> QED
  BY <1>1, <1>3, <1>4, <1>5, <1>6, NeutralStep

\* The timeslot t is reset and set up as p, the others are left alone.
LEMMA Configured ==
  ASSUME NEW slots, NEW t \in Tns, NEW p \in Pchan \cup {NoPchan}
  PROVE  /\ OnlySlots(ConfigureCmds(slots, t, p))
         /\ SlotEnds(ConfigureCmds(slots, t, p), t, p)
         /\ \A s \in Tns \ {t} : None(ConfigureCmds(slots, t, p), SlotCmds(s))
<1> DEFINE d == DelCmds(slots, t)
           c == SlotCmd(t, p)
<1>1. /\ OnlySlots(d) /\ OnlySlots(c)
      /\ d \in Seq(Queued) /\ c \in Seq(Queued)
      /\ \A s \in Tns \ {t} : None(d, SlotCmds(s)) /\ None(c, SlotCmds(s))
  BY SlotCmdIs, DelCmdsIs DEF OnlySlots
<1> HIDE DEF d
<1>2. SlotEnds(d \o c, t, p)
  BY <1>1, SlotEnd
<1> HIDE DEF c
<1>3. OnlySlots(d \o c) /\ \A s \in Tns \ {t} : None(d \o c, SlotCmds(s))
  BY <1>1, OnlySlotsBoth, NoneBehind
<1> QED
  BY <1>2, <1>3 DEF ConfigureCmds, d, c

\* L1CTL_FBSB_REQ.
LEMMA FbsbReqStep ==
  ASSUME Inv, NEW a \in ArfcnNr, NEW p \in {"CCCH", "CCCH_SDCCH4"},
         FbsbReq(a, p)
  PROVE  Inv'
<1> DEFINE x == ConfigureCmds(ts, 0, p)
           y == IF arfcn # a THEN Cmds("SETFREQ_H0", ArfcnArg(a)) ELSE <<>>
           z == Cmds("POWERON", Phy!NoArg)
<1>1. /\ state = "RESET" /\ state' = "FBSB_SEARCH" /\ arfcn' = a
      /\ ts' = [ts EXCEPT ![0] = p]
      /\ Issue((x \o y) \o z)
      /\ UNCHANGED <<scan, ta, pdchs, air, late>>
  BY DEF FbsbReq
<1>2. 0 \in Tns /\ p \in Pchan /\ ts \in [Tns -> Pchan \cup {NoPchan}]
  BY TrxconAssumption DEF Tns, Pchan, Inv, Base, FsmTyped
<1>3. /\ OnlySlots(x) /\ x \in Seq(Queued) /\ None(x, TuneCmds)
      /\ SlotEnds(x, 0, p)
      /\ \A s \in Tns \ {0} : None(x, SlotCmds(s))
  BY <1>2, Configured, Kinds DEF OnlySlots
<1>4. z \in Seq(Queued) /\ None(z, TuneCmds) /\ \A t : None(z, SlotCmds(t))
  BY NeutralCmds, Kinds DEF Neutral
<1>5. /\ y \in Seq(Queued) /\ \A t : None(y, SlotCmds(t))
      /\ arfcn # a /\ a \notin BadNr => TuneEnds(y, a)
      /\ arfcn = a => None(y, TuneCmds)
  <2>1. CASE arfcn # a
    <3>1. CASE a \notin BadNr
      BY <2>1, <3>1, TuneEnd
    <3>2. CASE a \in BadNr
      BY <2>1, <3>2, BadIs, CmdsAre, OnlySlotsEmpty, Kinds DEF Neutral
    <3> QED
      BY <3>1, <3>2
  <2>2. CASE arfcn = a
    BY <2>2, OnlySlotsEmpty, Kinds DEF Neutral
  <2> QED
    BY <2>1, <2>2
<1> HIDE DEF x, y, z
<1>6. x \o y \in Seq(Queued) /\ (x \o y) \o z \in Seq(Queued)
  BY <1>3, <1>4, <1>5, Behind
<1>7. FsmTyped'
  BY <1>1, <1>2 DEF Inv, Base, FsmTyped, States, Tuned
<1>8. StateOwnsItsData'
  BY <1>1 DEF Inv, Base, StateOwnsItsData
<1>9. \A t \in Tns : ts'[t] # NoPchan =>
        \/ SlotEnds((x \o y) \o z, t, ts'[t])
        \/ ts'[t] = ts[t] /\ None((x \o y) \o z, SlotCmds(t))
  <2> TAKE t \in Tns
  <2>1. CASE t = 0
    <3>1. ts'[t] = p
      BY <1>1, <1>2, <2>1
    <3>2. SlotEnds(x \o y, t, p)
      BY <1>3, <1>5, <2>1, ToldBehind DEF SlotEnds
    <3>3. SlotEnds((x \o y) \o z, t, p)
      BY <1>4, <1>6, <3>2, ToldBehind DEF SlotEnds
    <3> QED
      BY <3>1, <3>3
  <2>2. CASE t # 0
    <3>1. ts'[t] = ts[t]
      BY <1>1, <1>2, <2>2
    <3>2. None(x \o y, SlotCmds(t))
      BY <1>3, <1>5, <2>2, NoneBehind
    <3>3. None((x \o y) \o z, SlotCmds(t))
      BY <1>4, <1>6, <3>2, NoneBehind
    <3> QED
      BY <3>1, <3>3
  <2> QED
    BY <2>1, <2>2
<1>10. a \notin BadNr =>
         \/ TuneEnds((x \o y) \o z, arfcn')
         \/ arfcn' = arfcn /\ None((x \o y) \o z, TuneCmds)
  <2> HAVE a \notin BadNr
  <2>1. CASE arfcn # a
    <3>1. TuneEnds(x \o y, a)
      BY <1>3, <1>5, <2>1, ToldLast DEF TuneEnds
    <3>2. TuneEnds((x \o y) \o z, a)
      BY <1>4, <1>6, <3>1, ToldBehind DEF TuneEnds
    <3> QED
      BY <1>1, <3>2
  <2>2. CASE arfcn = a
    <3>1. None(x \o y, TuneCmds)
      BY <1>3, <1>5, <2>2, NoneBehind
    <3>2. None((x \o y) \o z, TuneCmds)
      BY <1>4, <1>6, <3>1, NoneBehind
    <3> QED
      BY <1>1, <2>2, <3>2
  <2> QED
    BY <2>1, <2>2
<1> QED
  BY <1>1, <1>6, <1>7, <1>8, <1>9, <1>10, HandlerStep

\* L1CTL_CCCH_MODE_REQ.
LEMMA CcchModeStep ==
  ASSUME Inv, NEW p \in {"CCCH", "CCCH_SDCCH4"}, CcchModeReq(p)
  PROVE  Inv'
<1> DEFINE cs == ConfigureCmds(ts, 0, p)
<1>1. /\ ts' = [ts EXCEPT ![0] = p] /\ Issue(cs)
      /\ UNCHANGED <<state, scan, arfcn, ta, pdchs, air, late>>
  BY DEF CcchModeReq
<1>2. 0 \in Tns /\ p \in Pchan /\ ts \in [Tns -> Pchan \cup {NoPchan}]
  BY TrxconAssumption DEF Tns, Pchan, Inv, Base, FsmTyped
<1>3. /\ cs \in Seq(Queued) /\ None(cs, TuneCmds) /\ SlotEnds(cs, 0, p)
      /\ \A s \in Tns \ {0} : None(cs, SlotCmds(s))
  BY <1>2, Configured, Kinds DEF OnlySlots
<1>4. \A t \in Tns : ts'[t] = IF t = 0 THEN p ELSE ts[t]
  BY <1>1, <1>2
<1>5. FsmTyped'
  BY <1>1, <1>2 DEF Inv, Base, FsmTyped
<1>6. StateOwnsItsData'
  BY <1>1 DEF Inv, Base, StateOwnsItsData
<1> HIDE DEF cs
<1>7. \A t \in Tns : ts'[t] # NoPchan =>
        \/ SlotEnds(cs, t, ts'[t])
        \/ ts'[t] = ts[t] /\ None(cs, SlotCmds(t))
  BY <1>3, <1>4
<1> QED
  BY <1>1, <1>3, <1>5, <1>6, <1>7, HandlerStep

\* L1CTL_DM_EST_REQ.
LEMMA DmEstStep ==
  ASSUME Inv, NEW t \in Tns, NEW p \in Dch,
         NEW f \in {Hopping} \cup {ArfcnArg(a) : a \in ArfcnNr},
         DmEstReq(t, p, f)
  PROVE  Inv'
<1> DEFINE x == Cmds(IF f = Hopping THEN "SETFREQ_H1" ELSE "SETFREQ_H0", f)
           y == DelAllCmds(ts)
           z == SlotCmd(t, p)
<1>1. /\ state \in {"BCCH_CCCH", "DEDICATED", "PACKET_DATA"}
      /\ arfcn' = IF f = Hopping THEN NoArfcn ELSE f[2]
      /\ ts' = [NoSlots EXCEPT ![t] = p]
      /\ state' = IF p = "PDCH" THEN "PACKET_DATA" ELSE "DEDICATED"
      /\ pdchs' = IF p = "PDCH" THEN {} ELSE NULL
      /\ Issue((x \o y) \o z)
      /\ UNCHANGED <<scan, ta, air, late>>
  BY DEF DmEstReq
<1>2. p \in Pchan
  BY TrxconAssumption DEF Pchan
<1>3. f # Hopping => \E a \in ArfcnNr \ BadNr : f = ArfcnArg(a) /\ f[2] = a
  BY Args DEF DmEstReq
<1>4. /\ x \in Seq(Queued)
      /\ f # Hopping => TuneEnds(x, f[2])
  <2>1. CASE f = Hopping
    <3>1. x = Cmds("SETFREQ_H1", Hopping)
      BY <2>1
    <3> QED
      BY <2>1, <3>1, NeutralCmds DEF Neutral
  <2>2. CASE f # Hopping
    <3>1. PICK a \in ArfcnNr \ BadNr : f = ArfcnArg(a) /\ f[2] = a
      BY <1>3, <2>2
    <3>2. x = Cmds("SETFREQ_H0", ArfcnArg(a))
      BY <2>2, <3>1
    <3> QED
      BY <3>1, <3>2, TuneEnd
  <2> QED
    BY <2>1, <2>2
<1>5. y \in Seq(Queued) /\ None(y, TuneCmds)
  BY DelAllCmdsIs, Kinds DEF OnlySlots
<1>6. z \in Seq(Queued) /\ None(z, TuneCmds)
  BY <1>2, SlotCmdIs, Kinds DEF OnlySlots
<1>7. \A pre \in Seq(Queued) : SlotEnds(pre \o z, t, p)
  BY <1>2, SlotEnd
<1> HIDE DEF x, y, z
<1>8. x \o y \in Seq(Queued) /\ (x \o y) \o z \in Seq(Queued)
  BY <1>4, <1>5, <1>6, Behind
<1>9. \A s \in Tns : ts'[s] = IF s = t THEN p ELSE NoPchan
  BY <1>1, NoSlotsTyped
<1>10. FsmTyped'
  <2>1. ts' \in [Tns -> Pchan \cup {NoPchan}]
    BY <1>1, <1>2, NoSlotsTyped
  <2>2. arfcn' \in ArfcnNr \cup {NoArfcn}
    BY <1>1, <1>3
  <2>3. state' \in States /\ (pdchs' = NULL \/ pdchs' \in SUBSET Tns)
    BY <1>1 DEF States
  <2> QED
    BY <1>1, <2>1, <2>2, <2>3 DEF Inv, Base, FsmTyped
<1>11. StateOwnsItsData'
  <2>1. {} # NULL
    BY TrxconAssumption
  <2> QED
    BY <1>1, <2>1 DEF Inv, Base, StateOwnsItsData
<1>12. \A s \in Tns : ts'[s] # NoPchan => SlotEnds((x \o y) \o z, s, ts'[s])
  BY <1>7, <1>8, <1>9
<1>13. arfcn' \notin {0, NoArfcn} \cup BadNr => TuneEnds((x \o y) \o z, arfcn')
  <2> SUFFICES ASSUME f # Hopping PROVE TuneEnds((x \o y) \o z, f[2])
    BY <1>1
  <2>1. TuneEnds(x \o y, f[2])
    BY <1>4, <1>5, ToldBehind DEF TuneEnds
  <2> QED
    BY <1>6, <1>8, <2>1, ToldBehind DEF TuneEnds
<1> QED
  BY <1>1, <1>8, <1>10, <1>11, <1>12, <1>13, HandlerStep

\* L1CTL_PARAM_REQ.
LEMMA ParamStep ==
  ASSUME Inv, NEW t \in TaNr, ParamReq(t)
  PROVE  Inv'
<1> DEFINE cs == IF ta = t THEN <<>> ELSE Cmds("SETTA", TaArg(t))
<1>1. ta' = t /\ Issue(cs) /\ UNCHANGED <<state, scan, arfcn, ts, pdchs, air, late>>
  BY DEF ParamReq
<1>2. Neutral(cs)
  BY NeutralCmds
<1>3. FsmTyped' /\ StateOwnsItsData'
  BY <1>1 DEF Inv, Base, FsmTyped, StateOwnsItsData
<1> HIDE DEF cs
<1> QED
  BY <1>1, <1>2, <1>3, NeutralStep

\* The first TBF comes to a timeslot.
LEMMA TbfOnStep ==
  ASSUME Inv, NEW t \in Tns, TbfOn(t)
  PROVE  Inv'
<1>1. /\ state = "PACKET_DATA" /\ pdchs' = pdchs \cup {t}
      /\ UNCHANGED <<state, scan, arfcn, ta, air, late>>
  BY DEF TbfOn
<1>2. /\ pdchs \in SUBSET Tns /\ pdchs' \in SUBSET Tns /\ pdchs' # NULL
      /\ ts \in [Tns -> Pchan \cup {NoPchan}]
  <2>1. pdchs # NULL
    BY <1>1 DEF Inv, Base, StateOwnsItsData
  <2>2. pdchs \in SUBSET Tns
    BY <2>1 DEF Inv, Base, FsmTyped
  <2>3. pdchs' \in SUBSET Tns
    BY <1>1, <2>2
  <2> QED
    BY <2>2, <2>3, TrxconAssumption DEF Inv, Base, FsmTyped
<1>3. StateOwnsItsData'
  BY <1>1, <1>2 DEF Inv, Base, StateOwnsItsData
<1>4. CASE ts[t] # NoPchan
  <2>1. Issue(<<>>) /\ ts' = ts
    BY <1>4 DEF TbfOn
  <2>2. FsmTyped'
    BY <1>1, <1>2, <2>1 DEF Inv, Base, FsmTyped
  <2> QED
    BY <1>1, <1>3, <2>1, <2>2, NeutralCmds, NeutralStep
<1>5. CASE ts[t] = NoPchan
  <2> DEFINE cs == SlotCmd(t, "PDCH")
  <2>1. Issue(cs) /\ ts' = [ts EXCEPT ![t] = "PDCH"]
    BY <1>5 DEF TbfOn
  <2>2. /\ "PDCH" \in Pchan
        /\ \A s \in Tns : ts'[s] = IF s = t THEN "PDCH" ELSE ts[s]
    BY <1>2, <2>1 DEF Pchan
  <2>3. /\ cs \in Seq(Queued) /\ None(cs, TuneCmds)
        /\ \A s \in Tns \ {t} : None(cs, SlotCmds(s))
    BY <2>2, SlotCmdIs, Kinds DEF OnlySlots
  <2>4. SlotEnds(cs, t, "PDCH")
    <3>1. cs = <<Phy!Cmd("SETSLOT", SlotArg(t, "PDCH"))>>
      BY <2>2, SlotCmdIs
    <3> QED
      BY <3>1, ToldOne DEF SlotEnds
  <2>5. FsmTyped'
    BY <1>1, <1>2, <2>1, <2>2 DEF Inv, Base, FsmTyped
  <2> HIDE DEF cs
  <2>6. \A s \in Tns : ts'[s] # NoPchan =>
          \/ SlotEnds(cs, s, ts'[s])
          \/ ts'[s] = ts[s] /\ None(cs, SlotCmds(s))
    BY <2>2, <2>3, <2>4
  <2> QED
    BY <1>1, <1>3, <2>1, <2>3, <2>5, <2>6, HandlerStep
<1> QED
  BY <1>4, <1>5

\* The last TBF leaves a timeslot.
LEMMA TbfOffStep ==
  ASSUME Inv, NEW t \in Tns, TbfOff(t)
  PROVE  Inv'
<1> DEFINE cs == DelCmds(ts, t)
<1>1. /\ state = "PACKET_DATA" /\ pdchs' = pdchs \ {t}
      /\ ts' = [ts EXCEPT ![t] = NoPchan] /\ Issue(cs)
      /\ UNCHANGED <<state, scan, arfcn, ta, air, late>>
  BY DEF TbfOff
<1>2. /\ pdchs' \in SUBSET Tns /\ pdchs' # NULL
      /\ ts \in [Tns -> Pchan \cup {NoPchan}]
  <2>1. pdchs # NULL
    BY <1>1 DEF Inv, Base, StateOwnsItsData
  <2>2. pdchs \in SUBSET Tns
    BY <2>1 DEF Inv, Base, FsmTyped
  <2>3. pdchs' \in SUBSET Tns
    BY <1>1, <2>2
  <2> QED
    BY <2>3, TrxconAssumption DEF Inv, Base, FsmTyped
<1>3. \A s \in Tns : ts'[s] = IF s = t THEN NoPchan ELSE ts[s]
  BY <1>1, <1>2
<1>4. /\ cs \in Seq(Queued) /\ None(cs, TuneCmds)
      /\ \A s \in Tns \ {t} : None(cs, SlotCmds(s))
  BY DelCmdsIs, Kinds DEF OnlySlots
<1>5. FsmTyped' /\ StateOwnsItsData'
  BY <1>1, <1>2 DEF Inv, Base, FsmTyped, StateOwnsItsData
<1> HIDE DEF cs
<1> QED
  BY <1>1, <1>3, <1>4, <1>5, HandlerStep

\* A decoded SCH burst, and the timer that ends the wait for it.
LEMMA FbsbEndStep == Inv /\ (FbsbRes \/ FbsbTimeout) => Inv'
<1> SUFFICES ASSUME Inv, FbsbRes \/ FbsbTimeout PROVE Inv'
  OBVIOUS
<1>1. /\ state = "FBSB_SEARCH" /\ state' \in {"BCCH_CCCH", "RESET"}
      /\ Issue(<<>>) /\ UNCHANGED <<scan, arfcn, ta, ts, pdchs, air, late>>
  BY DEF FbsbRes, FbsbTimeout
<1>2. FsmTyped' /\ StateOwnsItsData'
  BY <1>1 DEF Inv, Base, FsmTyped, StateOwnsItsData, States, Tuned
<1> QED
  BY <1>1, <1>2, NeutralCmds, NeutralStep

-----------------------------------------------------------------------------
(* Answers, timers and datagrams.                                            *)

\* The rest of the queue holds what the queue held besides its head.
LEMMA HasTail ==
  ASSUME NEW S, NEW q \in Seq(S), q # <<>>, NEW m, Has(q, m), Head(q) # m
  PROVE  Has(Tail(q), m)
<1> DEFINE r == Tail(q)
<1>1. /\ Len(q) \in Nat /\ Len(r) = Len(q) - 1 /\ Head(q) = q[1]
      /\ \A i \in 1 .. Len(r) : r[i] = q[i + 1]
  OBVIOUS
<1> HIDE DEF r
<1>2. PICK i \in 1 .. Len(q) : q[i] = m
  BY DEF Has
<1>3. i - 1 \in 1 .. Len(r) /\ r[i - 1] = m
  <2>1. i # 1
    BY <1>1, <1>2
  <2> QED
    BY <1>1, <1>2, <2>1
<1> QED
  BY <1>3 DEF Has, r

\* The answer to a measurement.
LEMMA PmResStep == Inv /\ PmRes => Inv'
<1> SUFFICES ASSUME Inv, PmRes PROVE Inv'
  OBVIOUS
<1> DEFINE q == trx_ctrl_list
           c == Head(q)
           on == Expected /\ scan.first < scan.last
           more == IF on THEN MeasureCmds(NextOf(scan)) ELSE <<>>
           rest == IF on THEN NextOf(scan) ELSE IF Expected THEN NULL ELSE scan
           M(f) == Phy!Cmd("MEASURE", ArfcnArg(f))
<1>1. PmStep(rest, more)
  BY DEF PmRes
<1>2. /\ q # <<>> /\ c.name = "MEASURE" /\ scan' = rest
      /\ Phy!ReadAnswer(more)
      /\ UNCHANGED <<state, arfcn, ta, ts, pdchs, air, late>>
  BY <1>1 DEF PmStep
<1>3. /\ PhyTyped /\ FsmTyped /\ AirTyped /\ late \in BOOLEAN
      /\ StateOwnsItsData /\ q \in Seq(Queued)
  BY DEF Inv, Base, PhyTyped
<1>4. on => /\ scan # NULL /\ NextOf(scan).first \in ArfcnNr
            /\ NextOf(scan) \in [first : ArfcnNr, last : ArfcnNr]
            /\ NextOf(scan).first .. NextOf(scan).last \subseteq ArfcnNr
  <2> SUFFICES ASSUME on
               PROVE  /\ scan # NULL /\ NextOf(scan).first \in ArfcnNr
                      /\ NextOf(scan) \in [first : ArfcnNr, last : ArfcnNr]
                      /\ NextOf(scan).first .. NextOf(scan).last
                           \subseteq ArfcnNr
    OBVIOUS
  <2>1. scan # NULL /\ scan.first < scan.last
    BY DEF Expected
  <2>2. /\ scan \in [first : ArfcnNr, last : ArfcnNr]
        /\ scan.first .. scan.last \subseteq ArfcnNr
        /\ scan.first \in Nat /\ scan.last \in Nat
    BY <1>3, <2>1, TrxconAssumption DEF FsmTyped
  <2>3. /\ NextOf(scan) \in [first : Nat, last : ArfcnNr]
        /\ NextOf(scan).first = scan.first + 1
        /\ NextOf(scan).last = scan.last
    BY <2>2 DEF NextOf
  <2>4. scan.first + 1 \in scan.first .. scan.last
    BY <2>1, <2>2
  <2>5. \A n \in (scan.first + 1) .. scan.last : n \in scan.first .. scan.last
    BY <2>2
  <2> QED
    BY <2>1, <2>2, <2>3, <2>4, <2>5 DEF NextOf
<1>5. Neutral(more)
  BY <1>4, NeutralCmds DEF MeasureCmds
<1>6. /\ q' = Tail(q) \o more /\ open' /\ PhyTyped'
      /\ Wire => Answers(Head(rspNet), c) /\ Wire'
  BY <1>2, <1>3, <1>5, ReadStep DEF Neutral
<1>8. AirTyped' /\ StateOwnsItsData'
  <2>1. scan' # NULL => scan # NULL
    BY <1>2, <1>4
  <2> QED
    BY <1>2, <1>3, <2>1 DEF AirTyped, StateOwnsItsData
<1>9. FsmTyped'
  <2>1. scan' = NULL \/ (/\ scan' \in [first : ArfcnNr, last : ArfcnNr]
                         /\ scan'.first .. scan'.last \subseteq ArfcnNr)
    BY <1>2, <1>3, <1>4 DEF FsmTyped
  <2> QED
    BY <1>2, <1>3, <2>1 DEF FsmTyped
<1>11. Base'
  BY <1>2, <1>3, <1>6, <1>8, <1>9 DEF Base, Down
<1> SUFFICES ASSUME InStep PROVE InStep'
  BY <1>2, <1>11 DEF Inv
<1>7. SlotsTold' /\ ArfcnTold'
  BY <1>2, <1>3, <1>5, ReadTold DEF InStep
<1>10. ScanTold'
  <2> SUFFICES ASSUME scan' # NULL, scan'.first \notin BadNr
               PROVE  Has(Tail(q) \o more, M(scan'.first))
    BY <1>6 DEF ScanTold, Stalled, Has
  <2>1. Tail(q) \in Seq(Queued) /\ more \in Seq(Queued)
    BY <1>2, <1>3, <1>5 DEF Neutral
  <2>2. CASE on
    <3>0. /\ more = Cmds("MEASURE", ArfcnArg(scan'.first))
          /\ scan'.first \in ArfcnNr
      BY <1>2, <1>4, <2>2 DEF MeasureCmds
    <3>1. more = <<M(scan'.first)>>
      <4>1. ArfcnArg(scan'.first) \notin BadFreqs
        BY <3>0, BadIs
      <4> HIDE DEF more, M
      <4>2. Cmds("MEASURE", ArfcnArg(scan'.first)) = <<M(scan'.first)>>
        BY <4>1, CmdsAre DEF M
      <4> QED
        BY <3>0, <4>2
    <3> HIDE DEF more, M, q
    <3>2. Len(more) = 1 /\ more[1] = M(scan'.first)
      BY <3>1
    <3>3. Has(more, M(scan'.first))
      BY <3>2 DEF Has
    <3> QED
      BY <2>1, <3>3, HasBehind
  <2>3. CASE ~on
    <3>1. scan' = scan /\ ~Expected
      BY <1>2, <2>3
    <3>2. Has(q, M(scan.first))
      BY <3>1 DEF InStep, ScanTold, Stalled, Has
    <3>3. state = "FULL_POWER_SCAN" /\ rspNet # <<>>
      BY <1>1, <1>3, <3>1 DEF StateOwnsItsData, PmStep
    <3>4. Head(rspNet).arg # ArfcnArg(scan.first)
      BY <3>1, <3>3 DEF Expected
    <3>5. c # M(scan.first)
      BY <1>6, <3>4, CmdIs DEF InStep, Answers
    <3> HIDE DEF more, M
    <3>6. Has(Tail(q), M(scan.first))
      BY <1>2, <1>3, <3>2, <3>5, HasTail
    <3> HIDE DEF q
    <3> QED
      BY <2>1, <3>1, <3>6, HasBehind
  <2> QED
    BY <2>2, <2>3
<1> QED
  BY <1>6, <1>7, <1>10 DEF InStep

\* The answer to any other command.
LEMMA OtherResStep == Inv /\ OtherRes => Inv'
<1> SUFFICES ASSUME Inv, OtherRes PROVE Inv'
  OBVIOUS
<1> DEFINE q == trx_ctrl_list
<1>1. /\ q # <<>> /\ Head(q).name # "MEASURE" /\ Phy!ReadAnswer(<<>>)
      /\ UNCHANGED <<state, scan, arfcn, ta, ts, pdchs, air, late>>
  BY DEF OtherRes, fsmVars
<1>2. /\ PhyTyped /\ FsmTyped /\ AirTyped /\ late \in BOOLEAN
      /\ StateOwnsItsData /\ q \in Seq(Queued)
  BY DEF Inv, Base, PhyTyped
<1>3. /\ q' = Tail(q) \o <<>> /\ open' /\ PhyTyped'
      /\ Wire => Wire'
  BY <1>1, <1>2, OnlySlotsEmpty, ReadStep DEF Neutral
<1>4. Base'
  BY <1>1, <1>2, <1>3 DEF Base, Down, FsmTyped, AirTyped, StateOwnsItsData
<1> SUFFICES ASSUME InStep PROVE InStep'
  BY <1>1, <1>4 DEF Inv
<1>5. SlotsTold' /\ ArfcnTold'
  BY <1>1, <1>2, OnlySlotsEmpty, ReadTold DEF InStep
<1>6. ScanTold'
  <2> SUFFICES ASSUME scan # NULL, scan.first \notin BadNr
               PROVE  Has(q', Phy!Cmd("MEASURE", ArfcnArg(scan.first)))
    BY <1>1 DEF ScanTold, Stalled, Has
  <2> DEFINE m == Phy!Cmd("MEASURE", ArfcnArg(scan.first))
  <2>1. Has(q, m) /\ Head(q) # m
    BY <1>1, CmdIs DEF InStep, ScanTold, Stalled, Has
  <2>2. q' = Tail(q)
    BY <1>1, <1>2, <1>3
  <2> HIDE DEF m
  <2>3. Has(Tail(q), m)
    BY <1>1, <1>2, <2>1, HasTail
  <2> QED
    BY <2>2, <2>3 DEF m
<1> QED
  BY <1>3, <1>5, <1>6 DEF InStep

\* What the invariant says of the instance depends on the queue alone.
LEMMA SameQueue ==
  ASSUME Inv, open' = open, trx_ctrl_list' = trx_ctrl_list,
         UNCHANGED <<fsmVars, air>>, PhyTyped', late' \in BOOLEAN,
         ~late' => ~late /\ Wire'
  PROVE  Inv'
<1>1. UNCHANGED <<state, scan, arfcn, ta, ts, pdchs, air>>
  BY DEF fsmVars
<1>2. InStep => SlotsTold' /\ ArfcnTold' /\ ScanTold'
  BY <1>1 DEF InStep, SlotsTold, ArfcnTold, ScanTold, Stalled
<1>3. Base'
  BY <1>1 DEF Inv, Base, Down, FsmTyped, AirTyped, StateOwnsItsData
<1> QED
  BY <1>2, <1>3 DEF Inv, InStep

\* An answer that finds nothing queued: a repetition has crossed its answer.
LEMMA StrayResStep == Inv /\ StrayRes => Inv'
<1> SUFFICES ASSUME Inv, StrayRes PROVE Inv'
  OBVIOUS
<1>1. Phy!ReadStray /\ UNCHANGED <<fsmVars, air, late>>
  BY DEF StrayRes
<1>2. open' = open /\ trx_ctrl_list' = trx_ctrl_list /\ PhyTyped' /\ ~Wire
  BY <1>1, StrayStep DEF Inv, Base, Phy!ReadStray
<1>3. late' \in BOOLEAN /\ late'
  BY <1>1, <1>2 DEF Inv, Base, InStep
<1> QED
  BY <1>1, <1>2, <1>3, SameQueue

\* The head of the queue is sent again.
LEMMA ResentStep == Inv /\ Resend => Inv'
<1> SUFFICES ASSUME Inv, Resend PROVE Inv'
  OBVIOUS
<1>1. /\ Phy!Resend /\ UNCHANGED <<fsmVars, air>>
      /\ late' = (late \/ cmdNet # <<>> \/ rspNet # <<>>)
  BY DEF Resend
<1>2. /\ open' = open /\ trx_ctrl_list' = trx_ctrl_list /\ PhyTyped'
      /\ cmdNet = <<>> /\ rspNet = <<>> => Wire'
  BY <1>1, ResendStep DEF Inv, Base, Phy!Resend
<1>3. late' \in BOOLEAN /\ (~late' => ~late /\ Wire')
  BY <1>1, <1>2 DEF Inv, Base
<1> QED
  BY <1>1, <1>2, <1>3, SameQueue

\* The next client connects: nothing is left of the instance before.
LEMMA ConnectStep == Inv /\ Connect => Inv'
<1> SUFFICES ASSUME Inv, Connect PROVE Inv'
  OBVIOUS
<1>1. Phy!Open /\ late' = FALSE /\ UNCHANGED <<fsmVars, air>>
  BY DEF Connect
<1>2. /\ UNCHANGED <<state, scan, arfcn, ta, ts, pdchs, air>>
  BY <1>1 DEF fsmVars
<1>3. ~open /\ open' /\ trx_ctrl_list' = <<>> /\ PhyTyped' /\ Wire'
  BY <1>1, OpenStep DEF Inv, Base
<1>4. ts' = NoSlots /\ arfcn' = 0 /\ scan' = NULL
  BY <1>2, <1>3 DEF Inv, Base, Down
<1>5. Base'
  BY <1>1, <1>2, <1>3
     DEF Inv, Base, Down, FsmTyped, AirTyped, StateOwnsItsData
<1>6. SlotsTold' /\ ArfcnTold' /\ ScanTold'
  BY <1>4, NoSlotsTyped DEF SlotsTold, ArfcnTold, ScanTold
<1> QED
  BY <1>3, <1>5, <1>6 DEF Inv, InStep

\* The instance goes.
LEMMA FailureStep == Inv /\ (PhyFailure \/ L2Failure) => Inv'
<1> SUFFICES ASSUME Inv, PhyFailure \/ L2Failure PROVE Inv'
  OBVIOUS
<1>1. /\ PhyTyped /\ AirTyped /\ late \in BOOLEAN
      /\ rspNet \in Seq(Phy!Response)
  BY DEF Inv, Base, PhyTyped, Phy!TypeOK
<1>2. /\ FreeInst /\ Phy!Terminate /\ radio' = radio
      /\ rspNet' \in Seq(Phy!Response)
  <2>1. CASE PhyFailure /\ Phy!ReadError
    <3>1. /\ rspNet # <<>> /\ rspNet' = Tail(rspNet) /\ Phy!Terminate
          /\ radio' = radio
      BY <2>1 DEF Phy!ReadError
    <3>2. Tail(rspNet) \in Seq(Phy!Response)
      BY <1>1, <3>1
    <3> QED
      BY <2>1, <3>1, <3>2 DEF PhyFailure
  <2>2. CASE PhyFailure /\ Phy!GiveUp
    BY <1>1, <2>2 DEF PhyFailure, Phy!GiveUp
  <2>3. CASE L2Failure
    BY <1>1, <2>3 DEF L2Failure, Phy!CloseReq
  <2> QED
    BY <2>1, <2>2, <2>3 DEF PhyFailure
<1>3. PhyTyped' /\ Down' /\ Wire'
  BY <1>1, <1>2, DownStep
<1>4. /\ state' = "RESET" /\ scan' = NULL /\ arfcn' = 0 /\ ta' = 0
      /\ ts' = NoSlots /\ pdchs' = NULL /\ UNCHANGED <<air, late>>
  BY <1>2 DEF FreeInst
<1>5. FsmTyped'
  BY <1>4, NoSlotsTyped, TrxconAssumption DEF FsmTyped, States, Tuned
<1>6. AirTyped' /\ StateOwnsItsData'
  BY <1>1, <1>4 DEF AirTyped, StateOwnsItsData
<1>7. SlotsTold' /\ ArfcnTold' /\ ScanTold'
  BY <1>4, NoSlotsTyped DEF SlotsTold, ArfcnTold, ScanTold
<1> QED
  BY <1>1, <1>3, <1>4, <1>5, <1>6, <1>7 DEF Inv, Base, InStep

-----------------------------------------------------------------------------
(* The invariant is inductive.                                               *)

LEMMA InitInv == Init => Inv
<1> SUFFICES ASSUME Init PROVE Inv
  OBVIOUS
<1>1. /\ Phy!Init /\ state = "RESET" /\ scan = NULL /\ arfcn = 0 /\ ta = 0
      /\ ts = NoSlots /\ pdchs = NULL
      /\ air = [arfcn |-> NoArfcn, hopping |-> FALSE, ta |-> 0,
                slot |-> [t \in Tns |-> 0]]
      /\ late = FALSE
  BY DEF Init
<1>2. /\ open = TRUE /\ trx_ctrl_list = <<>> /\ cmdNet = <<>> /\ rspNet = <<>>
  BY <1>1 DEF Phy!Init
<1>3. Phy!TypeOK
  <2>1. /\ trx_ctrl_list \in Seq(Phy!Command) /\ cmdNet \in Seq(Phy!Command)
        /\ rspNet \in Seq(Phy!Response)
    BY <1>2
  <2>2. radio \in Phy!Radio
    BY <1>1 DEF Phy!Init, Phy!Radio
  <2>3. /\ open \in BOOLEAN /\ powered_up \in BOOLEAN
        /\ trx_ctrl_timer \in BOOLEAN
    BY <1>1 DEF Phy!Init
  <2>4. /\ fi_state \in Phy!States /\ prev_state \in Phy!States \ {"RSP_WAIT"}
        /\ retry_cnt \in 0 .. Phy!MaxRetry
    BY <1>1 DEF Phy!Init, Phy!States, Phy!MaxRetry
  <2> QED
    BY <2>1, <2>2, <2>3, <2>4 DEF Phy!TypeOK
<1>4. PhyTyped
  <2>1. trx_ctrl_list \in Seq(Queued) /\ cmdNet \in Seq(Queued)
    BY <1>2
  <2> QED
    BY <1>3, <2>1 DEF PhyTyped
<1>5. FsmTyped
  BY <1>1, NoSlotsTyped, TrxconAssumption DEF FsmTyped, States, Tuned
<1>6. AirTyped
  <2>1. [t \in Tns |-> 0] \in [Tns -> 0 .. 13]
    OBVIOUS
  <2> QED
    BY <1>1, <2>1, TrxconAssumption DEF AirTyped
<1>7. Wire /\ StateOwnsItsData /\ ScanTold /\ Down
  BY <1>1, <1>2 DEF Wire, StateOwnsItsData, ScanTold, Down
<1>8. SlotsTold /\ ArfcnTold
  BY <1>1, NoSlotsTyped DEF SlotsTold, ArfcnTold
<1> QED
  BY <1>1, <1>4, <1>5, <1>6, <1>7, <1>8 DEF Inv, Base, InStep

LEMMA RequestStep == Inv /\ Request => Inv'
<1> SUFFICES ASSUME Inv, Request PROVE Inv'
  OBVIOUS
<1>1. CASE ResetFullReq
  BY <1>1, ResetFullStep
<1>2. CASE ResetSchedReq \/ DmRelReq
  BY <1>2, ResetSchedStep
<1>3. CASE \E s \in Scan : PmReq(s[1], s[2])
  BY <1>3, PmReqStep
<1>4. CASE \E a \in Serving, p \in {"CCCH", "CCCH_SDCCH4"} : FbsbReq(a, p)
  BY <1>4, FbsbReqStep, TrxconAssumption
<1>5. CASE \E p \in {"CCCH", "CCCH_SDCCH4"} : CcchModeReq(p)
  BY <1>5, CcchModeStep
<1>6. CASE \E t \in Tns, p \in Dch,
             f \in {Hopping} \cup {ArfcnArg(a) : a \in Serving} :
             DmEstReq(t, p, f)
  BY <1>6, DmEstStep, TrxconAssumption
<1>7. CASE \E t \in TaNr : ParamReq(t)
  BY <1>7, ParamStep
<1>8. CASE \E t \in Tns : TbfOn(t) \/ TbfOff(t)
  BY <1>8, TbfOnStep, TbfOffStep
<1> QED
  BY <1>1, <1>2, <1>3, <1>4, <1>5, <1>6, <1>7, <1>8 DEF Request

LEMMA NextInv == Inv /\ [Next]_vars => Inv'
<1> SUFFICES ASSUME Inv, [Next]_vars PROVE Inv'
  OBVIOUS
<1>1. /\ PhyTyped /\ AirTyped /\ Down /\ late \in BOOLEAN
      /\ ~late => InStep
  BY DEF Inv, Base
<1>2. CASE Request
  BY <1>2, RequestStep
<1>3. CASE FbsbRes \/ FbsbTimeout
  BY <1>3, FbsbEndStep
<1>4. CASE PmRes
  BY <1>4, PmResStep
<1>5. CASE OtherRes
  BY <1>5, OtherResStep
<1>6. CASE StrayRes
  BY <1>6, StrayResStep
<1>7. CASE Resend
  BY <1>7, ResentStep
<1>8. CASE PhyFailure \/ L2Failure
  BY <1>8, FailureStep
<1>9. CASE Connect
  BY <1>9, ConnectStep
<1>10. CASE Execute
  <2>1. /\ open' = open /\ trx_ctrl_list' = trx_ctrl_list
        /\ PhyTyped' /\ AirTyped'
        /\ InStep => Wire' /\ SlotsTold' /\ ArfcnTold'
    BY <1>1, <1>10, ExecuteStep DEF InStep
  <2>2. UNCHANGED <<state, scan, arfcn, ta, ts, pdchs, late>>
    BY <1>10 DEF Execute, fsmVars
  <2>3. Base'
    BY <2>1, <2>2 DEF Inv, Base, Down, FsmTyped, StateOwnsItsData
  <2>4. InStep => ScanTold'
    BY <2>1, <2>2 DEF InStep, ScanTold, Stalled
  <2> QED
    BY <1>1, <2>1, <2>2, <2>3, <2>4 DEF Inv, InStep
<1>11. CASE Lose
  <2>1. (Phy!LoseCmd \/ Phy!LoseRsp) /\ UNCHANGED <<fsmVars, air, late>>
    BY <1>11 DEF Lose
  <2>2. /\ open' = open /\ trx_ctrl_list' = trx_ctrl_list /\ PhyTyped'
        /\ Wire => Wire'
    BY <1>1, <2>1, LoseStep
  <2> QED
    BY <1>1, <2>1, <2>2, SameQueue DEF InStep
<1>12. CASE UNCHANGED vars
  <2>1. UNCHANGED <<phyVars, fsmVars, air, late>>
    BY <1>12 DEF vars
  <2>2. PhyTyped' /\ trx_ctrl_list' = trx_ctrl_list /\ open' = open
    BY <1>1, <2>1 DEF PhyTyped, Phy!TypeOK, phyVars
  <2>3. Wire => Wire'
    BY <2>1 DEF Wire, Follows, phyVars
  <2> QED
    BY <1>1, <2>1, <2>2, <2>3, SameQueue DEF InStep
<1> QED
  BY <1>2, <1>3, <1>4, <1>5, <1>6, <1>7, <1>8, <1>9, <1>10, <1>11, <1>12
     DEF Next

LEMMA Invariance == Safety => []Inv
BY InitInv, NextInv, PTL DEF Safety

-----------------------------------------------------------------------------
\* Every variable keeps its type: what reaches the queue and the socket is a
\* TRXC command with the arguments its kind takes, and a scan that moves on
\* stays within the range that was asked for.
THEOREM TypeCorrect == Safety => []TypeOK
<1>1. Inv => TypeOK
  BY DEF Inv, Base, PhyTyped, FsmTyped, AirTyped, TypeOK
<1> QED
  BY <1>1, Invariance, PTL

\* The data of a power scan and the GPRS state exist in the FSM states they
\* belong to and in no other, through resets, channel establishments and
\* failures, and whatever is repeated or answered twice.
THEOREM StateOwnsItsDataTheorem == Safety => []StateOwnsItsData
<1>1. Inv => StateOwnsItsData
  BY DEF Inv, Base
<1> QED
  BY <1>1, Invariance, PTL

\* A power scan that is going on has the measurement it waits for in the
\* queue, unless it came to an ARFCN without a frequency, or a repetition
\* crossed its answer.
THEOREM ScanIsServedTheorem == Safety => []ScanIsServed
<1>1. Inv => ScanIsServed
  BY DEF Inv, InStep, ScanTold, ScanIsServed
<1> QED
  BY <1>1, Invariance, PTL

\* When the queue has drained, the transceiver has the channel combination of
\* every timeslot the scheduler has a channel on, unless a repetition crossed
\* its answer.
THEOREM SlotsAgreeTheorem == Safety => []SlotsAgree
<1>1. Inv => SlotsAgree
  <2> SUFFICES ASSUME Inv, Settled, ~late, NEW t \in Tns, ts[t] # NoPchan
               PROVE  air.slot[t] = ChanType[ts[t]]
    BY DEF SlotsAgree
  <2>1. SlotTold(<<>>, t, ts[t], air)
    BY DEF Inv, InStep, SlotsTold, Settled
  <2> QED
    BY <2>1 DEF SlotTold, Told
<1> QED
  BY <1>1, Invariance, PTL

\* When the queue has drained, a transceiver is tuned to the ARFCN the
\* instance remembers, if that has a frequency and no repetition crossed its
\* answer.  ARFCN 0 is left out: it is also what a new instance remembers
\* before it tunes its transceiver for the first time.
THEOREM ArfcnAgreesTheorem ==
  ASSUME 0 \notin ArfcnNr
  PROVE  Safety => []ArfcnAgrees
<1>1. Inv => ArfcnAgrees
  <2> SUFFICES ASSUME Inv, Settled, ~late, state \in Tuned,
                      arfcn \notin {NoArfcn} \cup BadNr
               PROVE  air.arfcn = arfcn
    BY DEF ArfcnAgrees, Tuned
  <2>1. arfcn \notin {0, NoArfcn} \cup BadNr
    BY DEF Inv, Base, FsmTyped
  <2>2. TuneTold(<<>>, arfcn, air)
    BY <2>1 DEF Inv, InStep, ArfcnTold, Settled
  <2> QED
    BY <2>2 DEF TuneTold, Told
<1> QED
  BY <1>1, Invariance, PTL

\* Nothing but a repetition that crosses its answer makes trx_if.c take a
\* second answer of the same name for the answer to a later command: no loss,
\* reset, request queued meanwhile or change of client does.
THEOREM AnswerIsOwnTheorem == Safety => AnswerIsOwn
<1>1. Inv => (~late => Phy!OwnAnswer)
  BY DEF Inv, InStep, Wire, Answers, Phy!OwnAnswer
<1>2. Inv => [~late => Phy!OwnAnswer]_vars
  BY <1>1
<1>3. Safety => [][~late => Phy!OwnAnswer]_vars
  BY <1>2, Invariance, PTL
<1> QED
  BY <1>3 DEF AnswerIsOwn
=============================================================================
