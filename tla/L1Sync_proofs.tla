---------------------------- MODULE L1Sync_proofs ----------------------------
(***************************************************************************)
(* Proofs about L1Sync, for searches, rings and multiframes of any length:  *)
(* a response reads the page to which its command was written, no frame     *)
(* carries the commands of two blocks, and no bucket overflows.             *)
(*                                                                          *)
(* The argument: the ring is always in one of five phases.  In four of them *)
(* (nothing, the search for the FB, that for the SB, blocks), it is fixed   *)
(* what the buckets hold and how the two pages stand; the fifth (Unruly)    *)
(* lasts from the frame in which the frame number wraps over a block to the *)
(* next reset.  A reset may come in any of them and leaves the current      *)
(* bucket, which then reads and ends nothing.                               *)
(***************************************************************************)
EXTENDS L1Sync, Inductions

\* The shapes of a bucket: at most a response and a command, in this order.
Shaped(b) ==
  \/ b = <<>>
  \/ b \in Seq(Items) /\ Len(b) = 1
  \/ /\ b \in Seq(Items) /\ Len(b) = 2
     /\ b[1].cb = "nb_resp" /\ b[2].cb = "nb_cmd"

Ends(it) == (it.cb = "fb_resp" /\ it.arg >= Tries) \/ (it.cb = "sb_resp" /\ it.arg = 2)

NoLast(b) == \A i \in DOMAIN b : ~Ends(b[i])

\* What a reset has left: it reads no page that matters and ends no step.
Leftovers == {it \in Items : it.page = Late /\ ~Ends(it)}

Left(b) == b \in Seq(Leftovers)

\* Once the frame number has wrapped over a block, a bucket may hold anything
\* that blocks consist of; so may what a reset leaves of it.
LeftNow == Left(l1s.ring[0]) /\ (l1s.wrapped \/ Shaped(l1s.ring[0]))

\* safe_fn says of nothing that it is more than four frames ahead; in how many
\* frames its frame is, 0 when it has passed.
Soon(f) == f.safe = Hyper \/ f.safe <= f.fn + 4

Due(f) == IF f.safe = Hyper \/ f.safe <= f.fn THEN 0 ELSE f.safe - f.fn

\* The buckets of a search for the FB.
FbBucket(b) ==
  \/ b = <<>>
  \/ \E it \in Items : /\ b = <<it>>
                       /\ (it.cb = "fb_cmd" \/ (it.cb = "fb_resp" /\ it.arg <= Tries))
                       /\ it.page = None

\* Nothing is under way.
Resting ==
  /\ l1s.tgt = {} /\ l1s.safe = Hyper
  /\ LeftNow /\ \A i \in 1..Ahead : l1s.ring[i] = <<>>
  /\ main.pc \in {"loop", "compl"} =>
       host \in {"idle", "wait"} /\ (l1s.compl /\ host = "wait" => l1s.failed)

\* The search for the FB.
FbSearch ==
  /\ l1s.tgt = {} /\ l1s.safe = Hyper /\ host = "wait" /\ ~l1s.compl
  /\ (LeftNow \/ (FbBucket(l1s.ring[0]) /\ ~l1s.abort))
  /\ \A i \in 1..Ahead : FbBucket(l1s.ring[i])
  /\ main.pc \in {"loop", "compl", "mframe", "tdma", "fill"}
  /\ main.pc = "fill" =>
       /\ \A i \in (main.next + 1)..Ahead : l1s.ring[i] = <<>>
       /\ main.irqs = 0 => LeftNow

\* The search for the SB: the first command is in bucket d - 4, or was 4 - d
\* frames ago.
SbPage(k, d, r) ==
  IF k = 4 /\ d < 4 THEN r
  ELSE IF k = 5 /\ d \in {1, 2} THEN 1 - r
  ELSE IF k = 5 /\ d = 0 THEN r
  ELSE None

SbItem(k, page) ==
  [cb |-> IF k < 3 THEN "sb_cmd" ELSE "sb_resp", arg |-> IF k \in {1, 4} THEN 1 ELSE 2,
   mode |-> 0, page |-> page]

SbBucket(i, d, r) ==
  LET k == i + 5 - d
  IN IF k \in {1, 2, 4, 5} THEN << SbItem(k, SbPage(k, d, r)) >> ELSE <<>>

SbSearch ==
  \E d \in 0..(Gap + 3) :
    /\ \A i \in 0..Ahead : l1s.ring[i] = SbBucket(i, d, l1s.r)
    /\ l1s.w = IF d \in {0, 3} THEN 1 - l1s.r ELSE l1s.r
    /\ l1s.tgt = {} /\ l1s.tasks = {} /\ ~l1s.abort
    /\ l1s.safe = Hyper /\ ~l1s.wrapped
    /\ host = "wait" /\ ~l1s.compl
    /\ main.pc \in {"loop", "compl", "mframe", "tdma"}

\* Blocks.  c[i + 2] is the burst whose command is in bucket i, c[i] that whose
\* response is; 4 if there is none.
Burst(cb, arg, page) == [cb |-> cb, arg |-> arg, mode |-> 0, page |-> page]

NbPage(i, c, r) ==
  IF i = 0 \/ (i = 1 /\ c[0] = 4) THEN r ELSE IF i = 1 THEN 1 - r ELSE None

NbBucket(i, c, r) ==
  IF c[i] = 4
  THEN IF c[i + 2] = 4 THEN <<>> ELSE << Burst("nb_cmd", c[i + 2], None) >>
  ELSE IF c[i + 2] = 4 THEN << Burst("nb_resp", c[i], NbPage(i, c, r)) >>
       ELSE << Burst("nb_resp", c[i], NbPage(i, c, r)), Burst("nb_cmd", c[i + 2], None) >>

Blocks ==
  \E c \in [Nat -> 0..4] :
    /\ \A i \in Nat : i > 5 => c[i] = 4
    /\ \A i \in 0..Ahead : l1s.ring[i] = NbBucket(i, c, l1s.r)
    /\ l1s.w = IF (c[0] = 4) = (c[1] = 4) THEN l1s.r ELSE 1 - l1s.r
    /\ \A i \in 0..3 : c[i + 2] # 4 => (i < Due(l1s) \/ main.pc = "tdma")
    /\ ~l1s.abort /\ ~l1s.wrapped /\ l1s.tgt \in {{}, {"ccch"}, {"dedic"}}
    /\ Soon(l1s) /\ (main.pc = "tdma" => l1s.tgt = {} /\ l1s.safe = Hyper)
    /\ Due(l1s) > 0 => \A t \in l1s.tasks : \E a \in Trigger[t] :
                          (l1s.fn + 2) % Cycle = (a + (4 - Due(l1s))) % Cycle
    /\ main.pc \in {"loop", "compl", "mframe", "tdma"}

\* Blocks, after the frame number has wrapped over one of them.
Bits == {it \in Items : it.cb \in {"nb_cmd", "nb_resp"}}

Unruly ==
  /\ \A i \in 0..Ahead : l1s.ring[i] \in Seq(Bits)
  /\ l1s.wrapped /\ l1s.tgt \in {{}, {"ccch"}, {"dedic"}}
  /\ main.pc = "tdma" => l1s.tgt = {}
  /\ l1s.safe = Hyper <=> main.pc = "tdma"
  /\ main.pc \in {"loop", "compl", "mframe", "tdma"}

InRequest ==
  /\ main.pc \in {"loop", "compl"} => main.irqs = 0
  /\ (main.pc \in {"loop", "compl"}) <=> (main.for = "none")
  /\ main.pc = "hw" => main.for = "reset"
  /\ main.pc = "fill" => main.for = "fbsb"
  /\ main.for = "fbsb" => host = "wait" /\ ~l1s.compl
  /\ l1s.compl => (host = "wait" \/ main.pc = "compl")
  /\ main.pc \in {"mframe", "tdma"} =>
       NoLast(l1s.ring[0]) /\ (main.irqs = 0 => NoLast(l1s.ring[1]))

IInv ==
  /\ l1s \in States /\ main \in Mains /\ host \in {"idle", "wait", "sync", "dedic"}
  /\ InRequest
  /\ (Resting \/ FbSearch \/ SbSearch \/ Blocks \/ Unruly)
-----------------------------------------------------------------------------
(* Frame numbers.                                                            *)

LEMMA Sizes ==
  /\ {Tries, Retries, AfcRetries, Gap, Ahead, Slots, Cycle, Hyper, Preempts}
       \subseteq Nat
  /\ Tries > 0 /\ Gap > 0 /\ Cycle > 0 /\ Slots >= 4 /\ Hyper >= 10
  /\ Ahead >= Gap + Tries + 1 /\ Ahead >= Gap + 4 /\ Ahead >= 6
BY L1SyncAssumption

LEMMA Remainder ==
  ASSUME NEW a \in Int, NEW b \in Nat \ {0}
  PROVE  a % b \in 0..(b - 1) /\ a \div b \in Int /\ a = b * (a \div b) + (a % b)
OBVIOUS

LEMMA RemainderIs ==
  ASSUME NEW b \in Nat \ {0}, NEW q \in Int, NEW r \in 0..(b - 1)
  PROVE  (b * q + r) % b = r
<1> DEFINE a == b * q + r
           d == (a \div b) - q
<1>1. a \in Int
  OBVIOUS
<1>2. a % b \in 0..(b - 1) /\ a \div b \in Int /\ a = b * (a \div b) + (a % b)
  BY <1>1, Remainder
<1>3. b * d = r - (a % b)
  BY <1>2
<1> QED
  BY <1>2, <1>3

\* A number that has wrapped at most once.
LEMMA Wraps ==
  ASSUME NEW x \in Nat, x < Hyper + Hyper
  PROVE  x % Hyper = IF x < Hyper THEN x ELSE x - Hyper
<1>1. Hyper \in Nat \ {0}
  BY Sizes
<1>2. CASE x < Hyper
  <2>1. (Hyper * 0 + x) % Hyper = x
    BY <1>1, <1>2, RemainderIs
  <2>2. Hyper * 0 + x = x
    BY <1>1
  <2> QED
    BY <1>2, <2>1, <2>2
<1>3. CASE x >= Hyper
  <2> DEFINE y == x - Hyper
  <2>1. y \in 0..(Hyper - 1) /\ 1 \in Int
    BY <1>1, <1>3
  <2> HIDE DEF y
  <2>2. (Hyper * 1 + y) % Hyper = y
    BY <1>1, <2>1, RemainderIs
  <2>3. Hyper * 1 + y = x
    BY <1>1, <1>3 DEF y
  <2> QED
    BY <1>1, <1>3, <2>2, <2>3 DEF y
<1> QED
  BY <1>1, <1>2, <1>3

\* The comparison of mframe_schedule, for what is not far ahead.
LEMMA DueIs ==
  ASSUME NEW f \in States, Soon(f)
  PROVE  Due(f) \in 0..4 /\ (InTheWay(f) <=> Due(f) # 0)
<1>1. f.safe \in 0..Hyper /\ f.fn \in 0..(Hyper - 1) /\ Hyper \in Nat /\ Hyper >= 10
  BY Sizes DEF States
<1> DEFINE half == Hyper \div 2
<1>2. half \in Nat /\ half >= 5
  BY <1>1
<1> HIDE DEF half
<1> QED
  BY <1>1, <1>2 DEF Soon, Due, InTheWay, half

-----------------------------------------------------------------------------
(* Buckets in the order of their execution.                                  *)

\* One step of the walk of Only.
Taken(l, it, cbs) == IF it.cb \in cbs THEN Append(l, it) ELSE l

Takes(f, s, n, cbs) ==
  f = [i \in 0..n |-> IF i = 0 THEN <<>> ELSE Taken(f[i - 1], s[i], cbs)]

LEMMA TakesExist ==
  ASSUME NEW s, NEW m \in Nat, NEW cbs
  PROVE  \E f : Takes(f, s, m, cbs)
<1> DEFINE S == {k \in Nat : \E f : Takes(f, s, k, cbs)}
<1>1. 0 \in S
  <2> DEFINE f == [i \in 0..0 |-> <<>>]
  <2>1. f = [i \in 0..0 |-> IF i = 0 THEN <<>> ELSE Taken(f[i - 1], s[i], cbs)]
    OBVIOUS
  <2> QED
    BY <2>1 DEF Takes
<1>2. ASSUME NEW k \in Nat, k \in S
      PROVE  k + 1 \in S
  <2>1. PICK f : Takes(f, s, k, cbs)
    BY <1>2
  <2>2. /\ DOMAIN f = 0..k /\ f[0] = <<>>
        /\ \A i \in 1..k : f[i] = Taken(f[i - 1], s[i], cbs)
    BY <2>1 DEF Takes
  <2> DEFINE h == [i \in 0..(k + 1) |->
                     IF i = k + 1 THEN Taken(f[k], s[k + 1], cbs) ELSE f[i]]
  <2>3. \A i \in 0..(k + 1) :
          h[i] = IF i = 0 THEN <<>> ELSE Taken(h[i - 1], s[i], cbs)
    BY <2>2
  <2>4. h = [i \in 0..(k + 1) |-> IF i = 0 THEN <<>> ELSE Taken(h[i - 1], s[i], cbs)]
    <3>1. h = [i \in 0..(k + 1) |-> h[i]]
      OBVIOUS
    <3> HIDE DEF h
    <3> QED
      BY <2>3, <3>1
  <2> HIDE DEF h
  <2>5. Takes(h, s, k + 1, cbs)
    BY <2>4 DEF Takes
  <2> QED
    BY <2>5
<1> HIDE DEF S
<1>3. m \in S
  BY <1>1, <1>2, SetInduction
<1> QED
  BY <1>3 DEF S

LEMMA OnlyIs ==
  ASSUME NEW T, NEW s \in Seq(T), NEW cbs
  PROVE  \E f : /\ Only(s, cbs) = f[Len(s)] /\ f[0] = <<>>
                /\ \A i \in 1..Len(s) : f[i] = Taken(f[i - 1], s[i], cbs)
<1> DEFINE F == CHOOSE f : Takes(f, s, Len(s), cbs)
<1>1. Takes(F, s, Len(s), cbs)
  <2>1. Len(s) \in Nat
    OBVIOUS
  <2>2. \E f : Takes(f, s, Len(s), cbs)
    BY <2>1, TakesExist
  <2> QED
    BY <2>2
<1>2. Only(s, cbs) = F[Len(s)]
  BY DEF Only, Takes, Taken
<1> HIDE DEF F
<1>3. F[0] = <<>> /\ \A i \in 1..Len(s) : F[i] = Taken(F[i - 1], s[i], cbs)
  BY <1>1 DEF Takes
<1> QED
  BY <1>2, <1>3

\* The order has no other items.
LEMMA OnlyKeeps ==
  ASSUME NEW T, NEW s \in Seq(T), NEW cbs
  PROVE  Only(s, cbs) \in Seq(T)
<1>1. PICK f : /\ Only(s, cbs) = f[Len(s)] /\ f[0] = <<>>
               /\ \A i \in 1..Len(s) : f[i] = Taken(f[i - 1], s[i], cbs)
  BY OnlyIs
<1> DEFINE S == {k \in Nat : k <= Len(s) => f[k] \in Seq(T)}
<1>2. Len(s) \in Nat /\ \A i \in 1..Len(s) : s[i] \in T
  <2>1. Len(s) \in Nat
    OBVIOUS
  <2>2. ASSUME NEW i \in 1..Len(s)
        PROVE  s[i] \in T
    OBVIOUS
  <2> QED
    BY <2>1, <2>2
<1>3. 0 \in S
  <2>1. <<>> \in Seq(T)
    OBVIOUS
  <2>2. f[0] \in Seq(T)
    BY <1>1, <2>1
  <2> QED
    BY <2>2
<1>4. ASSUME NEW k \in Nat, k \in S
      PROVE  k + 1 \in S
  <2> SUFFICES ASSUME k + 1 <= Len(s)
               PROVE  f[k + 1] \in Seq(T)
    OBVIOUS
  <2>1. k + 1 \in 1..Len(s) /\ (k + 1) - 1 = k /\ k <= Len(s)
    BY <1>2
  <2>2. f[k] \in Seq(T) /\ s[k + 1] \in T
    BY <1>2, <1>4, <2>1
  <2>3. f[k + 1] = Taken(f[k], s[k + 1], cbs)
    BY <1>1, <2>1
  <2> QED
    BY <2>2, <2>3 DEF Taken
<1> HIDE DEF S
<1>5. Len(s) \in S
  BY <1>2, <1>3, <1>4, SetInduction
<1> QED
  BY <1>1, <1>5 DEF S

LEMMA SortedKeeps ==
  ASSUME NEW T, NEW b \in Seq(T)
  PROVE  Sorted(b) \in Seq(T)
<1>1. Only(b, Responses) \in Seq(T) /\ Only(b, Commands) \in Seq(T)
  BY OnlyKeeps
<1> QED
  BY <1>1 DEF Sorted

\* The buckets of the phases are in order.
LEMMA ShapedSorted ==
  ASSUME NEW b, Shaped(b)
  PROVE  Sorted(b) = b /\ b \in Seq(Items) /\ Len(b) \in 0..2
<1>1. b \in Seq(Items) /\ Len(b) \in 0..2
  <2>1. CASE b = <<>>
    BY <2>1
  <2>2. CASE b # <<>>
    BY <2>2 DEF Shaped
  <2> QED
    BY <2>1, <2>2
<1>2. PICK f : /\ Only(b, Responses) = f[Len(b)] /\ f[0] = <<>>
               /\ \A i \in 1..Len(b) : f[i] = Taken(f[i - 1], b[i], Responses)
  BY <1>1, OnlyIs
<1>3. PICK h : /\ Only(b, Commands) = h[Len(b)] /\ h[0] = <<>>
               /\ \A i \in 1..Len(b) : h[i] = Taken(h[i - 1], b[i], Commands)
  BY <1>1, OnlyIs
<1>4. CASE b = <<>>
  BY <1>2, <1>3, <1>4 DEF Sorted
<1>5. CASE Len(b) = 1
  <2>1. b[1] \in Items /\ b = <<b[1]>> /\ Append(<<>>, b[1]) = b
    BY <1>1, <1>5
  <2>2. f[1] = Taken(<<>>, b[1], Responses) /\ h[1] = Taken(<<>>, b[1], Commands)
    BY <1>2, <1>3, <1>5
  <2>3. CASE b[1].cb \in Responses
    <3>1. b[1].cb \notin Commands
      BY <2>3 DEF Responses, Commands
    <3>2. f[1] = b /\ h[1] = <<>>
      BY <2>1, <2>2, <2>3, <3>1 DEF Taken
    <3>3. Sorted(b) = b \o <<>>
      BY <1>2, <1>3, <1>5, <3>2 DEF Sorted
    <3> QED
      BY <1>1, <3>3
  <2>4. CASE b[1].cb \in Commands
    <3>1. b[1].cb \notin Responses
      BY <2>4 DEF Responses, Commands
    <3>2. f[1] = <<>> /\ h[1] = b
      BY <2>1, <2>2, <2>4, <3>1 DEF Taken
    <3>3. Sorted(b) = <<>> \o b
      BY <1>2, <1>3, <1>5, <3>2 DEF Sorted
    <3> QED
      BY <1>1, <3>3
  <2> QED
    BY <1>1, <2>1, <2>3, <2>4 DEF Items
<1>6. CASE Len(b) = 2 /\ b[1].cb = "nb_resp" /\ b[2].cb = "nb_cmd"
  <2>1. b[1] \in Items /\ b[2] \in Items /\ b = <<b[1], b[2]>>
    BY <1>1, <1>6
  <2>2. f[1] = <<b[1]>> /\ f[2] = <<b[1]>>
    <3>1. /\ f[0] = <<>> /\ f[1] = Taken(f[0], b[1], Responses)
          /\ f[2] = Taken(f[1], b[2], Responses)
      BY <1>2, <1>6
    <3>2. b[1].cb \in Responses /\ b[2].cb \notin Responses
      BY <1>6 DEF Responses
    <3> QED
      BY <3>1, <3>2 DEF Taken
  <2>3. h[1] = <<>> /\ h[2] = <<b[2]>>
    <3>1. /\ h[0] = <<>> /\ h[1] = Taken(h[0], b[1], Commands)
          /\ h[2] = Taken(h[1], b[2], Commands)
      BY <1>3, <1>6
    <3>2. b[1].cb \notin Commands /\ b[2].cb \in Commands
      BY <1>6 DEF Commands
    <3> QED
      BY <3>1, <3>2 DEF Taken
  <2>4. Sorted(b) = <<b[1]>> \o <<b[2]>>
    BY <1>2, <1>3, <1>6, <2>2, <2>3 DEF Sorted
  <2> QED
    BY <1>1, <2>1, <2>4
<1> QED
  BY <1>1, <1>4, <1>5, <1>6 DEF Shaped

\* One step of the walk of Executed.
Then(S, it) == UNION {Exec(g, it) : g \in S}

Runs(a, f, b, n) == a = [i \in 0..n |-> IF i = 0 THEN {f} ELSE Then(a[i - 1], b[i])]

LEMMA RunsExist ==
  ASSUME NEW f, NEW b, NEW m \in Nat
  PROVE  \E a : Runs(a, f, b, m)
<1> DEFINE S == {k \in Nat : \E a : Runs(a, f, b, k)}
<1>1. 0 \in S
  <2> DEFINE a == [i \in 0..0 |-> {f}]
  <2>1. a = [i \in 0..0 |-> IF i = 0 THEN {f} ELSE Then(a[i - 1], b[i])]
    OBVIOUS
  <2> QED
    BY <2>1 DEF Runs
<1>2. ASSUME NEW k \in Nat, k \in S
      PROVE  k + 1 \in S
  <2>1. PICK a : Runs(a, f, b, k)
    BY <1>2
  <2>2. /\ DOMAIN a = 0..k /\ a[0] = {f}
        /\ \A i \in 1..k : a[i] = Then(a[i - 1], b[i])
    <3>1. a = [i \in 0..k |-> IF i = 0 THEN {f} ELSE Then(a[i - 1], b[i])]
      BY <2>1 DEF Runs
    <3>2. DOMAIN a = 0..k
      BY <3>1
    <3>3. \A i \in 0..k : a[i] = IF i = 0 THEN {f} ELSE Then(a[i - 1], b[i])
      BY <3>1
    <3>4. 0 \in 0..k /\ \A i \in 1..k : i \in 0..k /\ i # 0
      OBVIOUS
    <3> QED
      BY <3>2, <3>3, <3>4
  <2> DEFINE h == [i \in 0..(k + 1) |->
                     IF i = k + 1 THEN Then(a[k], b[k + 1]) ELSE a[i]]
  <2>3. \A i \in 0..(k + 1) : h[i] = IF i = 0 THEN {f} ELSE Then(h[i - 1], b[i])
    <3> SUFFICES ASSUME NEW i \in 0..(k + 1)
                 PROVE  h[i] = IF i = 0 THEN {f} ELSE Then(h[i - 1], b[i])
      OBVIOUS
    <3>1. CASE i = 0
      BY <2>2, <3>1
    <3>2. CASE i \in 1..k
      <4>1. h[i] = a[i] /\ h[i - 1] = a[i - 1]
        BY <3>2
      <4> QED
        BY <2>2, <3>2, <4>1
    <3>3. CASE i = k + 1
      <4>1. h[i] = Then(a[k], b[k + 1]) /\ h[i - 1] = a[k]
        BY <3>3
      <4> QED
        BY <3>3, <4>1
    <3> QED
      BY <3>1, <3>2, <3>3
  <2>4. h = [i \in 0..(k + 1) |-> IF i = 0 THEN {f} ELSE Then(h[i - 1], b[i])]
    <3>1. h = [i \in 0..(k + 1) |-> h[i]]
      OBVIOUS
    <3> HIDE DEF h
    <3> QED
      BY <2>3, <3>1
  <2> HIDE DEF h
  <2>5. Runs(h, f, b, k + 1)
    BY <2>4 DEF Runs
  <2> QED
    BY <2>5
<1> HIDE DEF S
<1>3. m \in S
  BY <1>1, <1>2, SetInduction
<1> QED
  BY <1>3 DEF S

LEMMA ExecutedIs ==
  ASSUME NEW f, Shaped(f.ring[0])
  PROVE  LET b == f.ring[0]
         IN /\ Len(b) = 0 => Executed(f) = {f}
            /\ Len(b) = 1 => Executed(f) = Exec(f, b[1])
            /\ Len(b) = 2 => Executed(f) = Then(Exec(f, b[1]), b[2])
<1> DEFINE b == f.ring[0]
           F == CHOOSE a : Runs(a, f, b, Len(b))
<1>1. Sorted(b) = b /\ b \in Seq(Items) /\ Len(b) \in 0..2
  BY ShapedSorted
<1>2. Runs(F, f, b, Len(b))
  <2>1. Len(b) \in Nat
    BY <1>1
  <2>2. \E a : Runs(a, f, b, Len(b))
    BY <2>1, RunsExist
  <2> QED
    BY <2>2
<1>3. Executed(f) = F[Len(b)]
  BY <1>1 DEF Executed, Runs, Then
<1> HIDE DEF F, b
<1>4. F[0] = {f} /\ \A i \in 1..Len(b) : F[i] = Then(F[i - 1], b[i])
  BY <1>1, <1>2 DEF Runs
<1>5. Then({f}, b[1]) = Exec(f, b[1])
  BY DEF Then
<1>6. CASE Len(b) = 0
  BY <1>3, <1>4, <1>6 DEF b
<1>7. CASE Len(b) = 1
  <2>1. F[1] = Exec(f, b[1])
    BY <1>4, <1>5, <1>7
  <2> QED
    BY <1>3, <1>7, <2>1 DEF b
<1>8. CASE Len(b) = 2
  <2>1. F[1] = Exec(f, b[1])
    BY <1>4, <1>5, <1>8
  <2>2. F[2] = Then(F[1], b[2])
    BY <1>4, <1>8
  <2> QED
    BY <1>3, <1>8, <2>1, <2>2 DEF b
<1> QED
  BY <1>1, <1>6, <1>7, <1>8 DEF b

\* What each item of a bucket keeps, whatever their order, the bucket keeps.
LEMMA ExecutedKeeps ==
  ASSUME NEW T, NEW f, f.ring[0] \in Seq(T), NEW S, f \in S,
         \A g \in S, it \in T : Exec(g, it) \subseteq S
  PROVE  Executed(f) \subseteq S
<1> DEFINE b == Sorted(f.ring[0])
           F == CHOOSE a : Runs(a, f, b, Len(b))
<1>1. b \in Seq(T)
  BY SortedKeeps
<1>2. Runs(F, f, b, Len(b))
  <2>1. Len(b) \in Nat
    BY <1>1
  <2>2. \E a : Runs(a, f, b, Len(b))
    BY <2>1, RunsExist
  <2> QED
    BY <2>2
<1>3. Executed(f) = F[Len(b)]
  BY DEF Executed, Runs, Then
<1> HIDE DEF F, b
<1>4. Len(b) \in Nat /\ \A i \in 1..Len(b) : b[i] \in T
  <2>1. Len(b) \in Nat
    BY <1>1
  <2>2. ASSUME NEW i \in 1..Len(b)
        PROVE  b[i] \in T
    BY <1>1
  <2> QED
    BY <2>1, <2>2
<1>5. F[0] = {f} /\ \A i \in 1..Len(b) : F[i] = Then(F[i - 1], b[i])
  <2> DEFINE n == Len(b)
  <2>1. n \in Nat /\ Runs(F, f, b, n)
    BY <1>2, <1>4
  <2> HIDE DEF n
  <2>2. \A i \in 0..n : F[i] = IF i = 0 THEN {f} ELSE Then(F[i - 1], b[i])
    BY <2>1 DEF Runs
  <2>3. 0 \in 0..n /\ \A i \in 1..n : i \in 0..n /\ i # 0
    BY <2>1
  <2> QED
    BY <2>2, <2>3 DEF n
<1> DEFINE K == {k \in Nat : k <= Len(b) => F[k] \subseteq S}
<1>6. 0 \in K
  BY <1>5
<1>7. ASSUME NEW k \in Nat, k \in K
      PROVE  k + 1 \in K
  <2> SUFFICES ASSUME k + 1 <= Len(b)
               PROVE  F[k + 1] \subseteq S
    OBVIOUS
  <2>1. k + 1 \in 1..Len(b) /\ (k + 1) - 1 = k /\ k <= Len(b)
    BY <1>4
  <2>2. F[k] \subseteq S /\ b[k + 1] \in T
    BY <1>4, <1>7, <2>1
  <2>3. F[k + 1] = UNION {Exec(g, b[k + 1]) : g \in F[k]}
    BY <1>5, <2>1 DEF Then
  <2>4. \A g \in F[k] : Exec(g, b[k + 1]) \subseteq S
    BY <2>2
  <2> QED
    BY <2>3, <2>4
<1> HIDE DEF K
<1>8. Len(b) \in K
  BY <1>4, <1>6, <1>7, SetInduction
<1> QED
  BY <1>3, <1>8, <1>4 DEF K

-----------------------------------------------------------------------------
(* The end of a frame.                                                       *)

Rings == [0..Ahead -> Seq(Items)]

\* The same, but for the ring.
OnlyRing(f, g) == g.ring \in Rings /\ g = [f EXCEPT !.ring = g.ring]

LEMMA ItemIs ==
  ASSUME NEW cb \in Commands \cup Responses, NEW arg \in 0..(Tries + 3), NEW mode \in {0, 1}
  PROVE  /\ Item(cb, arg, mode) \in Items /\ Item(cb, arg, mode).cb = cb
         /\ Item(cb, arg, mode).arg = arg /\ Item(cb, arg, mode).mode = mode
         /\ Item(cb, arg, mode).page = None
BY DEF Item, Items

LEMMA NbSetIs ==
  /\ DOMAIN NbSet = 1..6 /\ \A k \in 1..6 : NbSet[k] \in Seq(Items)
  /\ SafeAfter = 4
  /\ NbSet[1] = <<Burst("nb_cmd", 0, None)>> /\ NbSet[2] = <<Burst("nb_cmd", 1, None)>>
  /\ NbSet[3] = <<Burst("nb_resp", 0, None), Burst("nb_cmd", 2, None)>>
  /\ NbSet[4] = <<Burst("nb_resp", 1, None), Burst("nb_cmd", 3, None)>>
  /\ NbSet[5] = <<Burst("nb_resp", 2, None)>> /\ NbSet[6] = <<Burst("nb_resp", 3, None)>>
<1>1. \A cb \in {"nb_cmd", "nb_resp"}, arg \in 0..3 :
        Item(cb, arg, 0) = Burst(cb, arg, None) /\ Burst(cb, arg, None) \in Items
  BY Sizes DEF Item, Burst, Items, Commands, Responses, None
<1>2. Len(NbSet) = 6 /\ DOMAIN NbSet = 1..6
  BY DEF NbSet
<1>3. /\ NbSet[1] = <<Burst("nb_cmd", 0, None)>> /\ NbSet[2] = <<Burst("nb_cmd", 1, None)>>
      /\ NbSet[3] = <<Burst("nb_resp", 0, None), Burst("nb_cmd", 2, None)>>
      /\ NbSet[4] = <<Burst("nb_resp", 1, None), Burst("nb_cmd", 3, None)>>
      /\ NbSet[5] = <<Burst("nb_resp", 2, None)>> /\ NbSet[6] = <<Burst("nb_resp", 3, None)>>
  BY <1>1 DEF NbSet
<1>4. \A k \in 1..6 : NbSet[k] \in Seq(Items)
  <2>1. \A x, y \in Items : <<x>> \in Seq(Items) /\ <<x, y>> \in Seq(Items)
    OBVIOUS
  <2>2. \A k \in 0..3 : Burst("nb_cmd", k, None) \in Items /\ Burst("nb_resp", k, None) \in Items
    BY <1>1
  <2>3. \A k \in 0..3 : <<Burst("nb_cmd", k, None)>> \in Seq(Items)
                        /\ <<Burst("nb_resp", k, None)>> \in Seq(Items)
    BY <2>1, <2>2
  <2>4. \A k, m \in 0..3 : <<Burst("nb_resp", k, None), Burst("nb_cmd", m, None)>> \in Seq(Items)
    BY <2>1, <2>2
  <2>5. /\ NbSet[1] \in Seq(Items) /\ NbSet[2] \in Seq(Items) /\ NbSet[5] \in Seq(Items)
        /\ NbSet[6] \in Seq(Items)
    BY <1>3, <2>3
  <2>6. NbSet[3] \in Seq(Items) /\ NbSet[4] \in Seq(Items)
    BY <1>3, <2>4
  <2>7. \A k \in 1..6 : k = 1 \/ k = 2 \/ k = 3 \/ k = 4 \/ k = 5 \/ k = 6
    OBVIOUS
  <2> QED
    BY <2>5, <2>6, <2>7
<1> QED
  BY <1>2, <1>3, <1>4 DEF SafeAfter

LEMMA SbSetIs ==
  /\ DOMAIN SbSet = 1..5 /\ SbSet[3] = <<>>
  /\ \A k \in {1, 2, 4, 5} : SbSet[k] = <<SbItem(k, None)>> /\ SbItem(k, None) \in Items
<1>1. /\ Item("sb_cmd", 1, 0) = SbItem(1, None) /\ Item("sb_cmd", 2, 0) = SbItem(2, None)
      /\ Item("sb_resp", 1, 0) = SbItem(4, None) /\ Item("sb_resp", 2, 0) = SbItem(5, None)
  BY DEF Item, SbItem
<1>2. \A k \in {1, 2, 4, 5} : SbItem(k, None) \in Items
  BY Sizes DEF SbItem, Items, Commands, Responses, None
<1>3. DOMAIN SbSet = 1..5
  BY DEF SbSet
<1>4. /\ SbSet[3] = <<>> /\ SbSet[1] = <<SbItem(1, None)>> /\ SbSet[2] = <<SbItem(2, None)>>
      /\ SbSet[4] = <<SbItem(4, None)>> /\ SbSet[5] = <<SbItem(5, None)>>
  BY <1>1 DEF SbSet
<1> QED
  BY <1>2, <1>3, <1>4

LEMMA ScheduleSetIs ==
  ASSUME NEW f \in States, NEW offset \in Nat, NEW n \in Nat,
         NEW set \in [1..n -> Seq(Items)]
  PROVE  LET g == ScheduleSet(f, offset, set)
         IN /\ g \in States /\ OnlyRing(f, g)
            /\ \A i \in 0..Ahead : g.ring[i] = IF i + 1 - offset \in 1..n
                                               THEN f.ring[i] \o set[i + 1 - offset]
                                               ELSE f.ring[i]
<1> DEFINE g == ScheduleSet(f, offset, set)
           R == [i \in 0..Ahead |-> IF i + 1 - offset \in DOMAIN set
                                    THEN f.ring[i] \o set[i + 1 - offset] ELSE f.ring[i]]
<1>1. f.ring \in Rings
  BY DEF States, Rings
<1>2. DOMAIN set = 1..n
  OBVIOUS
<1>3. R \in Rings
  <2> SUFFICES ASSUME NEW i \in 0..Ahead
               PROVE  (IF i + 1 - offset \in DOMAIN set
                       THEN f.ring[i] \o set[i + 1 - offset] ELSE f.ring[i]) \in Seq(Items)
    BY DEF Rings
  <2>1. f.ring[i] \in Seq(Items)
    BY <1>1 DEF Rings
  <2>2. CASE i + 1 - offset \in DOMAIN set
    <3>1. set[i + 1 - offset] \in Seq(Items)
      BY <1>2, <2>2
    <3>2. f.ring[i] \o set[i + 1 - offset] \in Seq(Items)
      BY <2>1, <3>1
    <3> QED
      BY <2>2, <3>2
  <2> QED
    BY <2>1, <2>2
<1>4. g = [f EXCEPT !.ring = R]
  BY DEF ScheduleSet
<1>5. \A i \in 0..Ahead : R[i] = IF i + 1 - offset \in 1..n
                                 THEN f.ring[i] \o set[i + 1 - offset] ELSE f.ring[i]
  BY <1>2
<1> HIDE DEF g, R
<1>6. g \in States /\ g.ring = R
  BY <1>3, <1>4 DEF States, Rings
<1>7. OnlyRing(f, g)
  BY <1>3, <1>4, <1>6 DEF OnlyRing
<1> QED
  BY <1>5, <1>6, <1>7 DEF g

LEMMA SchedResetIs ==
  ASSUME NEW f \in States
  PROVE  LET g == SchedReset(f)
         IN /\ g \in States /\ OnlyRing(f, g)
            /\ g.ring[0] = f.ring[0] /\ \A i \in 1..Ahead : g.ring[i] = <<>>
<1> DEFINE g == SchedReset(f)
           R == [i \in 0..Ahead |-> IF i = 0 THEN f.ring[0] ELSE <<>>]
<1>1. f.ring \in Rings /\ Ahead \in Nat
  BY Sizes DEF States, Rings
<1>2. R \in Rings /\ R[0] = f.ring[0] /\ \A i \in 1..Ahead : R[i] = <<>>
  BY <1>1 DEF Rings
<1>3. g = [f EXCEPT !.ring = R]
  BY DEF SchedReset
<1> HIDE DEF g, R
<1>4. g \in States /\ g.ring = R
  BY <1>2, <1>3 DEF States, Rings
<1>5. OnlyRing(f, g)
  BY <1>2, <1>3, <1>4 DEF OnlyRing
<1> QED
  BY <1>2, <1>4, <1>5 DEF g

LEMMA AdvancedIs ==
  ASSUME NEW f \in States
  PROVE  LET g == Advanced(f)
         IN /\ g \in States /\ g = [f EXCEPT !.ring = g.ring, !.abort = FALSE]
            /\ \A i \in 0..Ahead : g.ring[i] = IF i < Ahead THEN f.ring[i + 1] ELSE <<>>
<1> DEFINE g == Advanced(f)
           R == [i \in 0..Ahead |-> IF i < Ahead THEN f.ring[i + 1] ELSE <<>>]
<1>1. f.ring \in Rings /\ Ahead \in Nat
  BY Sizes DEF States, Rings
<1>2. R \in Rings /\ \A i \in 0..Ahead : R[i] = IF i < Ahead THEN f.ring[i + 1] ELSE <<>>
  BY <1>1 DEF Rings
<1>3. g = [f EXCEPT !.ring = R, !.abort = FALSE]
  BY DEF Advanced
<1> HIDE DEF g, R
<1>4. g \in States /\ g.ring = R
  BY <1>2, <1>3 DEF States, Rings
<1> QED
  BY <1>2, <1>3, <1>4 DEF g

LEMMA SwitchIs ==
  ASSUME NEW f \in States, NEW dsp \in BOOLEAN
  PROVE  LET g == SwitchPages(Aborted(f), dsp)
             w == IF f.abort THEN 0 ELSE f.w
         IN /\ g \in States /\ g = [f EXCEPT !.r = g.r, !.w = g.w, !.used = g.used]
            /\ g.r = IF f.abort THEN 0 ELSE IF f.used THEN 1 - f.r ELSE f.r
            /\ g.w = IF dsp THEN 1 - w ELSE w
<1> DEFINE a == Aborted(f)
           g == SwitchPages(a, dsp)
<1>1. /\ a \in States /\ a = [f EXCEPT !.r = a.r, !.w = a.w, !.used = a.used]
      /\ a.w = IF f.abort THEN 0 ELSE f.w
      /\ a.r = IF f.abort THEN 0 ELSE f.r
      /\ a.used = IF f.abort THEN FALSE ELSE f.used
  <2>1. CASE f.abort
    BY <2>1 DEF Aborted, ResetHw, States
  <2>2. CASE ~f.abort
    BY <2>2 DEF Aborted, States
  <2> QED
    BY <2>1, <2>2
<1> HIDE DEF a
<1>2. /\ g \in States /\ g = [a EXCEPT !.r = g.r, !.w = g.w]
      /\ g.r = IF a.used THEN 1 - a.r ELSE a.r
      /\ g.w = IF dsp THEN 1 - a.w ELSE a.w
  <2> DEFINE r == IF a.used THEN 1 - a.r ELSE a.r
             w == IF dsp THEN 1 - a.w ELSE a.w
  <2>1. r \in {0, 1} /\ w \in {0, 1}
    BY <1>1 DEF States
  <2>2. g = [a EXCEPT !.r = r, !.w = w]
    BY <1>1 DEF SwitchPages, States
  <2> HIDE DEF r, w, g
  <2>3. g \in States /\ g.r = r /\ g.w = w
    BY <1>1, <2>1, <2>2 DEF States
  <2> QED
    BY <2>2, <2>3 DEF r, w
<1> HIDE DEF g
<1>3. g = [f EXCEPT !.r = g.r, !.w = g.w, !.used = g.used]
  BY <1>1, <1>2 DEF States
<1> QED
  BY <1>1, <1>2, <1>3 DEF g, a

\* What mframe_schedule makes the tasks.
Now(f) == IF InTheWay(f) THEN f.tasks \cap f.tgt ELSE f.tgt

\* safe_fn after a block was scheduled, unless the block reaches over the wrap.
Further(f, g) ==
  /\ g.safe # Hyper /\ (f.wrapped => g.wrapped)
  /\ ~g.wrapped /\ Soon(f) => g.safe = f.fn + 4

\* A block of task t begins.
Begins(f, g, t) ==
  /\ t \in Now(f) /\ (f.fn + 2) % Cycle \in Trigger[t]
  /\ g.ring \in Rings /\ Further(f, g)
  /\ g = [f EXCEPT !.tasks = Now(f), !.safe = g.safe, !.wrapped = g.wrapped,
                    !.ring = g.ring]
  /\ \A i \in 0..Ahead : g.ring[i] = IF i \in 1..6 THEN f.ring[i] \o NbSet[i] ELSE f.ring[i]

LEMMA ScheduledIs ==
  ASSUME NEW f \in States, NEW t \in Tasks
  PROVE  LET g == MframeScheduleSet(f, t)
         IN /\ g \in States
            /\ IF (f.fn + 2) % Cycle \in Trigger[t]
               THEN /\ g.ring \in Rings /\ Further(f, g)
                    /\ g = [f EXCEPT !.safe = g.safe, !.wrapped = g.wrapped, !.ring = g.ring]
                    /\ \A i \in 0..Ahead :
                         g.ring[i] = IF i \in 1..6 THEN f.ring[i] \o NbSet[i] ELSE f.ring[i]
               ELSE g = f
<1> DEFINE g == MframeScheduleSet(f, t)
           h == ScheduleSet(f, 1, NbSet)
<1>1. 1 \in Nat /\ 6 \in Nat /\ NbSet \in [1..6 -> Seq(Items)] /\ SafeAfter = 4
  <2>1. \A k \in 1..6 : NbSet[k] \in Seq(Items)
    BY NbSetIs
  <2>2. NbSet = [k \in 1..6 |-> NbSet[k]]
    BY NbSetIs DEF NbSet
  <2> QED
    BY <2>1, <2>2, NbSetIs
<1>2. /\ h \in States /\ OnlyRing(f, h)
      /\ \A i \in 0..Ahead : h.ring[i] = IF i + 1 - 1 \in 1..6
                                         THEN f.ring[i] \o NbSet[i + 1 - 1] ELSE f.ring[i]
  BY <1>1, ScheduleSetIs
<1>3. \A i \in 0..Ahead : h.ring[i] = IF i \in 1..6 THEN f.ring[i] \o NbSet[i] ELSE f.ring[i]
  <2>1. \A i \in 0..Ahead : i + 1 - 1 = i
    BY Sizes
  <2> QED
    BY <1>2, <2>1
<1>4. CASE (f.fn + 2) % Cycle \in Trigger[t]
  <2> DEFINE end == (f.fn + 4) % Hyper
             safe == IF end > f.safe \/ f.safe = Hyper THEN end ELSE f.safe
             wrapped == f.wrapped \/ end < f.fn
  <2>1. h.fn = f.fn /\ h.safe = f.safe /\ h.wrapped = f.wrapped
    BY <1>2 DEF OnlyRing, States
  <2>2. g = [h EXCEPT !.safe = safe, !.wrapped = wrapped]
    BY <1>1, <1>4, <2>1 DEF MframeScheduleSet
  <2>3. /\ f.fn \in 0..(Hyper - 1) /\ f.safe \in 0..Hyper /\ f.wrapped \in BOOLEAN
        /\ Hyper \in Nat /\ Hyper >= 10
    BY Sizes DEF States
  <2>4. end = IF f.fn + 4 < Hyper THEN f.fn + 4 ELSE (f.fn + 4) - Hyper
    <3>1. f.fn + 4 \in Nat /\ f.fn + 4 < Hyper + Hyper
      BY <2>3
    <3> QED
      BY <3>1, Wraps
  <2> HIDE DEF h, g, end
  <2>5. /\ safe \in 0..(Hyper - 1) /\ wrapped \in BOOLEAN /\ (f.wrapped => wrapped)
        /\ ~wrapped /\ Soon(f) => safe = f.fn + 4
    BY <2>3, <2>4 DEF Soon
  <2> HIDE DEF safe, wrapped
  <2>6. g \in States /\ g.ring = h.ring /\ g.safe = safe /\ g.wrapped = wrapped
    <3>1. h \in States /\ safe \in 0..Hyper
      BY <1>2, <2>3, <2>5
    <3> QED
      BY <2>2, <2>5, <3>1 DEF States
  <2>7. h.ring \in Rings /\ h = [f EXCEPT !.ring = h.ring]
    BY <1>2 DEF OnlyRing
  <2>8. g = [f EXCEPT !.safe = safe, !.wrapped = wrapped, !.ring = h.ring]
    <3> DEFINE R == h.ring
    <3>1. h = [f EXCEPT !.ring = R] /\ R \in Rings
      BY <2>7
    <3> HIDE DEF R
    <3>2. g = [f EXCEPT !.safe = safe, !.wrapped = wrapped, !.ring = R]
      BY <2>2, <3>1 DEF States
    <3> QED
      BY <3>2 DEF R
  <2>9. Further(f, g)
    BY <2>3, <2>5, <2>6 DEF Further
  <2> QED
    BY <1>3, <1>4, <2>6, <2>7, <2>8, <2>9 DEF g
<1>5. CASE (f.fn + 2) % Cycle \notin Trigger[t]
  BY <1>5 DEF MframeScheduleSet
<1> QED
  BY <1>4, <1>5

LEMMA MframeIs ==
  ASSUME NEW f \in States, f.tgt \in {{}, {"ccch"}, {"dedic"}}
  PROVE  LET g == MframeSchedule(f)
         IN /\ g \in States
            /\ g = [f EXCEPT !.tasks = Now(f)] \/ \E t \in Tasks : Begins(f, g, t)
<1> DEFINE n == Now(f)
           h == [f EXCEPT !.tasks = n]
           g == MframeSchedule(f)
           Run(k, t) == IF t \in n THEN MframeScheduleSet(k, t) ELSE k
<1>1. n \in {{}, {"ccch"}, {"dedic"}} /\ n \subseteq Tasks
  BY DEF Now, Tasks
<1>2. g = Run(Run(h, "ccch"), "dedic")
  BY DEF MframeSchedule, Now
<1> HIDE DEF n, g
<1>3. /\ h \in States /\ h.fn = f.fn /\ h.ring = f.ring /\ h.safe = f.safe
      /\ h.wrapped = f.wrapped
  BY <1>1 DEF States, Tasks
<1> HIDE DEF h
<1>4. CASE n = {}
  <2>1. g = h
    BY <1>2, <1>4
  <2> QED
    BY <1>3, <2>1 DEF g, h, n
<1>5. ASSUME NEW t \in Tasks, n = {t}
      PROVE  /\ g \in States
             /\ g = [f EXCEPT !.tasks = n] \/ Begins(f, g, t)
  <2>1. g = MframeScheduleSet(h, t)
    <3>1. CASE t = "ccch"
      <4>1. Run(h, "ccch") = MframeScheduleSet(h, t) /\ "dedic" \notin n
        BY <1>5, <3>1
      <4> QED
        BY <1>2, <4>1
    <3>2. CASE t = "dedic"
      <4>1. Run(h, "ccch") = h /\ "dedic" \in n
        BY <1>5, <3>2
      <4> QED
        BY <1>2, <3>2, <4>1
    <3> QED
      BY <3>1, <3>2 DEF Tasks
  <2>2. /\ g \in States
        /\ IF (h.fn + 2) % Cycle \in Trigger[t]
           THEN /\ g.ring \in Rings /\ Further(h, g)
                /\ g = [h EXCEPT !.safe = g.safe, !.wrapped = g.wrapped, !.ring = g.ring]
                /\ \A i \in 0..Ahead :
                     g.ring[i] = IF i \in 1..6 THEN h.ring[i] \o NbSet[i] ELSE h.ring[i]
           ELSE g = h
    BY <1>3, <2>1, ScheduledIs
  <2>3. CASE (h.fn + 2) % Cycle \in Trigger[t]
    <3>1. g = [f EXCEPT !.tasks = n, !.safe = g.safe, !.wrapped = g.wrapped, !.ring = g.ring]
      BY <2>2, <2>3 DEF h, States
    <3>2. /\ t \in Now(f) /\ (f.fn + 2) % Cycle \in Trigger[t] /\ g.ring \in Rings
          /\ \A i \in 0..Ahead :
               g.ring[i] = IF i \in 1..6 THEN f.ring[i] \o NbSet[i] ELSE f.ring[i]
      BY <1>3, <1>5, <2>2, <2>3 DEF n
    <3>3. Further(f, g)
      BY <1>3, <2>2, <2>3 DEF Further, Soon
    <3> QED
      BY <2>2, <3>1, <3>2, <3>3 DEF Begins, n
  <2>4. CASE (h.fn + 2) % Cycle \notin Trigger[t]
    BY <2>2, <2>4 DEF h
  <2> QED
    BY <2>3, <2>4
<1> QED
  <2>1. n = {} \/ n = {"ccch"} \/ n = {"dedic"}
    BY <1>1
  <2>2. "ccch" \in Tasks /\ "dedic" \in Tasks
    BY DEF Tasks
  <2> QED
    BY <1>4, <1>5, <2>1, <2>2 DEF g, n

\* The state after a frame whose bucket led to f.
After(f, dsp) == Advanced(MframeSchedule(SwitchPages(Aborted(f), dsp)))

Unchanged(f, g) ==
  /\ g.compl = f.compl /\ g.failed = f.failed /\ g.tgt = f.tgt /\ g.fn = f.fn

Shifted(f, g) ==
  \A i \in 0..Ahead : g.ring[i] = IF i < Ahead THEN f.ring[i + 1] ELSE <<>>

\* With a block that begins in the next frame.
ShiftedOn(f, g) ==
  \A i \in 0..Ahead : g.ring[i] = IF i \in 0..5 THEN f.ring[i + 1] \o NbSet[i + 1]
                                  ELSE IF i < Ahead THEN f.ring[i + 1] ELSE <<>>

LEMMA AfterIs ==
  ASSUME NEW f \in States, NEW dsp \in BOOLEAN, f.tgt \in {{}, {"ccch"}, {"dedic"}}
  PROVE  LET g == After(f, dsp)
             w == IF f.abort THEN 0 ELSE f.w
         IN /\ g \in States /\ ~g.abort /\ Unchanged(f, g) /\ g.tasks = Now(f)
            /\ g.r = IF f.abort THEN 0 ELSE IF f.used THEN 1 - f.r ELSE f.r
            /\ g.w = IF dsp THEN 1 - w ELSE w
            /\ \/ Shifted(f, g) /\ g.safe = f.safe /\ g.wrapped = f.wrapped
               \/ /\ ShiftedOn(f, g) /\ Further(f, g)
                  /\ \E t \in Now(f) : (f.fn + 2) % Cycle \in Trigger[t]
<1> DEFINE s == SwitchPages(Aborted(f), dsp)
           m == MframeSchedule(s)
           g == Advanced(m)
           w == IF f.abort THEN 0 ELSE f.w
<1>1. /\ s \in States /\ s = [f EXCEPT !.r = s.r, !.w = s.w, !.used = s.used]
      /\ s.r = IF f.abort THEN 0 ELSE IF f.used THEN 1 - f.r ELSE f.r
      /\ s.w = IF dsp THEN 1 - w ELSE w
  BY SwitchIs
<1> HIDE DEF s, w
<1>2. /\ Unchanged(f, s) /\ s.tasks = f.tasks /\ s.safe = f.safe /\ s.ring = f.ring
      /\ s.wrapped = f.wrapped /\ Now(s) = Now(f)
  BY <1>1 DEF States, Unchanged, Now, InTheWay
<1>3. s.tgt \in {{}, {"ccch"}, {"dedic"}}
  BY <1>2 DEF Unchanged
<1>4. /\ m \in States
      /\ m = [s EXCEPT !.tasks = Now(s)] \/ \E t \in Tasks : Begins(s, m, t)
  BY <1>1, <1>3, MframeIs
<1> HIDE DEF m
<1>5. /\ g \in States /\ g = [m EXCEPT !.ring = g.ring, !.abort = FALSE]
      /\ \A i \in 0..Ahead : g.ring[i] = IF i < Ahead THEN m.ring[i + 1] ELSE <<>>
  BY <1>4, AdvancedIs
<1> HIDE DEF g
<1>6. /\ ~g.abort /\ Unchanged(m, g) /\ g.tasks = m.tasks /\ g.r = m.r /\ g.w = m.w
      /\ g.safe = m.safe /\ g.wrapped = m.wrapped
  BY <1>4, <1>5 DEF States, Unchanged
<1>7. CASE m = [s EXCEPT !.tasks = Now(s)]
  <2>1. /\ Unchanged(s, m) /\ m.tasks = Now(s) /\ m.r = s.r /\ m.w = s.w
        /\ m.safe = s.safe /\ m.wrapped = s.wrapped /\ m.ring = s.ring
    BY <1>1, <1>7 DEF States, Unchanged
  <2>2. Shifted(f, g)
    BY <1>2, <1>5, <2>1 DEF Shifted
  <2> QED
    BY <1>1, <1>2, <1>5, <1>6, <2>1, <2>2 DEF Unchanged, After, g, m, s, w
<1>8. ASSUME NEW t \in Tasks, Begins(s, m, t)
      PROVE  /\ g \in States /\ ~g.abort /\ Unchanged(f, g) /\ g.tasks = Now(f)
             /\ g.r = s.r /\ g.w = s.w
             /\ ShiftedOn(f, g) /\ Further(f, g)
             /\ t \in Now(f) /\ (f.fn + 2) % Cycle \in Trigger[t]
  <2>1. /\ Unchanged(s, m) /\ m.tasks = Now(s) /\ m.r = s.r /\ m.w = s.w
        /\ Further(s, m)
    BY <1>1, <1>8 DEF States, Unchanged, Begins
  <2>2. \A i \in 0..Ahead : m.ring[i] = IF i \in 1..6 THEN s.ring[i] \o NbSet[i]
                                        ELSE s.ring[i]
    BY <1>8 DEF Begins
  <2>3. ShiftedOn(f, g)
    <3> SUFFICES ASSUME NEW i \in 0..Ahead
                 PROVE  g.ring[i] = IF i \in 0..5 THEN f.ring[i + 1] \o NbSet[i + 1]
                                    ELSE IF i < Ahead THEN f.ring[i + 1] ELSE <<>>
      BY DEF ShiftedOn
    <3>1. CASE i < Ahead
      <4>1. i + 1 \in 0..Ahead /\ (i + 1 \in 1..6 <=> i \in 0..5)
        BY <3>1, Sizes
      <4>2. g.ring[i] = m.ring[i + 1]
        BY <1>5, <3>1
      <4>3. m.ring[i + 1] = IF i + 1 \in 1..6 THEN s.ring[i + 1] \o NbSet[i + 1]
                            ELSE s.ring[i + 1]
        BY <2>2, <4>1
      <4> QED
        BY <1>2, <3>1, <4>1, <4>2, <4>3
    <3>2. CASE i = Ahead
      <4>1. i \notin 0..5 /\ ~(i < Ahead)
        BY <3>2, Sizes
      <4> QED
        BY <1>5, <4>1
    <3> QED
      BY <3>1, <3>2, Sizes
  <2>4. t \in Now(f) /\ (f.fn + 2) % Cycle \in Trigger[t]
    BY <1>2, <1>8 DEF Begins, Unchanged
  <2>5. Further(f, g)
    BY <1>2, <1>6, <2>1 DEF Further, Soon, Unchanged
  <2> QED
    BY <1>2, <1>5, <1>6, <2>1, <2>3, <2>4, <2>5 DEF Unchanged
<1> QED
  <2>1. CASE \E t \in Tasks : Begins(s, m, t)
    <3>1. PICK t \in Tasks : Begins(s, m, t)
      BY <2>1
    <3>2. /\ g \in States /\ ~g.abort /\ Unchanged(f, g) /\ g.tasks = Now(f)
          /\ g.r = s.r /\ g.w = s.w
          /\ ShiftedOn(f, g) /\ Further(f, g)
          /\ t \in Now(f) /\ (f.fn + 2) % Cycle \in Trigger[t]
      BY <1>8, <3>1
    <3> QED
      BY <1>1, <3>2 DEF After, g, m, s, w
  <2> QED
    BY <1>4, <1>7, <2>1
-----------------------------------------------------------------------------
(* What the items do.                                                        *)

LEMMA TickIs ==
  ASSUME NEW f \in States
  PROVE  LET t == Ticked(f)
         IN /\ t \in States
            /\ t = [f EXCEPT !.fn = t.fn, !.used = FALSE, !.wrapped = t.wrapped]
            /\ t.fn = (f.fn + 1) % Hyper
            /\ t.wrapped = IF f.safe = Hyper THEN f.wrapped /\ ~Cleared(f)
                           ELSE f.wrapped \/ f.fn = Hyper - 1
<1> DEFINE fn == (f.fn + 1) % Hyper
           wrapped == IF f.safe = Hyper THEN f.wrapped /\ ~Cleared(f)
                      ELSE f.wrapped \/ f.fn = Hyper - 1
           t == Ticked(f)
<1>1. f.fn \in Nat /\ f.wrapped \in BOOLEAN /\ Hyper \in Nat \ {0}
  BY Sizes DEF States
<1>2. fn \in 0..(Hyper - 1) /\ wrapped \in BOOLEAN
  <2>1. fn \in 0..(Hyper - 1)
    BY <1>1
  <2>2. wrapped \in BOOLEAN
    BY <1>1
  <2> QED
    BY <2>1, <2>2
<1>3. t = [f EXCEPT !.fn = fn, !.used = FALSE, !.wrapped = wrapped]
  BY DEF Ticked, States
<1> HIDE DEF fn, wrapped, t
<1>4. t \in States /\ t.fn = fn /\ t.wrapped = wrapped
  BY <1>2, <1>3 DEF States
<1> QED
  BY <1>3, <1>4 DEF fn, wrapped, t

\* An item with the page of its command.
TagOf(it, cb, arg, page) ==
  IF it.cb = cb /\ it.arg = arg THEN [it EXCEPT !.page = page] ELSE it

LEMMA TaggedIs ==
  ASSUME NEW f \in States, NEW cb, NEW arg, NEW o \in 0..Ahead
  PROVE  LET g == Tagged(f, cb, arg, o)
             s == f.ring[o]
         IN /\ g \in States /\ OnlyRing(f, g)
            /\ \A j \in 0..Ahead : j # o => g.ring[j] = f.ring[j]
            /\ g.ring[o] \in Seq(Items) /\ Len(g.ring[o]) = Len(s)
            /\ \A i \in 1..Len(s) : g.ring[o][i] = TagOf(s[i], cb, arg, f.w)
<1> DEFINE g == Tagged(f, cb, arg, o)
           s == f.ring[o]
           n == Len(s)
           q == [i \in 1..n |-> TagOf(s[i], cb, arg, f.w)]
           R == [f.ring EXCEPT ![o] = q]
<1>1. f.ring \in Rings /\ s \in Seq(Items) /\ n \in Nat /\ DOMAIN s = 1..n /\ f.w \in {0, 1}
  <2>1. f.ring \in Rings /\ f.w \in {0, 1}
    BY DEF States, Rings
  <2>2. s \in Seq(Items)
    BY <2>1 DEF Rings
  <2> HIDE DEF s
  <2> QED
    BY <2>1, <2>2
<1>2. g = [f EXCEPT !.ring = R]
  <2>1. q = [i \in DOMAIN s |-> TagOf(s[i], cb, arg, f.w)]
    BY <1>1
  <2> HIDE DEF q
  <2> QED
    BY <2>1 DEF Tagged, TagOf
<1> HIDE DEF g, n
<1>3. q \in Seq(Items) /\ Len(q) = n
  <2>1. \A i \in 1..n : s[i] \in Items
    BY <1>1
  <2> HIDE DEF s
  <2>2. \A i \in 1..n : TagOf(s[i], cb, arg, f.w) \in Items
    BY <1>1, <2>1 DEF TagOf, Items
  <2>3. q \in [1..n -> Items]
    BY <2>2
  <2> QED
    BY <1>1, <2>3
<1>4. \A i \in 1..n : q[i] = TagOf(s[i], cb, arg, f.w)
  OBVIOUS
<1> HIDE DEF q, s
<1>5. R \in Rings /\ R[o] = q /\ \A j \in 0..Ahead : j # o => R[j] = f.ring[j]
  BY <1>1, <1>3 DEF Rings
<1> HIDE DEF R
<1>6. g \in States /\ g.ring = R
  BY <1>2, <1>5 DEF States, Rings
<1>7. OnlyRing(f, g)
  BY <1>2, <1>5, <1>6 DEF OnlyRing
<1> QED
  BY <1>3, <1>4, <1>5, <1>6, <1>7 DEF g, n, s

Kinds(b) == {b[i].cb : i \in DOMAIN b}

LEMMA TaggedNone ==
  ASSUME NEW f \in States, NEW cb, NEW arg, NEW o \in 0..Ahead, cb \notin Kinds(f.ring[o])
  PROVE  Tagged(f, cb, arg, o) = f
<1> DEFINE g == Tagged(f, cb, arg, o)
           s == f.ring[o]
<1>1. /\ g \in States /\ OnlyRing(f, g)
      /\ \A j \in 0..Ahead : j # o => g.ring[j] = f.ring[j]
      /\ g.ring[o] \in Seq(Items) /\ Len(g.ring[o]) = Len(s)
      /\ \A i \in 1..Len(s) : g.ring[o][i] = TagOf(s[i], cb, arg, f.w)
  BY TaggedIs
<1>2. f.ring \in Rings /\ s \in Seq(Items)
  BY DEF States, Rings
<1> HIDE DEF g
<1>3. \A i \in 1..Len(s) : g.ring[o][i] = s[i]
  <2> SUFFICES ASSUME NEW i \in 1..Len(s)
               PROVE  g.ring[o][i] = s[i]
    OBVIOUS
  <2>1. s[i].cb # cb
    BY <1>2 DEF Kinds
  <2> QED
    BY <1>1, <2>1 DEF TagOf
<1>4. g.ring[o] = s
  <2> DEFINE q == g.ring[o]
  <2>1. q \in Seq(Items) /\ Len(q) = Len(s) /\ \A i \in 1..Len(s) : q[i] = s[i]
    BY <1>1, <1>3
  <2> HIDE DEF q, s
  <2>2. q = s
    BY <1>2, <2>1
  <2> QED
    BY <2>2 DEF q, s
<1>5. g.ring \in Rings /\ \A j \in 0..Ahead : g.ring[j] = f.ring[j]
  BY <1>1, <1>4 DEF OnlyRing
<1>6. g.ring = f.ring
  <2> DEFINE P == g.ring
             Q == f.ring
  <2>1. /\ P \in [0..Ahead -> Seq(Items)] /\ Q \in [0..Ahead -> Seq(Items)]
        /\ \A j \in 0..Ahead : P[j] = Q[j]
    BY <1>2, <1>5 DEF Rings
  <2> HIDE DEF P, Q
  <2>2. P = Q
    <3>1. P = [j \in 0..Ahead |-> P[j]] /\ Q = [j \in 0..Ahead |-> Q[j]]
      BY <2>1
    <3>2. [j \in 0..Ahead |-> P[j]] = [j \in 0..Ahead |-> Q[j]]
      BY <2>1, Zenon
    <3> QED
      BY <3>1, <3>2, Zenon
  <2> QED
    BY <2>2 DEF P, Q
<1>7. g = [f EXCEPT !.ring = f.ring]
  BY <1>1, <1>6 DEF OnlyRing
<1> QED
  BY <1>7 DEF g, States

OnlyUsed(f, g) == g.used \in BOOLEAN /\ g = [f EXCEPT !.used = g.used]

\* A response that ends nothing and finds nothing.
LEMMA QuietResponse ==
  ASSUME NEW f \in States, NEW it \in Items, it.cb \in Responses,
         ~MayFind(it), ~Ends(it), NEW g \in Exec(f, it)
  PROVE  /\ g \in States /\ OnlyUsed(f, g)
         /\ it.cb = "fb_resp" => g = f
         /\ it.cb = "sb_resp" => g.used = TRUE
         /\ it.cb = "nb_resp" /\ it.page = f.r => g.used = TRUE
<1>1. CASE it.cb = "fb_resp"
  <2>1. Exec(f, it) = FbResp(f, it)
    BY <1>1 DEF Exec
  <2>2. FbResp(f, it) = {Missed(f, it)}
    BY DEF FbResp
  <2>3. it.arg < Tries
    BY <1>1, Sizes DEF Ends, Items
  <2>4. g = f
    BY <2>1, <2>2, <2>3 DEF Missed
  <2> QED
    BY <1>1, <2>4 DEF OnlyUsed, States
<1>2. CASE it.cb = "sb_resp"
  <2>1. Exec(f, it) = SbResp(f, it)
    BY <1>2 DEF Exec
  <2>2. it.arg # 2
    BY <1>2 DEF Ends
  <2>3. SbResp(f, it) = {[f EXCEPT !.used = TRUE]}
    BY <2>2 DEF SbResp
  <2>4. g = [f EXCEPT !.used = TRUE]
    BY <2>1, <2>3
  <2> QED
    BY <1>2, <2>4 DEF OnlyUsed, States
<1>3. CASE it.cb = "nb_resp"
  <2>1. Exec(f, it) = NbResp(f, it)
    BY <1>3 DEF Exec
  <2>2. PICK u \in BOOLEAN : g = [f EXCEPT !.used = u] /\ (it.page = f.r => u = TRUE)
    BY <2>1 DEF NbResp, States
  <2> QED
    BY <1>3, <2>2 DEF OnlyUsed, States
<1> QED
  BY <1>1, <1>2, <1>3 DEF Responses

\* What a reset has left in the bucket.
NoResponse(b) == "nb_resp" \notin Kinds(b) /\ "sb_resp" \notin Kinds(b)

LEMMA LeftItem ==
  ASSUME NEW f \in States, NEW it \in Items, it.page = Late, ~Ends(it), ~Untimely,
         NoResponse(f.ring[2]), NoResponse(f.ring[3]), NEW g \in Exec(f, it)
  PROVE  g \in States /\ OnlyUsed(f, g)
<1>1. ~MayFind(it)
  BY DEF MayFind
<1>2. CASE it.cb \in Responses
  BY <1>1, <1>2, QuietResponse
<1>3. CASE it.cb \in Commands
  <2>1. 2 \in 0..Ahead /\ 3 \in 0..Ahead
    BY Sizes
  <2>2. /\ Tagged(f, "sb_resp", it.arg, 3) = f /\ Tagged(f, "nb_resp", it.arg, 2) = f
    BY <2>1, TaggedNone DEF NoResponse
  <2>3. Exec(f, it) = {f}
    BY <1>3, <2>2 DEF Exec, Commands
  <2> QED
    BY <2>3 DEF OnlyUsed, States
<1> QED
  BY <1>2, <1>3 DEF Items

LEMMA LeftBucket ==
  ASSUME NEW f \in States, Left(f.ring[0]), ~Untimely,
         NoResponse(f.ring[2]), NoResponse(f.ring[3]), NEW g \in Executed(f)
  PROVE  g \in States /\ OnlyUsed(f, g)
<1> DEFINE S == {h \in States : OnlyUsed(f, h)}
<1>1. f \in S
  BY DEF OnlyUsed, States
<1>2. ASSUME NEW h \in S, NEW it \in Leftovers, NEW k \in Exec(h, it)
      PROVE  k \in S
  <2>1. h \in States /\ OnlyUsed(f, h) /\ h.ring = f.ring
    BY DEF OnlyUsed, States
  <2>2. it \in Items /\ it.page = Late /\ ~Ends(it)
    BY DEF Leftovers
  <2>3. k \in States /\ OnlyUsed(h, k)
    BY <2>1, <2>2, LeftItem
  <2>4. OnlyUsed(f, k)
    BY <2>1, <2>3 DEF OnlyUsed, States
  <2> QED
    BY <2>3, <2>4
<1>3. f.ring[0] \in Seq(Leftovers)
  BY DEF Left
<1> HIDE DEF S
<1>4. Executed(f) \subseteq S
  BY <1>1, <1>2, <1>3, ExecutedKeeps
<1> QED
  BY <1>4 DEF S

LEMMA FbSetIs ==
  ASSUME NEW mode \in {0, 1}
  PROVE  /\ FbSet(mode) \in [1..(Tries + 2) -> Seq(Items)]
         /\ \A k \in 1..(Tries + 2) : FbBucket(FbSet(mode)[k])
<1>1. \A it \in Items : <<it>> \in Seq(Items)
  OBVIOUS
<1>2. <<>> \in Seq(Items)
  OBVIOUS
<1> DEFINE B(k) == CASE k = 1 -> <<Item("fb_cmd", 0, mode)>>
                     [] k = 2 -> <<>>
                     [] OTHER -> <<Item("fb_resp", k - 2, mode)>>
<1>3. ASSUME NEW k \in 1..(Tries + 2)
      PROVE  B(k) \in Seq(Items) /\ FbBucket(B(k))
  <2>1. CASE k = 1
    <3>1. 0 \in 0..(Tries + 3) /\ "fb_cmd" \in Commands
      BY Sizes DEF Commands
    <3>2. /\ Item("fb_cmd", 0, mode) \in Items /\ Item("fb_cmd", 0, mode).cb = "fb_cmd"
          /\ Item("fb_cmd", 0, mode).page = None
      BY <3>1, ItemIs
    <3>3. B(k) = <<Item("fb_cmd", 0, mode)>>
      BY <2>1
    <3> QED
      BY <1>1, <3>2, <3>3 DEF FbBucket
  <2>2. CASE k = 2
    <3>1. B(k) = <<>>
      BY <2>2
    <3> QED
      BY <1>2, <3>1 DEF FbBucket
  <2>3. CASE k > 2
    <3>1. k - 2 \in 0..(Tries + 3) /\ k - 2 <= Tries /\ "fb_resp" \in Responses
      BY <2>3, Sizes DEF Responses
    <3>2. /\ Item("fb_resp", k - 2, mode) \in Items
          /\ Item("fb_resp", k - 2, mode).cb = "fb_resp"
          /\ Item("fb_resp", k - 2, mode).arg = k - 2
          /\ Item("fb_resp", k - 2, mode).page = None
      BY <3>1, ItemIs
    <3>3. B(k) = <<Item("fb_resp", k - 2, mode)>>
      BY <2>3
    <3> QED
      BY <1>1, <3>1, <3>2, <3>3 DEF FbBucket
  <2> QED
    BY <2>1, <2>2, <2>3, Sizes
<1>4. FbSet(mode) = [k \in 1..(Tries + 2) |-> B(k)]
  BY DEF FbSet
<1> HIDE DEF B
<1> QED
  BY <1>3, <1>4

\* The ring when a search for the FB begins (or goes on).
FbRing(f) == \A i \in 1..Ahead : FbBucket(f.ring[i])

EmptyRing(f) == \A i \in 1..Ahead : f.ring[i] = <<>>

\* The ring when the search for the SB begins.
SbRing(f) ==
  \A i \in 1..Ahead : f.ring[i] = IF i + 1 - Gap \in 1..5 THEN SbSet[i + 1 - Gap] ELSE <<>>

LEMMA FbStarts ==
  ASSUME NEW f \in States, EmptyRing(f), NEW mode \in {0, 1}, NEW o \in Nat \ {0}
  PROVE  LET g == ScheduleSet(f, o, FbSet(mode))
         IN g \in States /\ OnlyRing(f, g) /\ FbRing(g)
<1> DEFINE g == ScheduleSet(f, o, FbSet(mode))
           set == FbSet(mode)
<1>1. /\ set \in [1..(Tries + 2) -> Seq(Items)]
      /\ \A k \in 1..(Tries + 2) : FbBucket(set[k])
  BY FbSetIs
<1>2. o \in Nat /\ Tries + 2 \in Nat
  BY Sizes
<1>3. /\ g \in States /\ OnlyRing(f, g)
      /\ \A i \in 0..Ahead : g.ring[i] = IF i + 1 - o \in 1..(Tries + 2)
                                         THEN f.ring[i] \o set[i + 1 - o]
                                         ELSE f.ring[i]
  BY <1>1, <1>2, ScheduleSetIs
<1>4. ASSUME NEW i \in 1..Ahead
      PROVE  FbBucket(g.ring[i])
  <2>1. i \in 0..Ahead /\ f.ring[i] = <<>>
    BY <1>2, Sizes DEF EmptyRing
  <2>2. CASE i + 1 - o \in 1..(Tries + 2)
    <3>1. set[i + 1 - o] \in Seq(Items) /\ FbBucket(set[i + 1 - o])
      BY <1>1, <2>2
    <3>2. g.ring[i] = <<>> \o set[i + 1 - o]
      BY <1>3, <2>1, <2>2
    <3> QED
      BY <3>1, <3>2
  <2>3. CASE i + 1 - o \notin 1..(Tries + 2)
    BY <1>3, <2>1, <2>3 DEF FbBucket
  <2> QED
    BY <2>2, <2>3
<1> QED
  BY <1>3, <1>4 DEF FbRing

LEMMA SbStarts ==
  ASSUME NEW f \in States, EmptyRing(f)
  PROVE  LET g == ScheduleSet(f, Gap, SbSet)
         IN g \in States /\ OnlyRing(f, g) /\ SbRing(g)
<1> DEFINE g == ScheduleSet(f, Gap, SbSet)
<1>1. SbSet \in [1..5 -> Seq(Items)] /\ \A k \in 1..5 : SbSet[k] \in Seq(Items)
  <2>1. \A k \in 1..5 : SbSet[k] \in Seq(Items)
    <3>1. \A it \in Items : <<it>> \in Seq(Items)
      OBVIOUS
    <3>2. \A k \in {1, 2, 4, 5} : SbSet[k] \in Seq(Items)
      BY <3>1, SbSetIs
    <3>3. SbSet[3] \in Seq(Items)
      BY SbSetIs
    <3>4. \A k \in 1..5 : k = 3 \/ k \in {1, 2, 4, 5}
      OBVIOUS
    <3> QED
      BY <3>2, <3>3, <3>4
  <2>2. SbSet = [k \in 1..5 |-> SbSet[k]]
    BY SbSetIs DEF SbSet
  <2> QED
    BY <2>1, <2>2
<1>2. Gap \in Nat /\ 5 \in Nat
  BY Sizes
<1>3. /\ g \in States /\ OnlyRing(f, g)
      /\ \A i \in 0..Ahead : g.ring[i] = IF i + 1 - Gap \in 1..5
                                         THEN f.ring[i] \o SbSet[i + 1 - Gap] ELSE f.ring[i]
  BY <1>1, <1>2, ScheduleSetIs
<1>4. ASSUME NEW i \in 1..Ahead
      PROVE  g.ring[i] = IF i + 1 - Gap \in 1..5 THEN SbSet[i + 1 - Gap] ELSE <<>>
  <2>1. i \in 0..Ahead /\ f.ring[i] = <<>>
    BY Sizes DEF EmptyRing
  <2>2. CASE i + 1 - Gap \in 1..5
    <3>1. SbSet[i + 1 - Gap] \in Seq(Items)
      BY <1>1, <2>2
    <3>2. g.ring[i] = <<>> \o SbSet[i + 1 - Gap]
      BY <1>3, <2>1, <2>2
    <3> QED
      BY <2>2, <3>1, <3>2
  <2>3. CASE i + 1 - Gap \notin 1..5
    BY <1>3, <2>1, <2>3
  <2> QED
    BY <2>2, <2>3
<1> QED
  BY <1>3, <1>4 DEF SbRing

\* What the items of a search leave to the multiframe scheduler.
SameTasks(f, g) == g.tgt = f.tgt /\ g.safe = f.safe /\ g.wrapped = f.wrapped

\* What a response of the search for the FB comes to.
Goes(f, g) ==
  /\ SameTasks(f, g) /\ g.abort = f.abort
  /\ \/ g = f
     \/ FbRing(g) /\ g.compl = f.compl
     \/ EmptyRing(g) /\ g.compl /\ g.failed
     \/ SbRing(g) /\ g.compl = f.compl /\ g.w = 0 /\ g.r = 0 /\ ~g.used

LEMMA FailedIs ==
  ASSUME NEW f \in States
  PROVE  LET g == Failed(f)
         IN /\ g \in States /\ g.ring = f.ring /\ SameTasks(f, g) /\ g.abort = f.abort
            /\ g.compl /\ g.failed
BY DEF Failed, States, SameTasks

LEMMA MissedIs ==
  ASSUME NEW f \in States, NEW it \in Items
  PROVE  Missed(f, it) \in States /\ Goes(f, Missed(f, it))
<1> DEFINE h == SchedReset(f)
           s == ScheduleSet(h, 1, FbSet(0))
<1>1. h \in States /\ SameTasks(f, h) /\ h.abort = f.abort /\ h.compl = f.compl
      /\ h.retries = f.retries /\ EmptyRing(h)
  <2>1. /\ h \in States /\ OnlyRing(f, h)
        /\ h.ring[0] = f.ring[0] /\ \A i \in 1..Ahead : h.ring[i] = <<>>
    BY SchedResetIs
  <2> HIDE DEF h
  <2> QED
    BY <2>1 DEF OnlyRing, EmptyRing, States, SameTasks
<1> HIDE DEF h
<1>2. s \in States /\ OnlyRing(h, s) /\ FbRing(s)
  <2>1. 1 \in Nat \ {0} /\ 0 \in {0, 1}
    OBVIOUS
  <2> QED
    BY <1>1, <2>1, FbStarts
<1> HIDE DEF s
<1>3. SameTasks(h, s) /\ s.abort = h.abort /\ s.compl = h.compl /\ s.retries = h.retries
  BY <1>1, <1>2 DEF OnlyRing, States, SameTasks
<1> DEFINE a == it.arg
           r == f.retries
<1>n. a \in Nat /\ r \in Nat /\ Tries \in Nat /\ Retries \in Nat
  BY Sizes DEF Items, States
<1>4. CASE it.arg < Tries
  BY <1>4 DEF Missed, Goes, SameTasks
<1>5. CASE it.arg >= Tries /\ f.retries < Retries
  <2> DEFINE g == [s EXCEPT !.retries = @ + 1]
  <2>1. Missed(f, it) = g
    <3>1. ~(a < Tries)
      BY <1>5, <1>n
    <3> QED
      BY <1>5, <3>1 DEF Missed, h, s
  <2>2. g \in States /\ g.ring = s.ring /\ SameTasks(s, g) /\ g.abort = s.abort
        /\ g.compl = s.compl
    <3>1. s.retries + 1 \in 0..Retries
      <4>1. f.retries \in 0..Retries /\ Retries \in Nat /\ s.retries = f.retries
        BY <1>1, <1>3, Sizes DEF States
      <4> QED
        BY <1>5, <4>1
    <3> QED
      BY <1>2, <3>1 DEF States, SameTasks
  <2> HIDE DEF g
  <2>3. FbRing(g)
    BY <1>2, <2>2 DEF FbRing
  <2> QED
    BY <1>1, <1>3, <2>1, <2>2, <2>3 DEF Goes, SameTasks
<1>6. CASE it.arg >= Tries /\ f.retries >= Retries
  <2> DEFINE g == Failed(h)
  <2>1. Missed(f, it) = g
    <3>1. ~(a < Tries) /\ ~(r < Retries)
      BY <1>6, <1>n
    <3> QED
      BY <3>1 DEF Missed, h
  <2>2. /\ g \in States /\ g.ring = h.ring /\ SameTasks(h, g) /\ g.abort = h.abort
        /\ g.compl /\ g.failed
    BY <1>1, FailedIs
  <2> HIDE DEF g
  <2>3. EmptyRing(g)
    BY <1>1, <2>2 DEF EmptyRing, SameTasks
  <2> QED
    BY <1>1, <2>1, <2>2, <2>3 DEF Goes, SameTasks
<1> QED
  BY <1>4, <1>5, <1>6, <1>n

LEMMA FoundIs ==
  ASSUME NEW f \in States, NEW it \in Items, NEW good \in BOOLEAN
  PROVE  Found(f, it, good) \in States /\ Goes(f, Found(f, it, good))
<1> DEFINE e == ResetHw(f)
           h == SchedReset(e)
           k == [h EXCEPT !.failed = FALSE]
           n == Found(f, it, good)
<1>1. e \in States /\ SameTasks(f, e) /\ e.abort = f.abort /\ e.compl = f.compl
      /\ e.w = 0 /\ e.r = 0 /\ ~e.used /\ e.afc = f.afc
  BY DEF ResetHw, States, SameTasks
<1> HIDE DEF e
<1>2. h \in States /\ SameTasks(f, h) /\ h.abort = f.abort /\ h.compl = f.compl
      /\ h.w = 0 /\ h.r = 0 /\ ~h.used /\ h.afc = f.afc
      /\ EmptyRing(h)
  <2>1. /\ h \in States /\ OnlyRing(e, h)
        /\ h.ring[0] = e.ring[0] /\ \A i \in 1..Ahead : h.ring[i] = <<>>
    BY <1>1, SchedResetIs
  <2> HIDE DEF h
  <2> QED
    BY <1>1, <2>1 DEF OnlyRing, EmptyRing, States, SameTasks
<1> HIDE DEF h
<1>3. k \in States /\ SameTasks(f, k) /\ k.abort = f.abort /\ k.compl = f.compl
      /\ k.w = 0 /\ k.r = 0 /\ ~k.used /\ k.afc = f.afc
      /\ EmptyRing(k)
  <2>1. k \in States /\ k.ring = h.ring /\ SameTasks(h, k) /\ k.abort = h.abort
        /\ k.compl = h.compl /\ k.w = h.w /\ k.r = h.r /\ k.used = h.used
        /\ k.afc = h.afc
    BY <1>2 DEF States, SameTasks
  <2> HIDE DEF k
  <2> QED
    BY <1>2, <2>1 DEF EmptyRing, SameTasks
<1>4. n = CASE it.mode = 0 /\ good -> ScheduleSet(k, 1, FbSet(1))
            [] it.mode = 0 /\ ~good /\ f.afc < AfcRetries
                 -> [ScheduleSet(k, 1, FbSet(0)) EXCEPT !.afc = @ + 1]
            [] it.mode = 0 /\ ~good /\ f.afc = AfcRetries -> Failed(k)
            [] it.mode = 1 /\ good -> ScheduleSet(k, Gap, SbSet)
            [] it.mode = 1 /\ ~good
                 -> ScheduleSet(k, Gap, FbSet(1))
  BY DEF Found, k, h, e
<1> HIDE DEF k, n
<1>5. it.mode \in {0, 1} /\ f.afc \in 0..AfcRetries /\ 1 \in Nat \ {0} /\ Gap \in Nat \ {0}
      /\ 0 \in {0, 1} /\ 1 \in {0, 1}
  BY Sizes DEF Items, States
<1>6. CASE it.mode = 0 /\ good
  <2>1. n = ScheduleSet(k, 1, FbSet(1))
    BY <1>4, <1>6
  <2>2. n \in States /\ OnlyRing(k, n) /\ FbRing(n)
    BY <1>3, <1>5, <2>1, FbStarts
  <2> QED
    BY <1>3, <2>2 DEF OnlyRing, Goes, States, n, SameTasks
<1>7. CASE it.mode = 0 /\ ~good /\ f.afc < AfcRetries
  <2> DEFINE s == ScheduleSet(k, 1, FbSet(0))
  <2>1. n = [s EXCEPT !.afc = @ + 1]
    <3>1. f.afc # AfcRetries
      BY <1>5, <1>7, Sizes
    <3> QED
      BY <1>4, <1>7, <3>1
  <2>2. s \in States /\ OnlyRing(k, s) /\ FbRing(s)
    BY <1>3, <1>5, FbStarts
  <2> HIDE DEF s
  <2>3. SameTasks(f, s) /\ s.abort = f.abort /\ s.compl = f.compl /\ s.afc = f.afc
    BY <1>3, <2>2 DEF OnlyRing, States, SameTasks
  <2>4. s.afc + 1 \in 0..AfcRetries
    BY <1>5, <1>7, <2>3, Sizes
  <2>5. n \in States /\ n.ring = s.ring /\ SameTasks(s, n) /\ n.abort = s.abort
        /\ n.compl = s.compl
    BY <2>1, <2>2, <2>4 DEF States, SameTasks
  <2> QED
    BY <2>2, <2>3, <2>5 DEF Goes, FbRing, n, SameTasks
<1>8. CASE it.mode = 0 /\ ~good /\ f.afc = AfcRetries
  <2>1. n = Failed(k)
    BY <1>4, <1>5, <1>8, Sizes
  <2>2. /\ n \in States /\ n.ring = k.ring /\ SameTasks(k, n) /\ n.abort = k.abort
        /\ n.compl /\ n.failed
    BY <1>3, <2>1, FailedIs
  <2> QED
    BY <1>3, <2>2 DEF Goes, EmptyRing, n, SameTasks
<1>9. CASE it.mode = 1 /\ good
  <2>1. n = ScheduleSet(k, Gap, SbSet)
    BY <1>4, <1>9
  <2>2. n \in States /\ OnlyRing(k, n) /\ SbRing(n)
    BY <1>3, <2>1, SbStarts
  <2>3. /\ SameTasks(f, n) /\ n.abort = f.abort /\ n.compl = f.compl /\ n.w = 0 /\ n.r = 0
        /\ ~n.used
    BY <1>3, <2>2 DEF OnlyRing, States, SameTasks
  <2> QED
    BY <2>2, <2>3 DEF Goes, n, SameTasks
<1>10. CASE it.mode = 1 /\ ~good
  <2>1. n = ScheduleSet(k, Gap, FbSet(1))
    BY <1>4, <1>10
  <2>2. n \in States /\ OnlyRing(k, n) /\ FbRing(n)
    BY <1>3, <1>5, <2>1, FbStarts
  <2> QED
    BY <1>3, <2>2 DEF OnlyRing, Goes, States, SameTasks, n
<1> QED
  BY <1>5, <1>6, <1>7, <1>8, <1>9, <1>10, Sizes DEF n

LEMMA FbItem ==
  ASSUME NEW f \in States, NEW it \in Items, it.cb \in {"fb_cmd", "fb_resp"},
         NEW g \in Exec(f, it)
  PROVE  g \in States /\ Goes(f, g)
<1>1. CASE it.cb = "fb_cmd"
  <2>1. Exec(f, it) = {f}
    BY <1>1 DEF Exec
  <2> QED
    BY <2>1 DEF Goes, SameTasks
<1>2. CASE it.cb = "fb_resp"
  <2>1. Exec(f, it) = FbResp(f, it)
    BY <1>2 DEF Exec
  <2>2. g = Missed(f, it) \/ \E good \in BOOLEAN : g = Found(f, it, good)
    BY <2>1 DEF FbResp
  <2> QED
    BY <2>2, MissedIs, FoundIs
<1> QED
  BY <1>1, <1>2
-----------------------------------------------------------------------------
(* Frames.                                                                   *)

Typed ==
  l1s \in States /\ main \in Mains /\ host \in {"idle", "wait", "sync", "dedic"}

HasCommand(b) == \E i \in DOMAIN b : b[i].cb \in Commands

\* The main loop does not move in a frame.
Interrupted ==
  /\ host' = host
  /\ main' \in Mains /\ main'.pc = main.pc /\ main'.for = main.for /\ main'.next = main.next
  /\ IF main.pc \in {"loop", "compl"} THEN main'.irqs = main.irqs
     ELSE main.irqs = 0 /\ main'.irqs = 1

LEMMA FrameIs ==
  ASSUME Typed, Preempts <= 1, Frame
  PROVE  /\ \E f \in Executed(Ticked(l1s)), dsp \in BOOLEAN :
              /\ HasCommand(l1s.ring[0]) => dsp
              /\ ~HasCommand(l1s.ring[0]) /\ dsp => l1s.abort
              /\ l1s' = After(f, dsp)
         /\ Interrupted
<1>1. PICK f \in Executed(Ticked(l1s)) :
        \E dsp \in {d \in BOOLEAN : IF HasCommand(l1s.ring[0]) THEN d ELSE d => l1s.abort} :
          l1s' = Advanced(MframeSchedule(SwitchPages(Aborted(f), dsp)))
  BY DEF Frame, HasCommand
<1>2. PICK dsp \in {d \in BOOLEAN :
                     IF HasCommand(l1s.ring[0]) THEN d ELSE d => l1s.abort} :
        l1s' = Advanced(MframeSchedule(SwitchPages(Aborted(f), dsp)))
  BY <1>1
<1>3. Interrupted
  <2>1. CASE main.pc \in {"loop", "compl"}
    <3>1. main' = main /\ host' = host
      BY <2>1 DEF Frame, At
    <3> QED
      BY <2>1, <3>1 DEF Interrupted, Typed
  <2>2. CASE main.pc \notin {"loop", "compl"}
    <3>1. host' = host /\ main.irqs < Preempts /\ main' = [main EXCEPT !.irqs = @ + 1]
      BY <2>2 DEF Frame, At
    <3>2. main.irqs = 0 /\ Preempts = 1
      BY <3>1, Sizes DEF Typed, Mains
    <3>3. main' \in Mains /\ main'.pc = main.pc /\ main'.for = main.for
          /\ main'.next = main.next /\ main'.irqs = 1
      BY <3>1, <3>2 DEF Typed, Mains
    <3> QED
      BY <2>2, <3>1, <3>2, <3>3 DEF Interrupted
  <2> QED
    BY <2>1, <2>2
<1>4. HasCommand(l1s.ring[0]) => dsp
  BY <1>2
<1>5. ~HasCommand(l1s.ring[0]) /\ dsp => l1s.abort
  BY <1>2
<1>6. dsp \in BOOLEAN /\ l1s' = After(f, dsp)
  BY <1>2 DEF After
<1> QED
  BY <1>3, <1>4, <1>5, <1>6

LEMMA FrameRequest ==
  ASSUME Typed, InRequest, Interrupted, l1s' \in States,
         l1s'.compl => l1s.compl \/ (host = "wait" /\ main.pc \in {"loop", "compl"}),
         main.pc \in {"mframe", "tdma"} => NoLast(l1s'.ring[0])
  PROVE  Typed' /\ InRequest'
<1>1. Typed'
  BY DEF Typed, Interrupted
<1>2. main'.pc \in {"loop", "compl"} => main'.irqs = 0
  BY DEF InRequest, Interrupted
<1>3. main'.pc \in {"mframe", "tdma"} => NoLast(l1s'.ring[0]) /\ main'.irqs = 1
  BY DEF Interrupted
<1>4. /\ (main'.pc \in {"loop", "compl"}) <=> (main'.for = "none")
      /\ main'.pc = "hw" => main'.for = "reset"
      /\ main'.pc = "fill" => main'.for = "fbsb"
      /\ main'.for = "fbsb" => host' = "wait" /\ ~l1s'.compl
      /\ l1s'.compl => (host' = "wait" \/ main'.pc = "compl")
  BY DEF InRequest, Interrupted
<1> QED
  BY <1>1, <1>2, <1>3, <1>4 DEF InRequest

LEMMA Ring ==
  ASSUME NEW f \in States
  PROVE  f.ring \in Rings /\ \A i \in 0..Ahead : f.ring[i] \in Seq(Items)
BY DEF States, Rings

LEMMA NoneLeft ==
  /\ Left(<<>>) /\ Shaped(<<>>) /\ FbBucket(<<>>) /\ NoLast(<<>>) /\ NoResponse(<<>>)
  /\ ~HasCommand(<<>>)
BY DEF Left, FbBucket, Shaped, NoLast, NoResponse, Kinds, HasCommand

\* A reset is complete: nothing of the blocks is left but in the last bucket.
LEMMA TickClears ==
  ASSUME NEW f \in States, f.safe = Hyper, f.wrapped => FbRing(f)
  PROVE  ~Ticked(f).wrapped
<1>1. ASSUME FbRing(f)
      PROVE  Cleared(f)
  <2> SUFFICES ASSUME NEW i \in 1..Ahead, NEW k \in DOMAIN f.ring[i]
               PROVE  f.ring[i][k].cb \notin {"nb_cmd", "nb_resp"}
    BY DEF Cleared
  <2> DEFINE b == f.ring[i]
  <2>1. FbBucket(b) /\ b # <<>>
    BY <1>1 DEF FbRing
  <2> HIDE DEF b
  <2>2. PICK it \in Items : b = <<it>> /\ it.cb \in {"fb_cmd", "fb_resp"}
    BY <2>1 DEF FbBucket
  <2>3. b[k] = it
    BY <2>2 DEF b
  <2> QED
    BY <2>2, <2>3 DEF b
<1>2. Ticked(f).wrapped = (f.wrapped /\ ~Cleared(f))
  BY TickIs
<1> QED
  BY <1>1, <1>2

LEMMA IdleAfter ==
  ASSUME NEW f \in States, NEW dsp \in BOOLEAN, f.tgt = {}
  PROVE  LET g == After(f, dsp)
             w == IF f.abort THEN 0 ELSE f.w
         IN /\ g \in States /\ ~g.abort /\ Unchanged(f, g) /\ Shifted(f, g)
            /\ g.tasks = {} /\ g.safe = f.safe /\ g.wrapped = f.wrapped
            /\ g.r = IF f.abort THEN 0 ELSE IF f.used THEN 1 - f.r ELSE f.r
            /\ g.w = IF dsp THEN 1 - w ELSE w
<1>1. Now(f) = {} /\ f.tgt \in {{}, {"ccch"}, {"dedic"}}
  BY DEF Now
<1> QED
  BY <1>1, AfterIs

LEMMA RestFrame ==
  ASSUME Typed, InRequest, Resting, ~Untimely, Preempts <= 1, Frame
  PROVE  Typed' /\ InRequest' /\ Resting'
<1> DEFINE t == Ticked(l1s)
<1>1. PICK f \in Executed(t), dsp \in BOOLEAN : l1s' = After(f, dsp)
  BY FrameIs
<1>2. Interrupted
  BY FrameIs
<1>3. l1s \in States
  BY DEF Typed
<1>4. t \in States /\ t.ring = l1s.ring /\ t.compl = l1s.compl /\ t.failed = l1s.failed
      /\ t.tgt = l1s.tgt /\ t.safe = Hyper /\ ~t.wrapped
  <2>1. t \in States /\ t = [l1s EXCEPT !.fn = t.fn, !.used = FALSE, !.wrapped = t.wrapped]
    BY <1>3, TickIs
  <2>2. ~t.wrapped
    BY <1>3, NoneLeft, TickClears DEF Resting, FbRing
  <2> HIDE DEF t
  <2> QED
    BY <1>3, <2>1, <2>2 DEF States, Resting
<1> HIDE DEF t
<1>5. /\ Left(t.ring[0]) /\ NoResponse(t.ring[2]) /\ NoResponse(t.ring[3])
      /\ t.tgt = {} /\ \A i \in 1..Ahead : t.ring[i] = <<>>
  <2>1. 2 \in 1..Ahead /\ 3 \in 1..Ahead
    BY Sizes
  <2> QED
    BY <1>4, <2>1, NoneLeft DEF Resting, LeftNow
<1>6. f \in States /\ OnlyUsed(t, f)
  BY <1>1, <1>4, <1>5, LeftBucket
<1>7. f.ring = t.ring /\ f.compl = t.compl /\ f.failed = t.failed /\ f.tgt = {}
      /\ f.safe = Hyper
  BY <1>4, <1>5, <1>6 DEF OnlyUsed, States
<1>9. l1s' \in States /\ Unchanged(f, l1s') /\ Shifted(f, l1s') /\ l1s'.safe = Hyper
  BY <1>1, <1>6, <1>7, IdleAfter
<1>10. \A i \in 0..Ahead : l1s'.ring[i] = <<>>
  <2>1. \A i \in 0..Ahead : i < Ahead => i + 1 \in 1..Ahead
    BY Sizes
  <2> QED
    BY <1>5, <1>7, <1>9, <2>1 DEF Shifted
<1>11. l1s'.compl = l1s.compl /\ l1s'.failed = l1s.failed /\ l1s'.tgt = {}
  BY <1>4, <1>7, <1>9 DEF Unchanged
<1>12. Typed' /\ InRequest'
  <2>1. NoLast(l1s'.ring[0])
    BY <1>10, NoneLeft, Sizes
  <2> QED
    BY <1>2, <1>9, <1>11, <2>1, FrameRequest
<1>13. Resting'
  <2>1. Left(l1s'.ring[0]) /\ Shaped(l1s'.ring[0]) /\ \A i \in 1..Ahead : l1s'.ring[i] = <<>>
    BY <1>10, NoneLeft, Sizes
  <2>2. main'.pc = main.pc /\ host' = host
    BY <1>2 DEF Interrupted
  <2>3. main'.pc \in {"loop", "compl"} =>
          host' \in {"idle", "wait"} /\ (l1s'.compl /\ host' = "wait" => l1s'.failed)
    BY <1>11, <2>2 DEF Resting
  <2> QED
    BY <1>9, <1>11, <2>1, <2>3 DEF Resting, LeftNow, Left, Leftovers, Shaped, Ends
<1> QED
  BY <1>12, <1>13
LEMMA FbItems ==
  ASSUME NEW b, FbBucket(b), b # <<>>
  PROVE  /\ Shaped(b) /\ Len(b) = 1 /\ b[1] \in Items /\ b[1].page = None
         /\ b[1].cb = "fb_cmd" \/ (b[1].cb = "fb_resp" /\ b[1].arg <= Tries)
         /\ HasCommand(b) <=> b[1].cb = "fb_cmd"
<1>1. PICK it \in Items : /\ b = <<it>> /\ it.page = None
                          /\ it.cb = "fb_cmd" \/ (it.cb = "fb_resp" /\ it.arg <= Tries)
  BY DEF FbBucket
<1>2. b \in Seq(Items) /\ Len(b) = 1 /\ b[1] = it /\ DOMAIN b = {1}
  BY <1>1
<1>3. HasCommand(b) <=> it.cb \in Commands
  BY <1>2 DEF HasCommand
<1> QED
  BY <1>1, <1>2, <1>3 DEF Shaped, Commands

LEMMA FbQuiet ==
  ASSUME NEW b, FbBucket(b)
  PROVE  NoResponse(b)
<1>1. CASE b = <<>>
  BY <1>1, NoneLeft
<1>2. CASE b # <<>>
  <2>1. PICK it \in Items : b = <<it>> /\ it.cb \in {"fb_cmd", "fb_resp"}
    BY <1>2 DEF FbBucket
  <2>2. DOMAIN b = {1} /\ b[1] = it
    BY <2>1
  <2> QED
    BY <2>1, <2>2 DEF NoResponse, Kinds
<1> QED
  BY <1>1, <1>2

\* What a bucket of the search for the FB, or one that a reset has left, comes
\* to: nothing within a request.
LEMMA FbExecuted ==
  ASSUME Typed, InRequest, FbSearch, ~Untimely, Preempts <= 1, Interrupted,
         NEW f \in Executed(Ticked(l1s))
  PROVE  /\ f \in States
         /\ \/ OnlyUsed(Ticked(l1s), f)
            \/ /\ Goes(Ticked(l1s), f) /\ main.pc \in {"loop", "compl"}
               /\ ~l1s.abort /\ ~HasCommand(l1s.ring[0])
<1> DEFINE t == Ticked(l1s)
<1>1. l1s \in States
  BY DEF Typed
<1>2. t \in States /\ t.ring = l1s.ring
  <2>1. t \in States /\ t = [l1s EXCEPT !.fn = t.fn, !.used = FALSE, !.wrapped = t.wrapped]
    BY <1>1, TickIs
  <2> HIDE DEF t
  <2> QED
    BY <1>1, <2>1 DEF States
<1> HIDE DEF t
<1>3. f \in Executed(t)
  BY DEF t
<1>4. NoResponse(t.ring[2]) /\ NoResponse(t.ring[3])
  <2>1. 2 \in 1..Ahead /\ 3 \in 1..Ahead
    BY Sizes
  <2> QED
    BY <1>2, <2>1, FbQuiet DEF FbSearch
<1>5. CASE Left(l1s.ring[0])
  <2>1. f \in States /\ OnlyUsed(t, f)
    BY <1>2, <1>3, <1>4, <1>5, LeftBucket
  <2> QED
    BY <2>1 DEF t
<1>6. CASE ~Left(l1s.ring[0])
  <2> DEFINE b == l1s.ring[0]
             it == b[1]
  <2>1. FbBucket(b) /\ b # <<>> /\ ~l1s.abort
    BY <1>6, NoneLeft DEF FbSearch, LeftNow
  <2>2. /\ Shaped(b) /\ Len(b) = 1 /\ it \in Items
        /\ it.cb = "fb_cmd" \/ (it.cb = "fb_resp" /\ it.arg <= Tries)
        /\ HasCommand(b) <=> it.cb = "fb_cmd"
    BY <2>1, FbItems
  <2>3. f \in Exec(t, it)
    <3>1. Executed(t) = Exec(t, it)
      BY <1>2, <2>2, ExecutedIs
    <3> QED
      BY <1>3, <3>1
  <2>4. CASE it.cb = "fb_cmd"
    <3>1. f = t
      BY <2>3, <2>4 DEF Exec
    <3>2. OnlyUsed(t, f)
      BY <1>2, <3>1 DEF OnlyUsed, States
    <3> QED
      BY <1>2, <3>1, <3>2 DEF t
  <2>5. CASE it.cb = "fb_resp" /\ main.pc \in {"loop", "compl"}
    <3>1. f \in States /\ Goes(t, f)
      BY <1>2, <2>2, <2>3, <2>5, FbItem
    <3> QED
      BY <2>1, <2>2, <2>5, <3>1 DEF t
  <2>6. CASE it.cb = "fb_resp" /\ main.pc \notin {"loop", "compl"}
    <3>1. main.irqs = 0
      BY <2>6 DEF Interrupted
    <3>2. main.pc \in {"mframe", "tdma"}
      BY <1>6, <2>6, <3>1 DEF FbSearch, LeftNow
    <3>3. ~Ends(it)
      <4>1. NoLast(b) /\ 1 \in DOMAIN b
        BY <2>2, <3>2, ShapedSorted DEF InRequest
      <4> QED
        BY <4>1 DEF NoLast
    <3>4. ~MayFind(it)
      BY <3>2 DEF MayFind, At
    <3>5. it.cb \in Responses
      BY <2>6 DEF Responses
    <3>6. f = t
      BY <1>2, <2>2, <2>3, <2>6, <3>3, <3>4, <3>5, QuietResponse
    <3>7. OnlyUsed(t, f)
      BY <1>2, <3>6 DEF OnlyUsed, States
    <3> QED
      BY <1>2, <3>6, <3>7 DEF t
  <2> QED
    BY <2>2, <2>4, <2>5, <2>6
<1> QED
  BY <1>5, <1>6

LEMMA FbFrame ==
  ASSUME Typed, InRequest, FbSearch, ~Untimely, Preempts <= 1, Frame
  PROVE  Typed' /\ InRequest' /\ (Resting' \/ FbSearch' \/ SbSearch')
<1> DEFINE t == Ticked(l1s)
           n == l1s'
<1>1. PICK f \in Executed(t), dsp \in BOOLEAN :
        /\ ~HasCommand(l1s.ring[0]) /\ dsp => l1s.abort
        /\ n = After(f, dsp)
  BY FrameIs
<1>2. Interrupted
  BY FrameIs
<1>3. l1s \in States
  BY DEF Typed
<1>4. t \in States /\ t.ring = l1s.ring /\ t.compl = l1s.compl /\ t.failed = l1s.failed
      /\ t.tgt = l1s.tgt /\ t.abort = l1s.abort /\ t.safe = Hyper /\ ~t.wrapped
  <2>1. t \in States /\ t = [l1s EXCEPT !.fn = t.fn, !.used = FALSE, !.wrapped = t.wrapped]
    BY <1>3, TickIs
  <2>2. ~t.wrapped
    BY <1>3, TickClears DEF FbSearch, FbRing
  <2> HIDE DEF t
  <2> QED
    BY <1>3, <2>1, <2>2 DEF States, FbSearch
<1>5. /\ f \in States
      /\ \/ OnlyUsed(t, f)
         \/ /\ Goes(t, f) /\ main.pc \in {"loop", "compl"}
            /\ ~l1s.abort /\ ~HasCommand(l1s.ring[0])
  BY <1>1, <1>2, FbExecuted
<1> HIDE DEF t
<1>6. f.tgt = {} /\ f.safe = Hyper /\ ~f.wrapped
  <2>1. t.tgt = {}
    BY <1>4 DEF FbSearch
  <2> QED
    BY <1>4, <1>5, <2>1 DEF OnlyUsed, Goes, SameTasks, States
<1>7. /\ n \in States /\ ~n.abort /\ Unchanged(f, n) /\ Shifted(f, n) /\ n.tasks = {}
      /\ n.safe = f.safe /\ n.wrapped = f.wrapped
      /\ n.r = IF f.abort THEN 0 ELSE IF f.used THEN 1 - f.r ELSE f.r
      /\ n.w = IF dsp THEN 1 - (IF f.abort THEN 0 ELSE f.w) ELSE (IF f.abort THEN 0 ELSE f.w)
  BY <1>1, <1>5, <1>6, IdleAfter
<1> HIDE DEF n
<1>8. n.tgt = {} /\ n.safe = Hyper /\ ~n.wrapped /\ host = "wait" /\ ~l1s.compl
  BY <1>6, <1>7 DEF Unchanged, FbSearch
<1>9. \A i \in 0..Ahead : i < Ahead => i + 1 \in 1..Ahead
  BY Sizes
<1>10. ASSUME OnlyUsed(t, f) \/ f = t
       PROVE  Typed' /\ InRequest' /\ FbSearch'
  <2>1. f.ring = l1s.ring /\ ~f.compl
    BY <1>4, <1>8, <1>10 DEF OnlyUsed, States
  <2>2. \A i \in 0..Ahead : n.ring[i] = IF i < Ahead THEN l1s.ring[i + 1] ELSE <<>>
    BY <1>7, <2>1 DEF Shifted
  <2>3. \A i \in 0..Ahead : FbBucket(n.ring[i])
    BY <1>9, <2>2, NoneLeft DEF FbSearch
  <2>4. ~n.compl
    BY <1>7, <2>1 DEF Unchanged
  <2>5. main.pc \in {"mframe", "tdma"} => NoLast(n.ring[0])
    <3>1. SUFFICES ASSUME main.pc \in {"mframe", "tdma"}
                   PROVE  NoLast(n.ring[0])
      OBVIOUS
    <3>2. NoLast(l1s.ring[1])
      BY <1>2, <3>1 DEF Interrupted, InRequest
    <3>3. n.ring[0] = l1s.ring[1]
      BY <2>2, Sizes
    <3> QED
      BY <3>2, <3>3
  <2>6. Typed' /\ InRequest'
    BY <1>2, <1>7, <2>4, <2>5, FrameRequest DEF n
  <2>7. main.pc = "fill" => \A i \in (main.next + 1)..Ahead : n.ring[i] = <<>>
    <3> SUFFICES ASSUME main.pc = "fill", NEW i \in (main.next + 1)..Ahead
                 PROVE  n.ring[i] = <<>>
      OBVIOUS
    <3>1. main.next \in Nat
      BY DEF Typed, Mains
    <3>2. i \in 0..Ahead /\ (i < Ahead => i + 1 \in (main.next + 1)..Ahead)
      BY <3>1, Sizes
    <3>3. \A j \in (main.next + 1)..Ahead : l1s.ring[j] = <<>>
      BY DEF FbSearch
    <3> QED
      BY <2>2, <3>2, <3>3
  <2>8. /\ main'.pc = main.pc /\ main'.next = main.next /\ host' = "wait"
        /\ main'.pc = "fill" => main'.irqs # 0
    BY <1>2, <1>8 DEF Interrupted
  <2>9. /\ n.tgt = {} /\ ~n.compl /\ FbBucket(n.ring[0]) /\ ~n.abort
        /\ \A i \in 1..Ahead : FbBucket(n.ring[i])
    BY <1>7, <1>8, <2>3, <2>4, Sizes
  <2>10. main'.pc \in {"loop", "compl", "mframe", "tdma", "fill"}
    BY <2>8 DEF FbSearch
  <2>11. main'.pc = "fill" =>
           /\ \A i \in (main'.next + 1)..Ahead : n.ring[i] = <<>>
           /\ main'.irqs # 0
    BY <2>7, <2>8
  <2>12. FbSearch'
    BY <1>8, <2>8, <2>9, <2>10, <2>11 DEF FbSearch, n, FbBucket
  <2> QED
    BY <2>6, <2>12
<1>11. ASSUME Goes(t, f), f # t, main.pc \in {"loop", "compl"}, ~l1s.abort,
              ~HasCommand(l1s.ring[0])
       PROVE  Typed' /\ InRequest' /\ (Resting' \/ FbSearch' \/ SbSearch')
  <2>1. Typed' /\ InRequest'
    BY <1>2, <1>7, <1>8, <1>11, FrameRequest DEF n
  <2>2. main'.pc \in {"loop", "compl"} /\ host' = "wait" /\ main'.pc # "fill"
    BY <1>2, <1>8, <1>11 DEF Interrupted
  <2>3. CASE FbRing(f) /\ f.compl = t.compl
    <3>1. \A i \in 0..Ahead : FbBucket(n.ring[i])
      BY <1>7, <1>9, <2>3, NoneLeft DEF FbRing, Shifted
    <3>2. /\ n.tgt = {} /\ ~n.compl /\ FbBucket(n.ring[0]) /\ ~n.abort
          /\ \A i \in 1..Ahead : FbBucket(n.ring[i])
      BY <1>4, <1>7, <1>8, <2>3, <3>1, Sizes DEF Unchanged
    <3>3. FbSearch'
      BY <1>8, <2>2, <3>2 DEF FbSearch, n, FbBucket
    <3> QED
      BY <2>1, <3>3
  <2>4. CASE EmptyRing(f) /\ f.compl /\ f.failed
    <3>1. \A i \in 0..Ahead : n.ring[i] = <<>>
      BY <1>7, <1>9, <2>4 DEF EmptyRing, Shifted
    <3>2. /\ n.tgt = {} /\ n.failed /\ Left(n.ring[0]) /\ Shaped(n.ring[0])
          /\ \A i \in 1..Ahead : n.ring[i] = <<>>
      BY <1>7, <1>8, <2>4, <3>1, NoneLeft, Sizes DEF Unchanged
    <3>3. Resting'
      BY <1>8, <2>2, <3>2 DEF Resting, n, LeftNow, Left, Leftovers, Shaped, Ends
    <3> QED
      BY <2>1, <3>3
  <2>5. CASE SbRing(f) /\ f.compl = t.compl /\ f.w = 0 /\ f.r = 0 /\ ~f.used
    <3>1. ~dsp /\ ~f.abort
      BY <1>1, <1>4, <1>11 DEF Goes
    <3>2. n.w = 0 /\ n.r = 0
      BY <1>7, <2>5, <3>1
    <3>3. ASSUME NEW i \in 0..Ahead
          PROVE  n.ring[i] = SbBucket(i, Gap + 3, 0)
      <4>1. i + 5 - (Gap + 3) = i + 2 - Gap /\ Gap > 0 /\ Gap \in Nat /\ i \in Nat
        BY Sizes
      <4>2. SbBucket(i, Gap + 3, 0) =
              IF i + 2 - Gap \in {1, 2, 4, 5} THEN <<SbItem(i + 2 - Gap, None)>> ELSE <<>>
        BY <4>1 DEF SbBucket, SbPage
      <4>3. CASE i < Ahead
        <5>1. i + 1 \in 1..Ahead /\ (i + 1) + 1 - Gap = i + 2 - Gap
          BY <4>1, <4>3, Sizes
        <5>2. n.ring[i] = f.ring[i + 1]
          BY <1>7, <4>3 DEF Shifted
        <5>3. f.ring[i + 1] = IF i + 2 - Gap \in 1..5 THEN SbSet[i + 2 - Gap] ELSE <<>>
          BY <2>5, <5>1 DEF SbRing
        <5>4. CASE i + 2 - Gap \in {1, 2, 4, 5}
          BY <4>2, <5>2, <5>3, <5>4, SbSetIs
        <5>5. CASE i + 2 - Gap = 3
          BY <4>2, <5>2, <5>3, <5>5, SbSetIs
        <5>6. CASE i + 2 - Gap \notin 1..5
          BY <4>1, <4>2, <5>2, <5>3, <5>6
        <5> QED
          BY <4>1, <5>4, <5>5, <5>6
      <4>4. CASE i = Ahead
        <5>1. i + 2 - Gap > 5
          BY <4>4, Sizes
        <5>2. n.ring[i] = <<>>
          BY <1>7, <4>4, Sizes DEF Shifted
        <5> QED
          BY <4>2, <5>1, <5>2
      <4> QED
        BY <4>3, <4>4, Sizes
    <3>4. Gap + 3 \in 0..(Gap + 3) /\ Gap + 3 \notin {0, 3}
      BY Sizes
    <3>5. ~n.compl
      BY <1>4, <1>7, <1>8, <2>5 DEF Unchanged
    <3>6. /\ \A i \in 0..Ahead : n.ring[i] = SbBucket(i, Gap + 3, n.r)
          /\ n.w = IF Gap + 3 \in {0, 3} THEN 1 - n.r ELSE n.r
      BY <3>2, <3>3, <3>4
    <3>7. SbSearch'
      BY <1>7, <1>8, <2>2, <3>4, <3>5, <3>6 DEF SbSearch, n, SbBucket, SbPage, SbItem
    <3> QED
      BY <2>1, <3>7
  <2> QED
    BY <1>11, <2>3, <2>4, <2>5 DEF Goes
<1> QED
  BY <1>5, <1>10, <1>11
-----------------------------------------------------------------------------
(* Blocks.                                                                   *)

\* The next frame, in a cycle.
LEMMA ModNext ==
  ASSUME NEW x \in Nat, NEW n \in Nat \ {0}
  PROVE  (x + 1) % n = IF x % n = n - 1 THEN 0 ELSE (x % n) + 1
<1> DEFINE r == x % n
           q == x \div n
<1>1. r \in 0..(n - 1) /\ q \in Int /\ x = n * q + r
  BY Remainder
<1> HIDE DEF r, q
<1>2. CASE r = n - 1
  <2>1. x + 1 = n * (q + 1) + 0
    BY <1>1, <1>2, Z3
  <2>2. 0 \in 0..(n - 1) /\ q + 1 \in Int
    BY <1>1
  <2>3. (n * (q + 1) + 0) % n = 0
    BY <2>2, RemainderIs
  <2> QED
    BY <1>2, <2>1, <2>3 DEF r
<1>3. CASE r # n - 1
  <2>1. x + 1 = n * q + (r + 1)
    BY <1>1
  <2>2. r + 1 \in 0..(n - 1)
    BY <1>1, <1>3
  <2>3. (n * q + (r + 1)) % n = r + 1
    BY <1>1, <2>2, RemainderIs
  <2> QED
    BY <1>3, <2>1, <2>3 DEF r
<1> QED
  BY <1>2, <1>3

LEMMA ModTick ==
  ASSUME NEW fn \in Nat, NEW a \in Nat, NEW k \in Nat,
         (fn + 2) % Cycle = (a + k) % Cycle
  PROVE  ((fn + 1) + 2) % Cycle = (a + (k + 1)) % Cycle
<1> DEFINE N(r) == IF r = Cycle - 1 THEN 0 ELSE r + 1
<1>1. Cycle \in Nat \ {0}
  BY Sizes
<1>2. \A x \in Nat : (x + 1) % Cycle = N(x % Cycle)
  BY <1>1, ModNext
<1> HIDE DEF N
<1>3. ((fn + 2) + 1) % Cycle = N((fn + 2) % Cycle) /\ ((a + k) + 1) % Cycle = N((a + k) % Cycle)
  BY <1>2
<1>4. (fn + 2) + 1 = (fn + 1) + 2 /\ (a + k) + 1 = a + (k + 1)
  OBVIOUS
<1> QED
  BY <1>3, <1>4

\* The bursts of a ring that holds blocks.
Bursts(c) == c \in [Nat -> 0..4] /\ \A i \in Nat : i > 5 => c[i] = 4

LEMMA NbShift ==
  ASSUME NEW f, NEW n, NEW c, Bursts(c), NEW r,
         \A i \in 1..Ahead : f.ring[i] = NbBucket(i - 1, c, r), Shifted(f, n)
  PROVE  \A i \in 0..Ahead : n.ring[i] = NbBucket(i, c, r)
<1> SUFFICES ASSUME NEW i \in 0..Ahead
             PROVE  n.ring[i] = NbBucket(i, c, r)
  OBVIOUS
<1>1. CASE i < Ahead
  <2>1. i + 1 \in 1..Ahead /\ (i + 1) - 1 = i
    BY <1>1, Sizes
  <2>2. n.ring[i] = f.ring[i + 1]
    BY <1>1 DEF Shifted
  <2> QED
    BY <2>1, <2>2
<1>2. CASE i = Ahead
  <2>1. i \in Nat /\ i + 2 \in Nat /\ i > 5 /\ i + 2 > 5
    BY <1>2, Sizes
  <2>2. c[i] = 4 /\ c[i + 2] = 4
    BY <2>1 DEF Bursts
  <2>3. n.ring[i] = <<>>
    <3>1. ~(i < Ahead)
      BY <1>2, Sizes
    <3> QED
      BY <3>1 DEF Shifted
  <2> QED
    BY <2>2, <2>3 DEF NbBucket
<1> QED
  BY <1>1, <1>2, Sizes

\* The bursts when a block has been scheduled.
With(c) == [j \in Nat |-> IF j \in 2..5 THEN j - 2 ELSE c[j]]

LEMMA WithIs ==
  ASSUME NEW c, Bursts(c)
  PROVE  /\ Bursts(With(c)) /\ With(c)[0] = c[0] /\ With(c)[1] = c[1]
         /\ With(c)[2] = 0 /\ With(c)[3] = 1 /\ With(c)[4] = 2 /\ With(c)[5] = 3
         /\ \A j \in Nat : j > 5 => With(c)[j] = 4
<1>1. With(c) \in [Nat -> 0..4]
  BY DEF Bursts, With
<1> QED
  BY <1>1 DEF Bursts, With

LEMMA Joined ==
  ASSUME NEW x, NEW y, NEW q
  PROVE  /\ <<>> \o <<x>> = <<x>> /\ <<x>> \o <<y>> = <<x, y>>
         /\ <<>> \o <<x, y>> = <<x, y>>
<1> DEFINE T == {x, y}
<1>1. x \in T /\ y \in T
  OBVIOUS
<1> HIDE DEF T
<1>2. <<x>> \in Seq(T) /\ <<y>> \in Seq(T) /\ <<x, y>> \in Seq(T)
  BY <1>1
<1>3. \A s \in Seq(T) : <<>> \o s = s
  OBVIOUS
<1>4. <<x>> \o <<y>> = <<x, y>>
  <2> DEFINE s == <<x>> \o <<y>>
  <2>1. s \in Seq(T) /\ Len(s) = 2 /\ s[1] = x /\ s[2] = y
    BY <1>1, <1>2
  <2> HIDE DEF s
  <2>2. s = <<x, y>>
    BY <1>1, <2>1
  <2> QED
    BY <2>2 DEF s
<1> QED
  BY <1>2, <1>3, <1>4

LEMMA NbStart ==
  ASSUME NEW f, NEW n, NEW c, Bursts(c), NEW r,
         \A i \in 1..Ahead : f.ring[i] = NbBucket(i - 1, c, r), ShiftedOn(f, n),
         \A j \in 2..5 : c[j] = 4
  PROVE  \A i \in 0..Ahead : n.ring[i] = NbBucket(i, With(c), r)
<1> DEFINE e == With(c)
<1>1. /\ e[0] = c[0] /\ e[1] = c[1] /\ e[2] = 0 /\ e[3] = 1 /\ e[4] = 2 /\ e[5] = 3
      /\ \A j \in Nat : j > 5 => e[j] = 4
  BY WithIs
<1>2. c[2] = 4 /\ c[3] = 4 /\ c[4] = 4 /\ c[5] = 4 /\ c[6] = 4 /\ c[7] = 4
      /\ e[6] = 4 /\ e[7] = 4
  BY <1>1 DEF Bursts
<1> HIDE DEF e
<1>3. ASSUME NEW i \in 0..5
      PROVE  n.ring[i] = NbBucket(i, c, r) \o NbSet[i + 1]
  <2>1. i + 1 \in 1..Ahead /\ (i + 1) - 1 = i /\ i \in 0..Ahead
    BY Sizes
  <2>2. n.ring[i] = f.ring[i + 1] \o NbSet[i + 1]
    BY <2>1 DEF ShiftedOn
  <2>3. f.ring[i + 1] = NbBucket(i, c, r)
    BY <2>1
  <2> QED
    BY <2>2, <2>3
<1>4. /\ n.ring[0] = NbBucket(0, c, r) \o NbSet[1] /\ n.ring[1] = NbBucket(1, c, r) \o NbSet[2]
      /\ n.ring[2] = NbBucket(2, c, r) \o NbSet[3] /\ n.ring[3] = NbBucket(3, c, r) \o NbSet[4]
      /\ n.ring[4] = NbBucket(4, c, r) \o NbSet[5] /\ n.ring[5] = NbBucket(5, c, r) \o NbSet[6]
  <2>1. /\ 0 \in 0..5 /\ 1 \in 0..5 /\ 2 \in 0..5 /\ 3 \in 0..5 /\ 4 \in 0..5 /\ 5 \in 0..5
        /\ 0 + 1 = 1 /\ 1 + 1 = 2 /\ 2 + 1 = 3 /\ 3 + 1 = 4 /\ 4 + 1 = 5 /\ 5 + 1 = 6
    OBVIOUS
  <2> QED
    BY <1>3, <2>1
<1>5. n.ring[0] = NbBucket(0, e, r)
  <2>1. n.ring[0] = NbBucket(0, c, r) \o <<Burst("nb_cmd", 0, None)>>
    BY <1>4, NbSetIs
  <2>2. NbPage(0, c, r) = r /\ NbPage(0, e, r) = r
    BY DEF NbPage
  <2>3. CASE c[0] = 4
    BY <1>1, <1>2, <2>1, <2>3, Joined DEF NbBucket
  <2>4. CASE c[0] # 4
    <3>1. NbBucket(0, c, r) = <<Burst("nb_resp", c[0], r)>>
      BY <1>2, <2>2, <2>4 DEF NbBucket
    <3>2. NbBucket(0, e, r) = <<Burst("nb_resp", c[0], r), Burst("nb_cmd", 0, None)>>
      BY <1>1, <2>2, <2>4 DEF NbBucket
    <3> QED
      BY <2>1, <3>1, <3>2, Joined
  <2> QED
    BY <2>3, <2>4
<1>6. n.ring[1] = NbBucket(1, e, r)
  <2>1. n.ring[1] = NbBucket(1, c, r) \o <<Burst("nb_cmd", 1, None)>>
    BY <1>4, NbSetIs
  <2>2. NbPage(1, c, r) = NbPage(1, e, r)
    BY <1>1 DEF NbPage
  <2> DEFINE p == NbPage(1, e, r)
  <2> HIDE DEF p
  <2>3. CASE c[1] = 4
    BY <1>1, <1>2, <2>1, <2>3, Joined DEF NbBucket
  <2>4. CASE c[1] # 4
    <3>1. NbBucket(1, c, r) = <<Burst("nb_resp", c[1], p)>>
      BY <1>2, <2>2, <2>4 DEF NbBucket, p
    <3>2. NbBucket(1, e, r) = <<Burst("nb_resp", c[1], p), Burst("nb_cmd", 1, None)>>
      BY <1>1, <2>2, <2>4 DEF NbBucket, p
    <3> QED
      BY <2>1, <3>1, <3>2, Joined
  <2> QED
    BY <2>3, <2>4
<1>7. NbBucket(2, c, r) = <<>> /\ NbBucket(3, c, r) = <<>>
      /\ NbBucket(4, c, r) = <<>> /\ NbBucket(5, c, r) = <<>>
  BY <1>2 DEF NbBucket
<1>8. NbPage(2, e, r) = None /\ NbPage(3, e, r) = None /\ NbPage(4, e, r) = None
      /\ NbPage(5, e, r) = None
  BY DEF NbPage
<1>9. /\ NbBucket(2, e, r) = <<Burst("nb_resp", 0, None), Burst("nb_cmd", 2, None)>>
      /\ NbBucket(3, e, r) = <<Burst("nb_resp", 1, None), Burst("nb_cmd", 3, None)>>
      /\ NbBucket(4, e, r) = <<Burst("nb_resp", 2, None)>>
      /\ NbBucket(5, e, r) = <<Burst("nb_resp", 3, None)>>
  BY <1>1, <1>2, <1>8 DEF NbBucket
<1>10. /\ n.ring[2] = NbBucket(2, e, r) /\ n.ring[3] = NbBucket(3, e, r)
      /\ n.ring[4] = NbBucket(4, e, r) /\ n.ring[5] = NbBucket(5, e, r)
  <2>1. <<>> \o NbSet[3] = NbSet[3] /\ <<>> \o NbSet[4] = NbSet[4]
    BY NbSetIs, Joined
  <2>2. <<>> \o NbSet[5] = NbSet[5] /\ <<>> \o NbSet[6] = NbSet[6]
    BY NbSetIs, Joined
  <2>3. /\ n.ring[2] = NbSet[3] /\ n.ring[3] = NbSet[4]
        /\ n.ring[4] = NbSet[5] /\ n.ring[5] = NbSet[6]
    BY <1>4, <1>7, <2>1, <2>2
  <2> QED
    BY <1>9, <2>3, NbSetIs
<1>11. ASSUME NEW i \in 6..Ahead
       PROVE  n.ring[i] = NbBucket(i, e, r)
  <2>1. i \in Nat /\ i + 2 \in Nat /\ i > 5 /\ i + 2 > 5 /\ i \notin 0..5 /\ i \in 0..Ahead
    BY Sizes
  <2>2. c[i] = 4 /\ c[i + 2] = 4 /\ e[i] = 4 /\ e[i + 2] = 4
    BY <1>1, <2>1 DEF Bursts
  <2>3. NbBucket(i, c, r) = <<>> /\ NbBucket(i, e, r) = <<>>
    BY <2>2 DEF NbBucket
  <2>4. n.ring[i] = IF i < Ahead THEN f.ring[i + 1] ELSE <<>>
    BY <2>1 DEF ShiftedOn
  <2>5. i < Ahead => i + 1 \in 1..Ahead /\ (i + 1) - 1 = i
    BY <2>1, Sizes
  <2> QED
    BY <2>3, <2>4, <2>5
<1>12. \A i \in 0..Ahead : i = 0 \/ i = 1 \/ i = 2 \/ i = 3 \/ i = 4 \/ i = 5 \/ i \in 6..Ahead
  BY Sizes
<1> QED
  BY <1>5, <1>6, <1>10, <1>11, <1>12 DEF e

LEMMA BurstIs ==
  ASSUME NEW cb \in {"nb_cmd", "nb_resp"}, NEW arg \in 0..4, NEW page \in {0, 1, None}
  PROVE  LET it == Burst(cb, arg, page)
         IN it \in Items /\ it.cb = cb /\ it.arg = arg /\ it.page = page /\ ~Ends(it)
BY Sizes DEF Burst, Items, Commands, Responses, None, Ends

LEMMA NbBuckets ==
  ASSUME NEW c, Bursts(c), NEW i \in Nat, NEW r \in {0, 1}
  PROVE  LET b == NbBucket(i, c, r)
         IN /\ Shaped(b) /\ NoLast(b) /\ (HasCommand(b) <=> c[i + 2] # 4)
            /\ b \in Seq(Items) /\ b \in Seq(Bits) /\ Len(b) <= 2
<1> DEFINE p == NbPage(i, c, r)
           x == Burst("nb_resp", c[i], p)
           y == Burst("nb_cmd", c[i + 2], None)
           b == NbBucket(i, c, r)
<1>1. p \in {0, 1, None} /\ c[i] \in 0..4 /\ c[i + 2] \in 0..4
  BY DEF NbPage, Bursts, None
<1>2. b = IF c[i] = 4 THEN IF c[i + 2] = 4 THEN <<>> ELSE <<y>>
          ELSE IF c[i + 2] = 4 THEN <<x>> ELSE <<x, y>>
  BY DEF NbBucket
<1> HIDE DEF p
<1>3. x \in Items /\ x.cb = "nb_resp" /\ ~Ends(x) /\ y \in Items /\ y.cb = "nb_cmd" /\ ~Ends(y)
  BY <1>1, BurstIs
<1>4. x.cb \notin Commands /\ y.cb \in Commands
  BY <1>3 DEF Commands
<1>n. x \in Bits /\ y \in Bits
  BY <1>3 DEF Bits
<1> HIDE DEF x, y, b
<1>5. CASE b = <<>>
  <2>1. c[i + 2] = 4 /\ b \in Seq(Items) /\ b \in Seq(Bits) /\ Len(b) = 0
    BY <1>2, <1>5
  <2> QED
    BY <1>5, <2>1, NoneLeft DEF b, Left
<1>6. CASE b = <<y>> /\ c[i + 2] # 4
  <2>1. b \in Seq(Items) /\ Len(b) = 1 /\ DOMAIN b = {1} /\ b[1] = y
    BY <1>3, <1>6
  <2>2. b \in Seq(Bits)
    BY <1>6, <1>n
  <2> QED
    BY <1>3, <1>4, <1>6, <2>1, <2>2 DEF b, Shaped, NoLast, HasCommand
<1>7. CASE b = <<x>> /\ c[i + 2] = 4
  <2>1. b \in Seq(Items) /\ Len(b) = 1 /\ DOMAIN b = {1} /\ b[1] = x
    BY <1>3, <1>7
  <2>2. b \in Seq(Bits)
    BY <1>7, <1>n
  <2> QED
    BY <1>3, <1>4, <1>7, <2>1, <2>2 DEF b, Shaped, NoLast, HasCommand
<1>8. CASE b = <<x, y>> /\ c[i + 2] # 4
  <2>1. b \in Seq(Items) /\ Len(b) = 2 /\ DOMAIN b = {1, 2} /\ b[1] = x /\ b[2] = y
    BY <1>3, <1>8
  <2>2. b \in Seq(Bits)
    BY <1>8, <1>n
  <2> QED
    BY <1>3, <1>4, <1>8, <2>1, <2>2 DEF b, Shaped, NoLast, HasCommand
<1> QED
  BY <1>2, <1>5, <1>6, <1>7, <1>8

\* Whatever blocks consist of ends no step of a search.
LEMMA BitsQuiet ==
  ASSUME NEW b \in Seq(Bits)
  PROVE  NoLast(b)
<1> SUFFICES ASSUME NEW i \in DOMAIN b
             PROVE  ~Ends(b[i])
  BY DEF NoLast
<1>1. b[i] \in Bits
  OBVIOUS
<1> QED
  BY <1>1 DEF Bits, Ends

LEMMA NbBits ==
  \A k \in 1..6 : NbSet[k] \in Seq(Bits)
<1>1. ASSUME NEW k \in 0..3
      PROVE  Burst("nb_cmd", k, None) \in Bits /\ Burst("nb_resp", k, None) \in Bits
  <2>1. k \in 0..4 /\ None \in {0, 1, None}
    OBVIOUS
  <2> QED
    BY <2>1, BurstIs DEF Bits
<1>2. \A x, y \in Bits : <<x>> \in Seq(Bits) /\ <<x, y>> \in Seq(Bits)
  OBVIOUS
<1>3. \A k \in 0..3 : <<Burst("nb_cmd", k, None)>> \in Seq(Bits)
                      /\ <<Burst("nb_resp", k, None)>> \in Seq(Bits)
  BY <1>1, <1>2
<1>4. \A k, m \in 0..3 : <<Burst("nb_resp", k, None), Burst("nb_cmd", m, None)>> \in Seq(Bits)
  BY <1>1, <1>2
<1>5. /\ NbSet[1] \in Seq(Bits) /\ NbSet[2] \in Seq(Bits) /\ NbSet[5] \in Seq(Bits)
      /\ NbSet[6] \in Seq(Bits)
  BY <1>3, NbSetIs
<1>6. NbSet[3] \in Seq(Bits) /\ NbSet[4] \in Seq(Bits)
  BY <1>4, NbSetIs
<1>7. \A k \in 1..6 : k = 1 \/ k = 2 \/ k = 3 \/ k = 4 \/ k = 5 \/ k = 6
  OBVIOUS
<1> QED
  BY <1>5, <1>6, <1>7

\* The frame in which the frame number wraps over a block, and those after it.
LEMMA BitsGoOn ==
  ASSUME NEW f \in States, NEW dsp \in BOOLEAN, l1s' = After(f, dsp), Interrupted,
         f.tgt \in {{}, {"ccch"}, {"dedic"}}, \A i \in 1..Ahead : f.ring[i] \in Seq(Bits),
         l1s'.wrapped, main.pc \in {"loop", "compl", "mframe", "tdma"},
         main.pc = "tdma" => f.tgt = {} /\ f.safe = Hyper,
         f.wrapped /\ f.safe = Hyper => main.pc = "tdma"
  PROVE  Unruly'
<1> DEFINE n == l1s'
<1>1. /\ n \in States /\ Unchanged(f, n)
      /\ \/ Shifted(f, n) /\ n.safe = f.safe /\ n.wrapped = f.wrapped
         \/ /\ ShiftedOn(f, n) /\ Further(f, n)
            /\ \E t \in Now(f) : (f.fn + 2) % Cycle \in Trigger[t]
  BY AfterIs
<1>2. n.tgt = f.tgt /\ main'.pc = main.pc
  BY <1>1 DEF Unchanged, Interrupted
<1> HIDE DEF n
<1>3. <<>> \in Seq(Bits)
  OBVIOUS
<1>4. \A i \in 0..Ahead : i < Ahead => i + 1 \in 1..Ahead
  BY Sizes
<1>5. ASSUME \A i \in 0..Ahead : n.ring[i] \in Seq(Bits), n.safe = Hyper <=> main.pc = "tdma"
      PROVE  Unruly'
  BY <1>2, <1>5 DEF Unruly, n, Bits
<1>6. CASE Shifted(f, n) /\ n.safe = f.safe /\ n.wrapped = f.wrapped
  <2>1. \A i \in 0..Ahead : n.ring[i] \in Seq(Bits)
    BY <1>3, <1>4, <1>6 DEF Shifted
  <2>2. n.safe = Hyper <=> main.pc = "tdma"
    BY <1>6 DEF n
  <2> QED
    BY <1>5, <2>1, <2>2
<1>7. CASE ShiftedOn(f, n) /\ Further(f, n) /\ Now(f) # {}
  <2>1. ASSUME NEW i \in 0..Ahead
        PROVE  n.ring[i] \in Seq(Bits)
    <3>1. n.ring[i] = IF i \in 0..5 THEN f.ring[i + 1] \o NbSet[i + 1]
                      ELSE IF i < Ahead THEN f.ring[i + 1] ELSE <<>>
      BY <1>7 DEF ShiftedOn
    <3>2. CASE i \in 0..5
      <4>1. i + 1 \in 1..Ahead /\ i + 1 \in 1..6
        BY <3>2, Sizes
      <4>2. f.ring[i + 1] \in Seq(Bits) /\ NbSet[i + 1] \in Seq(Bits)
        BY <4>1, NbBits
      <4>3. f.ring[i + 1] \o NbSet[i + 1] \in Seq(Bits)
        BY <4>2
      <4> QED
        BY <3>1, <3>2, <4>3
    <3>3. CASE i \notin 0..5
      BY <1>3, <1>4, <3>1, <3>3
    <3> QED
      BY <3>2, <3>3
  <2>2. n.safe # Hyper /\ main.pc # "tdma"
    BY <1>7 DEF Further, Now
  <2> QED
    BY <1>5, <2>1, <2>2
<1> QED
  BY <1>1, <1>6, <1>7 DEF n

\* A frame that leaves blocks in the ring, or begins one.
LEMMA BlocksGoOn ==
  ASSUME NEW f \in States, NEW dsp \in BOOLEAN, NEW c, Bursts(c),
         f.tgt \in {{}, {"ccch"}, {"dedic"}}, Soon(f), Due(f) <= 3, ~f.wrapped,
         l1s' = After(f, dsp), Interrupted,
         \A i \in 1..Ahead : f.ring[i] = NbBucket(i - 1, c, l1s'.r),
         l1s'.w = IF (c[0] = 4) = (c[1] = 4) THEN l1s'.r ELSE 1 - l1s'.r,
         \A i \in 0..3 : c[i + 2] # 4 => (i < Due(f) \/ main.pc = "tdma"),
         Due(f) > 0 => \A t \in Now(f) : \E a \in Trigger[t] :
                          (f.fn + 2) % Cycle = (a + (4 - Due(f))) % Cycle,
         main.pc \in {"loop", "compl", "mframe", "tdma"},
         main.pc = "tdma" => f.tgt = {} /\ f.safe = Hyper
  PROVE  Blocks' \/ Unruly'
<1> DEFINE n == l1s'
<1>1. /\ n \in States /\ ~n.abort /\ Unchanged(f, n) /\ n.tasks = Now(f)
      /\ \/ Shifted(f, n) /\ n.safe = f.safe /\ n.wrapped = f.wrapped
         \/ /\ ShiftedOn(f, n) /\ Further(f, n)
            /\ \E t \in Now(f) : (f.fn + 2) % Cycle \in Trigger[t]
  BY AfterIs
<1>2. n.tgt = f.tgt /\ n.fn = f.fn
  BY <1>1 DEF Unchanged
<1>3. main'.pc = main.pc
  BY DEF Interrupted
<1>4. Due(f) \in 0..4 /\ f.fn \in Nat /\ Cycle \in Nat \ {0} /\ f.tgt \subseteq Tasks
  <2>1. Due(f) \in 0..4 /\ f.fn \in 0..(Hyper - 1) /\ f.tgt \in SUBSET Tasks
    BY DueIs DEF States
  <2>2. Cycle \in Nat \ {0}
    BY Sizes
  <2> QED
    BY <2>1, <2>2
<1> DEFINE Pages(d) == n.w = IF (d[0] = 4) = (d[1] = 4) THEN n.r ELSE 1 - n.r
           Held(d) == \A i \in 0..Ahead : n.ring[i] = NbBucket(i, d, n.r)
           Safe(d) == \A i \in 0..3 : d[i + 2] # 4 => (i < Due(n) \/ main.pc = "tdma")
           Begun == Due(n) > 0 => \A t \in n.tasks : \E a \in Trigger[t] :
                                     (n.fn + 2) % Cycle = (a + (4 - Due(n))) % Cycle
<1>5. ASSUME NEW d, Bursts(d), Pages(d), Held(d), Safe(d), Begun, Soon(n), ~n.wrapped,
             main.pc = "tdma" => n.safe = Hyper
      PROVE  Blocks'
  <2>1. d \in [Nat -> 0..4] /\ \A i \in Nat : i > 5 => d[i] = 4
    BY <1>5 DEF Bursts
  <2>2. /\ main'.pc \in {"loop", "compl", "mframe", "tdma"}
        /\ main'.pc = "tdma" => n.tgt = {} /\ n.safe = Hyper
        /\ \A i \in 0..3 : d[i + 2] # 4 => (i < Due(n) \/ main'.pc = "tdma")
    BY <1>2, <1>3, <1>5
  <2>3. ~n.abort /\ n.tgt \in {{}, {"ccch"}, {"dedic"}}
    BY <1>1, <1>2
  <2> QED
    BY <1>5, <2>1, <2>2, <2>3 DEF Blocks, NbBucket, NbPage, Burst, Soon, Due
<1>6. CASE Shifted(f, n) /\ n.safe = f.safe /\ n.wrapped = f.wrapped
  <2>1. Held(c)
    BY <1>6, NbShift
  <2>2. Due(n) = Due(f) /\ Soon(n)
    BY <1>2, <1>6 DEF Due, Soon
  <2>3. Begun
    BY <1>1, <1>2, <2>2
  <2> QED
    BY <1>5, <1>6, <2>1, <2>2, <2>3
<1>7. CASE /\ ShiftedOn(f, n) /\ Further(f, n) /\ ~n.wrapped
           /\ \E t \in Now(f) : (f.fn + 2) % Cycle \in Trigger[t]
  <2>1. PICK t \in Now(f) : (f.fn + 2) % Cycle \in Trigger[t]
    BY <1>7
  <2>2. t \in Tasks /\ Now(f) \subseteq {t} /\ Trigger[t] \in SUBSET (0..(Cycle - 1))
    <3>1. Now(f) \subseteq f.tgt
      BY DEF Now
    <3>2. t \in Tasks
      BY <1>4, <2>1, <3>1
    <3> QED
      BY <2>1, <3>1, <3>2, L1SyncAssumption
  <2>3. Due(f) = 0
    <3> SUFFICES ASSUME Due(f) # 0
                 PROVE  FALSE
      OBVIOUS
    <3>1. PICK a \in Trigger[t] : (f.fn + 2) % Cycle = (a + (4 - Due(f))) % Cycle
      BY <1>4, <2>1
    <3> DEFINE k == 4 - Due(f)
    <3>2. k \in 1..3
      BY <1>4
    <3>3. (a + k) % Cycle \notin Trigger[t]
      BY <2>2, <3>2, BlocksApart
    <3> QED
      BY <2>1, <3>1, <3>3
  <2>4. main.pc # "tdma" /\ Due(n) = 4 /\ Soon(n)
    <3>1. main.pc # "tdma"
      BY <2>1 DEF Now
    <3>2. n.safe = f.fn + 4 /\ n.safe # Hyper
      BY <1>7 DEF Further
    <3> QED
      BY <1>2, <1>4, <3>1, <3>2 DEF Due, Soon
  <2>5. \A j \in 2..5 : c[j] = 4
    <3> SUFFICES ASSUME NEW j \in 2..5
                 PROVE  c[j] = 4
      OBVIOUS
    <3>1. j - 2 \in 0..3 /\ (j - 2) + 2 = j
      OBVIOUS
    <3>2. ~(j - 2 < 0)
      BY <3>1
    <3> QED
      BY <2>3, <2>4, <3>1, <3>2
  <2>6. Held(With(c))
    BY <1>7, <2>5, NbStart
  <2>7. Bursts(With(c)) /\ With(c)[0] = c[0] /\ With(c)[1] = c[1]
    BY WithIs
  <2>8. Begun
    <3>1. (f.fn + 2) % Cycle \in 0..(Cycle - 1)
      BY <2>1, <2>2
    <3> DEFINE a == (f.fn + 2) % Cycle
    <3>2. a \in Trigger[t] /\ a \in 0..(Cycle - 1)
      BY <2>1, <3>1
    <3> HIDE DEF a
    <3>3. (a + (4 - 4)) % Cycle = a
      <4>1. Cycle * 0 + a = a /\ a + (4 - 4) = a
        BY <1>4, <3>2
      <4>2. (Cycle * 0 + a) % Cycle = a
        BY <1>4, <3>2, RemainderIs
      <4> QED
        BY <4>1, <4>2
    <3>4. (n.fn + 2) % Cycle = (a + (4 - Due(n))) % Cycle
      BY <1>2, <2>4, <3>3 DEF a
    <3> QED
      BY <1>1, <2>2, <3>2, <3>4
  <2>9. Safe(With(c))
    BY <2>4
  <2> QED
    BY <1>5, <1>7, <2>4, <2>6, <2>7, <2>8, <2>9
<1>8. CASE n.wrapped
  <2>1. ASSUME NEW i \in 1..Ahead
        PROVE  f.ring[i] \in Seq(Bits)
    <3>1. i - 1 \in Nat /\ n.r \in {0, 1}
      BY <1>1 DEF States
    <3> QED
      BY <3>1, NbBuckets
  <2> QED
    BY <1>8, <2>1, BitsGoOn
<1> QED
  BY <1>1, <1>6, <1>7, <1>8
-----------------------------------------------------------------------------
(* The search for the SB.                                                    *)

LEMMA SbBuckets ==
  ASSUME NEW i \in Nat, NEW d \in Nat, NEW r \in {0, 1}, NEW k, k = i + 5 - d
  PROVE  LET b == SbBucket(i, d, r)
             it == SbItem(k, SbPage(k, d, r))
         IN /\ Shaped(b) /\ (k # 5 => NoLast(b)) /\ (HasCommand(b) <=> k \in {1, 2})
            /\ k \in {1, 2, 4, 5} => b = <<it>> /\ it \in Items /\ Len(b) = 1
            /\ k \notin {1, 2, 4, 5} => b = <<>>
<1> DEFINE b == SbBucket(i, d, r)
           p == SbPage(k, d, r)
           it == SbItem(k, p)
<1>1. p \in {0, 1, None}
  BY DEF SbPage, None
<1>2. b = IF k \in {1, 2, 4, 5} THEN <<it>> ELSE <<>>
  BY DEF SbBucket
<1> HIDE DEF p, b
<1>3. CASE k \in {1, 2, 4, 5}
  <2>1. b = <<it>>
    BY <1>2, <1>3
  <2>2. it \in Items
    BY <1>1, <1>3, Sizes DEF SbItem, Items, Commands, Responses, None
  <2>3. /\ it.cb \in Commands <=> k \in {1, 2}
        /\ Ends(it) => k = 5
    BY <1>3 DEF SbItem, Commands, Ends
  <2> HIDE DEF it
  <2>4. b \in Seq(Items) /\ Len(b) = 1 /\ b[1] = it /\ DOMAIN b = {1}
    BY <2>1, <2>2
  <2>5. Shaped(b) /\ (k # 5 => NoLast(b)) /\ (HasCommand(b) <=> k \in {1, 2})
    BY <2>3, <2>4 DEF Shaped, NoLast, HasCommand
  <2> QED
    BY <1>3, <2>1, <2>2, <2>4, <2>5 DEF b, it, p
<1>4. CASE k \notin {1, 2, 4, 5}
  <2>1. b = <<>>
    BY <1>2, <1>4
  <2>2. Shaped(b) /\ NoLast(b) /\ ~HasCommand(b)
    BY <2>1, NoneLeft DEF Left
  <2> QED
    BY <1>4, <2>1, <2>2 DEF b
<1> QED
  BY <1>3, <1>4

LEMMA SbRespIs ==
  ASSUME NEW t \in States, NEW it \in Items, it.cb = "sb_resp",
         EmptyRing(t) \/ it.arg # 2, NEW f \in Exec(t, it)
  PROVE  /\ f \in States /\ f.safe = t.safe /\ f.wrapped = t.wrapped
         /\ \/ it.arg # 2 /\ f = [t EXCEPT !.used = TRUE]
            \/ it.arg = 2 /\ f.ring = t.ring /\ f.tgt = t.tgt /\ f.compl /\ f.failed
            \/ /\ MayFind(it) /\ EmptyRing(f) /\ f.tgt = t.tgt \cup {"ccch"}
               /\ f.compl /\ ~f.failed /\ f.w = 0 /\ f.r = 0 /\ ~f.used
               /\ f.tasks = t.tasks
<1> DEFINE u == [t EXCEPT !.used = TRUE]
<1>1. Exec(t, it) = SbResp(t, it)
  BY DEF Exec
<1>2. u \in States /\ u.ring = t.ring /\ SameTasks(t, u)
  BY DEF States, SameTasks
<1>3. CASE f = IF it.arg = 2 THEN Failed(u) ELSE u
  <2>1. CASE it.arg = 2
    <3>1. /\ f \in States /\ f.ring = u.ring /\ SameTasks(u, f) /\ f.compl /\ f.failed
      BY <1>2, <1>3, <2>1, FailedIs
    <3> QED
      BY <1>2, <2>1, <3>1 DEF SameTasks
  <2>2. CASE it.arg # 2
    BY <1>2, <1>3, <2>2 DEF SameTasks
  <2> QED
    BY <2>1, <2>2
<1>4. CASE MayFind(it) /\ \E fn \in 0..(Hyper - 1) :
             f = [ResetHw(IF it.arg = 2 THEN t ELSE [SchedReset(t) EXCEPT !.abort = TRUE])
                    EXCEPT !.failed = FALSE, !.compl = TRUE, !.fn = fn, !.tgt = @ \cup {"ccch"}]
  <2> DEFINE s == SchedReset(t)
             h == IF it.arg = 2 THEN t ELSE [s EXCEPT !.abort = TRUE]
  <2>1. PICK fn \in 0..(Hyper - 1) :
          f = [ResetHw(h) EXCEPT !.failed = FALSE, !.compl = TRUE, !.fn = fn,
                                 !.tgt = @ \cup {"ccch"}]
    BY <1>4
  <2>2. /\ s \in States /\ OnlyRing(t, s) /\ \A i \in 1..Ahead : s.ring[i] = <<>>
    BY SchedResetIs
  <2> HIDE DEF s
  <2>3. h \in States /\ EmptyRing(h) /\ SameTasks(t, h) /\ h.tasks = t.tasks
    <3>1. CASE it.arg = 2
      BY <3>1 DEF SameTasks
    <3>2. CASE it.arg # 2
      <4>1. h = [s EXCEPT !.abort = TRUE]
        BY <3>2
      <4>2. h \in States /\ h.ring = s.ring /\ SameTasks(s, h) /\ h.tasks = s.tasks
        BY <2>2, <4>1 DEF States, SameTasks
      <4>3. SameTasks(t, s) /\ s.tasks = t.tasks
        BY <2>2 DEF OnlyRing, States, SameTasks
      <4> HIDE DEF h
      <4> QED
        BY <2>2, <4>2, <4>3 DEF EmptyRing, SameTasks
    <3> QED
      BY <3>1, <3>2
  <2> HIDE DEF h
  <2>4. "ccch" \in Tasks
    BY DEF Tasks
  <2>5. /\ f \in States /\ f.ring = h.ring /\ f.tgt = h.tgt \cup {"ccch"}
        /\ f.compl = TRUE /\ f.failed = FALSE /\ f.w = 0 /\ f.r = 0 /\ f.used = FALSE
        /\ f.safe = h.safe /\ f.wrapped = h.wrapped /\ f.tasks = h.tasks
    BY <2>1, <2>3, <2>4 DEF ResetHw, States
  <2>6. EmptyRing(f)
    BY <2>3, <2>5 DEF EmptyRing
  <2> QED
    BY <1>4, <2>3, <2>5, <2>6 DEF SameTasks
<1> QED
  BY <1>1, <1>3, <1>4 DEF SbResp

\* A frame of the search for the SB that ends nothing.
LEMMA SbGoesOn ==
  ASSUME Typed, InRequest, Interrupted, ~l1s.compl, host = "wait",
         main.pc \in {"loop", "compl", "mframe", "tdma"},
         NEW d \in 1..(Gap + 3),
         main.pc \in {"mframe", "tdma"} => d # 1,
         NEW f \in States, NEW dsp \in BOOLEAN, l1s' = After(f, dsp),
         f.tgt = {}, f.safe = Hyper, ~f.wrapped, ~f.abort, ~f.compl,
         \A i \in 1..Ahead : f.ring[i] = SbBucket(i - 1, d - 1, l1s'.r),
         l1s'.w = IF d - 1 \in {0, 3} THEN 1 - l1s'.r ELSE l1s'.r
  PROVE  Typed' /\ InRequest' /\ SbSearch'
<1> DEFINE n == l1s'
           e == d - 1
<1>1. /\ n \in States /\ ~n.abort /\ Unchanged(f, n) /\ Shifted(f, n) /\ n.tasks = {}
      /\ n.safe = Hyper /\ ~n.wrapped
  BY IdleAfter
<1>2. e \in 0..(Gap + 3) /\ e \in Nat /\ e <= Gap + 2 /\ n.r \in {0, 1}
  <2>1. n.r \in {0, 1}
    BY <1>1 DEF States
  <2> QED
    BY <2>1, Sizes
<1>3. n.tgt = {} /\ ~n.compl /\ main'.pc = main.pc /\ host' = "wait"
  BY <1>1 DEF Unchanged, Interrupted
<1>4. ASSUME NEW i \in 0..Ahead
      PROVE  n.ring[i] = SbBucket(i, e, n.r)
  <2>1. CASE i < Ahead
    <3>1. i + 1 \in 1..Ahead /\ (i + 1) - 1 = i
      BY <2>1, Sizes
    <3>2. n.ring[i] = f.ring[i + 1]
      BY <1>1, <2>1 DEF Shifted
    <3> QED
      BY <3>1, <3>2
  <2>2. CASE i = Ahead
    <3>1. i \in Nat /\ i + 5 - e > 5 /\ i + 5 - e \in Int
      BY <1>2, <2>2, Sizes
    <3>2. SbBucket(i, e, n.r) = <<>>
      BY <3>1 DEF SbBucket
    <3>3. ~(i < Ahead)
      BY <2>2, Sizes
    <3> QED
      BY <1>1, <3>2, <3>3 DEF Shifted
  <2> QED
    BY <2>1, <2>2, Sizes
<1>5. main.pc \in {"mframe", "tdma"} => NoLast(n.ring[0])
  <2> SUFFICES ASSUME main.pc \in {"mframe", "tdma"}
               PROVE  NoLast(n.ring[0])
    OBVIOUS
  <2> DEFINE k == 0 + 5 - e
  <2>1. 0 \in Nat /\ k # 5 /\ 0 \in 0..Ahead
    BY <1>2, Sizes
  <2>2. NoLast(SbBucket(0, e, n.r))
    <3>1. k = 0 + 5 - e
      OBVIOUS
    <3> HIDE DEF k, e, n
    <3> QED
      BY <1>2, <2>1, <3>1, SbBuckets
  <2> QED
    BY <1>4, <2>1, <2>2
<1>6. Typed' /\ InRequest'
  BY <1>1, <1>3, <1>5, FrameRequest
<1>7. SbSearch'
  <2>1. n.w = IF e \in {0, 3} THEN 1 - n.r ELSE n.r
    OBVIOUS
  <2>2. \A i \in 0..Ahead : n.ring[i] = SbBucket(i, e, n.r)
    BY <1>4
  <2> HIDE DEF e, n
  <2>3. /\ n.tgt = {} /\ n.tasks = {} /\ ~n.abort /\ host' = "wait" /\ ~n.compl
        /\ main'.pc \in {"loop", "compl", "mframe", "tdma"} /\ n.safe = Hyper /\ ~n.wrapped
    BY <1>1, <1>3
  <2> QED
    BY <1>2, <2>1, <2>2, <2>3 DEF SbSearch, n, SbBucket, SbPage, SbItem
<1> QED
  BY <1>6, <1>7

\* The SB was found: blocks of the CCCH may begin.
LEMMA SbIsFound ==
  ASSUME Typed, Interrupted, host = "wait", main.pc \in {"loop", "compl"},
         NEW f \in States, l1s' = After(f, FALSE), EmptyRing(f),
         f.tgt = {"ccch"}, f.tasks = {}, f.w = 0, f.r = 0, ~f.used,
         f.safe = Hyper, ~f.wrapped
  PROVE  Blocks' \/ Unruly'
<1> DEFINE c == [j \in Nat |-> 4]
           n == l1s'
<1>1. n.r = 0 /\ n.w = 0
  BY AfterIs
<1>2. Bursts(c) /\ \A j \in Nat : c[j] = 4
  BY DEF Bursts
<1> HIDE DEF c, n
<1>3. ASSUME NEW i \in 1..Ahead
      PROVE  f.ring[i] = NbBucket(i - 1, c, n.r)
  <2>1. i - 1 \in Nat /\ (i - 1) + 2 \in Nat
    OBVIOUS
  <2>2. NbBucket(i - 1, c, n.r) = <<>>
    BY <1>2, <2>1 DEF NbBucket
  <2> QED
    BY <2>2 DEF EmptyRing
<1>4. n.w = IF (c[0] = 4) = (c[1] = 4) THEN n.r ELSE 1 - n.r
  BY <1>1, <1>2
<1>5. \A i \in 0..3 : c[i + 2] = 4
  BY <1>2
<1>6. Soon(f) /\ Due(f) <= 3 /\ ~(Due(f) > 0) /\ main.pc # "tdma"
  BY DEF Due, Soon
<1> QED
  BY <1>2, <1>3, <1>4, <1>5, <1>6, BlocksGoOn DEF n

LEMMA SbFrame ==
  ASSUME Typed, InRequest, SbSearch, ~Untimely, Preempts <= 1, Frame
  PROVE  Typed' /\ InRequest' /\ (Resting' \/ SbSearch' \/ Blocks' \/ Unruly')
<1> DEFINE t == Ticked(l1s)
           n == l1s'
           r == l1s.r
           b == l1s.ring[0]
<1>1. PICK f \in Executed(t), dsp \in BOOLEAN :
        /\ HasCommand(b) => dsp
        /\ ~HasCommand(b) /\ dsp => l1s.abort
        /\ n = After(f, dsp)
  BY FrameIs
<1>2. Interrupted
  BY FrameIs
<1>3. PICK d \in 0..(Gap + 3) :
        /\ \A i \in 0..Ahead : l1s.ring[i] = SbBucket(i, d, r)
        /\ l1s.w = IF d \in {0, 3} THEN 1 - r ELSE r
  BY DEF SbSearch
<1>4. /\ l1s \in States /\ l1s.tgt = {} /\ l1s.tasks = {} /\ ~l1s.abort
      /\ host = "wait" /\ ~l1s.compl
      /\ main.pc \in {"loop", "compl", "mframe", "tdma"} /\ l1s.safe = Hyper
      /\ ~l1s.wrapped
  BY DEF SbSearch, Typed
<1>5. /\ t \in States /\ t.ring = l1s.ring /\ ~t.compl /\ t.tgt = {} /\ t.tasks = {}
      /\ ~t.abort /\ t.w = l1s.w /\ t.r = r /\ ~t.used /\ t.safe = Hyper /\ ~t.wrapped
  <2>1. /\ t \in States /\ t = [l1s EXCEPT !.fn = t.fn, !.used = FALSE, !.wrapped = t.wrapped]
        /\ ~t.wrapped
    BY <1>4, TickIs, TickClears
  <2> HIDE DEF t
  <2>2. t.ring = l1s.ring /\ t.compl = l1s.compl /\ t.tgt = l1s.tgt /\ t.tasks = l1s.tasks
        /\ t.abort = l1s.abort /\ t.w = l1s.w /\ t.r = r /\ t.used = FALSE
        /\ t.safe = l1s.safe
    BY <1>4, <2>1 DEF States
  <2> QED
    BY <1>4, <2>1, <2>2
<1>6. d \in Nat /\ d \in 0..(Gap + 3) /\ r \in {0, 1} /\ Ahead \in Nat /\ Ahead >= 6
  BY <1>4, Sizes DEF States
<1> HIDE DEF t
<1> DEFINE k == 5 - d
           it == SbItem(k, SbPage(k, d, r))
<1>7. /\ b = SbBucket(0, d, r) /\ Shaped(b) /\ (HasCommand(b) <=> k \in {1, 2})
      /\ k \in {1, 2, 4, 5} => b = <<it>> /\ it \in Items /\ Len(b) = 1
      /\ k \notin {1, 2, 4, 5} => b = <<>>
  <2>1. 0 \in Nat /\ k = 0 + 5 - d /\ 0 \in 0..Ahead
    BY <1>6
  <2>2. b = SbBucket(0, d, r)
    BY <1>3, <2>1
  <2> HIDE DEF k
  <2>3. Shaped(SbBucket(0, d, r)) /\ (HasCommand(SbBucket(0, d, r)) <=> k \in {1, 2})
    BY <1>6, <2>1, SbBuckets
  <2>4. k \in {1, 2, 4, 5} =>
          /\ SbBucket(0, d, r) = <<it>> /\ it \in Items /\ Len(SbBucket(0, d, r)) = 1
    BY <1>6, <2>1, SbBuckets
  <2>5. k \notin {1, 2, 4, 5} => SbBucket(0, d, r) = <<>>
    BY <2>1 DEF SbBucket
  <2> QED
    BY <2>2, <2>3, <2>4, <2>5
<1>8. /\ k \in {1, 2, 4, 5} => f \in Exec(t, it)
      /\ k \notin {1, 2, 4, 5} => f = t
  <2>1. /\ Len(b) = 0 => Executed(t) = {t}
        /\ Len(b) = 1 => Executed(t) = Exec(t, b[1])
    BY <1>5, <1>7, ExecutedIs
  <2>2. CASE k \in {1, 2, 4, 5}
    BY <1>1, <1>7, <2>1, <2>2
  <2>3. CASE k \notin {1, 2, 4, 5}
    <3>1. Len(b) = 0
      BY <1>7, <2>3
    <3> QED
      BY <1>1, <2>1, <2>3, <3>1
  <2> QED
    BY <2>2, <2>3
<1>9. dsp <=> k \in {1, 2}
  BY <1>1, <1>4, <1>7
<1>10. main.pc \in {"mframe", "tdma"} => d \notin {0, 1}
  <2> SUFFICES ASSUME main.pc \in {"mframe", "tdma"}, d \in {0, 1}
               PROVE  FALSE
    OBVIOUS
  <2>1. NoLast(l1s.ring[0]) /\ NoLast(l1s.ring[1])
    BY <1>2 DEF InRequest, Interrupted
  <2>2. d \in Nat /\ 5 = d + 5 - d /\ d \in 0..Ahead
    BY <1>6
  <2>3. NoLast(SbBucket(d, d, r))
    BY <1>3, <2>1, <2>2
  <2>4. /\ SbBucket(d, d, r) = <<SbItem(5, SbPage(5, d, r))>>
        /\ Len(SbBucket(d, d, r)) = 1
        /\ SbBucket(d, d, r)[1] = SbItem(5, SbPage(5, d, r))
    BY <1>6, <2>2, SbBuckets
  <2>5. Ends(SbItem(5, SbPage(5, d, r)))
    BY DEF Ends, SbItem
  <2>6. 1 \in DOMAIN SbBucket(d, d, r)
    BY <2>4
  <2> QED
    BY <2>3, <2>4, <2>5, <2>6 DEF NoLast
<1> DEFINE w == IF d \in {0, 3} THEN 1 - r ELSE r
<1>11. ASSUME f \in States, f.tgt = {}, ~f.abort
       PROVE  /\ n.r = IF f.used THEN 1 - f.r ELSE f.r
              /\ n.w = IF dsp THEN 1 - f.w ELSE f.w
  BY <1>1, <1>11, IdleAfter
<1>12. CASE d \notin {0, 1, 3, 4}
  <2>1. k \notin {1, 2, 4, 5} /\ d \in 1..(Gap + 3) /\ d \notin {0, 1, 3}
    BY <1>6, <1>12
  <2>2. f = t /\ ~dsp
    BY <1>8, <1>9, <2>1
  <2>3. n.r = r /\ n.w = r /\ d - 1 \notin {0, 3}
    BY <1>3, <1>5, <1>6, <1>11, <1>12, <2>1, <2>2
  <2>4. ASSUME NEW i \in 1..Ahead
        PROVE  f.ring[i] = SbBucket(i - 1, d - 1, r)
    <3>1. i \in 0..Ahead /\ i \in Nat /\ (i - 1) + 5 - (d - 1) = i + 5 - d
      BY <1>6
    <3>2. f.ring[i] = SbBucket(i, d, r)
      BY <1>3, <1>5, <2>2, <3>1
    <3> DEFINE j == i + 5 - d
    <3>3. j \in Int
      BY <1>6
    <3>4. j \in {1, 2, 4, 5} => SbPage(j, d, r) = SbPage(j, d - 1, r)
      <4>1. CASE d = 2
        BY <4>1 DEF SbPage
      <4>2. CASE d # 2
        <5>1. d >= 5
          BY <1>6, <1>12, <4>2
        <5> QED
          BY <5>1 DEF SbPage
      <4> QED
        BY <4>1, <4>2
    <3> HIDE DEF j
    <3> QED
      BY <3>1, <3>2, <3>4 DEF SbBucket, j
  <2> QED
    BY <1>1, <1>2, <1>4, <1>5, <1>10, <2>1, <2>2, <2>3, <2>4, SbGoesOn
<1>13. CASE d = 4 \/ d = 3
  <2> DEFINE arg == IF d = 4 THEN 1 ELSE 2
             h == Tagged(t, "sb_resp", arg, 3)
  <2>1. k = arg /\ k \in {1, 2} /\ d \in 1..(Gap + 3) /\ 3 \in 0..Ahead /\ arg \in {1, 2}
    BY <1>6, <1>13, Sizes
  <2>2. f = h /\ dsp
    <3>1. it.cb = "sb_cmd" /\ it.arg = arg
      BY <2>1 DEF SbItem
    <3>2. f \in Exec(t, it)
      BY <1>8, <2>1
    <3> HIDE DEF it, h, arg
    <3>3. Exec(t, it) = {Tagged(t, "sb_resp", it.arg, 3)}
      BY <3>1 DEF Exec
    <3> QED
      BY <1>9, <2>1, <3>1, <3>2, <3>3 DEF h
  <2>3. /\ h \in States /\ OnlyRing(t, h)
        /\ \A j \in 0..Ahead : j # 3 => h.ring[j] = t.ring[j]
        /\ h.ring[3] \in Seq(Items) /\ Len(h.ring[3]) = Len(t.ring[3])
        /\ \A i \in 1..Len(t.ring[3]) :
             h.ring[3][i] = TagOf(t.ring[3][i], "sb_resp", arg, t.w)
    <3> HIDE DEF arg
    <3> QED
      BY <1>5, <2>1, TaggedIs
  <2> HIDE DEF h
  <2>4. h.tgt = {} /\ ~h.abort /\ ~h.compl /\ h.r = r /\ h.w = w /\ ~h.used
        /\ h.safe = Hyper /\ ~h.wrapped
    BY <1>3, <1>5, <2>3 DEF OnlyRing, States
  <2>5. n.r = r /\ n.w = IF d - 1 \in {0, 3} THEN 1 - r ELSE r
    BY <1>6, <1>11, <1>13, <2>2, <2>3, <2>4
  <2> DEFINE m == IF d = 4 THEN 4 ELSE 5
  <2>6. h.ring[3] = <<SbItem(m, w)>>
    <3>1. 3 \in Nat /\ m = 3 + 5 - d /\ m \in {4, 5} /\ SbPage(m, d, r) = None
      BY <1>13 DEF SbPage
    <3>2. /\ SbBucket(3, d, r) = <<SbItem(m, None)>> /\ Len(SbBucket(3, d, r)) = 1
          /\ SbBucket(3, d, r)[1] = SbItem(m, None)
      <4> HIDE DEF m
      <4>1. /\ SbBucket(3, d, r) = <<SbItem(m, SbPage(m, d, r))>>
            /\ Len(SbBucket(3, d, r)) = 1
        <5>1. m \in {1, 2, 4, 5} /\ 3 \in Nat
          BY <3>1
        <5> QED
          BY <1>6, <3>1, <5>1, SbBuckets
      <4> QED
        BY <3>1, <4>1
    <3>3. t.ring[3] = SbBucket(3, d, r)
      BY <1>3, <1>5, <2>1
    <3>4. TagOf(SbItem(m, None), "sb_resp", arg, t.w) = SbItem(m, w)
      BY <1>3, <1>5, <1>13 DEF TagOf, SbItem
    <3>5. Len(h.ring[3]) = 1 /\ h.ring[3][1] = SbItem(m, w)
      BY <2>3, <3>2, <3>3, <3>4
    <3> DEFINE s == h.ring[3]
    <3>6. s \in Seq(Items) /\ Len(s) = 1
      BY <2>3, <3>5
    <3> HIDE DEF s
    <3>7. s = <<s[1]>>
      BY <3>6
    <3> QED
      BY <3>5, <3>7 DEF s
  <2>7. ASSUME NEW i \in 1..Ahead
        PROVE  h.ring[i] = SbBucket(i - 1, d - 1, r)
    <3>1. i \in 0..Ahead /\ i \in Nat /\ (i - 1) + 5 - (d - 1) = i + 5 - d
      BY <1>6
    <3> DEFINE j == i + 5 - d
    <3>2. CASE i = 3
      <4>1. j = m /\ m \in {4, 5} /\ SbPage(m, d - 1, r) = w
        BY <1>13, <3>2 DEF SbPage
      <4> QED
        BY <2>6, <3>1, <3>2, <4>1 DEF SbBucket
    <3>3. CASE i # 3
      <4>1. h.ring[i] = SbBucket(i, d, r)
        BY <1>3, <1>5, <2>3, <3>1, <3>3
      <4>2. j \in Int /\ j # m
        BY <1>6, <1>13, <3>1, <3>3
      <4>3. j \in {1, 2, 4, 5} => SbPage(j, d, r) = SbPage(j, d - 1, r)
        BY <1>13, <4>2 DEF SbPage
      <4> HIDE DEF j
      <4> QED
        BY <3>1, <4>1, <4>3 DEF SbBucket, j
    <3> QED
      BY <3>2, <3>3
  <2>8. main.pc \in {"mframe", "tdma"} => d # 1
    BY <1>13
  <2> QED
    BY <1>1, <1>2, <1>4, <2>1, <2>2, <2>3, <2>4, <2>5, <2>7, <2>8, SbGoesOn
<1>14. CASE d = 0 \/ d = 1
  <2>1. k \in {4, 5} /\ (k = 5 <=> d = 0) /\ ~dsp
    BY <1>9, <1>14
  <2>2. it \in Items /\ it.cb = "sb_resp" /\ (it.arg = 2 <=> d = 0) /\ f \in Exec(t, it)
    <3>1. it.cb = "sb_resp" /\ (it.arg = 2 <=> d = 0)
      BY <2>1 DEF SbItem
    <3> QED
      BY <1>7, <1>8, <2>1, <3>1
  <2> HIDE DEF it
  <2>3. main.pc \in {"loop", "compl"}
    BY <1>4, <1>10, <1>14
  <2>4. EmptyRing(t) \/ it.arg # 2
    <3> SUFFICES ASSUME d = 0, NEW i \in 1..Ahead
                 PROVE  t.ring[i] = <<>>
      BY <1>14, <2>2 DEF EmptyRing
    <3>1. i \in Nat /\ i \in 0..Ahead /\ i + 5 - d \notin {1, 2, 4, 5}
      BY <1>6
    <3>2. SbBucket(i, d, r) = <<>>
      <4> DEFINE j == i + 5 - d
      <4>1. j = i + 5 - d /\ j \notin {1, 2, 4, 5}
        BY <3>1
      <4> HIDE DEF j
      <4> QED
        BY <1>6, <3>1, <4>1, SbBuckets
    <3> QED
      BY <1>3, <1>5, <3>1, <3>2
  <2>5. /\ f \in States /\ f.safe = Hyper /\ ~f.wrapped
        /\ \/ it.arg # 2 /\ f = [t EXCEPT !.used = TRUE]
           \/ it.arg = 2 /\ f.ring = t.ring /\ f.tgt = t.tgt /\ f.compl /\ f.failed
           \/ /\ MayFind(it) /\ EmptyRing(f) /\ f.tgt = t.tgt \cup {"ccch"}
              /\ f.compl /\ ~f.failed /\ f.w = 0 /\ f.r = 0 /\ ~f.used
              /\ f.tasks = t.tasks
    BY <1>5, <2>2, <2>4, SbRespIs
  <2>6. ASSUME n \in States
        PROVE  Typed' /\ InRequest'
    BY <1>2, <1>4, <2>3, <2>6, FrameRequest
  <2>7. CASE it.arg # 2 /\ f = [t EXCEPT !.used = TRUE]
    <3>1. d = 1
      BY <1>14, <2>2, <2>7
    <3>2. /\ f.tgt = {} /\ ~f.abort /\ ~f.compl /\ f.r = r /\ f.w = r /\ f.used
          /\ f.ring = t.ring
      BY <1>3, <1>5, <2>7, <3>1 DEF States
    <3>3. n.r = 1 - r /\ n.w = r
      BY <1>11, <2>1, <2>5, <3>2
    <3>4. n.w = IF d - 1 \in {0, 3} THEN 1 - n.r ELSE n.r
      BY <1>6, <3>1, <3>3
    <3>5. ASSUME NEW i \in 1..Ahead
          PROVE  f.ring[i] = SbBucket(i - 1, d - 1, n.r)
      <4>1. i \in 0..Ahead /\ i \in Nat /\ (i - 1) + 5 - (d - 1) = i + 5 - d
        BY <1>6
      <4> DEFINE j == i + 5 - d
      <4>2. f.ring[i] = SbBucket(i, d, r)
        BY <1>3, <1>5, <3>2, <4>1
      <4>3. j \in Int /\ j >= 5
        BY <3>1, <4>1
      <4>4. j \in {1, 2, 4, 5} => SbPage(j, d, r) = SbPage(j, d - 1, n.r)
        BY <3>1, <3>3, <4>3 DEF SbPage
      <4> HIDE DEF j
      <4> QED
        BY <4>1, <4>2, <4>4 DEF SbBucket, j
    <3>6. d \in 1..(Gap + 3) /\ (main.pc \in {"mframe", "tdma"} => d # 1)
      BY <1>6, <1>10, <3>1
    <3> QED
      BY <1>1, <1>2, <1>4, <2>5, <3>2, <3>4, <3>5, <3>6, SbGoesOn
  <2>8. CASE it.arg = 2 /\ f.ring = t.ring /\ f.tgt = t.tgt /\ f.compl /\ f.failed
    <3>1. EmptyRing(f) /\ f.tgt = {}
      BY <1>5, <2>4, <2>8 DEF EmptyRing
    <3>2. n \in States /\ Unchanged(f, n) /\ Shifted(f, n) /\ n.safe = Hyper
      BY <1>1, <2>5, <3>1, IdleAfter
    <3>3. \A i \in 0..Ahead : n.ring[i] = <<>>
      <4>1. \A i \in 0..Ahead : i < Ahead => i + 1 \in 1..Ahead
        BY <1>6
      <4> QED
        BY <3>1, <3>2, <4>1 DEF EmptyRing, Shifted
    <3>4. /\ n.tgt = {} /\ n.failed /\ Left(n.ring[0]) /\ Shaped(n.ring[0])
          /\ \A i \in 1..Ahead : n.ring[i] = <<>>
      BY <2>8, <3>1, <3>2, <3>3, NoneLeft, Sizes DEF Unchanged
    <3>5. main'.pc \in {"loop", "compl"} /\ host' = "wait"
      BY <1>2, <1>4, <2>3 DEF Interrupted
    <3> HIDE DEF n
    <3>6. Resting'
      BY <3>2, <3>4, <3>5 DEF Resting, n, LeftNow, Left, Leftovers, Shaped, Ends
    <3> QED
      BY <2>6, <3>2, <3>6
  <2>9. CASE /\ EmptyRing(f) /\ f.tgt = t.tgt \cup {"ccch"}
             /\ f.compl /\ ~f.failed /\ f.w = 0 /\ f.r = 0 /\ ~f.used
             /\ f.tasks = t.tasks
    <3>1. f.tgt = {"ccch"} /\ f.tasks = {} /\ dsp = FALSE
      BY <1>5, <2>1, <2>9
    <3>2. n \in States
      BY <1>1, <2>5, <3>1, AfterIs
    <3>3. l1s' = After(f, FALSE)
      BY <1>1, <3>1
    <3>4. Blocks' \/ Unruly'
      BY <1>2, <1>4, <2>3, <2>5, <2>9, <3>1, <3>3, SbIsFound
    <3> QED
      BY <2>6, <3>2, <3>4
  <2> QED
    BY <2>5, <2>7, <2>8, <2>9
<1> QED
  BY <1>12, <1>13, <1>14
-----------------------------------------------------------------------------
(* Frames with blocks.                                                       *)

\* The response to a command of this frame, whose page is now known.
Told(b, c, page) ==
  /\ c[4] = 4 => b = << Burst("nb_resp", c[2], page) >>
  /\ c[4] # 4 => b = << Burst("nb_resp", c[2], page), Burst("nb_cmd", c[4], None) >>

LEMMA NbCommand ==
  ASSUME NEW g \in States, NEW c, Bursts(c), c[2] # 4, NEW r, g.ring[2] = NbBucket(2, c, r),
         NEW f \in Exec(g, Burst("nb_cmd", c[2], None))
  PROVE  /\ f \in States /\ OnlyRing(g, f)
         /\ \A j \in 0..Ahead : j # 2 => f.ring[j] = g.ring[j]
         /\ Told(f.ring[2], c, g.w)
<1> DEFINE it == Burst("nb_cmd", c[2], None)
           x == Burst("nb_resp", c[2], None)
           y == Burst("nb_cmd", c[4], None)
           z == Burst("nb_resp", c[2], g.w)
           s == g.ring[2]
           q == f.ring[2]
<1>1. c[2] \in 0..4 /\ c[4] \in 0..4 /\ None \in {0, 1, None} /\ g.w \in {0, 1, None}
  BY DEF Bursts, States
<1>2. /\ it.cb = "nb_cmd" /\ it.arg = c[2]
      /\ x \in Items /\ x.cb = "nb_resp" /\ x.arg = c[2]
      /\ y \in Items /\ y.cb = "nb_cmd" /\ z \in Items
  BY <1>1, BurstIs
<1>3. s = IF c[4] = 4 THEN <<x>> ELSE <<x, y>>
  BY DEF NbBucket, NbPage
<1>4. TagOf(x, "nb_resp", c[2], g.w) = z /\ TagOf(y, "nb_resp", c[2], g.w) = y
  <2>1. TagOf(x, "nb_resp", c[2], g.w) = z
    BY DEF TagOf, Burst
  <2> QED
    BY <1>2, <2>1 DEF TagOf
<1>5. f = Tagged(g, "nb_resp", c[2], 2)
  <2>1. Exec(g, it) = {Tagged(g, "nb_resp", it.arg, 2)}
    BY <1>2 DEF Exec
  <2> QED
    BY <1>2, <2>1
<1>6. 2 \in 0..Ahead
  BY Sizes
<1> HIDE DEF it, x, y, z
<1>7. /\ f \in States /\ OnlyRing(g, f)
      /\ \A j \in 0..Ahead : j # 2 => f.ring[j] = g.ring[j]
      /\ q \in Seq(Items) /\ Len(q) = Len(s)
      /\ \A i \in 1..Len(s) : q[i] = TagOf(s[i], "nb_resp", c[2], g.w)
  BY <1>5, <1>6, TaggedIs
<1> HIDE DEF s, q
<1>8. CASE c[4] = 4
  <2>1. s = <<x>> /\ Len(s) = 1 /\ s[1] = x
    BY <1>3, <1>8
  <2>2. Len(q) = 1 /\ q[1] = z
    BY <1>4, <1>7, <2>1
  <2>3. q = <<z>>
    BY <1>7, <2>2
  <2> QED
    BY <1>7, <1>8, <2>3 DEF Told, q, z
<1>9. CASE c[4] # 4
  <2>1. s = <<x, y>> /\ Len(s) = 2 /\ s[1] = x /\ s[2] = y
    BY <1>3, <1>9
  <2>2. Len(q) = 2 /\ q[1] = z /\ q[2] = y
    BY <1>4, <1>7, <2>1
  <2>3. q = <<z, y>>
    BY <1>7, <2>2
  <2> QED
    BY <1>7, <1>9, <2>3 DEF Told, q, z, y
<1> QED
  BY <1>8, <1>9

LEMMA NbResponse ==
  ASSUME NEW t \in States, NEW a \in 0..4, NEW f \in Exec(t, Burst("nb_resp", a, t.r))
  PROVE  f \in States /\ f = [t EXCEPT !.used = TRUE]
<1> DEFINE it == Burst("nb_resp", a, t.r)
<1>1. it.cb = "nb_resp" /\ it.page = t.r
  BY DEF Burst
<1> HIDE DEF it
<1>2. Exec(t, it) = NbResp(t, it)
  BY <1>1 DEF Exec
<1>3. NbResp(t, it) = {[t EXCEPT !.used = u] : u \in {TRUE}}
  BY <1>1 DEF NbResp
<1>4. f = [t EXCEPT !.used = TRUE]
  BY <1>2, <1>3 DEF it
<1> QED
  BY <1>4 DEF States

LEMMA NbExecuted ==
  ASSUME NEW t \in States, ~t.used, NEW c, Bursts(c),
         t.ring[0] = NbBucket(0, c, t.r), t.ring[2] = NbBucket(2, c, t.r),
         NEW f \in Executed(t)
  PROVE  /\ f \in States /\ f = [t EXCEPT !.ring = f.ring, !.used = f.used]
         /\ f.used <=> c[0] # 4
         /\ \A j \in 0..Ahead : j # 2 => f.ring[j] = t.ring[j]
         /\ c[2] = 4 => f.ring[2] = t.ring[2]
         /\ c[2] # 4 => Told(f.ring[2], c, t.w)
<1> DEFINE b == t.ring[0]
           x == Burst("nb_resp", c[0], t.r)
           y == Burst("nb_cmd", c[2], None)
           u == [t EXCEPT !.used = TRUE]
<1>1. t.r \in {0, 1} /\ 0 \in Nat /\ c[0] \in 0..4 /\ c[2] \in 0..4
  BY DEF States, Bursts
<1>2. Shaped(b) /\ b \in Seq(Items)
  BY <1>1, NbBuckets
<1>3. /\ Len(b) = 0 => Executed(t) = {t}
      /\ Len(b) = 1 => Executed(t) = Exec(t, b[1])
      /\ Len(b) = 2 => Executed(t) = Then(Exec(t, b[1]), b[2])
  BY <1>2, ExecutedIs
<1>4. b = IF c[0] = 4 THEN IF c[2] = 4 THEN <<>> ELSE <<y>>
          ELSE IF c[2] = 4 THEN <<x>> ELSE <<x, y>>
  <2>1. NbPage(0, c, t.r) = t.r /\ 0 + 2 = 2
    BY DEF NbPage
  <2> QED
    BY <2>1 DEF NbBucket
<1>5. u \in States /\ u.ring = t.ring /\ u.used = TRUE /\ u.w = t.w
  BY DEF States
<1> HIDE DEF b, x, y
<1>6. CASE c[0] = 4 /\ c[2] = 4
  <2>1. Len(b) = 0
    BY <1>4, <1>6
  <2>2. f = t
    BY <1>3, <2>1
  <2> QED
    BY <1>6, <2>2 DEF States
<1>7. CASE c[0] # 4 /\ c[2] = 4
  <2>1. Len(b) = 1 /\ b[1] = x
    BY <1>4, <1>7
  <2>2. f = u
    BY <1>1, <1>3, <2>1, NbResponse DEF x
  <2> QED
    BY <1>5, <1>7, <2>2 DEF States
<1>8. CASE c[0] = 4 /\ c[2] # 4
  <2>1. Len(b) = 1 /\ b[1] = y
    BY <1>4, <1>8
  <2>2. f \in Exec(t, y)
    BY <1>3, <2>1
  <2>3. /\ f \in States /\ OnlyRing(t, f)
        /\ \A j \in 0..Ahead : j # 2 => f.ring[j] = t.ring[j]
        /\ Told(f.ring[2], c, t.w)
    BY <1>8, <2>2, NbCommand DEF y
  <2>4. f = [t EXCEPT !.ring = f.ring, !.used = f.used] /\ f.used = FALSE
    BY <2>3 DEF OnlyRing, States
  <2> QED
    BY <1>8, <2>3, <2>4
<1>9. CASE c[0] # 4 /\ c[2] # 4
  <2>1. Len(b) = 2 /\ b[1] = x /\ b[2] = y
    BY <1>4, <1>9
  <2>2. PICK g \in Exec(t, x) : f \in Exec(g, y)
    BY <1>3, <2>1 DEF Then
  <2>3. g = u
    BY <1>1, <2>2, NbResponse DEF x
  <2> HIDE DEF u
  <2>4. /\ f \in States /\ OnlyRing(u, f)
        /\ \A j \in 0..Ahead : j # 2 => f.ring[j] = u.ring[j]
        /\ Told(f.ring[2], c, u.w)
    BY <1>5, <1>9, <2>2, <2>3, NbCommand DEF y
  <2>5. f = [t EXCEPT !.ring = f.ring, !.used = f.used] /\ f.used = TRUE
    BY <1>5, <2>4 DEF OnlyRing, States, u
  <2> QED
    BY <1>5, <1>9, <2>4, <2>5
<1> QED
  BY <1>6, <1>7, <1>8, <1>9

\* The bursts of the next frame.
Later(c) == [j \in Nat |-> c[j + 1]]

LEMMA LaterIs ==
  ASSUME NEW c, Bursts(c)
  PROVE  Bursts(Later(c)) /\ \A j \in Nat : Later(c)[j] = c[j + 1]
BY DEF Bursts, Later

\* The buckets of the next frame, and the page of the one it will read.
LEMMA NbLater ==
  ASSUME NEW c, Bursts(c), NEW r \in {0, 1}, NEW w,
         w = IF (c[0] = 4) = (c[1] = 4) THEN r ELSE 1 - r,
         NEW f, NEW t, \A i \in 0..Ahead : t.ring[i] = NbBucket(i, c, r),
         \A j \in 0..Ahead : j # 2 => f.ring[j] = t.ring[j],
         c[2] = 4 => f.ring[2] = t.ring[2], c[2] # 4 => Told(f.ring[2], c, w)
  PROVE  \A i \in 1..Ahead :
           f.ring[i] = NbBucket(i - 1, Later(c), IF c[0] = 4 THEN r ELSE 1 - r)
<1> DEFINE e == Later(c)
           q == IF c[0] = 4 THEN r ELSE 1 - r
<1> SUFFICES ASSUME NEW i \in 1..Ahead
             PROVE  f.ring[i] = NbBucket(i - 1, e, q)
  OBVIOUS
<1>1. /\ i - 1 \in Nat /\ (i - 1) + 2 \in Nat /\ ((i - 1) + 2) + 1 = i + 2 /\ (i - 1) + 1 = i
      /\ i \in 0..Ahead
  OBVIOUS
<1>2. e[i - 1] = c[i] /\ e[(i - 1) + 2] = c[i + 2] /\ e[0] = c[1]
  <2>1. 0 + 1 = 1 /\ 0 \in Nat
    OBVIOUS
  <2> QED
    BY <1>1, <2>1, LaterIs
<1>3. IF i = 2 /\ c[2] # 4 THEN Told(f.ring[i], c, w) ELSE f.ring[i] = NbBucket(i, c, r)
  BY <1>1
<1>4. CASE i = 1
  <2>1. NbPage(i - 1, e, q) = q /\ NbPage(i, c, r) = q
    BY <1>4 DEF NbPage
  <2> HIDE DEF q, e
  <2>2. f.ring[i] = NbBucket(i, c, r)
    BY <1>3, <1>4
  <2> QED
    BY <1>2, <2>1, <2>2 DEF NbBucket
<1>5. CASE i = 2 /\ c[2] # 4
  <2>1. NbPage(i - 1, e, q) = w
    BY <1>2, <1>5 DEF NbPage
  <2> HIDE DEF q, e
  <2>2. Told(f.ring[i], c, w)
    BY <1>3, <1>5
  <2>3. e[i - 1] = c[2] /\ e[(i - 1) + 2] = c[4]
    BY <1>2, <1>5
  <2> QED
    BY <1>5, <2>1, <2>2, <2>3 DEF NbBucket, Told
<1>6. CASE i = 2 /\ c[2] = 4
  <2> HIDE DEF q, e
  <2>1. e[i - 1] = 4 /\ c[i] = 4 /\ f.ring[i] = NbBucket(i, c, r)
    BY <1>2, <1>3, <1>6
  <2> QED
    BY <1>2, <2>1 DEF NbBucket
<1>7. CASE i > 2
  <2>1. NbPage(i - 1, e, q) = None /\ NbPage(i, c, r) = None
    BY <1>7 DEF NbPage
  <2> HIDE DEF q, e
  <2>2. f.ring[i] = NbBucket(i, c, r)
    BY <1>3, <1>7
  <2> QED
    BY <1>2, <2>1, <2>2 DEF NbBucket
<1> QED
  BY <1>4, <1>5, <1>6, <1>7

LEMMA NbFrame ==
  ASSUME Typed, InRequest, Blocks, Preempts <= 1, Frame
  PROVE  Typed' /\ InRequest' /\ (Blocks' \/ Unruly')
<1> DEFINE t == Ticked(l1s)
           n == l1s'
           r == l1s.r
           b == l1s.ring[0]
<1>1. PICK f \in Executed(t), dsp \in BOOLEAN :
        /\ HasCommand(b) => dsp
        /\ ~HasCommand(b) /\ dsp => l1s.abort
        /\ n = After(f, dsp)
  BY FrameIs
<1>2. Interrupted
  BY FrameIs
<1>3. PICK c \in [Nat -> 0..4] :
        /\ \A i \in Nat : i > 5 => c[i] = 4
        /\ \A i \in 0..Ahead : l1s.ring[i] = NbBucket(i, c, r)
        /\ l1s.w = IF (c[0] = 4) = (c[1] = 4) THEN r ELSE 1 - r
        /\ \A i \in 0..3 : c[i + 2] # 4 => (i < Due(l1s) \/ main.pc = "tdma")
  BY DEF Blocks
<1>4. /\ l1s \in States /\ ~l1s.abort /\ l1s.tgt \in {{}, {"ccch"}, {"dedic"}}
      /\ ~l1s.wrapped /\ Soon(l1s) /\ (main.pc = "tdma" => l1s.tgt = {} /\ l1s.safe = Hyper)
      /\ Due(l1s) > 0 => \A k \in l1s.tasks : \E a \in Trigger[k] :
                            (l1s.fn + 2) % Cycle = (a + (4 - Due(l1s))) % Cycle
      /\ main.pc \in {"loop", "compl", "mframe", "tdma"}
  BY DEF Blocks, Typed
<1>5. /\ t \in States /\ t.ring = l1s.ring /\ t.compl = l1s.compl /\ t.tgt = l1s.tgt
      /\ t.tasks = l1s.tasks /\ ~t.abort /\ t.w = l1s.w /\ t.r = r /\ ~t.used
      /\ t.fn = (l1s.fn + 1) % Hyper /\ t.safe = l1s.safe
      /\ t.wrapped <=> l1s.safe # Hyper /\ l1s.fn = Hyper - 1
  <2>1. /\ t \in States /\ t = [l1s EXCEPT !.fn = t.fn, !.used = FALSE, !.wrapped = t.wrapped]
        /\ t.fn = (l1s.fn + 1) % Hyper
        /\ t.wrapped <=> l1s.safe # Hyper /\ l1s.fn = Hyper - 1
    BY <1>4, TickIs
  <2> HIDE DEF t
  <2>2. t.ring = l1s.ring /\ t.compl = l1s.compl /\ t.tgt = l1s.tgt /\ t.tasks = l1s.tasks
        /\ t.abort = l1s.abort /\ t.w = l1s.w /\ t.r = r /\ t.used = FALSE
        /\ t.safe = l1s.safe
    BY <1>4, <2>1 DEF States
  <2> QED
    BY <1>4, <2>1, <2>2
<1>6. Bursts(c)
  BY <1>3 DEF Bursts
<1>7. r \in {0, 1} /\ Due(l1s) \in 0..4 /\ l1s.fn \in 0..(Hyper - 1) /\ l1s.fn \in Nat
      /\ Hyper \in Nat /\ Hyper >= 10 /\ Ahead \in Nat /\ Ahead >= 6
  <2>1. r \in {0, 1} /\ Due(l1s) \in 0..4 /\ l1s.fn \in 0..(Hyper - 1)
    BY <1>4, DueIs DEF States
  <2> QED
    BY <2>1, Sizes
<1> HIDE DEF t
<1>8. /\ f \in States /\ f = [t EXCEPT !.ring = f.ring, !.used = f.used]
      /\ f.used <=> c[0] # 4
      /\ \A j \in 0..Ahead : j # 2 => f.ring[j] = t.ring[j]
      /\ c[2] = 4 => f.ring[2] = t.ring[2]
      /\ c[2] # 4 => Told(f.ring[2], c, t.w)
  <2>1. t.ring[0] = NbBucket(0, c, t.r) /\ t.ring[2] = NbBucket(2, c, t.r)
    BY <1>3, <1>5, <1>7
  <2>2. t \in States /\ ~t.used /\ f \in Executed(t)
    BY <1>5
  <2> QED
    BY <1>6, <2>1, <2>2, NbExecuted
<1>9. /\ f.compl = l1s.compl /\ f.tgt = l1s.tgt /\ f.tasks = l1s.tasks /\ ~f.abort
      /\ f.w = l1s.w /\ f.r = r /\ f.fn = t.fn /\ f.safe = l1s.safe /\ f.wrapped = t.wrapped
  <2>1. /\ f.compl = t.compl /\ f.tgt = t.tgt /\ f.tasks = t.tasks /\ f.abort = t.abort
        /\ f.w = t.w /\ f.r = t.r /\ f.fn = t.fn /\ f.safe = t.safe /\ f.wrapped = t.wrapped
    BY <1>5, <1>8 DEF States
  <2> QED
    BY <1>5, <2>1
<1>10. dsp <=> c[2] # 4
  <2>1. HasCommand(NbBucket(0, c, r)) <=> c[0 + 2] # 4
    BY <1>6, <1>7, NbBuckets
  <2>2. b = NbBucket(0, c, r) /\ 0 + 2 = 2
    BY <1>3, <1>7
  <2> QED
    BY <1>1, <1>4, <2>1, <2>2
<1> DEFINE e == Later(c)
           q == IF c[0] = 4 THEN r ELSE 1 - r
<1>11. Bursts(e) /\ \A j \in Nat : e[j] = c[j + 1]
  BY <1>6, LaterIs
<1>12. /\ n \in States /\ Unchanged(f, n) /\ n.r = q
       /\ n.w = IF c[2] # 4 THEN 1 - l1s.w ELSE l1s.w
       /\ f.wrapped => n.wrapped
  <2>1. f \in States /\ f.tgt \in {{}, {"ccch"}, {"dedic"}} /\ ~f.abort
    BY <1>4, <1>8, <1>9
  <2>2. /\ n \in States /\ Unchanged(f, n)
        /\ n.r = IF f.used THEN 1 - f.r ELSE f.r
        /\ n.w = IF dsp THEN 1 - f.w ELSE f.w
        /\ n.wrapped = f.wrapped \/ Further(f, n)
    BY <1>1, <2>1, AfterIs
  <2>3. f.wrapped => n.wrapped
    BY <2>2 DEF Further
  <2> HIDE DEF n, r
  <2> QED
    BY <1>8, <1>9, <1>10, <2>2, <2>3
<1>13. \A i \in 1..Ahead : f.ring[i] = NbBucket(i - 1, e, n.r)
  <2>1. \A i \in 0..Ahead : t.ring[i] = NbBucket(i, c, r)
    BY <1>3, <1>5
  <2>2. \A i \in 1..Ahead : f.ring[i] = NbBucket(i - 1, e, q)
    <3>1. (c[2] = 4 => f.ring[2] = t.ring[2]) /\ (c[2] # 4 => Told(f.ring[2], c, l1s.w))
      BY <1>5, <1>8
    <3>2. \A j \in 0..Ahead : j # 2 => f.ring[j] = t.ring[j]
      BY <1>8
    <3>3. l1s.w = IF (c[0] = 4) = (c[1] = 4) THEN r ELSE 1 - r
      BY <1>3
    <3> DEFINE w == l1s.w
    <3> HIDE DEF w, r
    <3> QED
      BY <1>6, <1>7, <2>1, <3>1, <3>2, <3>3, NbLater DEF w
  <2> QED
    BY <1>12, <2>2
<1> HIDE DEF e
<1>14. n.w = IF (e[0] = 4) = (e[1] = 4) THEN n.r ELSE 1 - n.r
  <2>1. e[0] = c[1] /\ e[1] = c[2]
    <3>1. e[0] = c[0 + 1] /\ e[1] = c[1 + 1]
      BY <1>11
    <3> QED
      BY <3>1
  <2>2. r \in {0, 1} /\ l1s.w = IF (c[0] = 4) = (c[1] = 4) THEN r ELSE 1 - r
    BY <1>3, <1>7
  <2>3. n.r = q /\ n.w = IF c[2] # 4 THEN 1 - l1s.w ELSE l1s.w
    BY <1>12
  <2> HIDE DEF n, r
  <2> QED
    BY <2>1, <2>2, <2>3
<1>15. ASSUME ~f.wrapped
       PROVE  /\ Soon(f) /\ Due(f) = IF Due(l1s) = 0 THEN 0 ELSE Due(l1s) - 1
              /\ Due(l1s) > 0 => f.fn = l1s.fn + 1
  <2>1. CASE l1s.safe = Hyper
    BY <1>9, <2>1 DEF Soon, Due
  <2>2. CASE l1s.safe # Hyper
    <3>1. l1s.fn # Hyper - 1
      BY <1>5, <1>9, <1>15, <2>2
    <3>2. l1s.fn + 1 \in Nat /\ l1s.fn + 1 < Hyper
      BY <1>7, <3>1
    <3>3. (l1s.fn + 1) % Hyper = l1s.fn + 1
      BY <1>7, <3>2, Wraps
    <3>4. f.fn = l1s.fn + 1 /\ f.safe = l1s.safe /\ l1s.safe \in 0..Hyper
      BY <1>4, <1>5, <1>9, <3>3 DEF States
    <3> QED
      BY <1>4, <1>7, <2>2, <3>4 DEF Soon, Due
  <2> QED
    BY <2>1, <2>2
<1>16. ASSUME f.wrapped
       PROVE  Unruly'
  <2>1. ASSUME NEW i \in 1..Ahead
        PROVE  f.ring[i] \in Seq(Bits)
    <3>1. i - 1 \in Nat /\ n.r \in {0, 1}
      BY <1>7, <1>12
    <3> QED
      BY <1>11, <1>13, <3>1, NbBuckets
  <2>2. f.safe # Hyper
    BY <1>5, <1>9, <1>16
  <2>3. n.wrapped /\ main.pc # "tdma"
    BY <1>4, <1>9, <1>12, <1>16, <2>2
  <2> QED
    <3>1. /\ f \in States /\ f.tgt \in {{}, {"ccch"}, {"dedic"}} /\ l1s' = After(f, dsp)
          /\ main.pc \in {"loop", "compl", "mframe", "tdma"} /\ l1s'.wrapped
      BY <1>1, <1>4, <1>8, <1>9, <2>3
    <3>2. \A i \in 1..Ahead : f.ring[i] \in Seq(Bits)
      BY <2>1
    <3> HIDE DEF n, r, b
    <3> QED
      BY <1>2, <2>2, <2>3, <3>1, <3>2, BitsGoOn
<1>17. ASSUME ~f.wrapped
       PROVE  Blocks' \/ Unruly'
  <2>1. ASSUME NEW i \in 0..3, e[i + 2] # 4
        PROVE  i < Due(f) \/ main.pc = "tdma"
    <3>1. e[i + 2] = c[(i + 2) + 1] /\ (i + 2) + 1 = i + 3 /\ (i + 1) + 2 = i + 3
      BY <1>11
    <3>2. c[i + 3] # 4
      BY <2>1, <3>1
    <3>3. i # 3
      BY <1>3, <3>2
    <3>4. i + 1 \in 0..3 /\ c[(i + 1) + 2] # 4
      BY <3>1, <3>2, <3>3
    <3>5. i + 1 < Due(l1s) \/ main.pc = "tdma"
      BY <1>3, <3>4
    <3>6. Due(f) = IF Due(l1s) = 0 THEN 0 ELSE Due(l1s) - 1
      BY <1>15, <1>17
    <3> QED
      BY <1>7, <3>5, <3>6
  <2>2. Due(f) > 0 => \A k \in Now(f) : \E a \in Trigger[k] :
                          (f.fn + 2) % Cycle = (a + (4 - Due(f))) % Cycle
    <3> SUFFICES ASSUME Due(f) > 0, NEW k \in Now(f)
                 PROVE  \E a \in Trigger[k] :
                          (f.fn + 2) % Cycle = (a + (4 - Due(f))) % Cycle
      OBVIOUS
    <3>1. Due(l1s) > 0 /\ Due(f) = Due(l1s) - 1 /\ f.fn = l1s.fn + 1
      BY <1>7, <1>15, <1>17
    <3>2. k \in l1s.tasks
      <4>1. InTheWay(f)
        BY <1>8, <1>15, <1>17, DueIs
      <4> QED
        BY <1>9, <4>1 DEF Now
    <3>3. PICK a \in Trigger[k] : (l1s.fn + 2) % Cycle = (a + (4 - Due(l1s))) % Cycle
      BY <1>4, <3>1, <3>2
    <3>4. a \in Nat
      <4>1. k \in Tasks
        BY <1>4, <3>2 DEF States
      <4>2. Trigger[k] \in SUBSET (0..(Cycle - 1))
        BY <4>1, L1SyncAssumption
      <4> QED
        BY <3>3, <4>2
    <3> DEFINE m == 4 - Due(l1s)
    <3>5. m \in Nat /\ 4 - Due(f) = m + 1
      BY <1>7, <3>1
    <3>6. (l1s.fn + 2) % Cycle = (a + m) % Cycle
      BY <3>3
    <3> HIDE DEF m
    <3>7. ((l1s.fn + 1) + 2) % Cycle = (a + (m + 1)) % Cycle
      BY <1>7, <3>4, <3>5, <3>6, ModTick
    <3> QED
      BY <3>1, <3>5, <3>7
  <2>3. Due(f) <= 3 /\ Soon(f)
    BY <1>7, <1>15, <1>17
  <2>4. /\ f \in States /\ f.tgt \in {{}, {"ccch"}, {"dedic"}}
        /\ main.pc \in {"loop", "compl", "mframe", "tdma"}
        /\ main.pc = "tdma" => f.tgt = {} /\ f.safe = Hyper
    BY <1>4, <1>8, <1>9
  <2>5. l1s' = After(f, dsp) /\ Bursts(e)
    BY <1>1, <1>11
  <2>6. /\ \A i \in 1..Ahead : f.ring[i] = NbBucket(i - 1, e, l1s'.r)
        /\ l1s'.w = IF (e[0] = 4) = (e[1] = 4) THEN l1s'.r ELSE 1 - l1s'.r
    BY <1>13, <1>14
  <2>7. \A i \in 0..3 : e[i + 2] # 4 => (i < Due(f) \/ main.pc = "tdma")
    BY <2>1
  <2> HIDE DEF n, r, b
  <2> QED
    BY <1>2, <1>17, <2>2, <2>3, <2>4, <2>5, <2>6, <2>7, BlocksGoOn
<1>18. Blocks' \/ Unruly'
  BY <1>16, <1>17
<1>19. Typed' /\ InRequest'
  <2>1. n.compl = l1s.compl
    BY <1>9, <1>12 DEF Unchanged
  <2>2. NoLast(n.ring[0])
    <3>1. CASE Blocks'
      <4>1. PICK d \in [Nat -> 0..4] :
              /\ \A i \in Nat : i > 5 => d[i] = 4
              /\ \A i \in 0..Ahead : n.ring[i] = NbBucket(i, d, n.r)
        BY <3>1 DEF Blocks, NbBucket, NbPage, Burst
      <4>2. Bursts(d) /\ n.ring[0] = NbBucket(0, d, n.r) /\ n.r \in {0, 1}
        BY <1>7, <1>12, <4>1 DEF Bursts
      <4> QED
        BY <4>2, NbBuckets
    <3>2. CASE Unruly'
      <4>1. n.ring[0] \in Seq(Bits)
        BY <1>7, <3>2 DEF Unruly, Bits
      <4> QED
        BY <4>1, BitsQuiet
    <3> QED
      BY <1>18, <3>1, <3>2
  <2> QED
    BY <1>2, <1>12, <2>1, <2>2, FrameRequest
<1> QED
  BY <1>18, <1>19
-----------------------------------------------------------------------------
(* Frames after the frame number has wrapped over a block.                   *)

LEMMA BitsExecuted ==
  ASSUME NEW t \in States, \A i \in 0..Ahead : t.ring[i] \in Seq(Bits),
         NEW f \in Executed(t)
  PROVE  /\ f \in States /\ f = [t EXCEPT !.ring = f.ring, !.used = f.used]
         /\ \A i \in 0..Ahead :
              f.ring[i] \in Seq(Bits) /\ Len(f.ring[i]) = Len(t.ring[i])
<1> DEFINE Like(g) == /\ g = [t EXCEPT !.ring = g.ring, !.used = g.used]
                      /\ \A i \in 0..Ahead :
                           g.ring[i] \in Seq(Bits) /\ Len(g.ring[i]) = Len(t.ring[i])
           S == {g \in States : Like(g)}
<1>1. t \in S
  <2>1. t = [t EXCEPT !.ring = t.ring, !.used = t.used]
    BY DEF States
  <2> QED
    BY <2>1
<1>2. ASSUME NEW g \in S, NEW it \in Bits, NEW k \in Exec(g, it)
      PROVE  k \in S
  <2>1. /\ g \in States /\ g = [t EXCEPT !.ring = g.ring, !.used = g.used]
        /\ \A i \in 0..Ahead : g.ring[i] \in Seq(Bits) /\ Len(g.ring[i]) = Len(t.ring[i])
    OBVIOUS
  <2>2. CASE it.cb = "nb_resp"
    <3>1. k \in NbResp(g, it)
      BY <2>2 DEF Exec
    <3>2. PICK u \in BOOLEAN : k = [g EXCEPT !.used = u]
      BY <2>1, <3>1 DEF NbResp, States
    <3>3. k \in States /\ k.ring = g.ring /\ k = [t EXCEPT !.ring = k.ring, !.used = k.used]
      BY <2>1, <3>2 DEF States
    <3> QED
      BY <2>1, <3>3
  <2>3. CASE it.cb = "nb_cmd"
    <3>1. k = Tagged(g, "nb_resp", it.arg, 2) /\ 2 \in 0..Ahead
      BY <2>3, Sizes DEF Exec
    <3>2. /\ k \in States /\ OnlyRing(g, k)
          /\ \A j \in 0..Ahead : j # 2 => k.ring[j] = g.ring[j]
          /\ k.ring[2] \in Seq(Items) /\ Len(k.ring[2]) = Len(g.ring[2])
          /\ \A i \in 1..Len(g.ring[2]) :
               k.ring[2][i] = TagOf(g.ring[2][i], "nb_resp", it.arg, g.w)
      BY <2>1, <3>1, TaggedIs
    <3>3. k.ring[2] \in Seq(Bits)
      <4> DEFINE b == g.ring[2]
                 q == k.ring[2]
      <4>1. b \in Seq(Bits) /\ g.w \in {0, 1}
        BY <2>1, <3>1 DEF States
      <4>2. ASSUME NEW i \in 1..Len(b)
            PROVE  q[i] \in Bits
        <5>1. b[i] \in Bits
          BY <4>1
        <5>2. q[i] = TagOf(b[i], "nb_resp", it.arg, g.w)
          BY <3>2
        <5> HIDE DEF b, q
        <5> QED
          BY <4>1, <5>1, <5>2 DEF TagOf, Bits, Items
      <4>3. q \in Seq(Items) /\ Len(q) = Len(b)
        BY <3>2
      <4> HIDE DEF b, q
      <4>4. q \in Seq(Bits)
        BY <4>1, <4>2, <4>3
      <4> QED
        BY <4>4 DEF q
    <3>4. k = [t EXCEPT !.ring = k.ring, !.used = k.used]
      BY <2>1, <3>2 DEF OnlyRing, States
    <3>5. \A i \in 0..Ahead : k.ring[i] \in Seq(Bits) /\ Len(k.ring[i]) = Len(t.ring[i])
      BY <2>1, <3>2, <3>3
    <3> QED
      BY <3>2, <3>4, <3>5
  <2> QED
    BY <2>2, <2>3 DEF Bits
<1>3. t.ring[0] \in Seq(Bits)
  BY Sizes
<1> HIDE DEF S
<1>4. Executed(t) \subseteq S
  BY <1>1, <1>2, <1>3, ExecutedKeeps
<1> QED
  BY <1>4 DEF S

\* A reset that is complete clears the ring.
LEMMA BitsCleared ==
  ASSUME NEW f, Cleared(f), NEW i \in 1..Ahead, f.ring[i] \in Seq(Bits)
  PROVE  Len(f.ring[i]) = 0
<1> DEFINE b == f.ring[i]
<1>1. \A k \in DOMAIN b : b[k].cb \notin {"nb_cmd", "nb_resp"}
  BY DEF Cleared
<1> HIDE DEF b
<1>2. \A k \in DOMAIN b : b[k] \in Bits
  BY DEF b
<1>3. DOMAIN b = 1..Len(b) /\ Len(b) \in Nat
  BY DEF b
<1>4. 1 \notin DOMAIN b
  BY <1>1, <1>2 DEF Bits
<1> QED
  BY <1>3, <1>4 DEF b

LEMMA UnrulyFrame ==
  ASSUME Typed, InRequest, Unruly, Preempts <= 1, Frame
  PROVE  Typed' /\ InRequest' /\ (Unruly' \/ Resting')
<1> DEFINE t == Ticked(l1s)
           n == l1s'
<1>1. PICK f \in Executed(t), dsp \in BOOLEAN : n = After(f, dsp)
  BY FrameIs
<1>2. Interrupted
  BY FrameIs
<1>3. /\ l1s \in States /\ l1s.wrapped /\ l1s.tgt \in {{}, {"ccch"}, {"dedic"}}
      /\ main.pc = "tdma" => l1s.tgt = {}
      /\ l1s.safe = Hyper <=> main.pc = "tdma"
      /\ main.pc \in {"loop", "compl", "mframe", "tdma"}
      /\ \A i \in 0..Ahead : l1s.ring[i] \in Seq(Bits)
  BY DEF Unruly, Typed
<1>4. /\ t \in States /\ t.ring = l1s.ring /\ t.compl = l1s.compl /\ t.tgt = l1s.tgt
      /\ t.safe = l1s.safe
      /\ ~t.wrapped => l1s.safe = Hyper /\ Cleared(l1s)
  <2>1. /\ t \in States /\ t = [l1s EXCEPT !.fn = t.fn, !.used = FALSE, !.wrapped = t.wrapped]
        /\ t.wrapped = IF l1s.safe = Hyper THEN l1s.wrapped /\ ~Cleared(l1s)
                       ELSE l1s.wrapped \/ l1s.fn = Hyper - 1
    BY <1>3, TickIs
  <2>2. ~t.wrapped => l1s.safe = Hyper /\ Cleared(l1s)
    BY <1>3, <2>1
  <2> HIDE DEF t
  <2> QED
    BY <1>3, <2>1, <2>2 DEF States
<1> HIDE DEF t
<1>5. /\ f \in States /\ f = [t EXCEPT !.ring = f.ring, !.used = f.used]
      /\ \A i \in 0..Ahead : f.ring[i] \in Seq(Bits) /\ Len(f.ring[i]) = Len(t.ring[i])
  <2>1. \A i \in 0..Ahead : t.ring[i] \in Seq(Bits)
    BY <1>3, <1>4
  <2> QED
    BY <1>1, <1>4, <2>1, BitsExecuted
<1>6. /\ f.compl = l1s.compl /\ f.tgt = l1s.tgt /\ f.safe = l1s.safe
      /\ f.wrapped = t.wrapped
  <2>1. /\ f.compl = t.compl /\ f.tgt = t.tgt /\ f.safe = t.safe /\ f.wrapped = t.wrapped
    BY <1>4, <1>5 DEF States
  <2> QED
    BY <1>4, <2>1
<1>7. /\ n \in States /\ Unchanged(f, n) /\ (n.wrapped = f.wrapped \/ Further(f, n))
  BY <1>1, <1>3, <1>5, <1>6, AfterIs
<1>8. ASSUME t.wrapped
      PROVE  Unruly'
  <2>1. n.wrapped
    BY <1>6, <1>7, <1>8 DEF Further
  <2>2. \A i \in 1..Ahead : f.ring[i] \in Seq(Bits)
    BY <1>5
  <2> QED
    BY <1>1, <1>2, <1>3, <1>5, <1>6, <2>1, <2>2, BitsGoOn
<1>9. ASSUME ~t.wrapped
      PROVE  Resting' /\ NoLast(n.ring[0])
  <2>1. main.pc = "tdma" /\ f.tgt = {} /\ f.safe = Hyper
    BY <1>3, <1>4, <1>6, <1>9
  <2>2. /\ Shifted(f, n) /\ n.safe = Hyper /\ n.tgt = {}
    BY <1>1, <1>5, <2>1, IdleAfter DEF Unchanged
  <2>3. ASSUME NEW i \in 1..Ahead
        PROVE  f.ring[i] = <<>>
    <3>1. i \in 0..Ahead
      OBVIOUS
    <3>2. Len(l1s.ring[i]) = 0
      BY <1>3, <1>4, <1>9, <3>1, BitsCleared
    <3>3. f.ring[i] \in Seq(Bits) /\ Len(f.ring[i]) = 0
      BY <1>4, <1>5, <3>1, <3>2
    <3> QED
      BY <3>3
  <2>4. \A i \in 0..Ahead : n.ring[i] = <<>>
    <3>1. \A i \in 0..Ahead : i < Ahead => i + 1 \in 1..Ahead
      BY Sizes
    <3> QED
      BY <2>2, <2>3, <3>1 DEF Shifted
  <2>5. /\ Left(n.ring[0]) /\ Shaped(n.ring[0]) /\ NoLast(n.ring[0])
        /\ \A i \in 1..Ahead : n.ring[i] = <<>>
    BY <2>4, NoneLeft, Sizes
  <2>6. main'.pc = "tdma"
    BY <1>2, <2>1 DEF Interrupted
  <2> QED
    BY <2>2, <2>5, <2>6 DEF Resting, LeftNow, Left, Leftovers, Shaped, Ends
<1>10. NoLast(n.ring[0])
  <2>1. CASE t.wrapped
    <3>1. n.ring[0] \in Seq(Bits)
      BY <1>8, <2>1, Sizes DEF Unruly, Bits
    <3> QED
      BY <3>1, BitsQuiet
  <2>2. CASE ~t.wrapped
    BY <1>9, <2>2
  <2> QED
    BY <2>1, <2>2
<1>11. Typed' /\ InRequest'
  <2>1. n.compl = l1s.compl
    BY <1>6, <1>7 DEF Unchanged
  <2> QED
    BY <1>2, <1>7, <1>10, <2>1, FrameRequest
<1> QED
  BY <1>8, <1>9, <1>11
-----------------------------------------------------------------------------
(* The main loop.                                                            *)

\* A step that leaves the ring and the pages alone; it may clear safe_fn.
Kept ==
  /\ l1s' \in States /\ l1s'.ring = l1s.ring /\ l1s'.r = l1s.r /\ l1s'.w = l1s.w
  /\ l1s'.wrapped = l1s.wrapped /\ l1s'.safe \in {l1s.safe, Hyper}

LEMMA KeepResting ==
  ASSUME Resting, Kept, l1s'.tgt = {},
         main'.pc \in {"loop", "compl"} =>
           host' \in {"idle", "wait"} /\ (l1s'.compl /\ host' = "wait" => l1s'.failed)
  PROVE  Resting'
BY DEF Resting, Kept, LeftNow, Left, Leftovers, Shaped, Ends

LEMMA KeepFb ==
  ASSUME FbSearch, Kept, l1s'.tgt = {}, host' = "wait", ~l1s'.compl,
         l1s'.abort = l1s.abort, main'.pc \in {"loop", "compl", "mframe", "tdma"}
  PROVE  FbSearch'
BY DEF FbSearch, Kept, FbBucket, LeftNow, Left, Leftovers, Shaped, Ends

LEMMA KeepSb ==
  ASSUME SbSearch, Kept, l1s'.tgt = {}, l1s'.tasks = {}, host' = "wait", ~l1s'.compl,
         ~l1s'.abort, main'.pc \in {"loop", "compl", "mframe", "tdma"}
  PROVE  SbSearch'
<1>1. PICK d \in 0..(Gap + 3) :
        /\ \A i \in 0..Ahead : l1s.ring[i] = SbBucket(i, d, l1s.r)
        /\ l1s.w = IF d \in {0, 3} THEN 1 - l1s.r ELSE l1s.r
  BY DEF SbSearch
<1>2. /\ \A i \in 0..Ahead : l1s'.ring[i] = SbBucket(i, d, l1s'.r)
      /\ l1s'.w = IF d \in {0, 3} THEN 1 - l1s'.r ELSE l1s'.r
  BY <1>1 DEF Kept
<1>3. l1s'.safe = Hyper /\ ~l1s'.wrapped
  BY DEF SbSearch, Kept
<1> QED
  BY <1>2, <1>3 DEF SbSearch, SbBucket, SbPage, SbItem

\* What the main loop does to the tasks of blocks.
Retargeted ==
  /\ l1s'.tgt \in {{}, {"ccch"}, {"dedic"}}
  /\ main'.pc \in {"loop", "compl", "mframe", "tdma"}
  /\ \/ l1s'.safe = l1s.safe /\ main.pc # "tdma" /\ main'.pc # "tdma"
     \/ l1s'.safe = Hyper /\ l1s'.tgt = {} /\ main'.pc = "tdma"

LEMMA KeepBlocks ==
  ASSUME Blocks, Kept, Retargeted, ~l1s'.abort,
         l1s'.fn = l1s.fn, l1s'.tasks \subseteq l1s.tasks
  PROVE  Blocks'
<1>1. PICK c \in [Nat -> 0..4] :
        /\ \A i \in Nat : i > 5 => c[i] = 4
        /\ \A i \in 0..Ahead : l1s.ring[i] = NbBucket(i, c, l1s.r)
        /\ l1s.w = IF (c[0] = 4) = (c[1] = 4) THEN l1s.r ELSE 1 - l1s.r
        /\ \A i \in 0..3 : c[i + 2] # 4 => (i < Due(l1s) \/ main.pc = "tdma")
  BY DEF Blocks
<1>2. \/ /\ Due(l1s') = Due(l1s) /\ (Soon(l1s) => Soon(l1s'))
         /\ main.pc # "tdma" /\ main'.pc # "tdma"
      \/ /\ Due(l1s') = 0 /\ Soon(l1s') /\ main'.pc = "tdma"
         /\ l1s'.tgt = {} /\ l1s'.safe = Hyper
  BY DEF Retargeted, Due, Soon
<1>3. /\ \A i \in 0..Ahead : l1s'.ring[i] = NbBucket(i, c, l1s'.r)
      /\ l1s'.w = IF (c[0] = 4) = (c[1] = 4) THEN l1s'.r ELSE 1 - l1s'.r
      /\ \A i \in 0..3 : c[i + 2] # 4 => (i < Due(l1s') \/ main'.pc = "tdma")
  BY <1>1, <1>2 DEF Kept
<1>4. Due(l1s') > 0 => \A t \in l1s'.tasks : \E a \in Trigger[t] :
        (l1s'.fn + 2) % Cycle = (a + (4 - Due(l1s'))) % Cycle
  <2> SUFFICES ASSUME Due(l1s') > 0, NEW t \in l1s'.tasks
               PROVE  \E a \in Trigger[t] :
                        (l1s'.fn + 2) % Cycle = (a + (4 - Due(l1s'))) % Cycle
    OBVIOUS
  <2>1. Due(l1s') = Due(l1s) /\ t \in l1s.tasks
    BY <1>2
  <2>2. \E a \in Trigger[t] : (l1s.fn + 2) % Cycle = (a + (4 - Due(l1s))) % Cycle
    BY <2>1 DEF Blocks
  <2> QED
    BY <2>1, <2>2
<1>5. /\ ~l1s'.wrapped /\ Soon(l1s')
      /\ main'.pc = "tdma" => l1s'.tgt = {} /\ l1s'.safe = Hyper
  BY <1>2 DEF Blocks, Kept
<1>6. /\ l1s'.tgt \in {{}, {"ccch"}, {"dedic"}}
      /\ main'.pc \in {"loop", "compl", "mframe", "tdma"}
  BY DEF Retargeted
<1> QED
  BY <1>1, <1>3, <1>4, <1>5, <1>6 DEF Blocks, NbBucket, NbPage, Burst, Soon, Due

LEMMA KeepUnruly ==
  ASSUME Unruly, Kept, Retargeted
  PROVE  Unruly'
BY DEF Unruly, Kept, Retargeted, Bits

\* Where the main loop goes, typed.
LEMMA Moves ==
  ASSUME Typed, NEW pc \in {"compl", "loop", "mframe", "tdma", "abort", "hw", "fill"},
         NEW for \in {"none", "reset", "fbsb"}, NEW next \in 0..(Tries + 1), Goto(pc, for, next)
  PROVE  /\ main' \in Mains /\ main'.pc = pc /\ main'.for = for /\ main'.next = next
         /\ main'.irqs = IF pc \in {"compl", "loop"} THEN 0 ELSE main.irqs
<1>1. 0 \in 0..Preempts
  BY Sizes
<1> QED
  BY <1>1 DEF Goto, Typed, Mains

Phases == Resting \/ FbSearch \/ SbSearch \/ Blocks \/ Unruly

LEMMA Completes ==
  ASSUME Typed, InRequest, Phases, Complete
  PROVE  Typed' /\ InRequest' /\ Phases'
<1>1. /\ main.pc \in {"loop", "compl"} /\ l1s' = [l1s EXCEPT !.compl = FALSE]
      /\ host' = IF l1s.compl THEN Confirmed ELSE host
  BY DEF Complete, At
<1>2. /\ main' \in Mains /\ main'.pc = "loop" /\ main'.for = "none" /\ main'.irqs = 0
  <2>1. Goto("loop", "none", 0) /\ 0 \in 0..(Tries + 1)
    BY Sizes DEF Complete
  <2> QED
    BY <2>1, Moves
<1>3. /\ Kept /\ ~l1s'.compl /\ l1s'.tgt = l1s.tgt /\ l1s'.tasks = l1s.tasks
      /\ l1s'.abort = l1s.abort /\ l1s'.fn = l1s.fn /\ l1s'.safe = l1s.safe
  BY <1>1 DEF Kept, Typed, States
<1>4. host' \in {"idle", "wait", "sync", "dedic"} /\ (~l1s.compl => host' = host)
  BY <1>1 DEF Typed, Confirmed
<1>5. Typed' /\ InRequest'
  BY <1>2, <1>3, <1>4 DEF Typed, InRequest, Kept
<1>6. CASE Resting
  <2>1. host' \in {"idle", "wait"} /\ l1s.tgt = {}
    BY <1>1, <1>6 DEF Resting, Confirmed
  <2>2. Resting'
    BY <1>3, <1>6, <2>1, KeepResting
  <2> QED
    BY <1>5, <2>2 DEF Phases
<1>7. CASE FbSearch
  <2>1. l1s.tgt = {} /\ host' = "wait"
    BY <1>4, <1>7 DEF FbSearch
  <2>2. FbSearch'
    BY <1>2, <1>3, <1>7, <2>1, KeepFb
  <2> QED
    BY <1>5, <2>2 DEF Phases
<1>8. CASE SbSearch
  <2>1. l1s.tgt = {} /\ l1s.tasks = {} /\ ~l1s.abort /\ host' = "wait"
    BY <1>4, <1>8 DEF SbSearch
  <2>2. SbSearch'
    BY <1>2, <1>3, <1>8, <2>1, KeepSb
  <2> QED
    BY <1>5, <2>2 DEF Phases
<1>9. CASE Blocks
  <2>1. Retargeted /\ ~l1s.abort
    BY <1>1, <1>2, <1>3, <1>9 DEF Blocks, Retargeted
  <2>2. Blocks'
    BY <1>3, <1>9, <2>1, KeepBlocks
  <2> QED
    BY <1>5, <2>2 DEF Phases
<1>10. CASE Unruly
  <2>1. Retargeted
    BY <1>1, <1>2, <1>3, <1>10 DEF Unruly, Retargeted
  <2>2. Unruly'
    BY <1>3, <1>10, <2>1, KeepUnruly
  <2> QED
    BY <1>5, <2>2 DEF Phases
<1> QED
  BY <1>6, <1>7, <1>8, <1>9, <1>10 DEF Phases

\* A reset that comes in time meets no bucket that ends a step of the search.
LEMMA Timely ==
  ASSUME NEW b, \A i \in DOMAIN b : ~LastAttempt(b[i]),
         \A i \in DOMAIN b : b[i].cb = "fb_resp" => b[i].arg \in 0..Tries
  PROVE  NoLast(b)
<1> SUFFICES ASSUME NEW i \in DOMAIN b, Ends(b[i])
             PROVE  FALSE
  BY DEF NoLast
<1>1. CASE b[i].cb = "fb_resp" /\ b[i].arg >= Tries
  <2>1. b[i].arg = Tries
    BY <1>1, Sizes
  <2> QED
    BY <1>1, <2>1 DEF LastAttempt
<1>2. CASE b[i].cb = "sb_resp" /\ b[i].arg = 2
  BY <1>2 DEF LastAttempt
<1> QED
  BY <1>1, <1>2 DEF Ends

LEMMA LeftQuiet ==
  ASSUME NEW b, Left(b)
  PROVE  NoLast(b)
<1> SUFFICES ASSUME NEW i \in DOMAIN b
             PROVE  ~Ends(b[i])
  BY DEF NoLast
<1>1. b[i] \in Leftovers
  BY DEF Left
<1> QED
  BY <1>1 DEF Leftovers

LEMMA InTime ==
  ASSUME Typed, InRequest, Phases, NEW j \in {0, 1},
         \A i \in DOMAIN l1s.ring[j] : ~LastAttempt(l1s.ring[j][i])
  PROVE  NoLast(l1s.ring[j])
<1> DEFINE b == l1s.ring[j]
<1>1. j \in 0..Ahead /\ j \in Nat /\ l1s.r \in {0, 1} /\ (j # 0 => j \in 1..Ahead)
  BY Sizes DEF Typed, States
<1>2. CASE FbBucket(b)
  <2>1. \A i \in DOMAIN b : b[i].cb = "fb_resp" => b[i].arg \in 0..Tries
    <3>1. CASE b = <<>>
      BY <3>1
    <3>2. CASE b # <<>>
      <4>1. PICK it \in Items : b = <<it>> /\ (it.cb = "fb_resp" => it.arg <= Tries)
        BY <1>2, <3>2 DEF FbBucket
      <4>2. it.cb = "fb_resp" => it.arg \in 0..Tries
        BY <4>1, Sizes DEF Items
      <4>3. DOMAIN b = {1} /\ b[1] = it
        BY <4>1
      <4> QED
        BY <4>2, <4>3
    <3> QED
      BY <3>1, <3>2
  <2> QED
    BY <2>1, Timely
<1>3. CASE Resting
  BY <1>1, <1>3, NoneLeft, LeftQuiet DEF Resting, LeftNow
<1>4. CASE FbSearch
  BY <1>1, <1>2, <1>4, LeftQuiet DEF FbSearch, LeftNow
<1>5. CASE SbSearch
  <2>1. PICK d \in 0..(Gap + 3) : \A i \in 0..Ahead : l1s.ring[i] = SbBucket(i, d, l1s.r)
    BY <1>5 DEF SbSearch
  <2>2. b = SbBucket(j, d, l1s.r)
    BY <1>1, <2>1
  <2>3. \A i \in DOMAIN b : b[i].cb # "fb_resp"
    <3> DEFINE k == j + 5 - d
               it == SbItem(k, SbPage(k, d, l1s.r))
    <3>1. b = IF k \in {1, 2, 4, 5} THEN <<it>> ELSE <<>>
      BY <2>2 DEF SbBucket
    <3>2. it.cb # "fb_resp"
      BY DEF SbItem
    <3> HIDE DEF it, k, b
    <3>3. \A i \in DOMAIN b : b[i] = it
      BY <3>1
    <3> QED
      BY <3>2, <3>3
  <2> QED
    BY <2>3, Timely
<1>6. CASE Blocks
  <2>1. PICK c \in [Nat -> 0..4] :
          /\ \A i \in Nat : i > 5 => c[i] = 4
          /\ \A i \in 0..Ahead : l1s.ring[i] = NbBucket(i, c, l1s.r)
    BY <1>6 DEF Blocks
  <2>2. Bursts(c) /\ b = NbBucket(j, c, l1s.r)
    BY <1>1, <2>1 DEF Bursts
  <2> QED
    BY <1>1, <2>2, NbBuckets
<1>7. CASE Unruly
  BY <1>1, <1>7, BitsQuiet DEF Unruly
<1> QED
  BY <1>3, <1>4, <1>5, <1>6, <1>7 DEF Phases

LEMMA Resets ==
  ASSUME Typed, InRequest, Phases, ~Untimely, ResetReq \/ FbsbReq
  PROVE  Typed' /\ InRequest' /\ Phases'
<1>1. PICK for \in {"reset", "fbsb"} :
        /\ Reset(for)
        /\ \/ for = "reset" /\ host' = host
           \/ for = "fbsb" /\ host \in {"idle", "sync"} /\ host' = "wait"
  BY DEF ResetReq, FbsbReq
<1>2. /\ main.pc = "loop" /\ l1s' = [l1s EXCEPT !.tasks = {}]
      /\ \A j \in {0, 1} : \A i \in DOMAIN l1s.ring[j] : ~LastAttempt(l1s.ring[j][i])
  BY <1>1 DEF Reset, At
<1>3. main' \in Mains /\ main'.pc = "mframe" /\ main'.for = for /\ main'.irqs = main.irqs
  <2>1. Goto("mframe", for, 0) /\ 0 \in 0..(Tries + 1)
    BY <1>1, Sizes DEF Reset
  <2> QED
    BY <1>1, <2>1, Moves
<1>4. /\ Kept /\ l1s'.compl = l1s.compl /\ l1s'.tgt = l1s.tgt /\ l1s'.tasks = {}
      /\ l1s'.abort = l1s.abort /\ l1s'.fn = l1s.fn /\ l1s'.safe = l1s.safe
  BY <1>2 DEF Kept, Typed, States
<1>5. NoLast(l1s.ring[0]) /\ NoLast(l1s.ring[1])
  BY <1>2, InTime
<1>6. Typed' /\ InRequest'
  <2>1. l1s.compl => host = "wait"
    BY <1>2 DEF InRequest
  <2>2. NoLast(l1s'.ring[0]) /\ NoLast(l1s'.ring[1])
    BY <1>4, <1>5 DEF Kept
  <2>3. main'.for = "fbsb" => host' = "wait" /\ ~l1s'.compl
    BY <1>1, <1>3, <1>4, <2>1
  <2>4. l1s'.compl => host' = "wait"
    BY <1>1, <1>4, <2>1
  <2>5. l1s' \in States /\ host' \in {"idle", "wait", "sync", "dedic"}
    BY <1>1, <1>4 DEF Kept, Typed
  <2> QED
    BY <1>1, <1>3, <2>2, <2>3, <2>4, <2>5 DEF Typed, InRequest
<1>7. host = "wait" => host' = "wait"
  BY <1>1
<1>8. CASE Resting
  <2>1. l1s'.tgt = {}
    BY <1>4, <1>8 DEF Resting
  <2>2. Resting'
    BY <1>3, <1>4, <1>8, <2>1, KeepResting
  <2> QED
    BY <1>6, <2>2 DEF Phases
<1>9. CASE FbSearch
  <2>1. l1s'.tgt = {} /\ host' = "wait" /\ ~l1s'.compl
    BY <1>4, <1>7, <1>9 DEF FbSearch
  <2>2. FbSearch'
    BY <1>3, <1>4, <1>9, <2>1, KeepFb
  <2> QED
    BY <1>6, <2>2 DEF Phases
<1>10. CASE SbSearch
  <2>1. l1s'.tgt = {} /\ ~l1s'.abort /\ host' = "wait" /\ ~l1s'.compl
    BY <1>4, <1>7, <1>10 DEF SbSearch
  <2>2. SbSearch'
    BY <1>3, <1>4, <1>10, <2>1, KeepSb
  <2> QED
    BY <1>6, <2>2 DEF Phases
<1>11. CASE Blocks
  <2>1. Retargeted /\ ~l1s'.abort /\ l1s'.tasks \subseteq l1s.tasks
    BY <1>2, <1>3, <1>4, <1>11 DEF Blocks, Retargeted
  <2>2. Blocks'
    BY <1>4, <1>11, <2>1, KeepBlocks
  <2> QED
    BY <1>6, <2>2 DEF Phases
<1>12. CASE Unruly
  <2>1. Retargeted
    BY <1>2, <1>3, <1>4, <1>12 DEF Unruly, Retargeted
  <2>2. Unruly'
    BY <1>4, <1>12, <2>1, KeepUnruly
  <2> QED
    BY <1>6, <2>2 DEF Phases
<1> QED
  BY <1>8, <1>9, <1>10, <1>11, <1>12 DEF Phases

LEMMA MframeResets ==
  ASSUME Typed, InRequest, Phases, MframeReset
  PROVE  Typed' /\ InRequest' /\ Phases'
<1>1. /\ main.pc = "mframe" /\ l1s' = [l1s EXCEPT !.tgt = {}, !.safe = Hyper] /\ host' = host
  BY DEF MframeReset, At
<1>2. main' \in Mains /\ main'.pc = "tdma" /\ main'.for = main.for /\ main'.irqs = main.irqs
  <2>1. Goto("tdma", main.for, 0) /\ 0 \in 0..(Tries + 1) /\ main.for \in {"none", "reset", "fbsb"}
    BY Sizes DEF MframeReset, Typed, Mains
  <2> QED
    BY <2>1, Moves
<1>3. /\ Kept /\ l1s'.compl = l1s.compl /\ l1s'.tgt = {} /\ l1s'.tasks = l1s.tasks
      /\ l1s'.abort = l1s.abort /\ l1s'.fn = l1s.fn /\ l1s'.safe = Hyper
  <2>1. l1s \in States /\ Hyper \in 0..Hyper /\ {} \in SUBSET Tasks
    BY Sizes DEF Typed
  <2>2. l1s' \in States
    BY <1>1, <2>1 DEF States
  <2>3. /\ l1s'.ring = l1s.ring /\ l1s'.r = l1s.r /\ l1s'.w = l1s.w /\ l1s'.compl = l1s.compl
        /\ l1s'.tgt = {} /\ l1s'.tasks = l1s.tasks /\ l1s'.abort = l1s.abort
        /\ l1s'.fn = l1s.fn /\ l1s'.safe = Hyper /\ l1s'.wrapped = l1s.wrapped
    BY <1>1, <2>1 DEF States
  <2> QED
    BY <2>2, <2>3 DEF Kept
<1>4. Typed' /\ InRequest'
  <2>1. NoLast(l1s'.ring[0]) /\ (main'.irqs = 0 => NoLast(l1s'.ring[1]))
    BY <1>1, <1>2, <1>3 DEF InRequest, Kept
  <2>2. /\ l1s' \in States /\ host' \in {"idle", "wait", "sync", "dedic"}
        /\ main'.for # "none" /\ (l1s'.compl => host' = "wait")
        /\ main'.for = "fbsb" => host' = "wait" /\ ~l1s'.compl
    BY <1>1, <1>2, <1>3 DEF InRequest, Kept, Typed
  <2> QED
    BY <1>2, <2>1, <2>2 DEF Typed, InRequest
<1>5. CASE Resting
  <2>1. Resting'
    BY <1>2, <1>3, <1>5, KeepResting
  <2> QED
    BY <1>4, <2>1 DEF Phases
<1>6. CASE FbSearch
  <2>1. host' = "wait" /\ ~l1s'.compl
    BY <1>1, <1>3, <1>6 DEF FbSearch
  <2>2. FbSearch'
    BY <1>2, <1>3, <1>6, <2>1, KeepFb
  <2> QED
    BY <1>4, <2>2 DEF Phases
<1>7. CASE SbSearch
  <2>1. l1s'.tasks = {} /\ ~l1s'.abort /\ host' = "wait" /\ ~l1s'.compl
    BY <1>1, <1>3, <1>7 DEF SbSearch
  <2>2. SbSearch'
    BY <1>2, <1>3, <1>7, <2>1, KeepSb
  <2> QED
    BY <1>4, <2>2 DEF Phases
<1>8. Retargeted
  BY <1>2, <1>3 DEF Retargeted
<1>9. CASE Blocks
  <2>1. ~l1s'.abort /\ l1s'.tasks \subseteq l1s.tasks
    BY <1>3, <1>9 DEF Blocks
  <2>2. Blocks'
    BY <1>3, <1>8, <1>9, <2>1, KeepBlocks
  <2> QED
    BY <1>4, <2>2 DEF Phases
<1>10. CASE Unruly
  <2>1. Unruly'
    BY <1>3, <1>8, <1>10, KeepUnruly
  <2> QED
    BY <1>4, <2>1 DEF Phases
<1> QED
  BY <1>5, <1>6, <1>7, <1>9, <1>10 DEF Phases

\* What tdma_sched_reset leaves.
LEMMA LateIs ==
  ASSUME NEW f \in States, NoLast(f.ring[0])
  PROVE  LET g == [SchedReset(f) EXCEPT !.ring[0] =
                     [i \in DOMAIN @ |-> [@[i] EXCEPT !.page = Late]]]
         IN /\ g \in States /\ OnlyRing(f, g) /\ Left(g.ring[0]) /\ EmptyRing(g)
            /\ Shaped(f.ring[0]) => Shaped(g.ring[0])
<1> DEFINE h == SchedReset(f)
           b == f.ring[0]
           q == [i \in DOMAIN b |-> [b[i] EXCEPT !.page = Late]]
           R == [h.ring EXCEPT ![0] = q]
           g == [h EXCEPT !.ring[0] = [i \in DOMAIN @ |-> [@[i] EXCEPT !.page = Late]]]
<1>1. /\ h \in States /\ OnlyRing(f, h)
      /\ h.ring[0] = b /\ \A i \in 1..Ahead : h.ring[i] = <<>>
  BY SchedResetIs
<1>2. b \in Seq(Items) /\ Len(b) \in Nat /\ DOMAIN b = 1..Len(b)
      /\ \A i \in 1..Len(b) : b[i] \in Items /\ ~Ends(b[i])
  <2>1. b \in Seq(Items) /\ Len(b) \in Nat
    <3>1. b \in Seq(Items)
      <4>1. f.ring \in [0..Ahead -> Seq(Items)] /\ 0 \in 0..Ahead
        BY Sizes DEF States
      <4> QED
        BY <4>1 DEF b
    <3> QED
      BY <3>1
  <2> QED
    BY <2>1 DEF NoLast
<1>3. g = [h EXCEPT !.ring = R]
  BY <1>1
<1> HIDE DEF h, b, g
<1>4. \A i \in 1..Len(b) : /\ [b[i] EXCEPT !.page = Late] \in Items
                           /\ [b[i] EXCEPT !.page = Late].page = Late
                           /\ [b[i] EXCEPT !.page = Late].cb = b[i].cb
                           /\ ~Ends([b[i] EXCEPT !.page = Late])
  BY <1>2 DEF Items, Ends, Late
<1>5. q \in Seq(Items) /\ Len(q) = Len(b)
  <2>1. q \in [1..Len(b) -> Items] /\ Len(b) \in Nat
    BY <1>2, <1>4
  <2> QED
    BY <2>1
<1>6. \A i \in 1..Len(b) : q[i].page = Late /\ q[i].cb = b[i].cb /\ ~Ends(q[i])
  BY <1>2, <1>4
<1> HIDE DEF q
<1>7. Left(q) /\ (Shaped(b) => Shaped(q))
  <2>1. q \in Seq(Leftovers)
    <3>1. \A i \in 1..Len(q) : q[i] \in Leftovers
      BY <1>5, <1>6 DEF Leftovers
    <3> QED
      BY <1>5, <3>1
  <2>2. ASSUME Shaped(b)
        PROVE  Shaped(q)
    <3>1. CASE Len(b) = 0
      BY <1>5, <3>1 DEF Shaped
    <3>2. CASE Len(b) = 1
      BY <1>5, <3>2 DEF Shaped
    <3>3. CASE Len(b) = 2
      <4>1. b[1].cb = "nb_resp" /\ b[2].cb = "nb_cmd"
        BY <2>2, <3>3 DEF Shaped
      <4> QED
        BY <1>5, <1>6, <3>3, <4>1 DEF Shaped
    <3>4. Len(b) \in 0..2
      BY <2>2, ShapedSorted
    <3> QED
      BY <3>1, <3>2, <3>3, <3>4
  <2> QED
    BY <2>1, <2>2 DEF Left
<1>8. R \in Rings /\ R[0] = q /\ \A i \in 1..Ahead : R[i] = <<>>
  <2>1. h.ring \in Rings /\ 0 \in 0..Ahead /\ \A i \in 1..Ahead : i # 0 /\ i \in 0..Ahead
    BY <1>1, Sizes DEF OnlyRing
  <2> QED
    BY <1>1, <1>5, <2>1 DEF Rings
<1> HIDE DEF R
<1>9. g \in States /\ g.ring = R
  BY <1>1, <1>3, <1>8 DEF States, Rings
<1>10. OnlyRing(f, g)
  <2>1. g = [f EXCEPT !.ring = R]
    BY <1>1, <1>3 DEF OnlyRing, States
  <2> QED
    BY <1>8, <1>9, <2>1 DEF OnlyRing
<1> QED
  BY <1>7, <1>8, <1>9, <1>10 DEF EmptyRing, g, h, b

LEMMA TdmaResets ==
  ASSUME Typed, InRequest, Phases, TdmaReset
  PROVE  Typed' /\ InRequest' /\ Phases'
<1> DEFINE g == [SchedReset(l1s) EXCEPT !.ring[0] =
                   [i \in DOMAIN @ |-> [@[i] EXCEPT !.page = Late]]]
<1>1. main.pc = "tdma" /\ l1s' = g /\ host' = host
  BY DEF TdmaReset, At
<1>2. main' \in Mains /\ main'.pc = "abort" /\ main'.for = main.for
  <2>1. Goto("abort", main.for, 0) /\ 0 \in 0..(Tries + 1) /\ main.for \in {"none", "reset", "fbsb"}
    BY Sizes DEF TdmaReset, Typed, Mains
  <2> QED
    BY <2>1, Moves
<1>3. /\ l1s.wrapped \/ Shaped(l1s.ring[0])
      /\ NoLast(l1s.ring[0]) /\ l1s.tgt = {} /\ l1s.safe = Hyper
  <2>1. NoLast(l1s.ring[0]) /\ 0 \in 0..Ahead /\ 0 \in Nat /\ l1s.r \in {0, 1}
    BY <1>1, Sizes DEF InRequest, Typed, States
  <2>2. CASE Resting
    BY <2>1, <2>2 DEF Resting, LeftNow
  <2>3. CASE FbSearch
    BY <2>1, <2>3, FbItems, NoneLeft DEF FbSearch, LeftNow
  <2>4. CASE SbSearch
    <3>1. PICK d \in 0..(Gap + 3) : l1s.ring[0] = SbBucket(0, d, l1s.r)
      BY <2>1, <2>4 DEF SbSearch
    <3>2. d \in Nat
      BY Sizes
    <3>3. Shaped(SbBucket(0, d, l1s.r))
      BY <2>1, <3>2, SbBuckets
    <3> QED
      BY <2>1, <2>4, <3>1, <3>3 DEF SbSearch
  <2>5. CASE Blocks
    <3>1. PICK c \in [Nat -> 0..4] :
            /\ \A i \in Nat : i > 5 => c[i] = 4
            /\ l1s.ring[0] = NbBucket(0, c, l1s.r)
      BY <2>1, <2>5 DEF Blocks
    <3>2. Bursts(c)
      BY <3>1 DEF Bursts
    <3>3. Shaped(l1s.ring[0])
      BY <2>1, <3>1, <3>2, NbBuckets
    <3> QED
      BY <1>1, <2>1, <2>5, <3>3 DEF Blocks
  <2>6. CASE Unruly
    BY <1>1, <2>1, <2>6 DEF Unruly
  <2> QED
    BY <2>2, <2>3, <2>4, <2>5, <2>6 DEF Phases
<1>4. /\ g \in States /\ OnlyRing(l1s, g) /\ Left(g.ring[0]) /\ EmptyRing(g)
      /\ Shaped(l1s.ring[0]) => Shaped(g.ring[0])
  BY <1>3, LateIs DEF Typed
<1>5. /\ l1s' \in States /\ OnlyRing(l1s, l1s') /\ Left(l1s'.ring[0])
      /\ l1s.wrapped \/ Shaped(l1s'.ring[0])
      /\ \A i \in 1..Ahead : l1s'.ring[i] = <<>>
  BY <1>1, <1>3, <1>4 DEF EmptyRing
<1>6. /\ l1s'.tgt = {} /\ l1s'.compl = l1s.compl /\ l1s'.safe = Hyper
      /\ l1s'.wrapped = l1s.wrapped
  BY <1>3, <1>5 DEF OnlyRing, Typed, States
<1>7. Typed' /\ InRequest'
  BY <1>1, <1>2, <1>5, <1>6 DEF Typed, InRequest
<1>8. Resting'
  BY <1>2, <1>5, <1>6 DEF Resting, LeftNow, Left, Leftovers, Shaped, Ends
<1> QED
  BY <1>7, <1>8 DEF Phases

LEMMA DspAborts ==
  ASSUME Typed, InRequest, Phases, DspAbort
  PROVE  Typed' /\ InRequest' /\ Phases'
<1>1. main.pc = "abort" /\ host' = host
  BY DEF DspAbort, At
<1>2. Resting
  BY <1>1 DEF Phases, FbSearch, SbSearch, Blocks, Unruly
<1>3. 0 \in 0..(Tries + 1) /\ 0 \in 0..Retries /\ 0 \in 0..AfcRetries
  BY Sizes
<1>4. CASE /\ main.for = "reset" /\ Goto("hw", "reset", 0)
           /\ l1s' = [l1s EXCEPT !.abort = TRUE]
  <2>1. main' \in Mains /\ main'.pc = "hw" /\ main'.for = "reset"
    BY <1>3, <1>4, Moves
  <2>2. Kept /\ l1s'.tgt = l1s.tgt /\ l1s'.compl = l1s.compl
    BY <1>4 DEF Kept, Typed, States
  <2>3. Typed' /\ InRequest'
    BY <1>1, <2>1, <2>2 DEF Typed, InRequest, Kept
  <2>4. Resting'
    <3>1. l1s.tgt = {}
      BY <1>2 DEF Resting
    <3> QED
      BY <1>2, <2>1, <2>2, <3>1, KeepResting
  <2> QED
    BY <2>3, <2>4 DEF Phases
<1>5. CASE /\ main.for = "fbsb" /\ Goto("fill", "fbsb", 0)
           /\ l1s' = [l1s EXCEPT !.abort = TRUE, !.retries = 0, !.afc = 0]
  <2>1. main' \in Mains /\ main'.pc = "fill" /\ main'.for = "fbsb" /\ main'.next = 0
    BY <1>3, <1>5, Moves
  <2>2. /\ l1s' \in States /\ l1s'.tgt = l1s.tgt /\ l1s'.compl = l1s.compl
        /\ l1s'.ring = l1s.ring /\ l1s'.safe = l1s.safe /\ l1s'.wrapped = l1s.wrapped
    BY <1>3, <1>5 DEF Typed, States
  <2>3. host' = "wait" /\ ~l1s'.compl
    BY <1>1, <1>5, <2>2 DEF InRequest
  <2>4. Typed' /\ InRequest'
    BY <2>1, <2>2, <2>3 DEF Typed, InRequest
  <2>5. /\ l1s'.tgt = {} /\ l1s'.safe = Hyper /\ Left(l1s'.ring[0])
        /\ l1s'.wrapped \/ Shaped(l1s'.ring[0])
        /\ \A i \in 1..Ahead : FbBucket(l1s'.ring[i])
        /\ \A i \in (main'.next + 1)..Ahead : l1s'.ring[i] = <<>>
    <3>1. \A i \in 1..Ahead : l1s'.ring[i] = <<>>
      BY <1>2, <2>2 DEF Resting
    <3>2. main'.next + 1 = 1
      BY <2>1
    <3> QED
      BY <1>2, <2>2, <3>1, <3>2, NoneLeft DEF Resting, LeftNow
  <2>6. FbSearch'
    BY <2>1, <2>3, <2>5 DEF FbSearch, FbBucket, LeftNow, Left, Leftovers, Shaped, Ends
  <2> QED
    BY <2>4, <2>6 DEF Phases
<1> QED
  BY <1>4, <1>5 DEF DspAbort

LEMMA HwResets ==
  ASSUME Typed, InRequest, Phases, HwReset
  PROVE  Typed' /\ InRequest' /\ Phases'
<1>1. main.pc = "hw" /\ l1s' = ResetHw(l1s) /\ host' = "idle"
  BY DEF HwReset, At
<1>2. main' \in Mains /\ main'.pc = "compl" /\ main'.for = "none" /\ main'.irqs = 0
  <2>1. Goto("compl", "none", 0) /\ 0 \in 0..(Tries + 1)
    BY Sizes DEF HwReset
  <2> QED
    BY <2>1, Moves
<1>3. Resting
  BY <1>1 DEF Phases, FbSearch, SbSearch, Blocks, Unruly
<1>4. /\ l1s' \in States /\ l1s'.tgt = l1s.tgt /\ l1s'.ring = l1s.ring
      /\ l1s'.safe = l1s.safe /\ l1s'.wrapped = l1s.wrapped
  BY <1>1 DEF ResetHw, Typed, States
<1>5. Typed' /\ InRequest'
  BY <1>1, <1>2, <1>4 DEF Typed, InRequest
<1>6. Resting'
  BY <1>1, <1>2, <1>3, <1>4 DEF Resting, LeftNow, Left, Leftovers, Shaped, Ends
<1> QED
  BY <1>5, <1>6 DEF Phases

LEMMA Fills ==
  ASSUME Typed, InRequest, Phases, Fill
  PROVE  Typed' /\ InRequest' /\ Phases'
<1> DEFINE k == main.next + 1
           set == <<FbSet(0)[k]>>
           g == ScheduleSet(l1s, 1 + main.next, set)
<1>1. main.pc = "fill" /\ l1s' = g /\ host' = host
  BY DEF Fill, At
<1>2. l1s \in States /\ main \in Mains /\ main.next \in 0..(Tries + 1) /\ Tries \in Nat
      /\ main.for = "fbsb" /\ host = "wait" /\ ~l1s.compl
  BY <1>1, Sizes DEF Typed, Mains, InRequest
<1>3. k \in 1..(Tries + 2) /\ k \in 1..Ahead /\ k = 1 + main.next /\ k \in Nat
  BY <1>2, Sizes
<1>4. /\ l1s.tgt = {} /\ l1s.safe = Hyper /\ \A i \in 1..Ahead : FbBucket(l1s.ring[i])
      /\ \A i \in k..Ahead : l1s.ring[i] = <<>>
      /\ LeftNow \/ (FbBucket(l1s.ring[0]) /\ ~l1s.abort)
      /\ main.irqs = 0 => LeftNow
  <2>1. CASE FbSearch
    BY <1>1, <2>1 DEF FbSearch
  <2>2. CASE Resting
    <3>1. \A i \in k..Ahead : i \in 1..Ahead
      BY <1>3
    <3> QED
      BY <2>2, <3>1, NoneLeft DEF Resting
  <2> QED
    BY <1>1, <2>1, <2>2 DEF Phases, SbSearch, Blocks, Unruly
<1>5. FbSet(0)[k] \in Seq(Items) /\ FbBucket(FbSet(0)[k])
  <2>1. 0 \in {0, 1}
    OBVIOUS
  <2> QED
    BY <1>3, <2>1, FbSetIs
<1> DEFINE b == FbSet(0)[k]
<1> HIDE DEF b
<1>6. /\ g \in States /\ OnlyRing(l1s, g)
      /\ \A i \in 0..Ahead : g.ring[i] = IF i = k THEN l1s.ring[i] \o b ELSE l1s.ring[i]
  <2>1. set \in [1..1 -> Seq(Items)] /\ set[1] = b /\ 1 \in Nat /\ 1 + main.next \in Nat
    BY <1>2, <1>5 DEF b
  <2> HIDE DEF set
  <2>2. /\ g \in States /\ OnlyRing(l1s, g)
        /\ \A i \in 0..Ahead : g.ring[i] = IF i + 1 - (1 + main.next) \in 1..1
                                           THEN l1s.ring[i] \o set[i + 1 - (1 + main.next)]
                                           ELSE l1s.ring[i]
    BY <1>2, <2>1, ScheduleSetIs
  <2> HIDE DEF g
  <2>3. ASSUME NEW i \in 0..Ahead
        PROVE  g.ring[i] = IF i = k THEN l1s.ring[i] \o b ELSE l1s.ring[i]
    <3>1. CASE i = k
      <4>1. i + 1 - (1 + main.next) = 1
        BY <1>2, <3>1
      <4>2. g.ring[i] = IF i + 1 - (1 + main.next) \in 1..1
                        THEN l1s.ring[i] \o set[i + 1 - (1 + main.next)]
                        ELSE l1s.ring[i]
        BY <2>2
      <4>3. 1 \in 1..1
        OBVIOUS
      <4>4. g.ring[i] = l1s.ring[i] \o set[1]
        BY <4>1, <4>2, <4>3
      <4> HIDE DEF k
      <4> QED
        BY <2>1, <3>1, <4>4
    <3>2. CASE i # k
      <4>1. i + 1 - (1 + main.next) \notin 1..1
        BY <1>2, <3>2
      <4> QED
        BY <2>2, <3>2, <4>1
    <3> QED
      BY <3>1, <3>2
  <2> QED
    BY <2>2, <2>3
<1> HIDE DEF g
<1>7. g.ring[k] = b
  <2>1. l1s.ring[k] = <<>> /\ k \in 0..Ahead
    BY <1>3, <1>4
  <2>2. <<>> \o b = b
    BY <1>5 DEF b
  <2> QED
    BY <1>6, <2>1, <2>2
<1>8. /\ g.ring[0] = l1s.ring[0] /\ \A i \in 1..Ahead : FbBucket(g.ring[i])
      /\ \A i \in (k + 1)..Ahead : g.ring[i] = <<>>
  <2>1. g.ring[0] = l1s.ring[0]
    BY <1>3, <1>6, Sizes
  <2>2. ASSUME NEW i \in 1..Ahead
        PROVE  FbBucket(g.ring[i])
    <3>1. i \in 0..Ahead
      OBVIOUS
    <3>2. CASE i = k
      BY <1>5, <1>7, <3>2 DEF b
    <3>3. CASE i # k
      BY <1>4, <1>6, <3>1, <3>3
    <3> QED
      BY <3>2, <3>3
  <2>3. ASSUME NEW i \in (k + 1)..Ahead
        PROVE  g.ring[i] = <<>>
    <3>1. i \in 0..Ahead /\ i # k /\ i \in k..Ahead
      BY <1>3
    <3> QED
      BY <1>4, <1>6, <3>1
  <2> QED
    BY <2>1, <2>2, <2>3
<1>9. /\ g.tgt = {} /\ ~g.compl /\ g.abort = l1s.abort /\ g.safe = Hyper
      /\ g.wrapped = l1s.wrapped
  BY <1>2, <1>4, <1>6 DEF OnlyRing, States
<1>10. main' \in Mains
       /\ \/ main'.pc = "compl" /\ main'.for = "none" /\ main'.irqs = 0
          \/ /\ main'.pc = "fill" /\ main'.for = "fbsb" /\ main'.next = k
             /\ main'.irqs = main.irqs
  <2>1. CASE main.next = Tries + 1
    <3>1. Goto("compl", "none", 0) /\ 0 \in 0..(Tries + 1)
      BY <1>2, <2>1 DEF Fill
    <3> QED
      BY <3>1, Moves
  <2>2. CASE main.next # Tries + 1
    <3>1. Goto("fill", "fbsb", k) /\ k \in 0..(Tries + 1)
      BY <1>2, <2>2 DEF Fill
    <3> QED
      BY <3>1, Moves
  <2> QED
    BY <2>1, <2>2
<1>11. Typed' /\ InRequest'
  BY <1>1, <1>2, <1>6, <1>9, <1>10 DEF Typed, InRequest
<1> DEFINE Now0 == Left(l1s'.ring[0]) /\ (l1s'.wrapped \/ Shaped(l1s'.ring[0]))
<1>12. /\ l1s'.tgt = {} /\ l1s'.safe = Hyper /\ host' = "wait" /\ ~l1s'.compl
       /\ Now0 \/ (FbBucket(l1s'.ring[0]) /\ ~l1s'.abort)
       /\ \A i \in 1..Ahead : FbBucket(l1s'.ring[i])
  BY <1>1, <1>2, <1>4, <1>8, <1>9 DEF LeftNow
<1>13. /\ main'.pc \in {"compl", "fill"}
       /\ main'.pc = "fill" =>
            /\ \A i \in (main'.next + 1)..Ahead : l1s'.ring[i] = <<>>
            /\ main'.irqs = 0 => Now0
  BY <1>1, <1>4, <1>8, <1>9, <1>10 DEF LeftNow
<1>14. FbSearch'
  BY <1>12, <1>13 DEF FbSearch, FbBucket, LeftNow, Left, Leftovers, Shaped, Ends
<1> QED
  BY <1>11, <1>14 DEF Phases

LEMMA Dedicated ==
  ASSUME Typed, InRequest, Phases, DmEst \/ DmRel
  PROVE  Typed' /\ InRequest' /\ Phases'
<1>1. /\ main.pc = "loop" /\ host \in {"sync", "dedic"} /\ host' \in {"dedic", "idle"}
      /\ \E tgt \in {{}, {"dedic"}} : l1s' = [l1s EXCEPT !.tgt = tgt]
      /\ Goto("compl", "none", 0)
  BY DEF DmEst, DmRel, At
<1>2. PICK tgt \in {{}, {"dedic"}} : l1s' = [l1s EXCEPT !.tgt = tgt]
  BY <1>1
<1>3. main' \in Mains /\ main'.pc = "compl" /\ main'.for = "none" /\ main'.irqs = 0
  <2>1. 0 \in 0..(Tries + 1)
    BY Sizes
  <2> QED
    BY <1>1, <2>1, Moves
<1>4. /\ Kept /\ l1s'.tgt = tgt /\ l1s'.tasks = l1s.tasks
      /\ l1s'.abort = l1s.abort /\ l1s'.fn = l1s.fn /\ l1s'.safe = l1s.safe
  <2>1. l1s \in States /\ tgt \in SUBSET Tasks
    BY DEF Typed, Tasks
  <2> QED
    BY <1>2, <2>1 DEF Kept, States
<1>5. Blocks \/ Unruly
  BY <1>1 DEF Phases, Resting, FbSearch, SbSearch
<1>6. Typed' /\ InRequest'
  BY <1>1, <1>3, <1>4 DEF Typed, InRequest, Kept
<1>7. Retargeted
  BY <1>1, <1>3, <1>4 DEF Retargeted
<1>8. CASE Blocks
  <2>1. ~l1s'.abort /\ l1s'.tasks \subseteq l1s.tasks
    BY <1>4, <1>8 DEF Blocks
  <2>2. Blocks'
    BY <1>4, <1>7, <1>8, <2>1, KeepBlocks
  <2> QED
    BY <1>6, <2>2 DEF Phases
<1>9. CASE Unruly
  <2>1. Unruly'
    BY <1>4, <1>7, <1>9, KeepUnruly
  <2> QED
    BY <1>6, <2>1 DEF Phases
<1> QED
  BY <1>5, <1>8, <1>9

-----------------------------------------------------------------------------
(* The inductive invariant.                                                  *)

LEMMA InitIInv ==
  ASSUME Init
  PROVE  IInv
<1>1. /\ l1s = [ring |-> [i \in 0..Ahead |-> <<>>], abort |-> FALSE, w |-> 0, r |-> 0,
                used |-> FALSE, compl |-> FALSE, failed |-> FALSE, retries |-> 0,
                afc |-> 0, tasks |-> {}, tgt |-> {}, safe |-> 0, fn |-> 0,
                wrapped |-> FALSE]
      /\ main = [pc |-> "loop", for |-> "none", next |-> 0, irqs |-> 0]
      /\ host = "idle"
  BY DEF Init
<1> DEFINE R == [i \in 0..Ahead |-> <<>>]
<1>2. R \in Rings /\ \A i \in 0..Ahead : R[i] = <<>>
  BY DEF Rings
<1>3. /\ 0 \in 0..Retries /\ 0 \in 0..AfcRetries /\ 0 \in 0..Hyper
      /\ 0 \in 0..(Hyper - 1) /\ 0 \in 0..(Tries + 1) /\ 0 \in 0..Preempts
      /\ {} \in SUBSET Tasks /\ 0 \in 0..Ahead /\ \A i \in 1..Ahead : i \in 0..Ahead
  BY Sizes
<1>4. l1s.ring = R
  BY <1>1
<1> HIDE DEF R
<1>5. l1s \in States
  <2>1. l1s = [ring |-> R, abort |-> FALSE, w |-> 0, r |-> 0,
               used |-> FALSE, compl |-> FALSE, failed |-> FALSE, retries |-> 0,
               afc |-> 0, tasks |-> {}, tgt |-> {}, safe |-> 0, fn |-> 0,
               wrapped |-> FALSE]
    BY <1>1 DEF R
  <2> QED
    BY <1>2, <1>3, <2>1 DEF States, Rings
<1>6. Typed
  BY <1>1, <1>3, <1>5 DEF Typed, Mains
<1>7. InRequest
  BY <1>1 DEF InRequest
<1>8. Blocks
  <2> DEFINE c == [j \in Nat |-> 4]
  <2>1. c \in [Nat -> 0..4] /\ \A j \in Nat : c[j] = 4
    OBVIOUS
  <2> HIDE DEF c
  <2>2. ASSUME NEW i \in 0..Ahead
        PROVE  l1s.ring[i] = NbBucket(i, c, l1s.r)
    <3>1. i \in Nat /\ i + 2 \in Nat
      OBVIOUS
    <3> QED
      BY <1>2, <1>4, <2>1, <3>1 DEF NbBucket
  <2>3. /\ l1s.w = 0 /\ l1s.r = 0 /\ l1s.abort = FALSE /\ l1s.wrapped = FALSE
        /\ l1s.tgt = {} /\ l1s.safe = 0 /\ l1s.fn = 0 /\ main.pc = "loop"
    BY <1>1
  <2>4. Due(l1s) = 0 /\ Soon(l1s)
    BY <2>3 DEF Due, Soon
  <2>5. /\ \A i \in Nat : i > 5 => c[i] = 4
        /\ \A i \in 0..3 : c[i + 2] = 4
        /\ c[0] = 4 /\ c[1] = 4
    BY <2>1
  <2> QED
    BY <2>1, <2>2, <2>3, <2>4, <2>5 DEF Blocks
<1> QED
  BY <1>6, <1>7, <1>8 DEF IInv, Typed

LEMMA NextIInv ==
  ASSUME ~Untimely, Preempts <= 1, IInv, [Next]_vars
  PROVE  IInv'
<1>1. Typed /\ InRequest /\ Phases
  BY DEF IInv, Typed, Phases
<1>2. SUFFICES Typed' /\ InRequest' /\ Phases'
  BY DEF IInv, Typed, Phases
<1>3. CASE UNCHANGED vars
  <2>1. l1s' = l1s /\ main' = main /\ host' = host
    BY <1>3 DEF vars
  <2>2. Typed'
    BY <1>1, <2>1 DEF Typed
  <2>3. InRequest'
    BY <1>1, <2>1 DEF InRequest, NoLast, Ends
  <2>4. Resting => Resting'
    BY <2>1 DEF Resting, LeftNow, Left, Leftovers, Shaped, Ends
  <2>5. FbSearch => FbSearch'
    BY <2>1 DEF FbSearch, FbBucket, LeftNow, Left, Leftovers, Shaped, Ends
  <2>6. SbSearch => SbSearch'
    BY <2>1 DEF SbSearch, SbBucket, SbPage, SbItem
  <2>7. Blocks => Blocks'
    BY <2>1 DEF Blocks, NbBucket, NbPage, Burst, Soon, Due
  <2>8. Unruly => Unruly'
    BY <2>1 DEF Unruly, Bits
  <2> QED
    BY <1>1, <2>2, <2>3, <2>4, <2>5, <2>6, <2>7, <2>8 DEF Phases
<1>4. CASE Frame
  BY <1>1, <1>4, RestFrame, FbFrame, SbFrame, NbFrame, UnrulyFrame DEF Phases
<1>5. CASE MainLoop
  BY <1>1, <1>5, Completes, MframeResets, TdmaResets, DspAborts, HwResets, Fills DEF MainLoop
<1>6. CASE ResetReq \/ FbsbReq
  BY <1>1, <1>6, Resets
<1>7. CASE DmEst \/ DmRel
  BY <1>1, <1>7, Dedicated
<1> QED
  BY <1>3, <1>4, <1>5, <1>6, <1>7 DEF Next

\* In each of the other phases a bucket holds at most two items; responses of the current one
\* read the page r, and of its items at most one is a command of a block.
Buckets == \A i \in 0..Ahead : l1s.ring[i] \in Seq(Items) /\ Len(l1s.ring[i]) <= 2

LEMMA Few ==
  ASSUME Typed, Phases, ~l1s.wrapped
  PROVE  Buckets
<1>1. l1s.r \in {0, 1} /\ 0 \in 0..Ahead /\ Ahead \in Nat
  BY Sizes DEF Typed, States
<1> SUFFICES ASSUME NEW i \in 0..Ahead
             PROVE  l1s.ring[i] \in Seq(Items) /\ Len(l1s.ring[i]) <= 2
  BY DEF Buckets
<1>2. ASSUME Shaped(l1s.ring[i])
      PROVE  l1s.ring[i] \in Seq(Items) /\ Len(l1s.ring[i]) <= 2
  <2> DEFINE b == l1s.ring[i]
  <2>1. b \in Seq(Items) /\ Len(b) \in 0..2
    BY <1>2, ShapedSorted
  <2> DEFINE n == Len(b)
  <2>2. n \in 0..2
    BY <2>1
  <2> HIDE DEF n, b
  <2>3. n <= 2
    BY <2>2
  <2> QED
    BY <2>1, <2>3 DEF n, b
<1>3. ASSUME FbBucket(l1s.ring[i])
      PROVE  Shaped(l1s.ring[i])
  BY <1>3, FbItems, NoneLeft
<1>4. i = 0 \/ i \in 1..Ahead
  OBVIOUS
<1>5. CASE Resting
  BY <1>2, <1>4, <1>5, NoneLeft DEF Resting, LeftNow
<1>6. CASE FbSearch
  BY <1>2, <1>3, <1>4, <1>6 DEF FbSearch, LeftNow
<1>7. CASE SbSearch
  <2>1. PICK d \in 0..(Gap + 3) : l1s.ring[i] = SbBucket(i, d, l1s.r)
    BY <1>7 DEF SbSearch
  <2>2. d \in Nat /\ i \in Nat
    BY Sizes
  <2>3. Shaped(SbBucket(i, d, l1s.r))
    BY <1>1, <2>2, SbBuckets
  <2> QED
    BY <1>2, <2>1, <2>3
<1>8. CASE Blocks
  <2>1. PICK c \in [Nat -> 0..4] : /\ \A j \in Nat : j > 5 => c[j] = 4
                                   /\ l1s.ring[i] = NbBucket(i, c, l1s.r)
    BY <1>8 DEF Blocks
  <2>2. Bursts(c) /\ i \in Nat
    BY <2>1 DEF Bursts
  <2>3. Shaped(l1s.ring[i])
    BY <1>1, <2>1, <2>2, NbBuckets
  <2> QED
    BY <1>2, <2>3
<1> QED
  BY <1>5, <1>6, <1>7, <1>8 DEF Phases, Unruly

LEMMA OwnPage ==
  ASSUME Typed, Phases, ~l1s.wrapped
  PROVE  ReadsOwnPage
<1> DEFINE b == l1s.ring[0]
           r == l1s.r
<1> SUFFICES ASSUME NEW i \in DOMAIN b
             PROVE  b[i].page \in {None, Late, r}
  BY DEF ReadsOwnPage
<1>1. r \in {0, 1} /\ 0 \in 0..Ahead /\ 0 \in Nat
  BY Sizes DEF Typed, States
<1>2. CASE Left(b)
  <2>1. b[i] \in Leftovers
    BY <1>2 DEF Left
  <2> QED
    BY <2>1 DEF Leftovers
<1>3. CASE FbBucket(b)
  <2>1. b # <<>>
    OBVIOUS
  <2>2. PICK it \in Items : b = <<it>> /\ it.page = None
    BY <1>3, <2>1 DEF FbBucket
  <2>3. b[i] = it
    BY <2>2
  <2> QED
    BY <2>2, <2>3
<1>4. CASE SbSearch
  <2>1. PICK d \in 0..(Gap + 3) : b = SbBucket(0, d, r)
    BY <1>1, <1>4 DEF SbSearch
  <2> DEFINE k == 0 + 5 - d
             p == SbPage(k, d, r)
             it == SbItem(k, p)
  <2>2. b = IF k \in {1, 2, 4, 5} THEN <<it>> ELSE <<>>
    BY <2>1 DEF SbBucket
  <2>3. k \in {1, 2, 4, 5} => p \in {None, r}
    BY Sizes DEF SbPage
  <2>4. it.page = p
    BY DEF SbItem
  <2> HIDE DEF it, k, p, b
  <2>5. k \in {1, 2, 4, 5} /\ b[i] = it
    BY <2>2
  <2> QED
    BY <2>3, <2>4, <2>5
<1>5. CASE Blocks
  <2>1. PICK c \in [Nat -> 0..4] : b = NbBucket(0, c, r)
    BY <1>1, <1>5 DEF Blocks
  <2> DEFINE x == Burst("nb_resp", c[0], r)
             y == Burst("nb_cmd", c[2], None)
  <2>2. b = IF c[0] = 4 THEN IF c[2] = 4 THEN <<>> ELSE <<y>>
            ELSE IF c[2] = 4 THEN <<x>> ELSE <<x, y>>
    <3>1. 0 + 2 = 2
      OBVIOUS
    <3> QED
      BY <2>1, <3>1 DEF NbBucket, NbPage
  <2>3. x.page = r /\ y.page = None
    BY DEF Burst
  <2> HIDE DEF x, y, b
  <2>4. b[i] = x \/ b[i] = y
    BY <2>2
  <2> QED
    BY <2>3, <2>4
<1> QED
  BY <1>2, <1>3, <1>4, <1>5 DEF Phases, Resting, FbSearch, LeftNow, Unruly

LEMMA OneCommand ==
  ASSUME Typed, Phases
  PROVE  OneBlock
<1> SUFFICES ASSUME ~l1s.wrapped
             PROVE  OneBlock
  BY DEF OneBlock
<1> DEFINE b == l1s.ring[0]
<1>1. Shaped(b) /\ l1s.r \in {0, 1} /\ 0 \in 0..Ahead
  <2>1. l1s.r \in {0, 1} /\ 0 \in 0..Ahead /\ 0 \in Nat
    BY Sizes DEF Typed, States
  <2>2. FbBucket(b) => Shaped(b)
    BY FbItems, NoneLeft
  <2>3. SbSearch => Shaped(b)
    <3> SUFFICES ASSUME SbSearch
                 PROVE  Shaped(b)
      OBVIOUS
    <3>1. PICK d \in 0..(Gap + 3) : b = SbBucket(0, d, l1s.r)
      BY <2>1 DEF SbSearch
    <3>2. d \in Nat
      BY Sizes
    <3>3. Shaped(SbBucket(0, d, l1s.r))
      BY <2>1, <3>2, SbBuckets
    <3> QED
      BY <3>1, <3>3
  <2>4. Blocks => Shaped(b)
    <3> SUFFICES ASSUME Blocks
                 PROVE  Shaped(b)
      OBVIOUS
    <3>1. PICK c \in [Nat -> 0..4] : /\ \A j \in Nat : j > 5 => c[j] = 4
                                     /\ b = NbBucket(0, c, l1s.r)
      BY <2>1 DEF Blocks
    <3>2. Bursts(c)
      BY <3>1 DEF Bursts
    <3> QED
      BY <2>1, <3>1, <3>2, NbBuckets
  <2> QED
    BY <2>1, <2>2, <2>3, <2>4 DEF Phases, Resting, FbSearch, LeftNow, Unruly
<1> SUFFICES ASSUME NEW i \in DOMAIN b, NEW j \in DOMAIN b,
                    b[i].cb = "nb_cmd", b[j].cb = "nb_cmd"
             PROVE  i = j
  BY DEF OneBlock
<1> HIDE DEF b
<1>2. CASE b = <<>>
  BY <1>2
<1>3. CASE b \in Seq(Items) /\ Len(b) = 1
  BY <1>3
<1>4. CASE b \in Seq(Items) /\ Len(b) = 2 /\ b[1].cb = "nb_resp"
  <2>1. i \in {1, 2} /\ j \in {1, 2}
    BY <1>4
  <2>2. i # 1 /\ j # 1
    BY <1>4
  <2> QED
    BY <2>1, <2>2
<1> QED
  BY <1>1, <1>2, <1>3, <1>4 DEF Shaped

-----------------------------------------------------------------------------
(* The theorems.  Each has the two hypotheses that bound what a reset meets.  *)

LEMMA Always ==
  ASSUME ~Untimely, Preempts <= 1
  PROVE  Spec => []IInv
<1>1. Init => IInv
  BY InitIInv
<1>2. IInv /\ [Next]_vars => IInv'
  BY NextIInv
<1> QED
  BY <1>1, <1>2, PTL DEF Spec

\* tdma_schedule never finds a bucket full, and the fields keep their ranges:
\* at most a response and a command wait in a bucket, however a search was cut
\* by resets, restarted by l1s_fbdet_resp or followed by blocks.  The ranges are
\* kept after the frame number has wrapped over a block, too.
THEOREM L1SyncTypeCorrect ==
  ASSUME ~Untimely, Preempts <= 1
  PROVE  Spec => [](Typed /\ (~l1s.wrapped => TypeOK))
<1>1. ASSUME IInv, ~l1s.wrapped
      PROVE  TypeOK
  <2>1. Typed /\ Phases
    BY <1>1 DEF IInv, Typed, Phases
  <2>2. Buckets
    BY <1>1, <2>1, Few
  <2>3. ASSUME NEW i \in 0..Ahead
        PROVE  Len(l1s.ring[i]) <= Slots - 2
    <3> DEFINE n == Len(l1s.ring[i])
    <3>1. n \in Nat /\ n <= 2
      <4>1. l1s.ring[i] \in Seq(Items) /\ n <= 2
        BY <2>2 DEF Buckets
      <4> QED
        BY <4>1
    <3> HIDE DEF n
    <3>2. n <= Slots - 2
      BY <3>1, Sizes
    <3> QED
      BY <3>2 DEF n
  <2> QED
    BY <2>1, <2>3 DEF TypeOK, Typed
<1>2. IInv => Typed /\ (~l1s.wrapped => TypeOK)
  BY <1>1 DEF IInv, Typed
<1> QED
  BY <1>2, Always, PTL

\* l1s_sbdet_resp, l1s_nb_resp: a response reads the page of the DSP to which its
\* own command was written, whatever began, ended or was cut off before: the two
\* pages are as far apart as responses are outstanding.  For the time in which
\* safe_fn is of use.
THEOREM OwnPages ==
  ASSUME ~Untimely, Preempts <= 1
  PROVE  Spec => [](~l1s.wrapped => ReadsOwnPage)
<1>1. IInv => (~l1s.wrapped => ReadsOwnPage)
  BY OwnPage DEF IInv, Typed, Phases
<1> QED
  BY <1>1, Always, PTL

\* mframe_schedule: as long as the frame number has not wrapped over a block
\* since the last reset, the safe_fn that it keeps is late enough that a block
\* which it begins meets no command of another one, when tasks are switched too.
THEOREM BlocksAlone ==
  ASSUME ~Untimely, Preempts <= 1
  PROVE  Spec => []OneBlock
<1>1. IInv => OneBlock
  BY OneCommand DEF IInv, Typed, Phases
<1> QED
  BY <1>1, Always, PTL
=============================================================================
