----------------------------- MODULE Pdch_proofs -----------------------------
(***************************************************************************)
(* Proofs about Pdch: whatever Downlink bursts are lost or overtaken,       *)
(* blocks are handed up whole and in order, and Uplink blocks go out in     *)
(* their own frames, for every multiframe, hyperframe and bound.            *)
(*                                                                          *)
(* The argument: the last frame processed is a frame of the channel, not    *)
(* half a hyperframe old; from it the loop over the lost frames steps from  *)
(* one frame of the channel to the next; and the bursts and the frame       *)
(* numbers kept for the block that is being received are those of its       *)
(* frames up to the last one processed.                                     *)
(***************************************************************************)
EXTENDS Pdch, Inductions

-----------------------------------------------------------------------------
(* Arithmetic of frame numbers.                                              *)

LEMMA DivMod ==
  ASSUME NEW a \in Int, NEW b \in Nat \ {0}
  PROVE  a % b \in 0 .. (b - 1) /\ a \div b \in Int /\ a = b * (a \div b) + (a % b)
OBVIOUS

LEMMA ModUnique ==
  ASSUME NEW b \in Nat \ {0}, NEW q \in Int, NEW r \in 0 .. (b - 1),
         NEW a \in Int, a = b * q + r
  PROVE  a % b = r
<1>1. a % b \in 0 .. (b - 1) /\ a \div b \in Int /\ a = b * (a \div b) + (a % b)
  BY DivMod
<1> DEFINE d == (a \div b) - q
<1>2. b * d = r - (a % b)
  BY <1>1
<1> QED
  BY <1>1, <1>2

LEMMA Sizes ==
  /\ {Blks, Groups, HyperFrame, Advance, MaxLoss, MaxDelay, GrantCap, QueueCap} \subseteq Nat
  /\ Blks > 0 /\ Group \in Nat /\ Group = 4 * Blks + 1 /\ Group >= 5
  /\ Period \in Nat /\ Period >= Group
  /\ \E k \in Nat : HyperFrame = Group * k
  /\ HyperFrame \div 2 \in Nat /\ 2 * (HyperFrame \div 2) <= HyperFrame
  /\ MaxLoss + Period + Advance < HyperFrame \div 2
  /\ MaxDelay + Period < HyperFrame \div 2
<1>1. /\ {Blks, Groups, HyperFrame, Advance, MaxLoss, MaxDelay, GrantCap, QueueCap} \subseteq Nat
      /\ Blks > 0 /\ Groups > 0 /\ HyperFrame > 0
      /\ MaxLoss + Period + Advance < HyperFrame \div 2
      /\ MaxDelay + Period < HyperFrame \div 2
  BY PdchAssumption
<1>2. Group \in Nat /\ Group = 4 * Blks + 1 /\ Group >= 5
  BY <1>1 DEF Group
<1>3. Period \in Nat /\ Period >= Group
  BY <1>1, <1>2 DEF Period
<1>4. \E k \in Nat : HyperFrame = Group * k
  <2> DEFINE m == HyperFrame \div Period
  <2>1. HyperFrame % Period = 0
    BY PdchAssumption
  <2>2. m \in Int /\ HyperFrame = Period * m
    <3>1. HyperFrame \in Int /\ Period \in Nat \ {0}
      BY <1>1, <1>2, <1>3
    <3>2. m \in Int /\ HyperFrame = Period * m + (HyperFrame % Period)
      BY <3>1, DivMod
    <3> QED
      BY <2>1, <3>1, <3>2
  <2> HIDE DEF m
  <2>3. m >= 0
    BY <1>1, <1>2, <1>3, <2>2
  <2>4. Groups * m \in Nat /\ HyperFrame = Group * (Groups * m)
    BY <1>1, <1>2, <2>2, <2>3 DEF Period
  <2> QED
    BY <2>4
<1>5. HyperFrame \div 2 \in Nat /\ 2 * (HyperFrame \div 2) <= HyperFrame
  BY <1>1
<1> QED
  BY <1>1, <1>2, <1>3, <1>4, <1>5

Half == HyperFrame \div 2

\* The same without products.
LEMMA Sized ==
  /\ HyperFrame \in Nat /\ Half \in Nat /\ 2 * Half <= HyperFrame
  /\ MaxLoss \in Nat /\ MaxDelay \in Nat /\ Advance \in Nat /\ Period \in Nat
  /\ GrantCap \in Nat /\ QueueCap \in Nat
  /\ MaxLoss + Period + Advance < Half /\ MaxDelay + Period < Half
  /\ Period >= 5
BY Sizes DEF Half

LEMMA SumIs ==
  ASSUME NEW fn \in Frames, NEW n \in 0 .. HyperFrame
  PROVE  /\ Sum(fn, n) \in Frames
         /\ Sum(fn, n) = IF fn + n < HyperFrame THEN fn + n
                                                ELSE fn + n - HyperFrame
<1>1. HyperFrame \in Nat \ {0}
  BY Sized
<1>2. CASE fn + n < HyperFrame
  <2>1. fn + n = HyperFrame * 0 + (fn + n) /\ fn + n \in 0 .. (HyperFrame - 1)
    BY <1>1, <1>2 DEF Frames
  <2>2. (fn + n) % HyperFrame = fn + n
    BY <1>1, <2>1, ModUnique
  <2> QED
    BY <1>2, <2>1, <2>2 DEF Sum, Frames
<1>3. CASE fn + n >= HyperFrame
  <2> DEFINE r == fn + n - HyperFrame
  <2>1. fn + n = HyperFrame * 1 + r /\ r \in 0 .. (HyperFrame - 1) /\ fn + n \in Int
    BY <1>1, <1>3 DEF Frames
  <2> HIDE DEF r
  <2>2. (fn + n) % HyperFrame = r
    BY <1>1, <2>1, ModUnique
  <2> QED
    BY <1>1, <1>3, <2>1, <2>2 DEF Sum, Frames, r
<1> QED
  BY <1>1, <1>2, <1>3 DEF Frames

\* The frames from a to b.
Dist(a, b) == (b - a) % HyperFrame

LEMMA DistIs ==
  ASSUME NEW a \in Frames, NEW b \in Frames
  PROVE  /\ Dist(a, b) \in Frames
         /\ Dist(a, b) = IF b >= a THEN b - a ELSE b - a + HyperFrame
<1>1. HyperFrame \in Nat \ {0}
  BY Sized
<1>2. CASE b >= a
  <2>1. b - a = HyperFrame * 0 + (b - a) /\ b - a \in 0 .. (HyperFrame - 1)
    BY <1>1, <1>2 DEF Frames
  <2>2. (b - a) % HyperFrame = b - a
    BY <1>1, <2>1, ModUnique
  <2> QED
    BY <1>2, <2>1, <2>2 DEF Dist, Frames
<1>3. CASE b < a
  <2> DEFINE r == b - a + HyperFrame
  <2>1. b - a = HyperFrame * (0 - 1) + r /\ r \in 0 .. (HyperFrame - 1) /\ b - a \in Int
    BY <1>1, <1>3 DEF Frames
  <2> HIDE DEF r
  <2>2. (b - a) % HyperFrame = r
    BY <1>1, <2>1, ModUnique
  <2> QED
    BY <1>1, <1>3, <2>1, <2>2 DEF Dist, Frames, r
<1> QED
  BY <1>1, <1>2, <1>3 DEF Frames

LEMMA BeforeIs ==
  ASSUME NEW a \in Frames, NEW b \in Frames
  PROVE  Before(a, b) <=> Dist(a, b) \in 1 .. (Half - 1)
BY DEF Before, Dist, Half

\* The frame after fn in its group.
LEMMA NextInGroup ==
  ASSUME NEW fn \in Frames
  PROVE  LET n == Sum(fn, 1)
         IN  /\ n \in Frames
             /\ fn % Group \in 0 .. (Group - 1)
             /\ n % Group \in 0 .. (Group - 1)
             /\ fn % Group <= fn
             /\ fn % Group = Group - 1 => n % Group = 0
             /\ fn % Group < Group - 1 => n = fn + 1 /\ n % Group = (fn % Group) + 1
<1> DEFINE g == fn % Group
           q == fn \div Group
           n == Sum(fn, 1)
<1>1. /\ HyperFrame \in Nat /\ HyperFrame > 1 /\ Group \in Nat /\ Group >= 5
      /\ fn \in Nat /\ fn < HyperFrame
  BY Sizes DEF Frames
<1>2. PICK k \in Nat : HyperFrame = Group * k
  BY Sizes
<1>3. g \in 0 .. (Group - 1) /\ q \in Int /\ fn = Group * q + g
  BY <1>1, DivMod
<1>4. n \in Frames /\ n = IF fn + 1 < HyperFrame THEN fn + 1 ELSE 0
  BY <1>1, SumIs DEF Frames
<1> HIDE DEF g, q, n
<1>5. q >= 0 /\ g <= fn
  BY <1>1, <1>3
<1>6. CASE g = Group - 1
  <2>1. fn + 1 = Group * (q + 1) /\ q + 1 \in Int
    BY <1>1, <1>3, <1>6
  <2>2. n = Group * (q + 1) \/ n = Group * 0
    BY <1>1, <1>4, <2>1
  <2>3. n % Group = 0
    <3>1. \E x \in Int : n = Group * x + 0
      BY <1>1, <2>1, <2>2
    <3>2. n \in Int /\ 0 \in 0 .. (Group - 1) /\ Group \in Nat \ {0}
      BY <1>1, <1>4 DEF Frames
    <3> QED
      BY <3>1, <3>2, ModUnique
  <2> QED
    BY <1>1, <1>3, <1>4, <1>5, <1>6, <2>3 DEF g, n
<1>7. CASE g < Group - 1
  <2>1. fn + 1 # Group * k
    <3> SUFFICES ASSUME fn + 1 = Group * k PROVE FALSE
      OBVIOUS
    <3> DEFINE d == k - q
    <3>1. Group * d = g + 1 /\ d \in Int
      BY <1>1, <1>2, <1>3
    <3> HIDE DEF d
    <3> QED
      BY <1>1, <1>3, <1>7, <3>1
  <2>2. n = fn + 1
    BY <1>1, <1>2, <1>4, <2>1
  <2>3. n = Group * q + (g + 1) /\ g + 1 \in 0 .. (Group - 1) /\ n \in Int
    BY <1>1, <1>3, <1>7, <2>2
  <2>4. n % Group = g + 1
    BY <1>1, <1>3, <2>3, ModUnique
  <2> QED
    BY <1>1, <1>3, <1>4, <1>5, <1>7, <2>2, <2>3, <2>4 DEF g, n
<1> QED
  BY <1>1, <1>3, <1>6, <1>7

\* From one frame of the channel to the next: the next burst of the block, or
\* after the last one the first burst of the next block, at most one frame of
\* another channel later.
LEMMA NextFrame ==
  ASSUME NEW fn \in Frames
  PROVE  LET n == Sum(fn, 1)
         IN  /\ n \in Frames /\ Bid(fn) \in 0 .. 3 /\ First(fn) \in Frames
             /\ First(fn) + Bid(fn) = fn
             /\ ~IsPdtch(fn) => IsPdtch(n) /\ Bid(n) = 0
             /\ IsPdtch(fn) /\ Bid(fn) < 3 =>
                  IsPdtch(n) /\ Bid(n) = Bid(fn) + 1 /\ First(n) = First(fn)
             /\ IsPdtch(fn) /\ Bid(fn) = 3 /\ IsPdtch(n) => Bid(n) = 0
<1> DEFINE n == Sum(fn, 1)
           g == fn % Group
           h == n % Group
<1>1. /\ n \in Frames /\ g \in 0 .. (Group - 1) /\ h \in 0 .. (Group - 1)
      /\ g <= fn
      /\ g = Group - 1 => h = 0
      /\ g < Group - 1 => n = fn + 1 /\ h = g + 1
  BY NextInGroup
<1>2. Group = 4 * Blks + 1 /\ Blks \in Nat /\ Blks > 0
  BY Sizes
<1> HIDE DEF n, g, h
<1>3. /\ Bid(fn) = g % 4 /\ Bid(n) = h % 4
      /\ IsPdtch(fn) <=> g < 4 * Blks
      /\ IsPdtch(n) <=> h < 4 * Blks
  BY DEF Bid, IsPdtch, g, h
<1>4. /\ g % 4 \in 0 .. 3 /\ g % 4 <= g
      /\ g < 4 * Blks /\ g % 4 < 3 => g + 1 < 4 * Blks /\ (g + 1) % 4 = (g % 4) + 1
      /\ g % 4 = 3 => (g + 1) % 4 = 0
      /\ 0 % 4 = 0
  BY <1>1, <1>2
<1>5. First(fn) = fn - (g % 4) /\ First(n) = n - (h % 4)
  BY <1>3 DEF First
<1>6. First(fn) \in Frames /\ First(fn) + Bid(fn) = fn
  BY <1>1, <1>3, <1>4, <1>5, Sized DEF Frames
<1>7. ~IsPdtch(fn) => IsPdtch(n) /\ Bid(n) = 0
  BY <1>1, <1>2, <1>3, <1>4
<1>8. IsPdtch(fn) /\ Bid(fn) < 3 =>
        IsPdtch(n) /\ Bid(n) = Bid(fn) + 1 /\ First(n) = First(fn)
  BY <1>1, <1>2, <1>3, <1>4, <1>5 DEF Frames
<1>9. IsPdtch(fn) /\ Bid(fn) = 3 /\ IsPdtch(n) => Bid(n) = 0
  BY <1>1, <1>2, <1>3, <1>4
<1> QED
  BY <1>1, <1>3, <1>4, <1>6, <1>7, <1>8, <1>9 DEF n

-----------------------------------------------------------------------------
(* Downlink: one burst.                                                      *)

\* The types of struct l1sched_lchan_state's Downlink half, and of the loop.
RxType == {c \in [num_proc : BOOLEAN, last_proc : Frames, mask : SUBSET (0 .. 2),
                  high : BOOLEAN, bursts : [0 .. 3 -> Frames],
                  meas : Seq(Frames), outage : BOOLEAN] : Len(c.meas) = 4}
LoopType == [lchan : RxType, ind : Seq(Block)]

LEMMA Appended ==
  ASSUME NEW S, NEW q \in Seq(S), NEW e \in S
  PROVE  /\ Append(q, e) \in Seq(S) /\ Len(q) \in Nat
         /\ Len(Append(q, e)) = Len(q) + 1
         /\ Append(q, e)[Len(q) + 1] = e
         /\ \A i \in 1 .. Len(q) : Append(q, e)[i] = q[i]
OBVIOUS

\* The measurements are a queue of four.
LEMMA MeasPush ==
  ASSUME NEW m \in Seq(Frames), Len(m) = 4, NEW fn \in Frames
  PROVE  LET n == Append(Tail(m), fn)
         IN  /\ n \in Seq(Frames) /\ Len(n) = 4
             /\ \A i \in 1 .. 3 : n[i] = m[i + 1]
             /\ n[4] = fn
             /\ m[1] \in Frames
<1> DEFINE t == Tail(m)
<1>0. m # <<>>
  OBVIOUS
<1>1. t \in Seq(Frames) /\ Len(t) = 3 /\ \A i \in 1 .. 3 : t[i] = m[i + 1]
  <2>1. t \in Seq(Frames) /\ Len(t) = Len(m) - 1
    BY <1>0, HeadTailProperties
  <2>2. \A i \in 1 .. Len(t) : t[i] = m[i + 1]
    BY <1>0, HeadTailProperties
  <2> HIDE DEF t
  <2> QED
    BY <2>1, <2>2
<1>2. m[1] \in Frames
  OBVIOUS
<1> HIDE DEF t
<1> DEFINE n == Append(t, fn)
<1>3. n \in Seq(Frames) /\ Len(n) = 4 /\ n[4] = fn /\ \A i \in 1 .. 3 : n[i] = t[i]
  <2>1. /\ n \in Seq(Frames) /\ Len(t) \in Nat
        /\ Len(n) = Len(t) + 1
        /\ n[Len(t) + 1] = fn
        /\ \A i \in 1 .. Len(t) : n[i] = t[i]
    <3>1. t \in Seq(Frames)
      BY <1>1
    <3> QED
      BY <3>1
  <2> HIDE DEF n
  <2> QED
    BY <1>1, <2>1
<1> QED
  BY <1>1, <1>2, <1>3 DEF t

\* Nothing of the block was taken so far: its bursts are not of interest.
Unaligned(c) == c.mask = {} /\ ~c.high

\* What the handler makes of one burst of the channel.
LEMMA ProcessedIs ==
  ASSUME NEW s \in LoopType, NEW fn \in Frames
  PROVE  LET r == Processed(s, fn)
             c == s.lchan
             d == r.lchan
             b == Bid(fn)
         IN  /\ r \in LoopType
             /\ d.num_proc = TRUE /\ d.last_proc = fn
             /\ Unaligned(c) /\ b # 0 => Unaligned(d) /\ r.ind = s.ind
             /\ ~(Unaligned(c) /\ b # 0) =>
                  /\ ~Unaligned(d)
                  /\ d.bursts = [c.bursts EXCEPT ![b] = fn]
                  /\ d.meas = Append(Tail(c.meas), fn)
                  /\ d.outage = (c.outage /\ b # 0)
                  /\ b # 3 => r.ind = s.ind
                  /\ b = 3 => r.ind = Append(s.ind,
                                 [fn |-> d.meas[1], bursts |-> d.bursts,
                                  end |-> fn, outage |-> d.outage])
<1> DEFINE c == s.lchan
           b == Bid(fn)
           meas == Append(Tail(c.meas), fn)
           bursts == [c.bursts EXCEPT ![b] = fn]
           p == RxPdtch(s, fn)
           r == Processed(s, fn)
<1>1. /\ c \in RxType /\ s.ind \in Seq(Block) /\ b \in 0 .. 3
      /\ s = [lchan |-> c, ind |-> s.ind]
  BY NextFrame DEF LoopType
<1>2. c.meas \in Seq(Frames) /\ Len(c.meas) = 4 /\ c.bursts \in [0 .. 3 -> Frames]
  BY <1>1 DEF RxType
<1>3. meas \in Seq(Frames) /\ Len(meas) = 4 /\ meas[1] \in Frames
  <2> HIDE DEF meas
  <2>1. meas \in Seq(Frames) /\ Len(meas) = 4
    BY <1>2, MeasPush DEF meas
  <2>2. 1 \in 1 .. Len(meas)
    BY <2>1
  <2>3. meas[1] \in Frames
    BY <2>1, <2>2, ElementOfSeq
  <2> QED
    BY <2>1, <2>3
<1>4. bursts \in [0 .. 3 -> Frames]
  BY <1>1, <1>2
<1> DEFINE l == [c EXCEPT !.bursts = bursts, !.meas = meas, !.outage = @ /\ b # 0]
           i == [fn |-> meas[1], bursts |-> bursts, end |-> fn, outage |-> l.outage]
<1>5. p = IF Unaligned(c) /\ b # 0 THEN s
          ELSE IF b # 3
          THEN [s EXCEPT !.lchan = [l EXCEPT !.mask = @ \cup {b}]]
          ELSE [lchan |-> [l EXCEPT !.mask = {}, !.high = TRUE],
                ind |-> Append(s.ind, i)]
  BY DEF RxPdtch, Unaligned
<1>6. r = [p EXCEPT !.lchan.last_proc = fn, !.lchan.num_proc = TRUE]
  BY DEF Processed
<1> HIDE DEF c, b, meas, bursts, p, r
<1>7. CASE Unaligned(c) /\ b # 0
  <2> DEFINE d == [c EXCEPT !.last_proc = fn, !.num_proc = TRUE]
  <2>1. p = [lchan |-> c, ind |-> s.ind]
    BY <1>1, <1>5, <1>7
  <2>2. r = [lchan |-> d, ind |-> s.ind]
    BY <1>6, <2>1
  <2>3. d \in RxType /\ Unaligned(d) /\ d.num_proc = TRUE /\ d.last_proc = fn
    BY <1>1, <1>7 DEF RxType, Unaligned
  <2> HIDE DEF d
  <2>4. r \in LoopType /\ r.lchan = d /\ r.ind = s.ind
    BY <1>1, <2>2, <2>3 DEF LoopType
  <2> QED
    BY <1>7, <2>3, <2>4 DEF r, c, b
<1>8. CASE ~(Unaligned(c) /\ b # 0) /\ b # 3
  <2> DEFINE d == [num_proc |-> TRUE, last_proc |-> fn, mask |-> c.mask \cup {b},
                   high |-> c.high, bursts |-> bursts, meas |-> meas,
                   outage |-> (c.outage /\ b # 0)]
  <2>1. p = [lchan |-> [l EXCEPT !.mask = @ \cup {b}], ind |-> s.ind]
    BY <1>1, <1>5, <1>8
  <2>2. r = [lchan |-> d, ind |-> s.ind]
    BY <1>1, <1>6, <2>1 DEF RxType
  <2>3. d \in RxType
    BY <1>1, <1>3, <1>4, <1>8 DEF RxType
  <2>4. ~Unaligned(d)
    BY DEF Unaligned
  <2>5. /\ d.num_proc = TRUE /\ d.last_proc = fn /\ d.bursts = bursts
        /\ d.meas = meas /\ d.outage = (c.outage /\ b # 0)
    OBVIOUS
  <2> HIDE DEF d
  <2>6. r \in LoopType /\ r.lchan = d /\ r.ind = s.ind
    BY <1>1, <2>2, <2>3 DEF LoopType
  <2> QED
    BY <1>8, <2>4, <2>5, <2>6 DEF r, c, b, meas, bursts
<1>9. CASE ~(Unaligned(c) /\ b # 0) /\ b = 3
  <2> DEFINE d == [num_proc |-> TRUE, last_proc |-> fn, mask |-> {},
                   high |-> TRUE, bursts |-> bursts, meas |-> meas,
                   outage |-> (c.outage /\ b # 0)]
  <2>1. p = [lchan |-> [l EXCEPT !.mask = {}, !.high = TRUE], ind |-> Append(s.ind, i)]
    BY <1>5, <1>9
  <2>2. r = [lchan |-> d, ind |-> Append(s.ind, i)]
    BY <1>1, <1>6, <2>1 DEF RxType
  <2>3. d \in RxType
    BY <1>1, <1>3, <1>4, <1>9 DEF RxType
  <2>4. ~Unaligned(d)
    BY DEF Unaligned
  <2>5. i = [fn |-> d.meas[1], bursts |-> d.bursts, end |-> fn, outage |-> d.outage]
    BY <1>1, <1>9 DEF RxType
  <2>6. i \in Block
    BY <1>1, <1>3, <1>4, <2>5 DEF Block, RxType
  <2>7. r \in LoopType
    BY <1>1, <2>2, <2>3, <2>6 DEF LoopType
  <2>8. /\ d.num_proc = TRUE /\ d.last_proc = fn /\ d.bursts = bursts
        /\ d.meas = meas /\ d.outage = (c.outage /\ b # 0)
    OBVIOUS
  <2> HIDE DEF i, d
  <2>9. r.lchan = d /\ r.ind = Append(s.ind, i)
    BY <2>2
  <2> QED
    BY <1>9, <2>4, <2>5, <2>7, <2>8, <2>9 DEF r, c, b, meas, bursts
<1> QED
  BY <1>7, <1>8, <1>9

\* The bursts and frame numbers kept are those of the block of the last frame.
Whole(c) ==
  LET L == c.last_proc
  IN  c.num_proc =>
        /\ IsPdtch(L)
        /\ ~c.outage /\ ~Unaligned(c) =>
             \A b \in 0 .. 3 : b <= Bid(L) =>
               /\ c.bursts[b] = First(L) + b
               /\ c.meas[4 - Bid(L) + b] = First(L) + b

\* What IndIsWhole says of a block.
WholeInd(d) ==
  ~d.outage => /\ d.fn = First(d.end)
               /\ \A b \in 0 .. 3 : d.bursts[b] = d.fn + b

\* fn is the frame of the channel that follows L.
Follows(L, fn) ==
  \/ fn = Sum(L, 1)
  \/ ~IsPdtch(Sum(L, 1)) /\ fn = Sum(Sum(L, 1), 1)

LEMMA FollowsIs ==
  ASSUME NEW L \in Frames, NEW fn \in Frames, IsPdtch(L), IsPdtch(fn),
         Follows(L, fn), Bid(fn) # 0
  PROVE  Bid(L) \in 0 .. 2 /\ Bid(fn) = Bid(L) + 1 /\ First(fn) = First(L)
<1> DEFINE n == Sum(L, 1)
           m == Sum(n, 1)
<1>1. /\ n \in Frames /\ Bid(L) \in 0 .. 3
      /\ Bid(L) < 3 => IsPdtch(n) /\ Bid(n) = Bid(L) + 1 /\ First(n) = First(L)
      /\ Bid(L) = 3 /\ IsPdtch(n) => Bid(n) = 0
  BY NextFrame
<1>2. ~IsPdtch(n) => Bid(m) = 0
  BY <1>1, NextFrame
<1>3. fn = n \/ (~IsPdtch(n) /\ fn = m)
  BY DEF Follows
<1> HIDE DEF n, m
<1> QED
  BY <1>1, <1>2, <1>3

\* A burst that follows, or the first one, leaves what is kept whole.
LEMMA ProcessedWhole ==
  ASSUME NEW s \in LoopType, NEW fn \in Frames, IsPdtch(fn),
         \/ Unaligned(s.lchan)
         \/ s.lchan.outage
         \/ s.lchan.num_proc /\ Whole(s.lchan) /\ Follows(s.lchan.last_proc, fn)
  PROVE  LET r == Processed(s, fn)
         IN  /\ Whole(r.lchan)
             /\ \/ r.ind = s.ind
                \/ \E d \in Block : d.end = fn /\ WholeInd(d) /\ r.ind = Append(s.ind, d)
<1> DEFINE r == Processed(s, fn)
           c == s.lchan
           d == r.lchan
           b == Bid(fn)
           i == [fn |-> d.meas[1], bursts |-> d.bursts, end |-> fn, outage |-> d.outage]
<1>1. /\ r \in LoopType /\ d.num_proc = TRUE /\ d.last_proc = fn
      /\ Unaligned(c) /\ b # 0 => Unaligned(d) /\ r.ind = s.ind
      /\ ~(Unaligned(c) /\ b # 0) =>
           /\ d.bursts = [c.bursts EXCEPT ![b] = fn]
           /\ d.meas = Append(Tail(c.meas), fn)
           /\ d.outage = (c.outage /\ b # 0)
           /\ b # 3 => r.ind = s.ind
           /\ b = 3 => r.ind = Append(s.ind, i)
  BY ProcessedIs
<1>2. /\ c \in RxType /\ d \in RxType
      /\ b \in 0 .. 3 /\ First(fn) \in Frames /\ First(fn) + b = fn
  BY <1>1, NextFrame DEF LoopType
<1>3. /\ c.bursts \in [0 .. 3 -> Frames] /\ c.meas \in Seq(Frames)
      /\ Len(c.meas) = 4
      /\ c.last_proc \in Frames
      /\ d.bursts \in [0 .. 3 -> Frames] /\ d.meas \in Seq(Frames)
      /\ Len(d.meas) = 4
      /\ d.outage \in BOOLEAN /\ c.outage \in BOOLEAN /\ c.high \in BOOLEAN
  BY <1>2 DEF RxType
<1>4. \/ Unaligned(c) \/ c.outage
      \/ c.num_proc /\ Whole(c) /\ Follows(c.last_proc, fn)
  OBVIOUS
<1>5. i \in Block
  BY <1>3 DEF Block
<1>6. i.end = fn /\ i.fn = d.meas[1] /\ i.bursts = d.bursts /\ i.outage = d.outage
  OBVIOUS
<1> HIDE DEF r, c, d, b, i
<1>7. CASE Unaligned(c) /\ b # 0
  BY <1>1, <1>7 DEF Whole, r, d
<1>8. CASE ~(Unaligned(c) /\ b # 0)
  <2>1. /\ d.bursts = [c.bursts EXCEPT ![b] = fn]
        /\ d.outage = (c.outage /\ b # 0)
        /\ d.meas[4] = fn /\ \A j \in 1 .. 3 : d.meas[j] = c.meas[j + 1]
    BY <1>1, <1>3, <1>8, MeasPush
  <2>2. ~d.outage => \A a \in 0 .. 3 : a <= b =>
           d.bursts[a] = First(fn) + a /\ d.meas[4 - b + a] = First(fn) + a
    <3> SUFFICES ASSUME ~d.outage, NEW a \in 0 .. 3, a <= b
                 PROVE  /\ d.bursts[a] = First(fn) + a
                        /\ d.meas[4 - b + a] = First(fn) + a
      OBVIOUS
    <3>1. CASE a = b
      BY <1>2, <1>3, <2>1, <3>1 DEF Frames
    <3>2. CASE a < b
      <4>0. b # 0
        BY <1>2, <3>2
      <4>1. b # 0 /\ ~c.outage /\ ~Unaligned(c)
        BY <1>8, <2>1, <4>0, Zenon
      <4>2. c.num_proc /\ Whole(c) /\ Follows(c.last_proc, fn)
        BY <1>4, <4>1
      <4> DEFINE L == c.last_proc
                 e == Bid(L)
      <4>3. IsPdtch(L) /\ \A x \in 0 .. 3 : x <= e =>
               c.bursts[x] = First(L) + x /\ c.meas[4 - e + x] = First(L) + x
        BY <4>1, <4>2 DEF Whole
      <4>4. e \in 0 .. 2 /\ b = e + 1 /\ First(fn) = First(L)
        BY <1>3, <4>1, <4>2, <4>3, FollowsIs DEF b
      <4> HIDE DEF L, e
      <4>5. c.bursts[a] = First(fn) + a /\ c.meas[4 - e + a] = First(fn) + a
        BY <3>2, <4>3, <4>4
      <4>6. d.bursts[a] = c.bursts[a]
        BY <1>3, <2>1, <3>2
      <4>7. 4 - b + a \in 1 .. 3 /\ 4 - e + a = (4 - b + a) + 1
        BY <3>2, <4>4
      <4>8. d.meas[4 - b + a] = c.meas[4 - e + a]
        BY <2>1, <4>7
      <4> QED
        BY <4>5, <4>6, <4>8
    <3> QED
      BY <1>2, <3>1, <3>2
  <2>3. Whole(d)
    BY <1>1, <2>2 DEF Whole, b
  <2>4. CASE b # 3
    BY <1>1, <1>8, <2>3, <2>4 DEF r, d
  <2>5. CASE b = 3
    <3>1. WholeInd(i)
      <4> SUFFICES ASSUME ~d.outage
                   PROVE  d.meas[1] = First(fn) /\ \A a \in 0 .. 3 : d.bursts[a] = First(fn) + a
        BY <1>6 DEF WholeInd
      <4>1. \A a \in 0 .. 3 : a <= 3 =>
              d.bursts[a] = First(fn) + a /\ d.meas[4 - 3 + a] = First(fn) + a
        BY <2>2, <2>5
      <4>2. d.meas[4 - 3 + 0] = First(fn) + 0
        BY <4>1
      <4> QED
        BY <1>2, <4>1, <4>2 DEF Frames
    <3> QED
      BY <1>1, <1>5, <1>6, <1>8, <2>3, <2>5, <3>1 DEF r, d
  <2> QED
    BY <2>4, <2>5
<1> QED
  BY <1>7, <1>8

-----------------------------------------------------------------------------
(* Downlink: the loop over the lost frames.                                  *)

\* One turn of the loop, and the loop as a function of the number of turns.
Turn(from, t, i) ==
  IF IsPdtch(Sum(from, i)) THEN Processed(t, Sum(from, i)) ELSE t

Makes(f, s, n) ==
  f = [i \in 0 .. n |-> IF i = 0 THEN s
                        ELSE Turn(s.lchan.last_proc, f[i - 1], i)]

LEMMA MakesExist ==
  ASSUME NEW s, NEW m \in Nat
  PROVE  \E f : Makes(f, s, m)
<1> DEFINE from == s.lchan.last_proc
           S == {k \in Nat : \E f : Makes(f, s, k)}
<1>1. 0 \in S
  <2> DEFINE f == [i \in 0 .. 0 |-> s]
  <2>1. f = [i \in 0 .. 0 |-> IF i = 0 THEN s ELSE Turn(from, f[i - 1], i)]
    OBVIOUS
  <2> QED
    BY <2>1 DEF Makes
<1>2. ASSUME NEW k \in Nat, k \in S
      PROVE  k + 1 \in S
  <2>1. PICK f : Makes(f, s, k)
    BY <1>2
  <2>2. /\ DOMAIN f = 0 .. k /\ f[0] = s
        /\ \A i \in 1 .. k : f[i] = Turn(from, f[i - 1], i)
    BY <2>1 DEF Makes
  <2> DEFINE h == [i \in 0 .. (k + 1) |->
                     IF i = k + 1 THEN Turn(from, f[k], k + 1) ELSE f[i]]
  <2>3. \A i \in 0 .. (k + 1) :
          h[i] = IF i = 0 THEN s ELSE Turn(from, h[i - 1], i)
    BY <2>2
  <2>4. h = [i \in 0 .. (k + 1) |-> IF i = 0 THEN s ELSE Turn(from, h[i - 1], i)]
    <3>1. h = [i \in 0 .. (k + 1) |-> h[i]]
      OBVIOUS
    <3> HIDE DEF h
    <3> QED
      BY <2>3, <3>1
  <2> HIDE DEF h
  <2>5. Makes(h, s, k + 1)
    BY <2>4 DEF Makes
  <2> QED
    BY <2>5
<1> HIDE DEF S
<1>3. m \in S
  BY <1>1, <1>2, SetInduction
<1> QED
  BY <1>3 DEF S

LEMMA MakeUpIs ==
  ASSUME NEW s, NEW m \in Nat
  PROVE  \E f : /\ MakeUp(s, m) = f[m] /\ f[0] = s
                /\ \A i \in 1 .. m :
                     f[i] = Turn(s.lchan.last_proc, f[i - 1], i)
<1> DEFINE F == CHOOSE f : Makes(f, s, m)
<1>1. Makes(F, s, m)
  BY MakesExist
<1>2. MakeUp(s, m) = F[m]
  BY DEF MakeUp, Makes, Turn
<1> HIDE DEF F
<1>3. F[0] = s /\ \A i \in 1 .. m : F[i] = Turn(s.lchan.last_proc, F[i - 1], i)
  BY <1>1 DEF Makes
<1> QED
  BY <1>2, <1>3

\* Blocks that end within n frames after from, in order, all of them whole.
Ordered(from, q, n) ==
  \A x \in 1 .. Len(q) :
    /\ Dist(from, q[x].end) \in 1 .. n /\ WholeInd(q[x])
    /\ \A y \in 1 .. Len(q) : x < y => Dist(from, q[x].end) < Dist(from, q[y].end)

LEMMA OrderedMore ==
  ASSUME NEW from \in Frames, NEW q \in Seq(Block), NEW n \in Nat,
         Ordered(from, q, n),
         NEW d \in Block, Dist(from, d.end) = n + 1, WholeInd(d)
  PROVE  Ordered(from, Append(q, d), n + 1)
<1> DEFINE p == Append(q, d)
<1>1. /\ p \in Seq(Block) /\ Len(q) \in Nat
      /\ Len(p) = Len(q) + 1
      /\ p[Len(q) + 1] = d
      /\ \A i \in 1 .. Len(q) : p[i] = q[i]
  BY Appended
<1> HIDE DEF p
<1> SUFFICES ASSUME NEW x \in 1 .. Len(p)
             PROVE  /\ Dist(from, p[x].end) \in 1 .. (n + 1) /\ WholeInd(p[x])
                    /\ \A y \in 1 .. Len(p) :
                         x < y => Dist(from, p[x].end) < Dist(from, p[y].end)
  BY DEF Ordered, p
<1>2. \A y \in 1 .. Len(p) : (y \in 1 .. Len(q) /\ p[y] = q[y]) \/ (y = Len(q) + 1 /\ p[y] = d)
  BY <1>1
<1>3. \A y \in 1 .. Len(q) : Dist(from, q[y].end) \in 1 .. n /\ WholeInd(q[y])
  BY DEF Ordered
<1>4. CASE x \in 1 .. Len(q) /\ p[x] = q[x]
  <2>1. \A y \in 1 .. Len(q) : x < y => Dist(from, q[x].end) < Dist(from, q[y].end)
    BY <1>4 DEF Ordered
  <2>2. Dist(from, p[x].end) \in 1 .. n /\ WholeInd(p[x])
    BY <1>3, <1>4
  <2> QED
    BY <1>2, <1>4, <2>1, <2>2
<1>5. CASE x = Len(q) + 1 /\ p[x] = d
  BY <1>1, <1>5
<1> QED
  BY <1>2, <1>4, <1>5

LEMMA OrderedWider ==
  ASSUME NEW from, NEW q, NEW n \in Nat, Ordered(from, q, n)
  PROVE  Ordered(from, q, n + 1)
<1>1. \A k : k \in 1 .. n => k \in 1 .. (n + 1)
  OBVIOUS
<1> QED
  BY <1>1, Zenon DEF Ordered

\* The loop after i turns has processed every frame of the channel up to the
\* i-th after from.
Reached(from, t, i) ==
  LET L == t.lchan.last_proc
  IN  /\ t \in LoopType /\ t.lchan.num_proc = TRUE
      /\ Whole(t.lchan) /\ Ordered(from, t.ind, i)
      /\ \/ L = Sum(from, i)
         \/ i > 0 /\ ~IsPdtch(Sum(from, i)) /\ L = Sum(from, i - 1)

LEMMA SumSum ==
  ASSUME NEW fn \in Frames, NEW i \in 0 .. (HyperFrame - 1)
  PROVE  Sum(Sum(fn, i), 1) = Sum(fn, i + 1)
<1>1. HyperFrame \in Nat /\ HyperFrame > 10
  BY Sized
<1> DEFINE a == Sum(fn, i)
<1>2. a \in Frames /\ a = IF fn + i < HyperFrame THEN fn + i ELSE fn + i - HyperFrame
  BY <1>1, SumIs
<1> HIDE DEF a
<1>3. Sum(a, 1) = IF a + 1 < HyperFrame THEN a + 1 ELSE a + 1 - HyperFrame
  BY <1>1, <1>2, SumIs
<1>4. Sum(fn, i + 1) = IF fn + (i + 1) < HyperFrame THEN fn + (i + 1)
                                                   ELSE fn + (i + 1) - HyperFrame
  BY <1>1, SumIs
<1> QED
  BY <1>1, <1>2, <1>3, <1>4 DEF a, Frames

LEMMA DistSum ==
  ASSUME NEW fn \in Frames, NEW i \in 0 .. (HyperFrame - 1)
  PROVE  Sum(fn, i) \in Frames /\ Dist(fn, Sum(fn, i)) = i
<1>1. HyperFrame \in Nat
  BY Sized
<1> DEFINE a == Sum(fn, i)
<1>2. a \in Frames /\ a = IF fn + i < HyperFrame THEN fn + i ELSE fn + i - HyperFrame
  BY <1>1, SumIs
<1> HIDE DEF a
<1>3. Dist(fn, a) = IF a >= fn THEN a - fn ELSE a - fn + HyperFrame
  BY <1>2, DistIs
<1> QED
  BY <1>1, <1>2, <1>3 DEF a, Frames

\* From the i-th frame on to the next one.
LEMMA ReachedFollows ==
  ASSUME NEW from \in Frames, NEW i \in 0 .. (HyperFrame - 2), NEW t,
         Reached(from, t, i)
  PROVE  LET n == Sum(from, i + 1)
         IN  /\ n \in Frames /\ Dist(from, n) = i + 1
             /\ IsPdtch(n) => Follows(t.lchan.last_proc, n)
             /\ ~IsPdtch(n) => t.lchan.last_proc = Sum(from, i)
<1> DEFINE a == Sum(from, i)
           n == Sum(from, i + 1)
           L == t.lchan.last_proc
<1>1. HyperFrame \in Nat /\ HyperFrame > 10
  BY Sized
<1>2. a \in Frames /\ n = Sum(a, 1) /\ n \in Frames /\ Dist(from, n) = i + 1
  BY <1>1, SumSum, DistSum
<1>3. L = a \/ (i > 0 /\ ~IsPdtch(a) /\ L = Sum(from, i - 1))
  BY DEF Reached
<1>4. CASE L = a
  BY <1>2, <1>4 DEF Follows
<1>5. CASE i > 0 /\ ~IsPdtch(a) /\ L = Sum(from, i - 1)
  <2>1. i - 1 \in 0 .. (HyperFrame - 1) /\ (i - 1) + 1 = i
    BY <1>1, <1>5
  <2>2. Sum(L, 1) = a
    BY <1>5, <2>1, SumSum
  <2>3. IsPdtch(n)
    BY <1>2, <1>5, NextFrame
  <2> QED
    BY <1>2, <1>5, <2>2, <2>3 DEF Follows
<1> QED
  BY <1>3, <1>4, <1>5

LEMMA ReachedProcessed ==
  ASSUME NEW from \in Frames, NEW i \in 0 .. (HyperFrame - 2), NEW t,
         Reached(from, t, i), IsPdtch(Sum(from, i + 1))
  PROVE  Reached(from, Processed(t, Sum(from, i + 1)), i + 1)
<1> DEFINE n == Sum(from, i + 1)
           r == Processed(t, n)
<1>1. n \in Frames /\ Dist(from, n) = i + 1 /\ Follows(t.lchan.last_proc, n)
  BY ReachedFollows
<1>2. /\ t \in LoopType /\ t.lchan.num_proc = TRUE /\ Whole(t.lchan)
      /\ Ordered(from, t.ind, i)
  BY DEF Reached
<1> HIDE DEF n
<1>3. r \in LoopType /\ r.lchan.num_proc = TRUE /\ r.lchan.last_proc = n
  BY <1>1, <1>2, ProcessedIs
<1>4. /\ Whole(r.lchan)
      /\ \/ r.ind = t.ind
         \/ \E d \in Block : d.end = n /\ WholeInd(d) /\ r.ind = Append(t.ind, d)
  BY <1>1, <1>2, ProcessedWhole DEF n
<1> HIDE DEF r
<1>5. t.ind \in Seq(Block) /\ i \in Nat
  BY <1>2, Sized DEF LoopType
<1>6. Ordered(from, r.ind, i + 1)
  BY <1>1, <1>2, <1>4, <1>5, OrderedMore, OrderedWider
<1> QED
  BY <1>3, <1>4, <1>6 DEF Reached, r, n

LEMMA ReachedTurn ==
  ASSUME NEW from \in Frames, NEW i \in 0 .. (HyperFrame - 2), NEW t,
         Reached(from, t, i)
  PROVE  Reached(from, Turn(from, t, i + 1), i + 1)
<1>1. CASE IsPdtch(Sum(from, i + 1))
  BY <1>1, ReachedProcessed DEF Turn
<1>2. CASE ~IsPdtch(Sum(from, i + 1))
  <2>1. t.lchan.last_proc = Sum(from, i)
    BY <1>2, ReachedFollows
  <2>2. i \in Nat
    BY Sized
  <2>3. Turn(from, t, i + 1) = t
    BY <1>2 DEF Turn
  <2>4. Ordered(from, t.ind, i + 1)
    BY <2>2, OrderedWider DEF Reached
  <2>5. (i + 1) - 1 = i /\ i + 1 > 0
    BY <2>2
  <2>6. /\ t \in LoopType /\ t.lchan.num_proc = TRUE /\ Whole(t.lchan)
    BY DEF Reached
  <2>7. t.lchan.last_proc = Sum(from, (i + 1) - 1)
    BY <2>1, <2>5
  <2> QED
    BY <1>2, <2>3, <2>4, <2>5, <2>6, <2>7 DEF Reached
<1> QED
  BY <1>1, <1>2

LEMMA MakeUpReaches ==
  ASSUME NEW s \in LoopType, s.lchan.num_proc = TRUE, Whole(s.lchan),
         s.ind = <<>>, NEW m \in 0 .. (HyperFrame - 2)
  PROVE  Reached(s.lchan.last_proc, MakeUp(s, m), m)
<1> DEFINE from == s.lchan.last_proc
<1>1. m \in Nat /\ from \in Frames
  BY Sized DEF LoopType, RxType
<1>2. PICK f : /\ MakeUp(s, m) = f[m] /\ f[0] = s
               /\ \A i \in 1 .. m : f[i] = Turn(from, f[i - 1], i)
  BY <1>1, MakeUpIs
<1> HIDE DEF from
<1> DEFINE S == {k \in Nat : k <= m => Reached(from, f[k], k)}
<1>3. 0 \in S
  <2>1. Ordered(from, s.ind, 0)
    BY DEF Ordered
  <2>2. from = Sum(from, 0)
    <3>1. HyperFrame \in Nat
      BY Sized
    <3> QED
      BY <1>1, <3>1, SumIs DEF Frames
  <2>3. Reached(from, s, 0)
    BY <2>1, <2>2 DEF Reached, from
  <2> QED
    BY <1>2, <2>3
<1>4. ASSUME NEW k \in Nat, k \in S
      PROVE  k + 1 \in S
  <2> SUFFICES ASSUME k + 1 <= m PROVE Reached(from, f[k + 1], k + 1)
    OBVIOUS
  <2>1. Reached(from, f[k], k)
    BY <1>1, <1>4
  <2>2. k \in 0 .. (HyperFrame - 2)
    BY <1>1, Sized
  <2>3. f[k + 1] = Turn(from, f[k], k + 1)
    BY <1>1, <1>2
  <2> QED
    BY <1>1, <2>1, <2>2, <2>3, ReachedTurn
<1> HIDE DEF S
<1>5. m \in S
  BY <1>1, <1>3, <1>4, SetInduction
<1> QED
  BY <1>1, <1>2, <1>5 DEF S, from

-----------------------------------------------------------------------------
(* Downlink: a burst that arrives.                                           *)

\* What is kept of the Downlink between two bursts.
RxInv == IF rx.num_proc THEN Whole(rx) ELSE rx = IdleRx

\* fn is a frame after the last one processed, or one before it; the two are
\* less than half a hyperframe apart.
Comparable(fn) ==
  rx.num_proc => \/ Before(fn, rx.last_proc)
                 \/ Dist(rx.last_proc, fn) \in 1 .. (Half - 1)

Accepted(fn) == IsPdtch(fn) /\ ~TooLate(fn)

LEMMA Handled ==
  ASSUME rx \in RxType, RxInv, NEW fn \in Frames, Comparable(fn), Accepted(fn)
  PROVE  LET h == HandleRxBurst(fn)
         IN  /\ h \in LoopType
             /\ h.lchan.num_proc = TRUE /\ h.lchan.last_proc = fn
             /\ Whole(h.lchan)
             /\ \A x \in 1 .. Len(h.ind) : WholeInd(h.ind[x])
             /\ IF rx.num_proc THEN Ordered(rx.last_proc, h.ind, Half - 1)
                               ELSE Len(h.ind) <= 1
<1> DEFINE h == HandleRxBurst(fn)
           e == Elapsed(fn)
           from == rx.last_proc
           gap == rx.num_proc /\ e > Period
           start == [lchan |-> [rx EXCEPT !.outage = @ \/ gap], ind |-> <<>>]
           up == MakeUp(start, Lost(fn))
<1>1. h = Processed(up, fn)
  BY DEF HandleRxBurst, Accepted
<1>2. /\ HyperFrame \in Nat /\ Half \in Nat /\ Period \in Nat
      /\ 2 * Half <= HyperFrame
      /\ Period < Half
  BY Sized
<1>3. /\ from \in Frames /\ rx.outage \in BOOLEAN /\ rx.num_proc \in BOOLEAN
      /\ <<>> \in Seq(Block)
  BY DEF RxType
<1>4. e = Dist(from, fn) /\ e \in Frames
  BY <1>3, DistIs DEF Elapsed, Dist
<1>5. rx.num_proc => e \in 1 .. (Half - 1)
  BY <1>3, <1>4, BeforeIs DEF Comparable, Accepted, TooLate
<1>6. start.lchan \in RxType /\ start.ind = <<>> /\ start \in LoopType
  BY <1>3 DEF RxType, LoopType
<1>7. Lost(fn) = IF rx.num_proc /\ e \in 1 .. Period THEN e - 1 ELSE 0
  BY DEF Lost
<1>8. MakeUp(start, 0) = start
  BY MakeUpIs
<1> HIDE DEF h, e, from, up
<1>10. CASE rx.num_proc /\ e \in 1 .. Period
  <2>1. start.lchan = rx
    <3>1. ~gap
      BY <1>2, <1>10
    <3>2. (rx.outage \/ gap) = rx.outage
      BY <1>3, <3>1, Zenon
    <3>3. [rx EXCEPT !.outage = rx.outage] = rx
      BY DEF RxType
    <3> QED
      BY <3>2, <3>3
  <2> DEFINE m == e - 1
  <2>2. m \in 0 .. (HyperFrame - 2) /\ m + 1 = e /\ Lost(fn) = m
    BY <1>2, <1>7, <1>10
  <2>3. rx.num_proc = TRUE /\ Whole(rx)
    BY <1>3, <1>10 DEF RxInv
  <2>4. start.lchan.num_proc = TRUE /\ Whole(start.lchan)
        /\ start.lchan.last_proc = from
    BY <2>1, <2>3 DEF from
  <2> HIDE DEF start, m
  <2>5. Reached(from, up, m)
    BY <1>6, <2>2, <2>4, MakeUpReaches DEF up
  <2>6. Sum(from, m + 1) = fn
    <3>1. e = IF fn >= from THEN fn - from ELSE fn - from + HyperFrame
      BY <1>3, <1>4, DistIs
    <3>2. m + 1 = e /\ e \in 0 .. HyperFrame
      BY <1>2, <1>4, <2>2 DEF Frames
    <3>3. Sum(from, e) = IF from + e < HyperFrame THEN from + e
                                                 ELSE from + e - HyperFrame
      BY <1>3, <3>2, SumIs
    <3> QED
      BY <1>2, <1>3, <3>1, <3>2, <3>3 DEF Frames
  <2>7. Reached(from, h, m + 1)
    BY <1>1, <1>3, <2>2, <2>5, <2>6, ReachedProcessed DEF Accepted
  <2>8. h.lchan.last_proc = fn
    <3>1. up \in LoopType
      BY <2>5 DEF Reached
    <3> QED
      BY <1>1, <3>1, ProcessedIs
  <2>9. /\ h \in LoopType /\ h.lchan.num_proc = TRUE /\ Whole(h.lchan)
        /\ Ordered(from, h.ind, e)
    BY <2>2, <2>7 DEF Reached
  <2>10. \A x \in 1 .. e : x \in 1 .. (Half - 1)
    BY <1>2, <1>10
  <2>11. Ordered(from, h.ind, Half - 1)
    BY <2>9, <2>10, Zenon DEF Ordered
  <2>12. \A x \in 1 .. Len(h.ind) : WholeInd(h.ind[x])
    BY <2>9, Zenon DEF Ordered
  <2> QED
    BY <1>10, <2>8, <2>9, <2>11, <2>12 DEF h, from
<1>11. CASE ~(rx.num_proc /\ e \in 1 .. Period)
  <2>1. up = start
    BY <1>7, <1>8, <1>11 DEF up
  <2>2. Unaligned(start.lchan) \/ start.lchan.outage
    <3>1. CASE rx.num_proc
      <4>1. gap
        BY <1>2, <1>5, <1>11, <3>1
      <4> QED
        BY <4>1 DEF RxType
    <3>2. CASE ~rx.num_proc
      <4>1. rx.mask = {} /\ rx.high = FALSE
        BY <3>2 DEF RxInv, IdleRx
      <4> QED
        BY <4>1 DEF Unaligned, RxType
    <3> QED
      BY <3>1, <3>2
  <2> HIDE DEF start
  <2>3. /\ h \in LoopType /\ h.lchan.num_proc = TRUE /\ h.lchan.last_proc = fn
    BY <1>1, <1>6, <2>1, ProcessedIs
  <2>4. /\ Whole(h.lchan)
        /\ \/ h.ind = <<>>
           \/ \E d \in Block : d.end = fn /\ WholeInd(d) /\ h.ind = Append(<<>>, d)
    BY <1>1, <1>6, <2>1, <2>2, ProcessedWhole DEF Accepted
  <2>5. h.ind \in Seq(Block)
    BY <2>3 DEF LoopType
  <2>6. Len(h.ind) <= 1 /\ \A x \in 1 .. Len(h.ind) : WholeInd(h.ind[x]) /\ h.ind[x].end = fn
    <3>1. CASE h.ind = <<>>
      BY <3>1
    <3>2. CASE \E d \in Block : d.end = fn /\ WholeInd(d) /\ h.ind = Append(<<>>, d)
      <4>1. PICK d \in Block : d.end = fn /\ WholeInd(d) /\ h.ind = Append(<<>>, d)
        BY <3>2
      <4>2. Append(<<>>, d) = <<d>>
        OBVIOUS
      <4>3. Len(h.ind) = 1 /\ h.ind[1] = d
        BY <4>1, <4>2
      <4>4. \A x \in 1 .. Len(h.ind) : h.ind[x] = d
        BY <4>3
      <4> QED
        BY <4>1, <4>3, <4>4
    <3> QED
      BY <2>4, <3>1, <3>2
  <2>7. \A x \in 1 .. Len(h.ind) : WholeInd(h.ind[x]) /\ h.ind[x].end = fn
    BY <2>6
  <2>8. ASSUME rx.num_proc PROVE Ordered(from, h.ind, Half - 1)
    <3>1. Dist(from, fn) \in 1 .. (Half - 1)
      BY <1>4, <1>5, <2>8
    <3>2. \A x, y \in 1 .. Len(h.ind) : ~(x < y)
      BY <2>5, <2>6
    <3> QED
      BY <2>7, <3>1, <3>2, Zenon DEF Ordered
  <2> QED
    BY <2>3, <2>4, <2>6, <2>7, <2>8 DEF h, from
<1> QED
  BY <1>10, <1>11

LEMMA NotHandled ==
  ASSUME rx \in RxType, NEW fn \in Frames, ~Accepted(fn)
  PROVE  LET h == HandleRxBurst(fn)
         IN  h = [lchan |-> rx, ind |-> <<>>] /\ h \in LoopType
BY DEF HandleRxBurst, Accepted, LoopType

-----------------------------------------------------------------------------
(* Uplink.                                                                   *)

TxType == {c \in [tx_prims : Seq(Frames), prim : Frames \cup {None},
                  mask : SUBSET (0 .. 3), bursts : Frames \cup {None},
                  begun : Frames \cup {None}] :
             0 \in c.mask => c.bursts # None}

\* The prims dropped are those at the head whose frame has passed, all of them.
LEMMA StaleIs ==
  ASSUME NEW q \in Seq(Frames), NEW fn \in Frames
  PROVE  LET n == Stale(q, fn)
         IN  /\ n \in 0 .. Len(q)
             /\ \A i \in 1 .. n : Before(q[i], fn)
             /\ n < Len(q) => ~Before(q[n + 1], fn)
<1> DEFINE P(n) == /\ \A i \in 1 .. n : Before(q[i], fn)
                   /\ n < Len(q) => ~Before(q[n + 1], fn)
           S == {k \in Nat : k <= Len(q) => \/ \E n \in 0 .. Len(q) : P(n)
                                            \/ \A i \in 1 .. k : Before(q[i], fn)}
<1>1. Len(q) \in Nat
  OBVIOUS
<1>2. 0 \in S
  OBVIOUS
<1>3. ASSUME NEW k \in Nat, k \in S
      PROVE  k + 1 \in S
  <2> SUFFICES ASSUME k + 1 <= Len(q), ~\E n \in 0 .. Len(q) : P(n)
               PROVE  \A i \in 1 .. (k + 1) : Before(q[i], fn)
    OBVIOUS
  <2>1. \A i \in 1 .. k : Before(q[i], fn)
    BY <1>1, <1>3
  <2>2. ~P(k) /\ k < Len(q)
    <3>1. k \in 0 .. Len(q) /\ k < Len(q)
      BY <1>1
    <3> HIDE DEF P
    <3> QED
      BY <3>1
  <2>3. Before(q[k + 1], fn)
    BY <2>1, <2>2
  <2>4. \A i \in 1 .. (k + 1) : i \in 1 .. k \/ i = k + 1
    OBVIOUS
  <2> QED
    BY <2>1, <2>3, <2>4
<1>4. Len(q) \in S
  <2> HIDE DEF S
  <2> QED
    BY <1>1, <1>2, <1>3, SetInduction
<1>5. \E n \in 0 .. Len(q) : P(n)
  BY <1>1, <1>4
<1> QED
  BY <1>5 DEF Stale

LEMMA NotBeforeItself ==
  ASSUME NEW fn \in Frames
  PROVE  ~Before(fn, fn)
<1>1. Dist(fn, fn) = 0
  BY DistIs DEF Frames
<1>2. Half \in Nat
  BY Sized
<1> QED
  BY <1>1, <1>2, BeforeIs

LEMMA DequeueIs ==
  ASSUME NEW q \in Seq(Frames), NEW fn \in Frames
  PROVE  LET d == Dequeue(q, fn)
         IN  /\ d.got \in {fn, None} /\ d.rest \in Seq(Frames)
             /\ Len(d.rest) <= Len(q)
             /\ (\E i \in 1 .. Len(q) : q[i] = fn /\ \A j \in 1 .. (i - 1) : Before(q[j], fn))
                  => d.got = fn
<1> DEFINE n == Stale(q, fn)
           left == SubSeq(q, 1 + n, Len(q))
           d == Dequeue(q, fn)
<1>1. /\ n \in 0 .. Len(q) /\ \A i \in 1 .. n : Before(q[i], fn)
      /\ n < Len(q) => ~Before(q[n + 1], fn)
      /\ Len(q) \in Nat
  BY StaleIs
<1>2. d = IF left # <<>> /\ Head(left) = fn
          THEN [got |-> fn, rest |-> Tail(left)] ELSE [got |-> None, rest |-> left]
  BY DEF Dequeue
<1> HIDE DEF n, d
<1>3. /\ left \in Seq(Frames) /\ Len(left) = Len(q) - n
      /\ n < Len(q) => left # <<>> /\ Head(left) = q[n + 1]
  <2>1. left = [x \in 1 .. (Len(q) - (1 + n) + 1) |-> q[(1 + n) + x - 1]]
    BY <1>1
  <2>2. Len(q) - (1 + n) + 1 = Len(q) - n /\ Len(q) - n \in Nat
    BY <1>1
  <2> HIDE DEF left
  <2>3. left = [x \in 1 .. (Len(q) - n) |-> q[(1 + n) + x - 1]]
    BY <2>1, <2>2
  <2>4. \A x \in 1 .. (Len(q) - n) : (1 + n) + x - 1 \in 1 .. Len(q)
    BY <1>1
  <2>5. \A x \in 1 .. Len(q) : q[x] \in Frames
    BY ElementOfSeq
  <2>6. left \in [1 .. (Len(q) - n) -> Frames]
    BY <2>3, <2>4, <2>5
  <2>7. left \in Seq(Frames) /\ Len(left) = Len(q) - n
    BY <2>2, <2>6
  <2>8. ASSUME n < Len(q) PROVE left # <<>> /\ Head(left) = q[n + 1]
    <3>1. 1 \in 1 .. (Len(q) - n) /\ (1 + n) + 1 - 1 = n + 1
      BY <1>1, <2>8
    <3>2. left[1] = q[n + 1]
      BY <2>3, <3>1
    <3>3. left # <<>>
      BY <2>7, <2>8, <1>1
    <3> QED
      BY <2>7, <3>2, <3>3
  <2> QED
    BY <2>7, <2>8
<1> HIDE DEF left
<1>4. left # <<>> => Tail(left) \in Seq(Frames) /\ Len(Tail(left)) = Len(left) - 1
  BY <1>3, HeadTailProperties
<1>5. /\ d.got \in {fn, None} /\ d.rest \in Seq(Frames) /\ Len(d.rest) <= Len(q)
  BY <1>1, <1>2, <1>3, <1>4
<1>6. ASSUME NEW i \in 1 .. Len(q), q[i] = fn, \A j \in 1 .. (i - 1) : Before(q[j], fn)
      PROVE  d.got = fn
  <2>1. ~Before(q[i], fn)
    BY <1>6, NotBeforeItself
  <2>2. ~(i <= n)
    BY <1>1, <2>1
  <2>3. n < Len(q) /\ ~(n + 1 <= i - 1)
    BY <1>1, <1>6, <2>2
  <2>4. n + 1 = i
    BY <1>1, <2>2, <2>3
  <2> QED
    BY <1>2, <1>3, <1>6, <2>3, <2>4
<1> QED
  BY <1>5, <1>6 DEF d

\* The prim whose bursts are sent is the one of the block that was begun.
OwnPrim(t) ==
  0 \in t.mask => t.bursts = t.begun /\ t.prim \in {None, t.begun}

LEMMA Pulled ==
  ASSUME tx \in TxType, OwnPrim(tx), NEW fn \in Frames
  PROVE  LET u == PullBurst(fn)
             q == tx.tx_prims
         IN  /\ u.lchan \in TxType /\ OwnPrim(u.lchan)
             /\ Len(u.lchan.tx_prims) <= Len(q)
             /\ {u.burst, u.cnf} \subseteq Frames \cup {None}
             /\ u.abort \in BOOLEAN
             /\ {u.burst, u.cnf} \subseteq {None, u.lchan.begun}
             /\ (/\ IsPdtch(fn) /\ Bid(fn) = 0 /\ tx.prim = None
                 /\ \E i \in 1 .. Len(q) :
                      q[i] = fn /\ \A j \in 1 .. (i - 1) : Before(q[j], fn))
                  => u.burst = fn
<1> DEFINE u == PullBurst(fn)
           q == tx.tx_prims
           d == Dequeue(q, fn)
           t == [tx EXCEPT !.tx_prims = d.rest, !.mask = {}, !.begun = fn]
           b == Bid(fn)
           v == [tx EXCEPT !.mask = @ \cup {b}, !.prim = IF b = 3 THEN None ELSE @]
           w == [t EXCEPT !.prim = d.got, !.bursts = d.got, !.mask = {0}]
<1>1. /\ q \in Seq(Frames) /\ Len(q) \in Nat /\ tx.mask \subseteq 0 .. 3
      /\ {tx.prim, tx.bursts, tx.begun} \subseteq Frames \cup {None}
      /\ 0 \in tx.mask => tx.bursts # None
  BY DEF TxType
<1>2. /\ d.got \in {fn, None} /\ d.rest \in Seq(Frames)
      /\ Len(d.rest) <= Len(q)
      /\ (\E i \in 1 .. Len(q) : q[i] = fn /\ \A j \in 1 .. (i - 1) : Before(q[j], fn))
            => d.got = fn
  BY <1>1, DequeueIs
<1>3. None \notin Frames
  BY PdchAssumption, Sized DEF Frames
<1>4. b \in 0 .. 3 /\ First(fn) + b = fn /\ (b = 0 => First(fn) = fn)
  BY NextFrame DEF Frames
<1>5. u = IF ~IsPdtch(fn) THEN Nothing(tx)
          ELSE IF b = 0
          THEN IF d.got = None THEN Nothing(t)
               ELSE IF tx.prim # None THEN [Nothing(t) EXCEPT !.abort = TRUE]
               ELSE [Nothing(w) EXCEPT !.burst = d.got]
          ELSE IF 0 \notin tx.mask THEN Nothing(tx)
          ELSE [lchan |-> v, burst |-> tx.bursts,
                cnf |-> IF b = 3 THEN tx.prim ELSE None, abort |-> FALSE]
  BY DEF PullBurst, FirstBurst, LaterBurst
<1> HIDE DEF u, b, d, q
<1>6. t \in TxType /\ OwnPrim(t) /\ t.tx_prims = d.rest
  BY <1>1, <1>2 DEF TxType, OwnPrim
<1>7. d.got # None => /\ w \in TxType /\ OwnPrim(w) /\ w.tx_prims = d.rest
                      /\ d.got = fn /\ w.begun = fn
  <2> SUFFICES ASSUME d.got # None
               PROVE  /\ w \in TxType /\ OwnPrim(w) /\ w.tx_prims = d.rest
                      /\ d.got = fn /\ w.begun = fn
    OBVIOUS
  <2>1. d.got = fn
    BY <1>2
  <2>0. t \in TxType /\ t.tx_prims = d.rest /\ t.begun = fn
    BY <1>6 DEF TxType
  <2> HIDE DEF t
  <2>4. t \in [tx_prims : Seq(Frames), prim : Frames \cup {None},
              mask : SUBSET (0 .. 3), bursts : Frames \cup {None},
              begun : Frames \cup {None}]
    BY <2>0 DEF TxType
  <2>2. w = [tx_prims |-> d.rest, prim |-> fn, mask |-> {0}, bursts |-> fn,
             begun |-> fn]
    <3>1. w = [t EXCEPT !.prim = fn, !.bursts = fn, !.mask = {0}]
      BY <2>1
    <3> HIDE DEF w
    <3>2. w \in [tx_prims : Seq(Frames), prim : Frames \cup {None},
                 mask : SUBSET (0 .. 3), bursts : Frames \cup {None},
                 begun : Frames \cup {None}]
      <4>1. {0} \in SUBSET (0 .. 3)
        OBVIOUS
      <4>2. fn \in Frames \cup {None}
        OBVIOUS
      <4> DEFINE M == SUBSET (0 .. 3)
                 F == Frames \cup {None}
      <4> HIDE DEF M, F
      <4>3. t \in [tx_prims : Seq(Frames), prim : F, mask : M, bursts : F, begun : F]
        BY <2>4 DEF M, F
      <4>4. {0} \in M /\ fn \in F
        BY <4>1, <4>2 DEF M, F
      <4>5. w \in [tx_prims : Seq(Frames), prim : F, mask : M, bursts : F, begun : F]
        BY <3>1, <4>3, <4>4
      <4> QED
        BY <4>5 DEF M, F
    <3>3. /\ w.tx_prims = d.rest /\ w.prim = fn /\ w.mask = {0}
          /\ w.bursts = fn /\ w.begun = fn
      BY <2>0, <2>4, <3>1
    <3> QED
      BY <3>2, <3>3
  <2> HIDE DEF w
  <2>3. {0} \in SUBSET (0 .. 3)
    OBVIOUS
  <2> QED
    BY <1>2, <1>3, <2>1, <2>2, <2>3 DEF TxType, OwnPrim
<1>8. 0 \in tx.mask => /\ v \in TxType /\ OwnPrim(v) /\ v.tx_prims = q
                       /\ v.begun = tx.begun
  BY <1>1, <1>4 DEF TxType, OwnPrim, q
<1> HIDE DEF t, v, w
<1>9. CASE ~IsPdtch(fn)
  BY <1>1, <1>5, <1>9 DEF Nothing, u, q
<1>10. CASE IsPdtch(fn) /\ b = 0 /\ d.got = None
  <2>1. u = Nothing(t)
    BY <1>5, <1>10
  <2> QED
    BY <1>2, <1>3, <1>6, <1>10, <2>1 DEF Nothing, u, q
<1>11. CASE IsPdtch(fn) /\ b = 0 /\ d.got # None /\ tx.prim # None
  <2>1. u = [Nothing(t) EXCEPT !.abort = TRUE]
    BY <1>5, <1>11
  <2>2. u.lchan = t /\ u.burst = None /\ u.cnf = None /\ u.abort = TRUE
    BY <2>1 DEF Nothing
  <2> QED
    BY <1>2, <1>6, <1>11, <2>2 DEF u, q
<1>12. CASE IsPdtch(fn) /\ b = 0 /\ d.got # None /\ tx.prim = None
  <2>1. u = [Nothing(w) EXCEPT !.burst = d.got]
    BY <1>5, <1>12
  <2>2. u.lchan = w /\ u.burst = fn /\ u.cnf = None /\ u.abort = FALSE
    BY <1>7, <1>12, <2>1 DEF Nothing
  <2> QED
    BY <1>2, <1>4, <1>7, <1>12, <2>2 DEF u, q
<1>13. CASE IsPdtch(fn) /\ b # 0 /\ 0 \notin tx.mask
  <2>1. u = Nothing(tx)
    BY <1>5, <1>13
  <2> QED
    BY <1>1, <1>13, <2>1 DEF Nothing, u, q, b
<1>14. CASE IsPdtch(fn) /\ b # 0 /\ 0 \in tx.mask
  <2>1. u = [lchan |-> v, burst |-> tx.bursts,
             cnf |-> IF b = 3 THEN tx.prim ELSE None, abort |-> FALSE]
    BY <1>5, <1>14
  <2>2. /\ u.lchan = v /\ u.burst = tx.bursts /\ u.cnf \in {tx.prim, None}
        /\ u.abort = FALSE
    BY <2>1
  <2>3. tx.bursts = tx.begun /\ tx.prim \in {None, tx.begun}
    BY <1>14 DEF OwnPrim
  <2>4. u.lchan \in TxType /\ OwnPrim(u.lchan) /\ u.lchan.tx_prims = q
        /\ u.lchan.begun = tx.begun
    BY <1>8, <1>14, <2>2
  <2>5. u.burst = u.lchan.begun /\ u.cnf \in {None, u.lchan.begun}
    BY <2>2, <2>3, <2>4
  <2>6. {u.burst, u.cnf} \subseteq Frames \cup {None} /\ u.abort \in BOOLEAN
    BY <1>1, <2>2
  <2> QED
    BY <1>1, <1>14, <2>4, <2>5, <2>6 DEF u, q, b
<1> QED
  BY <1>9, <1>10, <1>11, <1>12, <1>13, <1>14

-----------------------------------------------------------------------------
(* The inductive invariant.                                                  *)

\* What is held up or was processed last is recent: every frame of the channel
\* that arrives is processed, and frames are lost only while it is recent.
Old == IF MaxDelay > MaxLoss THEN MaxDelay ELSE MaxLoss

Clock ==
  /\ held # None => Dist(held, air) \in 1 .. (MaxDelay + 1)
  /\ rx.num_proc =>
       \/ Dist(rx.last_proc, air) \in 1 .. (Old + 1)
       \/ Dist(rx.last_proc, air) = Old + 2 /\ IsPdtch(air)
  /\ held # None /\ rx.num_proc => held # rx.last_proc

Inv == TypeOK /\ Clock /\ RxInv /\ OwnPrim(tx) /\ IndIsWhole

LEMMA NoneIsNoFrame == None \notin Frames
BY PdchAssumption, Sized DEF Frames

LEMMA OldIs == Old \in Nat /\ MaxDelay <= Old /\ MaxLoss <= Old /\ Old + 5 < Half
BY Sized DEF Old

LEMMA Types ==
  ASSUME TypeOK
  PROVE  /\ air \in Frames /\ held \in Frames \cup {None}
         /\ rx \in RxType /\ rx.last_proc \in Frames
         /\ tx \in TxType /\ Len(tx.tx_prims) <= QueueCap
BY DEF TypeOK, RxType, TxType

\* One frame later everything is a frame older.
LEMMA Older ==
  ASSUME NEW a \in Frames, NEW b \in Frames, Dist(a, b) < Half
  PROVE  Sum(b, 1) \in Frames /\ Dist(a, Sum(b, 1)) = Dist(a, b) + 1
<1> DEFINE n == Sum(b, 1)
<1>1. HyperFrame \in Nat /\ HyperFrame > 1 /\ Half \in Nat /\ 2 * Half <= HyperFrame
      /\ Half > 1
  BY Sized
<1>2. n \in Frames /\ n = IF b + 1 < HyperFrame THEN b + 1 ELSE b + 1 - HyperFrame
  BY <1>1, SumIs
<1>3. Dist(a, b) = IF b >= a THEN b - a ELSE b - a + HyperFrame
  BY DistIs
<1> HIDE DEF n
<1>4. Dist(a, n) = IF n >= a THEN n - a ELSE n - a + HyperFrame
  BY <1>2, DistIs
<1>5. Dist(a, n) = Dist(a, b) + 1
  BY <1>1, <1>2, <1>3, <1>4 DEF Frames
<1> QED
  BY <1>2, <1>5 DEF n

LEMMA NextAir ==
  ASSUME NEW b \in Frames
  PROVE  Sum(b, 1) \in Frames /\ Dist(b, Sum(b, 1)) = 1 /\ Sum(b, 1) # b
<1>1. HyperFrame \in Nat /\ HyperFrame > 1
  BY Sized
<1>2. Sum(b, 1) \in Frames /\ Dist(b, Sum(b, 1)) = 1
  BY <1>1, DistSum
<1>3. Sum(b, 1) = IF b + 1 < HyperFrame THEN b + 1 ELSE b + 1 - HyperFrame
  BY <1>1, SumIs
<1> QED
  BY <1>1, <1>2, <1>3 DEF Frames

\* Of two frames that passed, the one that is closer to a third is the later.
LEMMA Apart ==
  ASSUME NEW a \in Frames, NEW b \in Frames, NEW c \in Frames,
         Dist(a, c) < Half, Dist(b, c) < Dist(a, c)
  PROVE  Dist(a, b) \in 1 .. (Half - 1)
<1>1. HyperFrame \in Nat /\ Half \in Nat /\ 2 * Half <= HyperFrame
  BY Sized
<1>2. /\ Dist(a, c) = IF c >= a THEN c - a ELSE c - a + HyperFrame
      /\ Dist(b, c) = IF c >= b THEN c - b ELSE c - b + HyperFrame
      /\ Dist(a, b) = IF b >= a THEN b - a ELSE b - a + HyperFrame
  BY DistIs
<1> QED
  BY <1>1, <1>2 DEF Frames

\* The same, seen from the first.
LEMMA ApartFrom ==
  ASSUME NEW a \in Frames, NEW b \in Frames, NEW c \in Frames,
         Dist(a, c) < Half, Dist(a, b) < Dist(a, c)
  PROVE  Before(b, c)
<1>1. HyperFrame \in Nat /\ Half \in Nat /\ 2 * Half <= HyperFrame
  BY Sized
<1>2. /\ Dist(a, c) = IF c >= a THEN c - a ELSE c - a + HyperFrame
      /\ Dist(b, c) = IF c >= b THEN c - b ELSE c - b + HyperFrame
      /\ Dist(a, b) = IF b >= a THEN b - a ELSE b - a + HyperFrame
  BY DistIs
<1>3. Dist(b, c) \in 1 .. (Half - 1)
  BY <1>1, <1>2 DEF Frames
<1> QED
  BY <1>3, BeforeIs

LEMMA SameFrame ==
  ASSUME NEW a \in Frames, NEW b \in Frames, NEW c \in Frames,
         Dist(a, c) = Dist(b, c)
  PROVE  a = b
<1>1. HyperFrame \in Nat
  BY Sized
<1>2. /\ Dist(a, c) = IF c >= a THEN c - a ELSE c - a + HyperFrame
      /\ Dist(b, c) = IF c >= b THEN c - b ELSE c - b + HyperFrame
  BY DistIs
<1>3. a \in Int /\ b \in Int /\ c \in Int /\ a - b < HyperFrame /\ b - a < HyperFrame
  BY <1>1 DEF Frames
<1>4. (IF c >= a THEN c - a ELSE c - a + HyperFrame)
        = (IF c >= b THEN c - b ELSE c - b + HyperFrame)
  BY <1>2, Zenon
<1> QED
  BY <1>1, <1>3, <1>4

LEMMA AirComparable ==
  ASSUME TypeOK, Clock
  PROVE  Comparable(air)
BY OldIs, Sized DEF Clock, Comparable

LEMMA HeldComparable ==
  ASSUME TypeOK, Clock, held # None
  PROVE  held \in Frames /\ Comparable(held)
<1> DEFINE L == rx.last_proc
<1>1. held \in Frames /\ L \in Frames /\ air \in Frames
  BY Types
<1>2. /\ Old \in Nat /\ Half \in Nat /\ MaxDelay \in Nat /\ MaxDelay <= Old
      /\ Old + 5 < Half
  BY OldIs, Sized
<1> SUFFICES ASSUME rx.num_proc
             PROVE  Before(held, L) \/ Dist(L, held) \in 1 .. (Half - 1)
  BY <1>1 DEF Comparable
<1>3. /\ Dist(held, air) \in 1 .. (MaxDelay + 1)
      /\ Dist(L, air) \in 1 .. (Old + 2) /\ held # L
  BY <1>2 DEF Clock
<1> HIDE DEF L
<1>4. Dist(held, air) # Dist(L, air)
  BY <1>1, <1>3, SameFrame
<1>5. /\ Dist(held, air) < Half /\ Dist(L, air) < Half
      /\ Dist(held, air) < Dist(L, air) \/ Dist(L, air) < Dist(held, air)
  BY <1>2, <1>3, <1>4
<1> QED
  BY <1>1, <1>5, Apart, BeforeIs

\* What a client remembers is the last of what it was granted.
LEMMA GrantsKept ==
  ASSUME NEW q \in Seq(Frames)
  PROVE  LET g == IF Len(q) > GrantCap
                    THEN SubSeq(q, Len(q) - GrantCap + 1, Len(q)) ELSE q
         IN  g \in Seq(Frames) /\ Len(g) <= GrantCap
<1>1. GrantCap \in Nat /\ Len(q) \in Nat
  BY Sized
<1>2. CASE Len(q) > GrantCap
  <2> DEFINE g == SubSeq(q, Len(q) - GrantCap + 1, Len(q))
  <2>1. g = [x \in 1 .. (Len(q) - (Len(q) - GrantCap + 1) + 1) |->
               q[(Len(q) - GrantCap + 1) + x - 1]]
    BY <1>1
  <2>2. Len(q) - (Len(q) - GrantCap + 1) + 1 = GrantCap
    BY <1>1
  <2> HIDE DEF g
  <2>3. g = [x \in 1 .. GrantCap |-> q[(Len(q) - GrantCap + 1) + x - 1]]
    BY <2>1, <2>2
  <2>4. \A x \in 1 .. GrantCap : (Len(q) - GrantCap + 1) + x - 1 \in 1 .. Len(q)
    BY <1>1, <1>2
  <2>5. \A x \in 1 .. Len(q) : q[x] \in Frames
    BY ElementOfSeq
  <2>6. g \in [1 .. GrantCap -> Frames]
    BY <2>3, <2>4, <2>5
  <2>7. g \in Seq(Frames) /\ Len(g) = GrantCap
    BY <1>1, <2>6
  <2> QED
    BY <1>1, <1>2, <2>7 DEF g
<1>3. CASE ~(Len(q) > GrantCap)
  BY <1>1, <1>3
<1> QED
  BY <1>2, <1>3

LEMMA Granted ==
  ASSUME NEW q \in Seq(Frames), NEW ind \in Seq(Block)
  PROVE  q \o [i \in 1 .. Len(ind) |-> NextBlock(ind[i].fn)] \in Seq(Frames)
<1> DEFINE p == [i \in 1 .. Len(ind) |-> NextBlock(ind[i].fn)]
<1>1. Len(ind) \in Nat /\ \A i \in 1 .. Len(ind) : ind[i] \in Block
  BY ElementOfSeq
<1>2. \A fn \in Frames : NextBlock(fn) \in Frames
  <2>1. 4 \in 0 .. HyperFrame /\ 5 \in 0 .. HyperFrame
    BY Sized
  <2> QED
    BY <2>1, SumIs DEF NextBlock
<1>3. p \in [1 .. Len(ind) -> Frames]
  BY <1>1, <1>2 DEF Block
<1>4. p \in Seq(Frames)
  BY <1>1, <1>3
<1> HIDE DEF p
<1>5. q \o p \in Seq(Frames)
  BY <1>4
<1> QED
  BY <1>5 DEF p

\* Blocks ordered by their distance from the last frame processed are in the
\* order of frame numbers.
LEMMA EndsInOrder ==
  ASSUME NEW from \in Frames, NEW q \in Seq(Block), Ordered(from, q, Half - 1)
  PROVE  LET ends == <<from>> \o [i \in 1 .. Len(q) |-> q[i].end]
         IN  \A i \in 1 .. (Len(ends) - 1) : Before(ends[i], ends[i + 1])
<1> DEFINE p == [i \in 1 .. Len(q) |-> q[i].end]
           ends == <<from>> \o p
<1>1. Len(q) \in Nat /\ \A i \in 1 .. Len(q) : q[i] \in Block
  BY ElementOfSeq
<1>2. p \in [1 .. Len(q) -> Frames]
  BY <1>1 DEF Block
<1>3. p \in Seq(Frames) /\ Len(p) = Len(q)
  BY <1>1, <1>2
<1>4. \A i \in 1 .. Len(q) : p[i] = q[i].end /\ p[i] \in Frames
  BY <1>2
<1> HIDE DEF p
<1>5. /\ Len(ends) = Len(q) + 1 /\ ends[1] = from
      /\ \A i \in 1 .. Len(q) : ends[i + 1] = p[i]
  <2>1. <<from>> \in Seq(Frames) /\ Len(<<from>>) = 1 /\ <<from>>[1] = from
    OBVIOUS
  <2>2. /\ Len(ends) = Len(<<from>>) + Len(p)
        /\ \A i \in 1 .. (Len(<<from>>) + Len(p)) :
             ends[i] = IF i <= Len(<<from>>) THEN <<from>>[i] ELSE p[i - Len(<<from>>)]
    BY <1>3, <2>1, ConcatProperties
  <2> HIDE DEF ends
  <2>3. Len(ends) = 1 + Len(q) /\ \A i \in 1 .. (1 + Len(q)) :
          ends[i] = IF i <= 1 THEN <<from>>[i] ELSE p[i - 1]
    BY <1>3, <2>1, <2>2
  <2>4. \A i \in 1 .. Len(q) : i + 1 \in 1 .. (1 + Len(q)) /\ ~(i + 1 <= 1) /\ (i + 1) - 1 = i
    BY <1>1
  <2>5. 1 \in 1 .. (1 + Len(q)) /\ 1 <= 1
    BY <1>1
  <2> QED
    BY <1>1, <2>1, <2>3, <2>4, <2>5
<1> HIDE DEF ends
<1>6. \A x \in 1 .. Len(q) : /\ Dist(from, p[x]) \in 1 .. (Half - 1)
                             /\ \A y \in 1 .. Len(q) : x < y => Dist(from, p[x]) < Dist(from, p[y])
  BY <1>4, Zenon DEF Ordered
<1> SUFFICES ASSUME NEW i \in 1 .. (Len(ends) - 1)
             PROVE  Before(ends[i], ends[i + 1])
  BY DEF ends, p
<1>7. CASE i = 1
  BY <1>1, <1>4, <1>5, <1>6, <1>7, BeforeIs
<1>8. CASE i # 1
  <2>1. i - 1 \in 1 .. Len(q) /\ i \in 1 .. Len(q) /\ i - 1 < i /\ (i - 1) + 1 = i
    BY <1>1, <1>5, <1>8
  <2>2. ends[i] = p[i - 1] /\ ends[i + 1] = p[i]
    BY <1>5, <2>1
  <2>3. /\ Dist(from, p[i - 1]) < Dist(from, p[i]) /\ Dist(from, p[i]) < Half
        /\ p[i - 1] \in Frames /\ p[i] \in Frames
    BY <1>4, <1>6, <2>1, Sized
  <2> QED
    BY <2>2, <2>3, ApartFrom
<1> QED
  BY <1>7, <1>8

OutType == [ind : Seq(Block), burst : Frames \cup {None}, cnf : Frames \cup {None}]

\* The last frame processed and the ends of the blocks a step hands up.
Ends(l, ind) ==
  (IF l.num_proc THEN <<l.last_proc>> ELSE <<>>) \o [i \in 1 .. Len(ind) |-> ind[i].end]

InOrder(ends) == \A i \in 1 .. (Len(ends) - 1) : Before(ends[i], ends[i + 1])

\* There is a prim for the block that starts with fn, behind stale ones only.
InTime(fn) ==
  \E i \in 1 .. Len(tx.tx_prims) :
    tx.tx_prims[i] = fn /\ \A j \in 1 .. (i - 1) : Before(tx.tx_prims[j], fn)

\* What a Downlink burst does, whether it is processed or not.
LEMMA Received ==
  ASSUME Inv, NEW fn \in Frames, Comparable(fn), Receive(fn)
  PROVE  LET up == Sum(fn, Advance)
         IN  /\ rx' \in RxType /\ tx' \in TxType /\ Len(tx'.tx_prims) <= QueueCap
             /\ grants' \in Seq(Frames) /\ Len(grants') <= GrantCap
             /\ out' \in OutType /\ aborted' \in BOOLEAN
             /\ RxInv' /\ OwnPrim(tx)' /\ IndIsWhole'
             /\ IF Accepted(fn) THEN rx'.num_proc = TRUE /\ rx'.last_proc = fn
                                ELSE rx' = rx
             /\ InOrder(Ends(rx, out'.ind))
             /\ {out'.burst, out'.cnf} \subseteq {None, tx'.begun}
             /\ IsPdtch(up) /\ Bid(up) = 0 /\ tx.prim = None /\ InTime(up)
                  => out'.burst = up
<1> DEFINE up == Sum(fn, Advance)
           h == HandleRxBurst(fn)
           u == PullBurst(up)
           all == grants \o [i \in 1 .. Len(h.ind) |-> NextBlock(h.ind[i].fn)]
<1>1. /\ TypeOK /\ RxInv /\ OwnPrim(tx) /\ rx \in RxType /\ tx \in TxType
      /\ Len(tx.tx_prims) <= QueueCap /\ Len(tx.tx_prims) \in Nat
      /\ rx.last_proc \in Frames /\ grants \in Seq(Frames)
      /\ rx.num_proc \in BOOLEAN
  BY Types DEF Inv, TypeOK
<1>2. up \in Frames
  <2>1. Advance \in 0 .. HyperFrame
    BY Sized
  <2> QED
    BY <2>1, SumIs
<1>3. /\ rx' = h.lchan /\ tx' = u.lchan /\ aborted' = u.abort
      /\ out' = [ind |-> h.ind, burst |-> u.burst, cnf |-> u.cnf]
      /\ grants' = IF Len(all) > GrantCap
                     THEN SubSeq(all, Len(all) - GrantCap + 1, Len(all)) ELSE all
  BY DEF Receive
<1>4. /\ u.lchan \in TxType /\ OwnPrim(u.lchan)
      /\ Len(u.lchan.tx_prims) <= Len(tx.tx_prims)
      /\ {u.burst, u.cnf} \subseteq Frames \cup {None} /\ u.abort \in BOOLEAN
      /\ {u.burst, u.cnf} \subseteq {None, u.lchan.begun}
      /\ IsPdtch(up) /\ Bid(up) = 0 /\ tx.prim = None /\ InTime(up) => u.burst = up
  <2> HIDE DEF up
  <2> QED
    BY <1>1, <1>2, Pulled DEF InTime
<1>5. /\ h \in LoopType /\ (\A x \in 1 .. Len(h.ind) : WholeInd(h.ind[x]))
      /\ IF h.lchan.num_proc THEN Whole(h.lchan) ELSE h.lchan = IdleRx
      /\ IF Accepted(fn) THEN h.lchan.num_proc = TRUE /\ h.lchan.last_proc = fn
                         ELSE h.lchan = rx
  <2>1. CASE Accepted(fn)
    <3>1. /\ h \in LoopType /\ (\A x \in 1 .. Len(h.ind) : WholeInd(h.ind[x]))
          /\ Whole(h.lchan) /\ h.lchan.num_proc = TRUE /\ h.lchan.last_proc = fn
      BY <1>1, <2>1, Handled
    <3> HIDE DEF h
    <3> QED
      BY <2>1, <3>1
  <2>2. CASE ~Accepted(fn)
    <3>1. h = [lchan |-> rx, ind |-> <<>>] /\ h \in LoopType
      BY <1>1, <2>2, NotHandled
    <3> HIDE DEF h
    <3>2. h.lchan = rx /\ h.ind = <<>>
      BY <3>1
    <3> QED
      BY <1>1, <2>2, <3>1, <3>2 DEF RxInv
  <2> QED
    BY <2>1, <2>2
<1>8. IF rx.num_proc THEN Ordered(rx.last_proc, h.ind, Half - 1) ELSE Len(h.ind) <= 1
  <2>1. CASE Accepted(fn)
    BY <1>1, <2>1, Handled
  <2>2. CASE ~Accepted(fn)
    <3>1. h.ind = <<>> /\ Len(h.ind) = 0
      BY <1>1, <2>2, NotHandled
    <3>2. Ordered(rx.last_proc, h.ind, Half - 1)
      BY <3>1 DEF Ordered
    <3> QED
      BY <3>1, <3>2
  <2> QED
    BY <2>1, <2>2
<1> HIDE DEF up, h, u
<1>9. h.lchan \in RxType /\ h.ind \in Seq(Block)
  BY <1>5 DEF LoopType
<1>10. InOrder(Ends(rx, h.ind))
  <2>1. CASE rx.num_proc
    BY <1>1, <1>8, <1>9, <2>1, EndsInOrder DEF InOrder, Ends
  <2>2. CASE ~rx.num_proc
    <3> DEFINE p == [i \in 1 .. Len(h.ind) |-> h.ind[i].end]
    <3>1. Len(h.ind) \in Nat /\ Len(h.ind) <= 1
      BY <1>8, <1>9, <2>2
    <3>2. p \in Seq({p[i] : i \in 1 .. Len(h.ind)}) /\ Len(p) = Len(h.ind)
      BY <3>1
    <3> HIDE DEF p
    <3>3. <<>> \o p = p
      BY <3>2
    <3>4. Ends(rx, h.ind) = p
      BY <2>2, <3>3 DEF Ends, p
    <3>5. \A i \in 1 .. (Len(p) - 1) : FALSE
      BY <3>1, <3>2
    <3> QED
      BY <3>4, <3>5 DEF InOrder
  <2> QED
    BY <2>1, <2>2
<1>11. grants' \in Seq(Frames) /\ Len(grants') <= GrantCap
  <2>1. all \in Seq(Frames)
    BY <1>1, <1>9, Granted
  <2> HIDE DEF all
  <2> QED
    BY <1>3, <2>1, GrantsKept
<1>12. out' \in OutType /\ out'.ind = h.ind /\ out'.burst = u.burst /\ out'.cnf = u.cnf
  BY <1>3, <1>4, <1>9 DEF OutType
<1>13. IndIsWhole'
  BY <1>5, <1>12 DEF IndIsWhole, WholeInd
<1>14. RxInv'
  BY <1>3, <1>5 DEF RxInv
<1>15. OwnPrim(tx)'
  BY <1>3, <1>4
<1>16. Len(tx'.tx_prims) <= QueueCap
  <2>1. QueueCap \in Nat /\ Len(u.lchan.tx_prims) \in Nat
    BY <1>4, Sized DEF TxType
  <2> QED
    BY <1>1, <1>3, <1>4, <2>1
<1> QED
  BY <1>3, <1>4, <1>5, <1>9, <1>10, <1>11, <1>12, <1>13, <1>14, <1>15, <1>16
     DEF up

LEMMA IdleIs ==
  /\ IdleRx \in RxType /\ IdleRx.num_proc = FALSE
  /\ IdleTx \in TxType /\ OwnPrim(IdleTx) /\ IdleTx.tx_prims = <<>>
  /\ NoOut \in OutType /\ NoOut.ind = <<>> /\ Len(NoOut.ind) = 0
<1>1. 0 .. 3 \subseteq Frames /\ 0 \in Frames
  BY Sized DEF Frames
<1>2. IdleRx \in RxType
  <2>1. [b \in 0 .. 3 |-> b] \in [0 .. 3 -> Frames]
    BY <1>1
  <2>2. <<0, 0, 0, 0>> \in Seq(Frames) /\ Len(<<0, 0, 0, 0>>) = 4
    BY <1>1
  <2> QED
    BY <1>1, <2>1, <2>2 DEF IdleRx, RxType
<1>3. IdleTx \in TxType /\ OwnPrim(IdleTx) /\ IdleTx.tx_prims = <<>>
  BY DEF IdleTx, TxType, OwnPrim
<1>4. NoOut \in OutType /\ NoOut.ind = <<>>
  BY DEF NoOut, OutType
<1> QED
  BY <1>2, <1>3, <1>4 DEF IdleRx

LEMMA NextTypeOK ==
  ASSUME air' \in Frames, held' \in Frames \cup {None}, rx' \in RxType,
         tx' \in TxType, Len(tx'.tx_prims) <= QueueCap, grants' \in Seq(Frames),
         Len(grants') <= GrantCap, out' \in OutType, aborted' \in BOOLEAN
  PROVE  TypeOK'
BY DEF TypeOK, RxType, TxType, OutType

\* Nothing was handed up.
LEMMA NoInd ==
  ASSUME out = NoOut
  PROVE  out \in OutType /\ IndIsWhole
BY IdleIs DEF IndIsWhole

LEMMA Initially ==
  ASSUME Init
  PROVE  Inv
<1>1. air \in Frames
  <2>1. Period < HyperFrame /\ Period \in Nat /\ HyperFrame \in Nat
    BY Sized
  <2> QED
    BY <2>1 DEF Init, Frames
<1>2. /\ rx = IdleRx /\ tx = IdleTx /\ out = NoOut /\ held = None
      /\ grants = <<>>
      /\ aborted = FALSE
  BY DEF Init
<1>3. rx \in RxType /\ tx \in TxType /\ OwnPrim(tx) /\ rx.num_proc = FALSE
      /\ tx.tx_prims = <<>>
  BY <1>2, IdleIs
<1>4. TypeOK
  <2>1. 0 <= QueueCap /\ 0 <= GrantCap
    BY Sized
  <2>2. grants \in Seq(Frames) /\ Len(grants) <= GrantCap /\ Len(tx.tx_prims) <= QueueCap
    BY <1>2, <1>3, <2>1
  <2> QED
    BY <1>1, <1>2, <1>3, <2>2, NoInd DEF TypeOK, RxType, TxType, OutType
<1>5. Clock
  BY <1>2, <1>3 DEF Clock
<1>6. RxInv
  BY <1>2, <1>3 DEF RxInv
<1> QED
  BY <1>2, <1>3, <1>4, <1>5, <1>6, NoInd DEF Inv

\* What a burst that arrives in time leaves.
LEMMA ArriveKeeps ==
  ASSUME Inv, Arrive
  PROVE  Inv'
<1>1. /\ Receive(air) /\ air' = Sum(air, 1) /\ held' = held
      /\ held # None => Within(MaxDelay - 1, held)
  BY DEF Arrive
<1>2. /\ TypeOK /\ Clock /\ Comparable(air) /\ air \in Frames
      /\ held \in Frames \cup {None} /\ rx \in RxType /\ rx.last_proc \in Frames
  BY AirComparable, Types DEF Inv
<1>3. /\ rx' \in RxType /\ tx' \in TxType /\ Len(tx'.tx_prims) <= QueueCap
      /\ grants' \in Seq(Frames) /\ Len(grants') <= GrantCap
      /\ out' \in OutType /\ aborted' \in BOOLEAN
      /\ RxInv' /\ OwnPrim(tx)' /\ IndIsWhole'
      /\ IF Accepted(air) THEN rx'.num_proc = TRUE /\ rx'.last_proc = air
                          ELSE rx' = rx
  BY <1>1, <1>2, Received
<1>4. air' \in Frames /\ Dist(air, air') = 1
  BY <1>1, <1>2, NextAir
<1>5. TypeOK'
  BY <1>1, <1>2, <1>3, <1>4, NextTypeOK
<1>6. /\ Old \in Nat /\ Half \in Nat /\ MaxDelay \in Nat /\ MaxDelay <= Old
      /\ Old + 5 < Half
  BY OldIs, Sized
<1>7. ASSUME held # None
      PROVE  Dist(held, air') \in 1 .. (MaxDelay + 1)
  <2>1. Dist(held, air) \in 1 .. (MaxDelay + 1) /\ Dist(held, air) < Half
    BY <1>2, <1>6, <1>7 DEF Clock
  <2>2. Dist(held, air) \notin MaxDelay .. Half
    BY <1>1, <1>7, <1>6 DEF Within, Dist, Half
  <2>3. Dist(held, air') = Dist(held, air) + 1
    BY <1>1, <1>2, <1>7, <2>1, Older
  <2> QED
    BY <1>6, <2>1, <2>2, <2>3
<1>8. CASE Accepted(air)
  <2>1. held # None => held # air
    <3>1. Dist(air, air) = 0
      BY <1>2, DistIs DEF Frames
    <3> QED
      BY <1>2, <3>1 DEF Clock
  <2>2. Clock'
    BY <1>1, <1>3, <1>4, <1>6, <1>7, <1>8, <2>1 DEF Clock, Dist
  <2> QED
    BY <1>3, <1>5, <2>2 DEF Inv
<1>9. CASE ~Accepted(air)
  <2>1. rx' = rx
    BY <1>3, <1>9
  <2>2. ASSUME rx.num_proc
        PROVE  \/ Dist(rx.last_proc, air') \in 1 .. (Old + 1)
               \/ Dist(rx.last_proc, air') = Old + 2 /\ IsPdtch(air')
    <3>1. Dist(rx.last_proc, air) \in 1 .. (Old + 2) /\ Dist(rx.last_proc, air) < Half
      BY <1>2, <1>6, <2>2 DEF Clock
    <3>2. ~IsPdtch(air)
      <4>1. ~Before(air, rx.last_proc)
        <5>1. Dist(air, rx.last_proc) \notin 1 .. (Half - 1)
          <6>1. /\ Dist(air, rx.last_proc) = IF rx.last_proc >= air
                     THEN rx.last_proc - air ELSE rx.last_proc - air + HyperFrame
                /\ Dist(rx.last_proc, air) = IF air >= rx.last_proc
                     THEN air - rx.last_proc ELSE air - rx.last_proc + HyperFrame
            BY <1>2, DistIs
          <6>2. HyperFrame \in Nat /\ 2 * Half <= HyperFrame
                /\ air \in Int /\ rx.last_proc \in Int
            BY <1>2, Sized DEF Frames
          <6> QED
            BY <1>6, <3>1, <6>1, <6>2
        <5> QED
          BY <1>2, <5>1, BeforeIs
      <4> QED
        BY <1>9, <4>1 DEF Accepted, TooLate
    <3>3. Dist(rx.last_proc, air) \in 1 .. (Old + 1) /\ IsPdtch(air')
      BY <1>1, <1>2, <2>2, <3>2, NextFrame DEF Clock
    <3>4. Dist(rx.last_proc, air') = Dist(rx.last_proc, air) + 1
      BY <1>1, <1>2, <3>1, Older
    <3> QED
      BY <1>6, <3>3, <3>4
  <2>3. Clock'
    BY <1>1, <1>2, <1>7, <2>1, <2>2 DEF Clock, Dist
  <2> QED
    BY <1>3, <1>5, <2>3 DEF Inv
<1> QED
  BY <1>8, <1>9

\* What a burst that was overtaken leaves.
LEMMA ArriveLateKeeps ==
  ASSUME Inv, ArriveLate
  PROVE  Inv'
<1>1. held # None /\ Receive(held) /\ held' = None /\ air' = air
  BY DEF ArriveLate
<1>2. /\ TypeOK /\ Clock /\ held \in Frames /\ Comparable(held)
      /\ air \in Frames
  BY <1>1, HeldComparable, Types DEF Inv
<1>3. /\ rx' \in RxType /\ tx' \in TxType /\ Len(tx'.tx_prims) <= QueueCap
      /\ grants' \in Seq(Frames) /\ Len(grants') <= GrantCap
      /\ out' \in OutType /\ aborted' \in BOOLEAN
      /\ RxInv' /\ OwnPrim(tx)' /\ IndIsWhole'
      /\ IF Accepted(held) THEN rx'.num_proc = TRUE /\ rx'.last_proc = held
                           ELSE rx' = rx
  BY <1>1, <1>2, Received
<1>4. TypeOK'
  BY <1>1, <1>2, <1>3, NextTypeOK
<1>5. Clock'
  <2>1. Dist(held, air) \in 1 .. (MaxDelay + 1)
    BY <1>1, <1>2 DEF Clock
  <2>2. Dist(held, air) \in 1 .. (Old + 1)
    BY <2>1, OldIs, Sized
  <2>3. rx' = rx \/ rx'.last_proc = held
    BY <1>3
  <2> QED
    BY <1>1, <1>2, <2>2, <2>3 DEF Clock, Dist
<1> QED
  BY <1>3, <1>4, <1>5 DEF Inv

\* A frame passes without a burst.
LEMMA FramePasses ==
  ASSUME Inv, InReach, air' = Sum(air, 1), rx' = rx, held' = held
  PROVE  air' \in Frames /\ Clock'
<1>1. /\ Clock /\ air \in Frames /\ held \in Frames \cup {None}
      /\ rx.last_proc \in Frames
  BY Types DEF Inv
<1>2. /\ Old \in Nat /\ Half \in Nat /\ MaxDelay \in Nat /\ MaxDelay <= Old
      /\ MaxLoss \in Nat /\ MaxLoss <= Old /\ Old + 5 < Half
  BY OldIs, Sized
<1>3. air' \in Frames
  BY <1>1, NextAir
<1>4. ASSUME held # None
      PROVE  Dist(held, air') \in 1 .. (MaxDelay + 1)
  <2>1. Dist(held, air) \in 1 .. (MaxDelay + 1) /\ Dist(held, air) < Half
    BY <1>1, <1>2, <1>4 DEF Clock
  <2>2. Dist(held, air) \notin MaxDelay .. Half
    BY <1>2, <1>4 DEF InReach, Within, Dist, Half
  <2>3. Dist(held, air') = Dist(held, air) + 1
    BY <1>1, <1>4, <2>1, Older
  <2> QED
    BY <1>2, <2>1, <2>2, <2>3
<1>5. ASSUME rx.num_proc
      PROVE  Dist(rx.last_proc, air') \in 1 .. (Old + 1)
  <2>1. Dist(rx.last_proc, air) \in 1 .. (Old + 2) /\ Dist(rx.last_proc, air) < Half
    BY <1>1, <1>2, <1>5 DEF Clock
  <2>2. Dist(rx.last_proc, air) \notin (MaxLoss + 1) .. Half
    BY <1>2, <1>5 DEF InReach, Within, Dist, Half
  <2>3. Dist(rx.last_proc, air') = Dist(rx.last_proc, air) + 1
    BY <1>1, <2>1, Older
  <2> QED
    BY <1>2, <2>1, <2>2, <2>3
<1>6. Clock'
  BY <1>1, <1>4, <1>5 DEF Clock, Dist
<1> QED
  BY <1>3, <1>6

LEMMA LoseKeeps ==
  ASSUME Inv, Lose
  PROVE  Inv'
<1>1. air' \in Frames /\ Clock'
  BY FramePasses DEF Lose
<1>2. /\ rx' = rx /\ tx' = tx /\ grants' = grants /\ aborted' = aborted
      /\ held' = held
      /\ out' = NoOut
  BY DEF Lose
<1>3. TypeOK'
  BY <1>1, <1>2, IdleIs DEF Inv, TypeOK, OutType
<1>4. RxInv' /\ OwnPrim(tx)' /\ IndIsWhole'
  BY <1>2, IdleIs DEF Inv, RxInv, IndIsWhole
<1> QED
  BY <1>1, <1>3, <1>4 DEF Inv

LEMMA HoldKeeps ==
  ASSUME Inv, Hold
  PROVE  Inv'
<1>1. /\ rx' = rx /\ tx' = tx /\ grants' = grants /\ aborted' = aborted
      /\ held = None /\ held' = air /\ air' = Sum(air, 1) /\ out' = NoOut
      /\ InReach
  BY DEF Hold
<1>2. /\ Clock /\ air \in Frames /\ rx.last_proc \in Frames /\ TypeOK
  BY Types DEF Inv
<1>3. air' \in Frames /\ Dist(held', air') = 1
  BY <1>1, <1>2, NextAir
<1>4. /\ Old \in Nat /\ Half \in Nat /\ MaxDelay \in Nat
      /\ MaxLoss \in Nat /\ MaxLoss <= Old /\ Old + 5 < Half
  BY OldIs, Sized
<1>5. ASSUME rx.num_proc
      PROVE  Dist(rx.last_proc, air') \in 1 .. (Old + 1) /\ air # rx.last_proc
  <2>1. Dist(rx.last_proc, air) \in 1 .. (Old + 2) /\ Dist(rx.last_proc, air) < Half
    BY <1>2, <1>4, <1>5 DEF Clock
  <2>2. Dist(rx.last_proc, air) \notin (MaxLoss + 1) .. Half
    BY <1>1, <1>4, <1>5 DEF InReach, Within, Dist, Half
  <2>3. Dist(rx.last_proc, air') = Dist(rx.last_proc, air) + 1
    BY <1>1, <1>2, <2>1, Older
  <2>4. Dist(air, air) = 0
    BY <1>2, DistIs DEF Frames
  <2> QED
    BY <1>4, <2>1, <2>2, <2>3, <2>4
<1>6. Clock'
  BY <1>1, <1>3, <1>4, <1>5 DEF Clock, Dist
<1>7. TypeOK'
  BY <1>1, <1>2, <1>3, IdleIs DEF TypeOK, OutType
<1>8. RxInv' /\ OwnPrim(tx)' /\ IndIsWhole'
  BY <1>1, IdleIs DEF Inv, RxInv, IndIsWhole
<1> QED
  BY <1>6, <1>7, <1>8 DEF Inv

LEMMA HoldEndsKeeps ==
  ASSUME Inv, HoldEnds
  PROVE  Inv'
<1>1. /\ rx' = rx /\ tx' = tx /\ grants' = grants /\ aborted' = aborted
      /\ held' = None /\ air' = air /\ out' = NoOut
  BY DEF HoldEnds
<1>2. Clock'
  BY <1>1 DEF Inv, Clock, Dist
<1>3. TypeOK'
  BY <1>1, IdleIs DEF Inv, TypeOK, OutType
<1>4. RxInv' /\ OwnPrim(tx)' /\ IndIsWhole'
  BY <1>1, IdleIs DEF Inv, RxInv, IndIsWhole
<1> QED
  BY <1>2, <1>3, <1>4 DEF Inv

LEMMA UlBlockReqKeeps ==
  ASSUME Inv, UlBlockReq
  PROVE  Inv'
<1>1. /\ rx' = rx /\ aborted' = aborted /\ held' = held /\ air' = air
      /\ out' = NoOut
      /\ grants # <<>> /\ grants' = Tail(grants) /\ Len(tx.tx_prims) < QueueCap
      /\ tx' = [tx EXCEPT !.tx_prims = Append(tx.tx_prims, Head(grants))]
  BY DEF UlBlockReq
<1>2. /\ TypeOK /\ tx \in TxType /\ grants \in Seq(Frames) /\ OwnPrim(tx)
      /\ tx.tx_prims \in Seq(Frames)
  BY Types DEF Inv, TypeOK
<1>3. /\ Head(grants) \in Frames /\ Tail(grants) \in Seq(Frames)
      /\ Len(Tail(grants)) = Len(grants) - 1
  BY <1>1, <1>2, HeadTailProperties
<1> DEFINE q == Append(tx.tx_prims, Head(grants))
<1>4. q \in Seq(Frames) /\ Len(q) = Len(tx.tx_prims) + 1 /\ Len(tx.tx_prims) \in Nat
  BY <1>2, <1>3, Appended
<1> HIDE DEF q
<1>5. /\ tx' \in TxType /\ tx'.tx_prims = q /\ tx'.mask = tx.mask
      /\ tx'.bursts = tx.bursts /\ tx'.begun = tx.begun /\ tx'.prim = tx.prim
  <2>1. tx' = [tx EXCEPT !.tx_prims = q]
    BY <1>1 DEF q
  <2> QED
    BY <1>2, <1>4, <2>1 DEF TxType
<1>6. Len(tx'.tx_prims) <= QueueCap /\ Len(grants') <= GrantCap
  <2>1. Len(grants) <= GrantCap /\ Len(grants) \in Nat /\ GrantCap \in Nat
        /\ QueueCap \in Nat
    BY <1>2, Sized DEF TypeOK
  <2> QED
    BY <1>1, <1>3, <1>4, <1>5, <2>1
<1>7. TypeOK'
  BY <1>1, <1>2, <1>3, <1>5, <1>6, IdleIs, NextTypeOK, Types DEF TypeOK
<1>8. OwnPrim(tx)'
  BY <1>2, <1>5 DEF OwnPrim
<1>9. RxInv' /\ IndIsWhole' /\ Clock'
  BY <1>1, IdleIs DEF Inv, RxInv, IndIsWhole, Clock, Dist
<1> QED
  BY <1>7, <1>8, <1>9 DEF Inv

LEMMA PassKeeps ==
  ASSUME Inv, Pass
  PROVE  Inv'
<1>1. /\ rx' = rx /\ aborted' = aborted /\ held' = held /\ air' = air
      /\ out' = NoOut
      /\ grants # <<>> /\ grants' = Tail(grants) /\ tx' = tx
  BY DEF Pass
<1>2. /\ TypeOK /\ tx \in TxType /\ grants \in Seq(Frames)
      /\ Len(tx.tx_prims) <= QueueCap
  BY Types DEF Inv, TypeOK
<1>3. Tail(grants) \in Seq(Frames) /\ Len(Tail(grants)) = Len(grants) - 1
  BY <1>1, <1>2, HeadTailProperties
<1>4. Len(grants') <= GrantCap
  <2>1. Len(grants) <= GrantCap /\ Len(grants) \in Nat /\ GrantCap \in Nat
    BY <1>2, Sized DEF TypeOK
  <2> QED
    BY <1>1, <1>3, <2>1
<1>5. TypeOK'
  BY <1>1, <1>2, <1>3, <1>4, IdleIs, NextTypeOK, Types DEF TypeOK
<1>6. RxInv' /\ IndIsWhole' /\ Clock' /\ OwnPrim(tx)'
  BY <1>1, IdleIs DEF Inv, RxInv, IndIsWhole, Clock, Dist
<1> QED
  BY <1>5, <1>6 DEF Inv

LEMMA ReconfigureKeeps ==
  ASSUME Inv, Reconfigure
  PROVE  Inv'
<1>1. /\ rx' = IdleRx /\ tx' = IdleTx /\ out' = NoOut
      /\ air' = air /\ held' = held /\ grants' = grants /\ aborted' = aborted
  BY DEF Reconfigure
<1>2. /\ rx' \in RxType /\ rx'.num_proc = FALSE /\ tx' \in TxType
      /\ OwnPrim(tx)'
      /\ Len(tx'.tx_prims) <= QueueCap
  <2>1. Len(<<>>) <= QueueCap
    BY Sized
  <2> QED
    BY <1>1, <2>1, IdleIs
<1>3. TypeOK'
  BY <1>1, <1>2, IdleIs, NextTypeOK, Types DEF Inv, TypeOK
<1>4. RxInv' /\ IndIsWhole'
  BY <1>1, <1>2, IdleIs DEF RxInv, IndIsWhole
<1>5. Clock'
  BY <1>1, <1>2 DEF Inv, Clock, Dist
<1> QED
  BY <1>2, <1>3, <1>4, <1>5 DEF Inv

LEMMA StepKeeps ==
  ASSUME Inv, [Next]_vars
  PROVE  Inv'
<1>1. CASE Next
  BY <1>1, ArriveKeeps, ArriveLateKeeps, LoseKeeps, HoldKeeps, HoldEndsKeeps,
     UlBlockReqKeeps, PassKeeps, ReconfigureKeeps DEF Next
<1>2. CASE UNCHANGED vars
  BY <1>2 DEF vars, Inv, TypeOK, Clock, RxInv, IndIsWhole, Dist
<1> QED
  BY <1>1, <1>2

\* In every state of every behaviour.
LEMMA Always == Spec => []Inv
<1>1. Init => Inv
  BY Initially
<1>2. Inv /\ [Next]_vars => Inv'
  BY StepKeeps
<1> QED
  BY <1>1, <1>2, PTL DEF Spec

-----------------------------------------------------------------------------
(* The theorems.                                                             *)

\* The state of the timeslot has its types, the measurements are a queue of
\* four, and the queues keep to their bounds.
THEOREM TypeCorrect == Spec => []TypeOK
<1>1. Inv => TypeOK
  BY DEF Inv
<1> QED
  BY <1>1, Always, PTL

\* rx_pdtch_fn and subst_frame_loss: a block is handed up with the four bursts
\* of that block and with the number of its first frame, whatever bursts were
\* lost or overtaken, unless more than a multiframe was missed since it began.
THEOREM IndsAreWhole == Spec => []IndIsWhole
<1>1. Inv => IndIsWhole
  BY DEF Inv
<1> QED
  BY <1>1, Always, PTL

\* The step that processes a Downlink burst, in time or late.
LEMMA BurstStep ==
  ASSUME Inv, Arrive \/ ArriveLate
  PROVE  \E fn \in Frames :
           /\ Comparable(fn) /\ Receive(fn) /\ Requested = Sum(fn, Advance)
<1>1. CASE Arrive
  <2>1. air \in Frames /\ Comparable(air) /\ Receive(air) /\ air' # air
    BY <1>1, AirComparable, Types, NextAir DEF Inv, Arrive
  <2> QED
    BY <2>1 DEF Requested
<1>2. CASE ArriveLate
  <2>1. held \in Frames /\ Comparable(held) /\ Receive(held) /\ air' = air
    BY <1>2, HeldComparable DEF Inv, ArriveLate
  <2> QED
    BY <2>1 DEF Requested
<1> QED
  BY <1>1, <1>2

\* l1sched_handle_rx_burst: blocks are handed up in the order of their frames
\* and none twice, though lost bursts are made up for and may still arrive.
THEOREM IndsAreInOrder == Spec => IndsInOrder
<1> DEFINE A == InOrder(Ends(rx, out'.ind))
<1>1. ASSUME Inv, Next
      PROVE  A
  <2>1. CASE Arrive \/ ArriveLate
    BY <1>1, <2>1, BurstStep, Received
  <2>2. CASE Lose \/ Hold \/ HoldEnds \/ UlBlockReq \/ Pass \/ Reconfigure
    <3>1. out' = NoOut
      BY <2>2 DEF Lose, Hold, HoldEnds, UlBlockReq, Pass, Reconfigure
    <3>2. out'.ind = <<>>
      BY <3>1, IdleIs
    <3>3. rx.last_proc \in Frames
      BY <1>1, Types DEF Inv
    <3>4. Len(Ends(rx, <<>>)) \in 0 .. 1
      BY <3>3 DEF Ends
    <3> QED
      BY <3>2, <3>4 DEF InOrder
  <2> QED
    BY <1>1, <2>1, <2>2 DEF Next
<1>2. A <=> LET last == IF rx.num_proc THEN <<rx.last_proc>> ELSE <<>>
                ends == last \o [i \in 1 .. Len(out'.ind) |-> out'.ind[i].end]
            IN  \A i \in 1 .. (Len(ends) - 1) : Before(ends[i], ends[i + 1])
  BY DEF InOrder, Ends
<1> HIDE DEF A
<1>3. Inv /\ [Next]_vars => [A]_vars
  BY <1>1
<1>4. Spec => [][A]_vars
  BY <1>3, Always, PTL DEF Spec
<1> QED
  BY <1>2, <1>4, PTL DEF IndsInOrder

\* prim_dequeue_pdtch: a block the client sent in time goes out in its own
\* frames, whatever blocks queued before it have missed theirs, unless the
\* prim before it still waits for its confirmation.
THEOREM GrantsAreUsed == Spec => GrantIsUsed
<1> DEFINE A == \A i \in 1 .. Len(tx.tx_prims) :
                  (/\ Arrive \/ ArriveLate
                   /\ tx.tx_prims[i] = Requested
                   /\ IsPdtch(Requested) /\ Bid(Requested) = 0
                   /\ \A j \in 1 .. (i - 1) : Before(tx.tx_prims[j], Requested)
                   /\ tx.prim = None)
                    => out'.burst = Requested
<1>1. ASSUME Inv
      PROVE  A
  <2> SUFFICES ASSUME NEW i \in 1 .. Len(tx.tx_prims), Arrive \/ ArriveLate,
                      tx.tx_prims[i] = Requested, IsPdtch(Requested), Bid(Requested) = 0,
                      \A j \in 1 .. (i - 1) : Before(tx.tx_prims[j], Requested),
                      tx.prim = None
               PROVE  out'.burst = Requested
    OBVIOUS
  <2>1. PICK fn \in Frames :
           Comparable(fn) /\ Receive(fn) /\ Requested = Sum(fn, Advance)
    BY <1>1, BurstStep
  <2>2. InTime(Sum(fn, Advance))
    BY <2>1 DEF InTime
  <2>3. out'.burst = Sum(fn, Advance)
    BY <1>1, <2>1, <2>2, Received
  <2> QED
    BY <2>1, <2>3
<1> HIDE DEF A
<1>2. Inv /\ [Next]_vars => [A]_vars
  BY <1>1
<1>3. Spec => [][A]_vars
  BY <1>2, Always, PTL DEF Spec
<1> QED
  BY <1>3 DEF GrantIsUsed, A

\* tx_pdtch_fn: what goes out and what is confirmed is of the block whose first
\* burst was asked for last, and of none before it.
THEOREM OnlyBegunBlocks == Spec => OnlyBegunBlock
<1> DEFINE A == Arrive \/ ArriveLate
                  => {out'.burst, out'.cnf} \subseteq {None, tx'.begun}
<1>1. ASSUME Inv
      PROVE  A
  <2> SUFFICES ASSUME Arrive \/ ArriveLate
               PROVE  {out'.burst, out'.cnf} \subseteq {None, tx'.begun}
    OBVIOUS
  <2>1. PICK fn \in Frames :
           Comparable(fn) /\ Receive(fn) /\ Requested = Sum(fn, Advance)
    BY <1>1, BurstStep
  <2> QED
    BY <1>1, <2>1, Received
<1> HIDE DEF A
<1>2. Inv /\ [Next]_vars => [A]_vars
  BY <1>1
<1>3. Spec => [][A]_vars
  BY <1>2, Always, PTL DEF Spec
<1> QED
  BY <1>3 DEF OnlyBegunBlock, A
=============================================================================
