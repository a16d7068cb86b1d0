---------------------------- MODULE Call_proofs ----------------------------
(***************************************************************************)
(* Proofs about Call.  The first part has what the handlers of each layer   *)
(* do: the MM connections, the tables of call control, the radio connection *)
(* and the list of calls.  The second is about their composition.           *)
(***************************************************************************)
EXTENDS Call, Inductions

\* MM connections, and what MM tells call control.
MmConns == MM!ConnsIn(Refs, MM!ConnStates)

Ended == {"REL_IND", "ERR_IND"}

MmPrims == Ended \cup {"EST_CNF", "SYNC_IND"}

Entry == [p : MmPrims, ref : Refs]

Elems(q) == {q[i] : i \in DOMAIN q}

\* The connections of a list have different references.
Uniq(s) == \A i, j \in DOMAIN s : s[i].ref = s[j].ref => i = j

\* The states in which a connection that was asked for is answered.
Asking == {"WAIT_RR", "WAIT_OUT", "WAIT_ADD"}

LEMMA ElemsOfSeq ==
  ASSUME NEW T, NEW q \in Seq(T)
  PROVE  /\ Elems(q) \subseteq T
         /\ \A i \in DOMAIN q : q[i] \in Elems(q)
         /\ \A x \in Elems(q) : \E i \in DOMAIN q : q[i] = x
BY DEF Elems

LEMMA ElemsOfCat ==
  ASSUME NEW T, NEW q \in Seq(T), NEW u \in Seq(T)
  PROVE  q \o u \in Seq(T) /\ Elems(q \o u) = Elems(q) \cup Elems(u)
<1>1. /\ q \o u \in Seq(T) /\ Len(q \o u) = Len(q) + Len(u)
      /\ \A i \in 1 .. Len(q) : (q \o u)[i] = q[i]
      /\ \A i \in 1 .. Len(u) : (q \o u)[Len(q) + i] = u[i]
  OBVIOUS
<1>2. Elems(q \o u) \subseteq Elems(q) \cup Elems(u)
  <2> SUFFICES ASSUME NEW i \in 1 .. (Len(q) + Len(u))
               PROVE  (q \o u)[i] \in Elems(q) \cup Elems(u)
    BY <1>1 DEF Elems
  <2>1. CASE i <= Len(q)
    BY <1>1, <2>1 DEF Elems
  <2>2. CASE i > Len(q)
    <3>1. i - Len(q) \in 1 .. Len(u) /\ i = Len(q) + (i - Len(q))
      BY <2>2
    <3> QED
      BY <1>1, <3>1 DEF Elems
  <2> QED
    BY <2>1, <2>2
<1>3. Elems(q) \subseteq Elems(q \o u)
  BY <1>1 DEF Elems
<1>4. Elems(u) \subseteq Elems(q \o u)
  <2> SUFFICES ASSUME NEW i \in 1 .. Len(u)
               PROVE  u[i] \in Elems(q \o u)
    BY DEF Elems
  <2>1. Len(q) + i \in 1 .. (Len(q) + Len(u))
    OBVIOUS
  <2> QED
    BY <1>1, <2>1 DEF Elems
<1> QED
  BY <1>1, <1>2, <1>3, <1>4

LEMMA ElemsOfOne ==
  ASSUME NEW T, NEW x \in T
  PROVE  <<x>> \in Seq(T) /\ Elems(<<x>>) = {x}
BY DEF Elems

LEMMA ElemsOfNone ==
  /\ Elems(<<>>) = {}
  /\ \A T : <<>> \in Seq(T)
BY DEF Elems

LEMMA ElemsOfTail ==
  ASSUME NEW T, NEW q \in Seq(T), q # <<>>
  PROVE  /\ Tail(q) \in Seq(T) /\ Head(q) \in T
         /\ Elems(q) = {Head(q)} \cup Elems(Tail(q))
<1> DEFINE t == Tail(q)
           n == Len(q)
<1>1. /\ t \in Seq(T) /\ Head(q) = q[1] /\ n \in Nat /\ n > 0
      /\ DOMAIN q = 1 .. n /\ DOMAIN t = 1 .. (n - 1)
      /\ \A i \in 1 .. (n - 1) : t[i] = q[i + 1]
  OBVIOUS
<1>2. q[1] \in T
  BY <1>1
<1> HIDE DEF t, n
<1>3. Elems(q) \subseteq {q[1]} \cup Elems(t)
  <2> SUFFICES ASSUME NEW i \in 1 .. n, i # 1
               PROVE  q[i] \in Elems(t)
    BY <1>1 DEF Elems
  <2>1. i - 1 \in 1 .. (n - 1) /\ (i - 1) + 1 = i
    BY <1>1
  <2>2. t[i - 1] = q[i]
    BY <1>1, <2>1
  <2> QED
    BY <1>1, <2>1, <2>2 DEF Elems
<1>4. Elems(t) \subseteq Elems(q)
  <2> SUFFICES ASSUME NEW i \in 1 .. (n - 1)
               PROVE  t[i] \in Elems(q)
    BY <1>1 DEF Elems
  <2>1. i + 1 \in 1 .. n
    BY <1>1
  <2> QED
    BY <1>1, <2>1 DEF Elems
<1>5. q[1] \in Elems(q)
  BY <1>1 DEF Elems
<1>6. Elems(q) = {Head(q)} \cup Elems(t)
  BY <1>1, <1>3, <1>4, <1>5
<1> QED
  BY <1>1, <1>2, <1>6 DEF t

-----------------------------------------------------------------------------
(* Lists of MM connections.                                                  *)

LEMMA OmitIs ==
  ASSUME NEW s \in Seq(MmConns), NEW D
  PROVE  LET r == MM!Omit(s, D)
         IN /\ r \in Seq(MmConns) /\ Elems(r) = Elems(s) \ D
            /\ Uniq(s) => Uniq(r)
<1> DEFINE r == MM!Omit(s, D)
           kept[i \in 0 .. Len(s)] ==
             IF i = 0 THEN <<>>
             ELSE IF s[i] \in D THEN kept[i - 1]
             ELSE Append(kept[i - 1], s[i])
<1>1. r = kept[Len(s)]
  BY DEF MM!Omit
<1>2. Keeps(kept, Len(s), s, D)
  <2>1. Len(s) \in Nat
    OBVIOUS
  <2>2. \E f : Keeps(f, Len(s), s, D)
    BY <2>1, KeepsExist
  <2> QED
    BY <2>2 DEF Keeps, Visit
<1> HIDE DEF kept, r
<1>3. r \in Seq(MmConns) /\ Lists(r, Len(s), s, D)
  BY <1>1, <1>2, KeepsList
<1>4. PICK e \in [1 .. Len(r) -> 1 .. Len(s)] :
        /\ \A i, j \in 1 .. Len(r) : e[i] = e[j] => i = j
        /\ \A i \in 1 .. Len(r) : r[i] = s[e[i]] /\ r[i] \notin D
        /\ \A j \in 1 .. Len(s) :
             s[j] \notin D => \E i \in 1 .. Len(r) : e[i] = j
  BY <1>3 DEF Lists
<1>5. Elems(r) = Elems(s) \ D
  <2>1. DOMAIN r = 1 .. Len(r) /\ DOMAIN s = 1 .. Len(s)
    BY <1>3
  <2>2. Elems(r) \subseteq Elems(s) \ D
    BY <1>4, <2>1 DEF Elems
  <2>3. Elems(s) \ D \subseteq Elems(r)
    <3> SUFFICES ASSUME NEW j \in 1 .. Len(s), s[j] \notin D
                 PROVE  s[j] \in Elems(r)
      BY <2>1 DEF Elems
    <3>1. PICK i \in 1 .. Len(r) : e[i] = j
      BY <1>4
    <3> QED
      BY <1>4, <2>1, <3>1 DEF Elems
  <2> QED
    BY <2>2, <2>3
<1>6. ASSUME Uniq(s) PROVE Uniq(r)
  <2>1. DOMAIN r = 1 .. Len(r) /\ DOMAIN s = 1 .. Len(s)
    BY <1>3
  <2> SUFFICES ASSUME NEW i \in 1 .. Len(r), NEW j \in 1 .. Len(r),
                      r[i].ref = r[j].ref
               PROVE  i = j
    BY <2>1 DEF Uniq
  <2>2. s[e[i]].ref = s[e[j]].ref /\ e[i] \in DOMAIN s /\ e[j] \in DOMAIN s
    BY <1>4, <2>1
  <2>3. e[i] = e[j]
    BY <1>6, <2>2 DEF Uniq
  <2> QED
    BY <1>4, <2>3
<1> QED
  BY <1>3, <1>5, <1>6 DEF r

LEMMA ToldIs ==
  ASSUME NEW s \in Seq(MmConns), NEW p \in MmPrims
  PROVE  LET u == MM!Told(s, p)
         IN /\ u \in Seq(Entry)
            /\ \A x : x \in Elems(u) <=>
                        \E c \in Elems(s) : x = [p |-> p, ref |-> c.ref]
            /\ Uniq(s) => Uniq(u)
<1> DEFINE u == MM!Told(s, p)
<1>1. u = [i \in DOMAIN s |-> [p |-> p, ref |-> s[i].ref]]
  BY DEF MM!Told, MM!Prim
<1>2. \A i \in DOMAIN s : s[i].ref \in Refs
  <2>1. \A i \in DOMAIN s : s[i] \in MmConns
    OBVIOUS
  <2> QED
    BY <2>1 DEF MmConns, MM!ConnsIn
<1>3. DOMAIN s = 1 .. Len(s) /\ Len(s) \in Nat
  OBVIOUS
<1> HIDE DEF u
<1>4. u \in Seq(Entry)
  BY <1>1, <1>2, <1>3 DEF Entry
<1>5. \A x : x \in Elems(u) <=>
               \E c \in Elems(s) : x = [p |-> p, ref |-> c.ref]
  BY <1>1 DEF Elems
<1>6. Uniq(s) => Uniq(u)
  BY <1>1 DEF Uniq
<1> QED
  BY <1>4, <1>5, <1>6 DEF u

-----------------------------------------------------------------------------
(***************************************************************************)
(* What a handler of MM does to the list of connections: s before and t     *)
(* after it, with the primitives u to call control.                         *)
(***************************************************************************)
HasRef(s, ref) == \E c \in Elems(s) : c.ref = ref

Says(u, ref, prims) == \E e \in Elems(u) : e.ref = ref /\ e.p \in prims

Pend(ref) == [ref |-> ref, st |-> "PEND"]

\* Who loses a connection is told so, and who waits for one is answered.
Answered(s, t, u) ==
  /\ \A c \in Elems(s) : HasRef(t, c.ref) \/ Says(u, c.ref, Ended)
  /\ \A c \in Elems(s) :
       c.st = "PEND" => c \in Elems(t) \/ Says(u, c.ref, Ended \cup {"EST_CNF"})

\* No connection comes from nowhere, or starts to wait again.
NoneNew(s, t) ==
  \A c \in Elems(t) : HasRef(s, c.ref) /\ (c.st = "PEND" => c \in Elems(s))

\* What is told is true.
Truthful(s, t, u) ==
  \A e \in Elems(u) :
    /\ HasRef(s, e.ref)
    /\ e.p \in Ended => ~HasRef(t, e.ref)
    /\ e.p = "EST_CNF" => /\ Pend(e.ref) \in Elems(s)
                          /\ Pend(e.ref) \notin Elems(t)

Serves(s, t, u) ==
  /\ t \in Seq(MmConns) /\ u \in Seq(Entry) /\ Uniq(t) /\ Uniq(u)
  /\ Answered(s, t, u) /\ NoneNew(s, t) /\ Truthful(s, t, u)

LEMMA UniqElems ==
  ASSUME NEW s, Uniq(s), NEW c \in Elems(s), NEW d \in Elems(s), c.ref = d.ref
  PROVE  c = d
BY DEF Uniq, Elems

LEMMA ConnIs ==
  ASSUME NEW s \in Seq(MmConns), NEW c \in Elems(s)
  PROVE  /\ c \in MmConns /\ c.ref \in Refs /\ c.st \in MM!ConnStates
         /\ c.st = "PEND" <=> c = Pend(c.ref)
<1>1. c \in MmConns
  BY ElemsOfSeq
<1> QED
  BY <1>1 DEF MmConns, MM!ConnsIn, Pend

LEMMA SaysIt ==
  ASSUME NEW u, NEW p, NEW ref, NEW prims, p \in prims,
         [p |-> p, ref |-> ref] \in Elems(u)
  PROVE  Says(u, ref, prims)
BY DEF Says

LEMMA ServesNothing ==
  ASSUME NEW s \in Seq(MmConns), Uniq(s)
  PROVE  Serves(s, s, <<>>)
<1>1. Elems(<<>>) = {} /\ <<>> \in Seq(Entry) /\ Uniq(<<>>)
  BY ElemsOfNone DEF Uniq
<1> QED
  BY <1>1 DEF Serves, Answered, NoneNew, Truthful, HasRef

LEMMA ServesAllGone ==
  ASSUME NEW s \in Seq(MmConns), Uniq(s), NEW p \in Ended
  PROVE  Serves(s, <<>>, MM!Told(s, p))
<1> DEFINE u == MM!Told(s, p)
<1>1. Elems(<<>>) = {} /\ <<>> \in Seq(MmConns) /\ Uniq(<<>>)
  BY ElemsOfNone DEF Uniq
<1>2. /\ u \in Seq(Entry) /\ Uniq(u)
      /\ \A x : x \in Elems(u) <=>
                  \E c \in Elems(s) : x = [p |-> p, ref |-> c.ref]
  BY ToldIs DEF MmPrims
<1> HIDE DEF u
<1>3. \A c \in Elems(s) : Says(u, c.ref, Ended)
  <2> TAKE c \in Elems(s)
  <2>1. [p |-> p, ref |-> c.ref] \in Elems(u)
    BY <1>2
  <2> QED
    BY <2>1, SaysIt
<1>4. Answered(s, <<>>, u)
  BY <1>3 DEF Answered, Says
<1>5. \A e \in Elems(u) : e.p = p /\ HasRef(s, e.ref)
  BY <1>2 DEF HasRef
<1>6. Truthful(s, <<>>, u)
  BY <1>1, <1>5 DEF Truthful, HasRef, Ended
<1>7. NoneNew(s, <<>>)
  BY <1>1 DEF NoneNew
<1> QED
  BY <1>1, <1>2, <1>4, <1>6, <1>7 DEF Serves, u

\* The connections that wait.
LEMMA WaitingIs ==
  ASSUME NEW s \in Seq(MmConns), Uniq(s)
  PROVE  LET q == MM!Omit(s, MM!Others)
             t == MM!Omit(s, MM!Requested)
         IN /\ q \in Seq(MmConns) /\ Uniq(q) /\ t \in Seq(MmConns) /\ Uniq(t)
            /\ Elems(q) = {c \in Elems(s) : c.st = "PEND"}
            /\ Elems(t) = {c \in Elems(s) : c.st # "PEND"}
<1> DEFINE q == MM!Omit(s, MM!Others)
           t == MM!Omit(s, MM!Requested)
<1>1. /\ q \in Seq(MmConns) /\ Uniq(q) /\ t \in Seq(MmConns) /\ Uniq(t)
      /\ Elems(q) = Elems(s) \ MM!Others
      /\ Elems(t) = Elems(s) \ MM!Requested
  BY OmitIs
<1> HIDE DEF q, t
<1>2. \A c \in Elems(s) : /\ c \in MM!Others <=> c.st # "PEND"
                          /\ c \in MM!Requested <=> c.st = "PEND"
  <2> TAKE c \in Elems(s)
  <2>1. c \in MmConns
    BY ElemsOfSeq
  <2> QED
    BY <2>1 DEF MmConns, MM!Others, MM!Requested, MM!ConnsIn, MM!ConnStates
<1> QED
  BY <1>1, <1>2 DEF q, t

LEMMA ServesWaitingGone ==
  ASSUME NEW s \in Seq(MmConns), Uniq(s)
  PROVE  Serves(s, MM!Omit(s, MM!Requested),
                MM!Told(MM!Omit(s, MM!Others), "REL_IND"))
<1> DEFINE q == MM!Omit(s, MM!Others)
           t == MM!Omit(s, MM!Requested)
           u == MM!Told(q, "REL_IND")
<1>1. /\ q \in Seq(MmConns) /\ Uniq(q) /\ t \in Seq(MmConns) /\ Uniq(t)
      /\ Elems(q) = {c \in Elems(s) : c.st = "PEND"}
      /\ Elems(t) = {c \in Elems(s) : c.st # "PEND"}
  BY WaitingIs
<1> HIDE DEF q, t
<1>2. /\ u \in Seq(Entry) /\ Uniq(u)
      /\ \A x : x \in Elems(u) <=>
                  \E c \in Elems(q) : x = [p |-> "REL_IND", ref |-> c.ref]
  BY <1>1, ToldIs DEF MmPrims, Ended
<1> HIDE DEF u
<1>3. \A c \in Elems(s) : c.st = "PEND" => Says(u, c.ref, Ended)
  <2> SUFFICES ASSUME NEW c \in Elems(s), c.st = "PEND"
               PROVE  Says(u, c.ref, Ended)
    OBVIOUS
  <2>1. [p |-> "REL_IND", ref |-> c.ref] \in Elems(u)
    BY <1>1, <1>2
  <2> QED
    BY <2>1, SaysIt DEF Ended
<1>4. \A c \in Elems(s) : c.st # "PEND" => HasRef(t, c.ref)
  BY <1>1 DEF HasRef
<1>5. Answered(s, t, u)
  BY <1>3, <1>4 DEF Answered, Says
<1>6. NoneNew(s, t)
  BY <1>1 DEF NoneNew, HasRef
<1>7. Truthful(s, t, u)
  <2> SUFFICES ASSUME NEW e \in Elems(u)
               PROVE  e.p = "REL_IND" /\ HasRef(s, e.ref) /\ ~HasRef(t, e.ref)
    BY DEF Truthful
  <2>1. PICK c \in Elems(q) : e = [p |-> "REL_IND", ref |-> c.ref]
    BY <1>2
  <2>2. c \in Elems(s) /\ c.st = "PEND" /\ e.ref = c.ref /\ e.p = "REL_IND"
    BY <1>1, <2>1
  <2>3. ASSUME NEW d \in Elems(t), d.ref = c.ref PROVE FALSE
    <3>1. d \in Elems(s) /\ d.st # "PEND"
      BY <1>1, <2>3
    <3>2. d = c
      BY <2>2, <2>3, <3>1, UniqElems
    <3> QED
      BY <2>2, <3>1, <3>2
  <2> QED
    BY <2>2, <2>3 DEF HasRef
<1> QED
  BY <1>1, <1>2, <1>5, <1>6, <1>7 DEF Serves, q, t, u

LEMMA ServesAccepted ==
  ASSUME NEW s \in Seq(MmConns), Uniq(s), NEW t,
         t = [i \in DOMAIN s |-> IF MM!IsPending(s[i])
                                 THEN MM!Conn(s[i].ref, "DEDIC") ELSE s[i]]
  PROVE  /\ Serves(s, t, MM!Told(MM!Omit(s, MM!Others), "EST_CNF"))
         /\ \A c \in Elems(t) : c.st # "PEND"
<1> DEFINE q == MM!Omit(s, MM!Others)
           u == MM!Told(q, "EST_CNF")
<1>1. /\ q \in Seq(MmConns) /\ Uniq(q)
      /\ Elems(q) = {c \in Elems(s) : c.st = "PEND"}
  BY WaitingIs
<1> HIDE DEF q
<1>2. /\ u \in Seq(Entry) /\ Uniq(u)
      /\ \A x : x \in Elems(u) <=>
                  \E c \in Elems(q) : x = [p |-> "EST_CNF", ref |-> c.ref]
  BY <1>1, ToldIs DEF MmPrims
<1> HIDE DEF u
<1>3. /\ DOMAIN s = 1 .. Len(s) /\ Len(s) \in Nat
      /\ \A i \in DOMAIN s : s[i] \in Elems(s)
  BY ElemsOfSeq
<1>4. DOMAIN t = DOMAIN s
  OBVIOUS
<1>5. \A i \in DOMAIN s :
        /\ t[i] \in MmConns /\ t[i].ref = s[i].ref /\ t[i].st # "PEND"
        /\ s[i].st # "PEND" => t[i] = s[i]
  <2> TAKE i \in DOMAIN s
  <2>1. s[i].ref \in Refs /\ s[i] \in MmConns
    BY <1>3, ConnIs
  <2> QED
    BY <2>1 DEF MM!IsPending, MM!Conn, MmConns, MM!ConnsIn, MM!ConnStates
<1>6. t \in Seq(MmConns) /\ Uniq(t)
  <2>1. t = [i \in 1 .. Len(s) |-> t[i]]
    BY <1>3
  <2>2. t \in Seq(MmConns)
    BY <1>3, <1>4, <1>5, <2>1
  <2> QED
    BY <1>4, <1>5, <2>2 DEF Uniq
<1>7. \A c \in Elems(s) : HasRef(t, c.ref)
  BY <1>4, <1>5 DEF HasRef, Elems
<1>8. \A d \in Elems(t) : HasRef(s, d.ref) /\ d.st # "PEND"
  BY <1>4, <1>5 DEF HasRef, Elems
<1>9. \A c \in Elems(s) : c.st = "PEND" =>
                            Says(u, c.ref, Ended \cup {"EST_CNF"})
  <2> SUFFICES ASSUME NEW c \in Elems(s), c.st = "PEND"
               PROVE  Says(u, c.ref, Ended \cup {"EST_CNF"})
    OBVIOUS
  <2>1. [p |-> "EST_CNF", ref |-> c.ref] \in Elems(u)
    BY <1>1, <1>2
  <2> QED
    BY <2>1, SaysIt
<1>10. Answered(s, t, u)
  BY <1>7, <1>9 DEF Answered
<1>11. NoneNew(s, t)
  BY <1>8 DEF NoneNew
<1>12. Truthful(s, t, u)
  <2> SUFFICES ASSUME NEW e \in Elems(u)
               PROVE  /\ HasRef(s, e.ref) /\ e.p = "EST_CNF"
                      /\ Pend(e.ref) \in Elems(s)
                      /\ Pend(e.ref) \notin Elems(t)
    BY DEF Truthful, Ended
  <2>1. PICK c \in Elems(q) : e = [p |-> "EST_CNF", ref |-> c.ref]
    BY <1>2
  <2>2. c \in Elems(s) /\ c.st = "PEND" /\ e.ref = c.ref /\ e.p = "EST_CNF"
    BY <1>1, <2>1
  <2>3. Pend(e.ref) = c /\ Pend(e.ref).st = "PEND"
    BY <2>2, ConnIs DEF Pend
  <2> QED
    BY <1>8, <2>2, <2>3 DEF HasRef
<1>13. Serves(s, t, u)
  BY <1>2, <1>6, <1>10, <1>11, <1>12 DEF Serves
<1> QED
  BY <1>8, <1>13 DEF q, u

LEMMA ServesSync ==
  ASSUME NEW s \in Seq(MmConns), Uniq(s)
  PROVE  Serves(s, s, MM!Told(s, "SYNC_IND"))
<1> DEFINE u == MM!Told(s, "SYNC_IND")
<1>1. /\ u \in Seq(Entry) /\ Uniq(u)
      /\ \A x : x \in Elems(u) <=>
                  \E c \in Elems(s) : x = [p |-> "SYNC_IND", ref |-> c.ref]
  BY ToldIs DEF MmPrims
<1> HIDE DEF u
<1>2. \A e \in Elems(u) : HasRef(s, e.ref) /\ e.p = "SYNC_IND"
  BY <1>1 DEF HasRef
<1>3. Truthful(s, s, u)
  BY <1>2 DEF Truthful, Ended
<1> QED
  BY <1>1, <1>3 DEF Serves, Answered, NoneNew, HasRef, u

-----------------------------------------------------------------------------
(***************************************************************************)
(* The handlers of MM.                                                      *)
(***************************************************************************)
HasPend(m) == \E c \in Elems(m.conns) : c.st = "PEND"

HasDedic(m) == \E c \in Elems(m.conns) : c.st = "DEDIC"

TimedMm(m) == m.state \in {"WAIT_OUT", "WAIT_ADD"} /\ HasPend(m) => m.t3230

DedicMm(m) == HasDedic(m) => m.state \in {"ACTIVE", "WAIT_ADD"}

Sane(m) ==
  m \in MM!MmLayers /\ Uniq(m.conns) /\ TimedMm(m) /\ DedicMm(m)

\* A connection that waits goes on doing so in the same way.
Asks(m, n) == HasPend(n) => (n.state \in Asking <=> m.state \in Asking)

\* MM is not told that there is a radio connection, or an answer on it.
Calm(m, n) == /\ HasDedic(n) => HasDedic(m)
              /\ m.state = "IDLE" => n.state = "IDLE"

\* No connection is confirmed.
Mute(r) == \A e \in Elems(r.up) : e.p # "EST_CNF"

Handles(m, r) ==
  Sane(r.mm) /\ Serves(m.conns, r.mm.conns, r.up) /\ Asks(m, r.mm)

\* A state of MM by its fields.
LEMMA MmIs ==
  ASSUME NEW m
  PROVE  m \in MM!MmLayers <=>
           /\ m = [state |-> m.state, conns |-> m.conns,
                   t3230 |-> m.t3230, t3240 |-> m.t3240]
           /\ m.state \in MM!MmStates /\ m.conns \in Seq(MmConns)
           /\ m.t3230 \in BOOLEAN /\ m.t3240 \in BOOLEAN
BY DEF MM!MmLayers, MmConns

LEMMA WithState ==
  ASSUME NEW m \in MM!MmLayers, NEW x \in MM!MmStates,
         NEW n, n = [m EXCEPT !.state = x]
  PROVE  /\ n \in MM!MmLayers /\ n.state = x /\ n.conns = m.conns
         /\ n.t3230 = m.t3230 /\ n.t3240 = m.t3240
BY DEF MM!MmLayers

LEMMA WithConns ==
  ASSUME NEW m \in MM!MmLayers, NEW x \in Seq(MmConns),
         NEW n, n = [m EXCEPT !.conns = x]
  PROVE  /\ n \in MM!MmLayers /\ n.state = m.state /\ n.conns = x
         /\ n.t3230 = m.t3230 /\ n.t3240 = m.t3240
BY DEF MM!MmLayers, MmConns

\* Connections are left as they are.
LEMMA Untouched ==
  ASSUME NEW m, Sane(m), NEW r, r.mm \in MM!MmLayers,
         r.mm.conns = m.conns, r.up = <<>>,
         HasDedic(m) => r.mm.state \in {"ACTIVE", "WAIT_ADD"},
         HasPend(m) => /\ r.mm.state \in Asking <=> m.state \in Asking
                       /\ r.mm.state \in {"WAIT_OUT", "WAIT_ADD"} => r.mm.t3230
  PROVE  Handles(m, r) /\ Mute(r) /\ (HasDedic(r.mm) <=> HasDedic(m))
<1>1. m.conns \in Seq(MmConns)
  BY MmIs DEF Sane
<1>2. Serves(m.conns, m.conns, <<>>)
  BY <1>1, ServesNothing DEF Sane
<1>3. (HasDedic(r.mm) <=> HasDedic(m)) /\ (HasPend(r.mm) <=> HasPend(m))
  BY DEF HasDedic, HasPend
<1> QED
  BY <1>2, <1>3, ElemsOfNone DEF Sane, Handles, Mute, TimedMm, DedicMm, Asks

\* All connections are gone.
LEMMA Emptied ==
  ASSUME NEW m, Sane(m), NEW r, r.mm \in MM!MmLayers,
         NEW p \in Ended, r.mm.conns = <<>>, r.up = MM!Told(m.conns, p)
  PROVE  Handles(m, r) /\ Mute(r) /\ ~HasDedic(r.mm)
<1>1. m.conns \in Seq(MmConns)
  BY MmIs DEF Sane
<1>2. Serves(m.conns, r.mm.conns, r.up)
  BY <1>1, ServesAllGone DEF Sane
<1>3. ~HasDedic(r.mm) /\ ~HasPend(r.mm)
  BY ElemsOfNone DEF HasDedic, HasPend
<1>4. Uniq(r.mm.conns)
  BY <1>2 DEF Serves
<1>5. Mute(r)
  BY <1>1, ToldIs DEF MmPrims, Ended, Mute
<1> QED
  BY <1>2, <1>3, <1>4, <1>5 DEF Sane, Handles, TimedMm, DedicMm, Asks

\* The connections that wait are gone.
LEMMA WaitingGone ==
  ASSUME NEW m, Sane(m), NEW r, r.mm \in MM!MmLayers,
         r.mm.conns = MM!Omit(m.conns, MM!Requested),
         r.up = MM!Told(MM!Omit(m.conns, MM!Others), "REL_IND"),
         r.mm.conns # <<>> => r.mm.state = "ACTIVE"
  PROVE  Handles(m, r) /\ Mute(r) /\ (HasDedic(r.mm) => HasDedic(m))
<1>1. m.conns \in Seq(MmConns) /\ Uniq(m.conns)
  BY MmIs DEF Sane
<1>2. Serves(m.conns, r.mm.conns, r.up)
  BY <1>1, ServesWaitingGone
<1>3. Elems(r.mm.conns) = {c \in Elems(m.conns) : c.st # "PEND"}
  BY <1>1, WaitingIs
<1>4. ~HasPend(r.mm) /\ (HasDedic(r.mm) => HasDedic(m))
  BY <1>3 DEF HasPend, HasDedic
<1>5. HasDedic(r.mm) => r.mm.conns # <<>>
  BY ElemsOfNone DEF HasDedic
<1>6. Uniq(r.mm.conns)
  BY <1>2 DEF Serves
<1>7. Mute(r)
  <2> DEFINE q == MM!Omit(m.conns, MM!Others)
  <2>1. q \in Seq(MmConns)
    BY <1>1, WaitingIs
  <2> HIDE DEF q
  <2>2. \A x \in Elems(MM!Told(q, "REL_IND")) : x.p = "REL_IND"
    BY <2>1, ToldIs DEF MmPrims, Ended
  <2> QED
    BY <2>2 DEF Mute, q
<1> QED
  BY <1>2, <1>4, <1>5, <1>6, <1>7 DEF Sane, Handles, TimedMm, DedicMm, Asks

LEMMA NoConns ==
  ASSUME NEW m, m.conns = <<>>
  PROVE  ~HasPend(m) /\ ~HasDedic(m)
BY ElemsOfNone DEF HasPend, HasDedic

LEMMA EstCnfIs ==
  ASSUME NEW m, Sane(m), NEW r, r = MM!EstCnf(m)
  PROVE  Handles(m, r) /\ Mute(r) /\ Calm(m, r.mm) /\ r.rr = "none"
<1>1. m \in MM!MmLayers /\ m.conns \in Seq(MmConns)
  BY MmIs DEF Sane
<1>2. CASE m.state # "WAIT_RR"
  <2>1. r.mm = m /\ r.up = <<>> /\ r.rr = "none"
    BY <1>2 DEF MM!EstCnf, MM!Acts, MM!NoReq
  <2> QED
    BY <1>1, <2>1, Untouched DEF Sane, TimedMm, DedicMm, Calm
<1>3. CASE m.state = "WAIT_RR" /\ m.conns = <<>>
  <2>1. /\ r.mm = [m EXCEPT !.state = "WAIT_NET", !.t3240 = TRUE]
        /\ r.up = <<>> /\ r.rr = "none"
    BY <1>3 DEF MM!EstCnf, MM!Acts, MM!NoReq, MM!WaitNet
  <2>2. /\ r.mm \in MM!MmLayers /\ r.mm.conns = m.conns
        /\ r.mm.state = "WAIT_NET"
    BY <1>1, <2>1 DEF MM!MmLayers, MM!MmStates
  <2>3. ~HasPend(m) /\ ~HasDedic(m)
    BY <1>3, NoConns
  <2> QED
    BY <1>3, <2>1, <2>2, <2>3, Untouched DEF Calm
<1>4. CASE m.state = "WAIT_RR" /\ m.conns # <<>>
  <2>1. /\ r.mm = [m EXCEPT !.state = "WAIT_OUT", !.t3230 = TRUE]
        /\ r.up = <<>> /\ r.rr = "none"
    BY <1>4 DEF MM!EstCnf, MM!Acts, MM!NoReq
  <2>2. /\ r.mm \in MM!MmLayers /\ r.mm.conns = m.conns
        /\ r.mm.state = "WAIT_OUT" /\ r.mm.t3230
    BY <1>1, <2>1 DEF MM!MmLayers, MM!MmStates
  <2>3. ~HasDedic(m)
    BY <1>4 DEF Sane, DedicMm
  <2> QED
    BY <1>4, <2>1, <2>2, <2>3, Untouched DEF Calm, Asking
<1> QED
  BY <1>2, <1>3, <1>4

LEMMA EstIndIs ==
  ASSUME NEW m, Sane(m), NEW r, r = MM!EstInd(m)
  PROVE  /\ Handles(m, r) /\ Mute(r) /\ r.rr = "none"
         /\ HasDedic(r.mm) => HasDedic(m)
<1>1. m \in MM!MmLayers /\ m.conns \in Seq(MmConns)
  BY MmIs DEF Sane
<1>2. r.up = <<>> /\ r.rr = "none"
  BY DEF MM!EstInd, MM!Acts, MM!NoReq
<1>3. CASE m.state # "IDLE"
  <2>1. r.mm = m
    BY <1>3 DEF MM!EstInd, MM!Acts
  <2> QED
    BY <1>1, <1>2, <2>1, Untouched DEF Sane, TimedMm, DedicMm
<1>4. CASE m.state = "IDLE"
  <2>1. r.mm = [m EXCEPT !.state = "WAIT_NET"]
    BY <1>4 DEF MM!EstInd, MM!Acts
  <2>2. /\ r.mm \in MM!MmLayers /\ r.mm.conns = m.conns
        /\ r.mm.state = "WAIT_NET"
    BY <1>1, <2>1 DEF MM!MmLayers, MM!MmStates
  <2>3. ~HasDedic(m)
    BY <1>4 DEF Sane, DedicMm
  <2> QED
    BY <1>2, <1>4, <2>2, <2>3, Untouched DEF Asking
<1> QED
  BY <1>3, <1>4

\* RR has given the connection up.
LEMMA RrGoneIs ==
  ASSUME NEW m, Sane(m), NEW p \in Ended, NEW camped \in BOOLEAN,
         NEW r, r = MM!RrGone(m, p, camped)
  PROVE  /\ Handles(m, r) /\ Mute(r) /\ Calm(m, r.mm) /\ r.rr = "none"
         /\ ~HasDedic(r.mm) /\ (camped => r.mm.state = "IDLE")
<1>1. m \in MM!MmLayers /\ m.conns \in Seq(MmConns)
  BY MmIs DEF Sane
<1>2. CASE m.state \in {"WAIT_RR", "WAIT_OUT", "WAIT_ADD", "ACTIVE"}
  <2> DEFINE a == [m EXCEPT !.t3230 = FALSE, !.t3240 = FALSE]
             b == [a EXCEPT !.conns = <<>>]
  <2>1. /\ a \in MM!MmLayers /\ a.conns = m.conns /\ a.state = m.state
    BY <1>1 DEF MM!MmLayers
  <2>2. /\ r.mm = MM!ReturnIdle(b, camped) /\ r.rr = "none"
        /\ r.up = MM!Told(a.conns, p)
    BY <1>2 DEF MM!RrGone, MM!AbortMmCon, MM!ReleaseAll, MM!Acts, MM!NoReq
  <2> HIDE DEF a
  <2>3. b \in MM!MmLayers /\ b.conns = <<>> /\ b.state = m.state
    BY <2>1, ElemsOfNone DEF MM!MmLayers
  <2> HIDE DEF b
  <2>4. /\ r.mm \in MM!MmLayers /\ r.mm.conns = <<>>
        /\ camped => r.mm.state = "IDLE"
    BY <2>2, <2>3 DEF MM!ReturnIdle, MM!MmLayers, MM!MmStates
  <2> QED
    BY <1>2, <2>1, <2>2, <2>4, Emptied DEF Calm
<1>3. CASE m.state \notin {"WAIT_RR", "WAIT_OUT", "WAIT_ADD", "ACTIVE"}
  <2> DEFINE a == [m EXCEPT !.t3240 = FALSE]
  <2>1. a \in MM!MmLayers /\ a.conns = m.conns /\ a.state = m.state
    BY <1>1 DEF MM!MmLayers
  <2>2. /\ r.mm = MM!ReturnIdle(a, camped) /\ r.rr = "none" /\ r.up = <<>>
    BY <1>3 DEF MM!RrGone, MM!RelOther, MM!Acts, MM!NoReq
  <2> HIDE DEF a
  <2>3. /\ r.mm \in MM!MmLayers /\ r.mm.conns = m.conns
        /\ r.mm.state = IF camped THEN "IDLE" ELSE m.state
    BY <2>1, <2>2 DEF MM!ReturnIdle, MM!MmLayers, MM!MmStates
  <2>4. ~HasDedic(m)
    BY <1>3 DEF Sane, DedicMm
  <2> QED
    BY <1>3, <2>2, <2>3, <2>4, Untouched DEF Calm, Asking
<1> QED
  BY <1>2, <1>3

\* gsm48_mm_conn_go_dedic.
LEMMA GoDedicIs ==
  ASSUME NEW m, Sane(m), NEW a \in MM!MmLayers, a.conns = m.conns,
         a.state = "ACTIVE", NEW r, r = MM!GoDedic(a)
  PROVE  Handles(m, r) /\ r.rr = "none" /\ r.mm.state = "ACTIVE"
<1> DEFINE t == [i \in DOMAIN a.conns |->
                   IF MM!IsPending(a.conns[i])
                   THEN MM!Conn(a.conns[i].ref, "DEDIC") ELSE a.conns[i]]
<1>1. m.conns \in Seq(MmConns) /\ Uniq(m.conns)
  BY MmIs DEF Sane
<1>2. /\ r.mm = [a EXCEPT !.conns = t] /\ r.rr = "none"
      /\ r.up = MM!Told(MM!Omit(m.conns, MM!Others), "EST_CNF")
  BY DEF MM!GoDedic, MM!Acts, MM!NoReq
<1>3. t = [i \in DOMAIN m.conns |->
             IF MM!IsPending(m.conns[i])
             THEN MM!Conn(m.conns[i].ref, "DEDIC") ELSE m.conns[i]]
  OBVIOUS
<1> HIDE DEF t
<1>4. Serves(m.conns, t, r.up) /\ \A c \in Elems(t) : c.st # "PEND"
  BY <1>1, <1>2, <1>3, ServesAccepted
<1>5. t \in Seq(MmConns) /\ Uniq(t)
  BY <1>4 DEF Serves
<1>6. r.mm \in MM!MmLayers /\ r.mm.conns = t /\ r.mm.state = "ACTIVE"
  BY <1>2, <1>5, WithConns
<1>7. ~HasPend(r.mm)
  BY <1>4, <1>6 DEF HasPend
<1> QED
  BY <1>2, <1>4, <1>5, <1>6, <1>7
  DEF Handles, Sane, TimedMm, DedicMm, Asks

LEMMA ServingIs ==
  ASSUME NEW m \in MM!MmLayers, NEW a, a = MM!Serving(m)
  PROVE  a \in MM!MmLayers /\ a.conns = m.conns /\ a.state = "ACTIVE"
BY DEF MM!Serving, MM!MmLayers, MM!MmStates

LEMMA CmServAccIs ==
  ASSUME NEW m, Sane(m), NEW r, r = MM!CmServAcc(m)
  PROVE  Handles(m, r) /\ r.rr = "none"
<1> DEFINE a == MM!Serving(m)
<1>1. a \in MM!MmLayers /\ a.conns = m.conns /\ a.state = "ACTIVE"
  BY ServingIs DEF Sane
<1>2. r = MM!GoDedic(a)
  BY DEF MM!CmServAcc
<1> HIDE DEF a
<1> QED
  BY <1>1, <1>2, GoDedicIs

LEMMA SyncIndIs ==
  ASSUME NEW m, Sane(m), NEW r, r = MM!SyncInd(m)
  PROVE  /\ Handles(m, r) /\ r.rr = "none"
         /\ Mute(r) \/ m.state \in Asking
         /\ m.state = "IDLE" => r.mm.state = "IDLE"
<1> DEFINE a == MM!Serving(m)
<1>1. m \in MM!MmLayers /\ m.conns \in Seq(MmConns) /\ Uniq(m.conns)
  BY MmIs DEF Sane
<1>2. a \in MM!MmLayers /\ a.conns = m.conns /\ a.state = "ACTIVE"
  BY <1>1, ServingIs
<1>3. CASE m.state \in {"WAIT_OUT", "WAIT_ADD"}
  <2>1. r = MM!GoDedic(a)
    BY <1>3 DEF MM!SyncInd
  <2> HIDE DEF a
  <2> QED
    BY <1>2, <1>3, <2>1, GoDedicIs DEF Asking
<1>4. CASE m.state = "ACTIVE"
  <2> DEFINE u == MM!Told(m.conns, "SYNC_IND")
  <2>1. r.mm = a /\ r.up = u /\ r.rr = "none"
    BY <1>4 DEF MM!SyncInd, MM!SyncIndActive, MM!Acts, MM!NoReq
  <2> HIDE DEF a
  <2>2. Serves(m.conns, m.conns, u)
    BY <1>1, ServesSync
  <2>3. \A e \in Elems(u) : e.p = "SYNC_IND"
    BY <1>1, ToldIs DEF MmPrims
  <2> HIDE DEF u
  <2>4. Mute(r)
    BY <2>1, <2>3 DEF Mute
  <2>5. Uniq(r.mm.conns)
    BY <1>1, <1>2, <2>1
  <2> QED
    BY <1>2, <1>4, <2>1, <2>2, <2>4, <2>5
    DEF Handles, Sane, TimedMm, DedicMm, Asks
<1>5. CASE m.state \notin {"WAIT_OUT", "WAIT_ADD", "ACTIVE"}
  <2>1. r.mm = m /\ r.up = <<>> /\ r.rr = "none"
    BY <1>5 DEF MM!SyncInd, MM!Acts, MM!NoReq
  <2> QED
    BY <1>1, <2>1, Untouched DEF Sane, TimedMm, DedicMm
<1> QED
  BY <1>3, <1>4, <1>5

LEMMA CmServRejIs ==
  ASSUME NEW m, Sane(m), NEW r, r = MM!CmServRej(m)
  PROVE  /\ Handles(m, r) /\ Mute(r) /\ r.rr = "none"
         /\ HasDedic(r.mm) => HasDedic(m)
<1> DEFINE a == [m EXCEPT !.t3230 = FALSE]
           t == MM!Omit(m.conns, MM!Requested)
           b == [a EXCEPT !.conns = t]
           st == IF t = <<>> THEN "WAIT_NET" ELSE "ACTIVE"
<1>1. m \in MM!MmLayers /\ m.conns \in Seq(MmConns) /\ Uniq(m.conns)
  BY MmIs DEF Sane
<1>2. a \in MM!MmLayers /\ a.conns = m.conns
  BY <1>1 DEF MM!MmLayers
<1> DEFINE f == MM!ReleasePending(a)
<1>3. /\ f.mm = b /\ f.rr = "none"
      /\ f = [mm |-> f.mm, up |-> f.up, rr |-> f.rr]
      /\ f.up = MM!Told(MM!Omit(m.conns, MM!Others), "REL_IND")
  BY <1>2 DEF MM!ReleasePending, MM!Acts, MM!NoReq
<1>4. r = [f EXCEPT !.mm.state = IF f.mm.conns = <<>> THEN "WAIT_NET"
                                 ELSE "ACTIVE"]
  BY DEF MM!CmServRej
<1> HIDE DEF a, f
<1>5. b \in MM!MmLayers /\ b.conns = t
  <2>1. t \in Seq(MmConns)
    BY <1>1, WaitingIs
  <2> QED
    BY <1>2, <2>1, WithConns
<1> HIDE DEF b
<1>6. /\ r.mm = [b EXCEPT !.state = st] /\ r.rr = "none"
      /\ r.up = MM!Told(MM!Omit(m.conns, MM!Others), "REL_IND")
  BY <1>3, <1>4, <1>5
<1>7. r.mm \in MM!MmLayers /\ r.mm.conns = t /\ r.mm.state = st
  <2>1. st \in MM!MmStates
    BY DEF MM!MmStates
  <2> QED
    BY <1>5, <1>6, <2>1, WithState
<1> QED
  BY <1>6, <1>7, WaitingGone

LEMMA CmServRejAllIs ==
  ASSUME NEW m, Sane(m), NEW r, r = MM!CmServRejAll(m)
  PROVE  /\ Handles(m, r) /\ Mute(r) /\ r.rr = "none"
         /\ ~HasDedic(r.mm) /\ r.mm.state = "WAIT_NET"
<1> DEFINE a == [m EXCEPT !.t3230 = FALSE]
           no == <<>>
           b == [a EXCEPT !.conns = no]
<1>1. a \in MM!MmLayers /\ a.conns = m.conns
  BY DEF Sane, MM!MmLayers
<1> DEFINE f == MM!ReleaseAll(a, "REL_IND")
<1>2. /\ f.mm = b /\ f.rr = "none"
      /\ f = [mm |-> f.mm, up |-> f.up, rr |-> f.rr]
      /\ f.up = MM!Told(m.conns, "REL_IND")
  BY <1>1 DEF MM!ReleaseAll, MM!Acts, MM!NoReq
<1>3. r = [f EXCEPT !.mm.state = "WAIT_NET"]
  BY DEF MM!CmServRejAll
<1>4. no \in Seq(MmConns)
  BY ElemsOfNone
<1> HIDE DEF a, f, no
<1>5. b \in MM!MmLayers /\ b.conns = no
  BY <1>1, <1>4, WithConns
<1> HIDE DEF b
<1>6. /\ r.mm = [b EXCEPT !.state = "WAIT_NET"] /\ r.rr = "none"
      /\ r.up = MM!Told(m.conns, "REL_IND")
  BY <1>2, <1>3
<1>7. r.mm \in MM!MmLayers /\ r.mm.conns = <<>> /\ r.mm.state = "WAIT_NET"
  BY <1>5, <1>6, WithState DEF MM!MmStates, no
<1> QED
  BY <1>6, <1>7, Emptied DEF Ended

LEMMA MmAbortIs ==
  ASSUME NEW m, Sane(m), NEW r, r = MM!MmAbort(m)
  PROVE  Handles(m, r) /\ Mute(r) /\ Calm(m, r.mm) /\ r.rr = "none"
<1>1. m \in MM!MmLayers /\ m.conns \in Seq(MmConns)
  BY MmIs DEF Sane
<1>2. CASE m.conns = <<>>
  <2>1. r.mm = m /\ r.up = <<>> /\ r.rr = "none"
    BY <1>2 DEF MM!MmAbort, MM!Acts, MM!NoReq
  <2> QED
    BY <1>1, <2>1, Untouched DEF Sane, TimedMm, DedicMm, Calm
<1>3. CASE m.conns # <<>>
  <2> DEFINE a == [m EXCEPT !.t3230 = FALSE]
  <2>1. a \in MM!MmLayers /\ a.conns = m.conns /\ a.state = m.state
    BY <1>1 DEF MM!MmLayers
  <2>2. /\ r.mm = [a EXCEPT !.conns = <<>>] /\ r.rr = "none"
        /\ r.up = MM!Told(m.conns, "REL_IND")
    BY <1>3, <2>1 DEF MM!MmAbort, MM!ReleaseAll, MM!Acts, MM!NoReq
  <2> HIDE DEF a
  <2>3. /\ r.mm \in MM!MmLayers /\ r.mm.conns = <<>>
        /\ r.mm.state = m.state
    <3> DEFINE e == <<>>
    <3>1. e \in Seq(MmConns)
      BY ElemsOfNone
    <3>2. r.mm = [a EXCEPT !.conns = e]
      BY <2>2
    <3> HIDE DEF e
    <3>3. r.mm \in MM!MmLayers /\ r.mm.conns = e /\ r.mm.state = m.state
      BY <2>1, <3>1, <3>2, WithConns
    <3> QED
      BY <3>3 DEF e
  <2> QED
    BY <2>2, <2>3, Emptied DEF Calm, Ended
<1> QED
  BY <1>2, <1>3

LEMMA T3230Is ==
  ASSUME NEW m, Sane(m), NEW r, r = MM!T3230(m)
  PROVE  Handles(m, r) /\ Mute(r) /\ Calm(m, r.mm) /\ r.rr = "none"
<1> DEFINE a == [m EXCEPT !.t3230 = FALSE]
           t == MM!Omit(m.conns, MM!Requested)
           b == [a EXCEPT !.conns = t]
<1>1. m \in MM!MmLayers /\ m.conns \in Seq(MmConns) /\ Uniq(m.conns)
  BY MmIs DEF Sane
<1>2. a \in MM!MmLayers /\ a.conns = m.conns /\ a.state = m.state
  BY <1>1 DEF MM!MmLayers
<1>3. CASE m.state \notin {"WAIT_OUT", "WAIT_ADD"}
  <2>1. r.mm = a /\ r.up = <<>> /\ r.rr = "none"
    BY <1>3 DEF MM!T3230, MM!Acts, MM!NoReq
  <2> HIDE DEF a
  <2> QED
    BY <1>2, <1>3, <2>1, Untouched DEF Sane, DedicMm, Calm
<1>4. CASE m.state \in {"WAIT_OUT", "WAIT_ADD"}
  <2>1. /\ r.mm = IF b.conns = <<>> THEN MM!WaitNet(b)
                  ELSE [b EXCEPT !.state = "ACTIVE"]
        /\ r.up = MM!Told(MM!Omit(m.conns, MM!Others), "REL_IND")
        /\ r.rr = "none"
    <3> DEFINE f == MM!ReleasePending(a)
    <3>1. /\ f.mm = b /\ f.rr = "none"
          /\ f = [mm |-> f.mm, up |-> f.up, rr |-> f.rr]
          /\ f.up = MM!Told(MM!Omit(m.conns, MM!Others), "REL_IND")
      BY <1>2 DEF MM!ReleasePending, MM!Acts, MM!NoReq
    <3>2. r = [f EXCEPT !.mm = IF f.mm.conns = <<>> THEN MM!WaitNet(f.mm)
                               ELSE [f.mm EXCEPT !.state = "ACTIVE"]]
      BY <1>4 DEF MM!T3230
    <3> HIDE DEF f, b
    <3> QED
      BY <3>1, <3>2
  <2> HIDE DEF a
  <2>2. t \in Seq(MmConns)
    BY <1>1, WaitingIs
  <2>3. b \in MM!MmLayers /\ b.conns = t
    BY <1>2, <2>2, WithConns
  <2> HIDE DEF b
  <2>4. /\ r.mm \in MM!MmLayers /\ r.mm.conns = t
        /\ t # <<>> => r.mm.state = "ACTIVE"
    <3>1. CASE t = <<>>
      BY <2>1, <2>3, <3>1 DEF MM!WaitNet, MM!MmLayers, MM!MmStates
    <3>2. CASE t # <<>>
      BY <2>1, <2>3, <3>2, WithState DEF MM!MmStates
    <3> QED
      BY <3>1, <3>2
  <2>5. Handles(m, r) /\ Mute(r) /\ (HasDedic(r.mm) => HasDedic(m))
    BY <2>1, <2>4, WaitingGone
  <2> QED
    BY <1>4, <2>1, <2>5 DEF Calm
<1> QED
  BY <1>3, <1>4

LEMMA T3240Is ==
  ASSUME NEW m, Sane(m), NEW camped \in BOOLEAN, NEW r, r = MM!T3240(m, camped)
  PROVE  /\ Handles(m, r) /\ Mute(r) /\ Calm(m, r.mm)
         /\ r.rr \in {"none", "ABORT_REQ"}
<1> DEFINE a == [m EXCEPT !.t3240 = FALSE]
<1>1. m \in MM!MmLayers
  BY DEF Sane
<1>2. /\ a \in MM!MmLayers /\ a.conns = m.conns /\ a.state = m.state
      /\ a.t3230 = m.t3230
  BY <1>1 DEF MM!MmLayers
<1>3. CASE m.state # "WAIT_NET"
  <2>1. r.mm = a /\ r.up = <<>> /\ r.rr = "none"
    BY <1>3 DEF MM!T3240, MM!Acts, MM!NoReq
  <2> HIDE DEF a
  <2> QED
    BY <1>2, <1>3, <2>1, Untouched DEF Sane, TimedMm, DedicMm, Calm
<1>4. CASE m.state = "WAIT_NET"
  <2>1. r.mm = MM!ReturnIdle(a, camped) /\ r.up = <<>> /\ r.rr = "ABORT_REQ"
    BY <1>4 DEF MM!T3240, MM!Acts
  <2> HIDE DEF a
  <2>2. /\ r.mm \in MM!MmLayers /\ r.mm.conns = m.conns
        /\ r.mm.state \in {"WAIT_NET", "IDLE"}
    BY <1>2, <1>4, <2>1 DEF MM!ReturnIdle, MM!MmLayers, MM!MmStates
  <2>3. ~HasDedic(m)
    BY <1>4 DEF Sane, DedicMm
  <2> QED
    BY <1>4, <2>1, <2>2, <2>3, Untouched DEF Asking, Calm
<1> QED
  BY <1>3, <1>4

\* gsm48_mm_cell_selected: MM is idle when the mobile camps, whatever it
\* waited for.
LEMMA CellSelectedIs ==
  ASSUME NEW m, Sane(m), NEW camped \in BOOLEAN,
         camped => ~HasDedic(m), NEW r, r = MM!CellSelected(m, camped)
  PROVE  /\ Sane(r.mm) /\ Serves(m.conns, r.mm.conns, r.up) /\ Mute(r)
         /\ r.mm.conns = m.conns /\ r.up = <<>> /\ r.rr = "none"
         /\ r.mm.state = IF camped THEN "IDLE" ELSE m.state
<1>1. m \in MM!MmLayers /\ m.conns \in Seq(MmConns) /\ Uniq(m.conns)
  BY MmIs DEF Sane
<1>2. r.mm = MM!ReturnIdle(m, camped) /\ r.up = <<>> /\ r.rr = "none"
  BY DEF MM!CellSelected, MM!Acts, MM!NoReq
<1>3. /\ r.mm \in MM!MmLayers /\ r.mm.conns = m.conns
      /\ r.mm.t3230 = m.t3230
      /\ r.mm.state = IF camped THEN "IDLE" ELSE m.state
  BY <1>1, <1>2 DEF MM!ReturnIdle, MM!MmLayers, MM!MmStates
<1>4. (HasDedic(r.mm) <=> HasDedic(m)) /\ (HasPend(r.mm) <=> HasPend(m))
  BY <1>3 DEF HasDedic, HasPend
<1>5. Serves(m.conns, m.conns, <<>>)
  BY <1>1, ServesNothing
<1> QED
  BY <1>1, <1>2, <1>3, <1>4, <1>5, ElemsOfNone
  DEF Sane, TimedMm, DedicMm, Mute

LEMMA PendingIs ==
  ASSUME NEW m \in MM!MmLayers
  PROVE  /\ MM!Pending(m) <=> HasPend(m)
         /\ \A ref : MM!HasConn(m, ref) <=> HasRef(m.conns, ref)
BY DEF MM!Pending, MM!IsPending, MM!HasConn, HasPend, HasRef, Elems

\* A connection in front of the others.
LEMMA InFront ==
  ASSUME NEW s \in Seq(MmConns), Uniq(s), NEW c \in MmConns, ~HasRef(s, c.ref)
  PROVE  LET t == <<c>> \o s
         IN t \in Seq(MmConns) /\ Uniq(t) /\ Elems(t) = {c} \cup Elems(s)
<1> DEFINE t == <<c>> \o s
           n == Len(s)
<1>1. /\ n \in Nat /\ DOMAIN s = 1 .. n /\ t \in Seq(MmConns)
      /\ DOMAIN t = 1 .. (n + 1) /\ t[1] = c
      /\ \A i \in 2 .. (n + 1) : t[i] = s[i - 1]
  OBVIOUS
<1>2. Elems(t) = {c} \cup Elems(s)
  <2> DEFINE o == <<c>>
  <2>1. o \in Seq(MmConns) /\ Elems(o) = {c}
    BY ElemsOfOne
  <2> HIDE DEF o
  <2>2. Elems(o \o s) = Elems(o) \cup Elems(s)
    BY <2>1, ElemsOfCat
  <2> QED
    BY <2>1, <2>2 DEF o
<1> HIDE DEF t, n
<1>3. Uniq(t)
  <2> SUFFICES ASSUME NEW i \in 1 .. (n + 1), NEW j \in 1 .. (n + 1),
                      t[i].ref = t[j].ref
               PROVE  i = j
    BY <1>1 DEF Uniq
  <2>1. \A k \in 2 .. (n + 1) : k - 1 \in DOMAIN s /\ t[k].ref # c.ref
    <3> TAKE k \in 2 .. (n + 1)
    <3>1. k - 1 \in DOMAIN s
      BY <1>1
    <3>2. s[k - 1] \in Elems(s)
      BY <3>1, ElemsOfSeq
    <3> QED
      BY <1>1, <3>1, <3>2 DEF HasRef
  <2>2. CASE i = 1 \/ j = 1
    BY <1>1, <2>1, <2>2
  <2>3. CASE i # 1 /\ j # 1
    <3>1. i \in 2 .. (n + 1) /\ j \in 2 .. (n + 1)
      BY <1>1, <2>3
    <3>2. s[i - 1].ref = s[j - 1].ref
      BY <1>1, <3>1
    <3>3. i - 1 = j - 1
      BY <2>1, <3>1, <3>2 DEF Uniq
    <3> QED
      BY <3>1, <3>3
  <2> QED
    BY <2>2, <2>3
<1> QED
  BY <1>1, <1>2, <1>3 DEF t

\* gsm48_mm_init_mm_...: the request is made, or it is refused.
Accepted(m, ref, r) ==
  /\ ~HasPend(m) /\ m.state \in {"IDLE", "ACTIVE"} /\ r.up = <<>>
  /\ Elems(r.mm.conns) = {Pend(ref)} \cup Elems(m.conns)
  /\ m.state = "IDLE" => r.mm.state = "WAIT_RR" /\ r.rr = "EST_REQ"
  /\ m.state = "ACTIVE" => r.mm.state = "WAIT_ADD" /\ r.rr = "CM_SERV_REQ"

Refused(m, ref, r) ==
  r.mm = m /\ r.up = <<[p |-> "REL_IND", ref |-> ref]>> /\ r.rr = "none"

LEMMA EstReqIs ==
  ASSUME NEW m, Sane(m), NEW ref \in Refs, ~HasRef(m.conns, ref),
         NEW r, r = MM!EstReq(m, ref)
  PROVE  Sane(r.mm) /\ (Accepted(m, ref, r) \/ Refused(m, ref, r))
<1> DEFINE t == <<Pend(ref)>> \o m.conns
           b == [m EXCEPT !.conns = t]
<1>1. m \in MM!MmLayers /\ m.conns \in Seq(MmConns) /\ Uniq(m.conns)
  BY MmIs DEF Sane
<1>2. MM!Pending(m) <=> HasPend(m)
  BY <1>1, PendingIs
<1>3. /\ t \in Seq(MmConns) /\ Uniq(t)
      /\ Elems(t) = {Pend(ref)} \cup Elems(m.conns)
  <2>1. Pend(ref) \in MmConns /\ Pend(ref).ref = ref
    BY DEF Pend, MmConns, MM!ConnsIn, MM!ConnStates
  <2> QED
    BY <1>1, <2>1, InFront
<1>4. MM!Conn(ref, "PEND") = Pend(ref)
  BY DEF MM!Conn, Pend
<1> HIDE DEF t
<1>5. CASE m.state = "IDLE" /\ ~HasPend(m)
  <2>1. /\ r.mm = [b EXCEPT !.state = "WAIT_RR"]
        /\ r.up = <<>> /\ r.rr = "EST_REQ"
    BY <1>2, <1>4, <1>5 DEF MM!EstReq, MM!InitNoRr, MM!Acts, t
  <2>2. b \in MM!MmLayers /\ b.conns = t
    BY <1>1, <1>3, WithConns
  <2> HIDE DEF b
  <2>3. r.mm \in MM!MmLayers /\ r.mm.conns = t /\ r.mm.state = "WAIT_RR"
    BY <2>1, <2>2, WithState DEF MM!MmStates
  <2>4. ~HasDedic(r.mm)
    BY <1>3, <1>5, <2>3 DEF Sane, DedicMm, HasDedic, Pend
  <2> QED
    BY <1>3, <1>5, <2>1, <2>3, <2>4 DEF Sane, TimedMm, DedicMm, Accepted
<1>6. CASE m.state = "ACTIVE" /\ ~HasPend(m)
  <2>1. /\ r.mm = [b EXCEPT !.state = "WAIT_ADD", !.t3230 = TRUE]
        /\ r.up = <<>> /\ r.rr = "CM_SERV_REQ"
    BY <1>2, <1>4, <1>6 DEF MM!EstReq, MM!InitMore, MM!Acts, t
  <2>2. b \in MM!MmLayers /\ b.conns = t
    BY <1>1, <1>3, WithConns
  <2> HIDE DEF b
  <2>3. /\ r.mm \in MM!MmLayers /\ r.mm.conns = t /\ r.mm.state = "WAIT_ADD"
        /\ r.mm.t3230
    BY <2>1, <2>2 DEF MM!MmLayers, MM!MmStates
  <2> QED
    BY <1>3, <1>6, <2>1, <2>3 DEF Sane, TimedMm, DedicMm, Accepted
<1>7. CASE ~(m.state \in {"IDLE", "ACTIVE"} /\ ~HasPend(m))
  <2>1. /\ r.mm = m /\ r.rr = "none"
        /\ r.up = <<[p |-> "REL_IND", ref |-> ref]>>
    BY <1>2, <1>7 DEF MM!EstReq, MM!InitReject, MM!Acts, MM!Prim, MM!NoReq
  <2> QED
    BY <2>1 DEF Refused
<1> QED
  BY <1>5, <1>6, <1>7

LEMMA DataReqIs ==
  ASSUME NEW m, Sane(m), NEW ref, NEW r, r = MM!DataReq(m, ref)
  PROVE  /\ r.mm = m /\ r.rr = "none"
         /\ \/ r.up = <<>>
            \/ /\ r.up = <<[p |-> "REL_IND", ref |-> ref]>>
               /\ ~HasRef(m.conns, ref)
<1>1. MM!HasConn(m, ref) <=> HasRef(m.conns, ref)
  BY PendingIs DEF Sane
<1>2. CASE m.state \in {"ACTIVE", "WAIT_ADD"} /\ ~MM!HasConn(m, ref)
  BY <1>1, <1>2 DEF MM!DataReq, MM!Acts, MM!Prim, MM!NoReq
<1>3. CASE ~(m.state \in {"ACTIVE", "WAIT_ADD"} /\ ~MM!HasConn(m, ref))
  BY <1>3 DEF MM!DataReq, MM!Acts, MM!Prim, MM!NoReq
<1> QED
  BY <1>2, <1>3

\* The connection ref is given up, or MM is in a state in which the request
\* is ignored.
LEMMA RelReqIs ==
  ASSUME NEW m, Sane(m), NEW ref \in Refs, NEW r, r = MM!RelReq(m, ref)
  PROVE  /\ Sane(r.mm) /\ Asks(m, r.mm) /\ Calm(m, r.mm)
         /\ r.up = <<>> /\ r.rr = "none"
         /\ \/ /\ m.state \in {"IDLE", "WAIT_NET"} /\ r.mm = m
            \/ /\ m.state \in Asking \cup {"ACTIVE"}
               /\ Elems(r.mm.conns) = {c \in Elems(m.conns) : c.ref # ref}
<1> DEFINE t == MM!Omit(m.conns, MM!ConnsIn({ref}, MM!ConnStates))
           b == [m EXCEPT !.conns = t]
<1>1. m \in MM!MmLayers /\ m.conns \in Seq(MmConns) /\ Uniq(m.conns)
  BY MmIs DEF Sane
<1>2. /\ t \in Seq(MmConns) /\ Uniq(t)
      /\ Elems(t) = {c \in Elems(m.conns) : c.ref # ref}
  <2>1. /\ t \in Seq(MmConns) /\ Uniq(t)
        /\ Elems(t) = Elems(m.conns) \ MM!ConnsIn({ref}, MM!ConnStates)
    BY <1>1, OmitIs
  <2>2. \A c \in Elems(m.conns) :
          c \in MM!ConnsIn({ref}, MM!ConnStates) <=> c.ref = ref
    <3> TAKE c \in Elems(m.conns)
    <3>1. c \in MmConns
      BY <1>1, ElemsOfSeq
    <3> QED
      BY <3>1 DEF MmConns, MM!ConnsIn
  <2> HIDE DEF t
  <2> QED
    BY <2>1, <2>2
<1>3. b \in MM!MmLayers /\ b.conns = t /\ b.state = m.state /\ b.t3230 = m.t3230
  <2> HIDE DEF t
  <2> QED
    BY <1>1, <1>2, WithConns
<1>4. r.up = <<>> /\ r.rr = "none"
  BY DEF MM!RelReq, MM!Acts, MM!NoReq
<1>5. CASE m.state \in {"ACTIVE", "WAIT_OUT"}
  <2>1. r.mm = MM!ReleaseActive(b)
    BY <1>5 DEF MM!RelReq, MM!Acts
  <2> HIDE DEF b, t
  <2>2. CASE t = <<>>
    <3>1. r.mm = [b EXCEPT !.state = "WAIT_NET", !.t3240 = TRUE]
      BY <1>3, <2>1, <2>2 DEF MM!ReleaseActive, MM!WaitNet
    <3>2. r.mm \in MM!MmLayers /\ r.mm.conns = t /\ r.mm.state = "WAIT_NET"
      BY <1>3, <3>1 DEF MM!MmLayers, MM!MmStates
    <3>3. ~HasPend(r.mm) /\ ~HasDedic(r.mm)
      BY <2>2, <3>2, NoConns
    <3> QED
      BY <1>2, <1>4, <1>5, <3>2, <3>3
      DEF Sane, TimedMm, DedicMm, Asks, Calm, Asking
  <2>3. CASE t # <<>>
    <3>1. r.mm = b
      BY <1>3, <2>1, <2>3 DEF MM!ReleaseActive
    <3>2. (HasPend(b) => HasPend(m)) /\ (HasDedic(b) => HasDedic(m))
      BY <1>2, <1>3 DEF HasPend, HasDedic
    <3> QED
      BY <1>2, <1>3, <1>4, <1>5, <3>1, <3>2
      DEF Sane, TimedMm, DedicMm, Asks, Calm, Asking
  <2> QED
    BY <2>2, <2>3
<1>6. CASE m.state \in {"WAIT_RR", "WAIT_ADD"}
  <2>1. r.mm = b
    BY <1>6 DEF MM!RelReq, MM!Acts
  <2> HIDE DEF b, t
  <2>2. (HasPend(b) => HasPend(m)) /\ (HasDedic(b) => HasDedic(m))
    BY <1>2, <1>3 DEF HasPend, HasDedic
  <2> QED
    BY <1>2, <1>3, <1>4, <1>6, <2>1, <2>2
    DEF Sane, TimedMm, DedicMm, Asks, Calm, Asking
<1>7. CASE m.state \in {"IDLE", "WAIT_NET"}
  <2>1. r.mm = m
    BY <1>7 DEF MM!RelReq, MM!Acts
  <2> QED
    BY <1>4, <1>7, <2>1 DEF Asks, Calm
<1>8. m.state \in MM!MmStates
  BY <1>1, MmIs
<1> QED
  BY <1>5, <1>6, <1>7, <1>8 DEF MM!MmStates

\* create_conn_and_push_mm_hdr: a message finds its connection or makes one.
LEMMA ReachedIs ==
  ASSUME NEW m, Sane(m), NEW ref \in Refs, NEW n, n = MM!Reached(m, ref)
  PROVE  /\ Sane(n) /\ Asks(m, n) /\ Calm(m, n)
         /\ Elems(m.conns) \subseteq Elems(n.conns)
         /\ \A c \in Elems(n.conns) :
              \/ c \in Elems(m.conns)
              \/ c = [ref |-> ref, st |-> "IDLE"] /\ ~HasRef(m.conns, ref)
         /\ HasRef(n.conns, ref)
<1> DEFINE x == [ref |-> ref, st |-> "IDLE"]
           t == <<x>> \o m.conns
           b == IF HasRef(m.conns, ref) THEN m ELSE [m EXCEPT !.conns = t]
<1>1. m \in MM!MmLayers /\ m.conns \in Seq(MmConns) /\ Uniq(m.conns)
  BY MmIs DEF Sane
<1>2. MM!HasConn(m, ref) <=> HasRef(m.conns, ref)
  BY <1>1, PendingIs
<1>3. MM!Conn(ref, "IDLE") = x
  BY DEF MM!Conn
<1>4. n = IF m.state = "WAIT_NET"
          THEN [b EXCEPT !.state = "ACTIVE", !.t3240 = FALSE] ELSE b
  <2>1. CASE HasRef(m.conns, ref)
    BY <1>2, <1>3, <2>1 DEF MM!Reached
  <2>2. CASE ~HasRef(m.conns, ref)
    BY <1>2, <1>3, <2>2 DEF MM!Reached
  <2> QED
    BY <2>1, <2>2
<1>5. ~HasRef(m.conns, ref) =>
        t \in Seq(MmConns) /\ Uniq(t) /\ Elems(t) = {x} \cup Elems(m.conns)
  <2>1. x \in MmConns /\ x.ref = ref
    BY DEF MmConns, MM!ConnsIn, MM!ConnStates
  <2> HIDE DEF x
  <2> QED
    BY <1>1, <2>1, InFront
<1> HIDE DEF t
<1>6. /\ b \in MM!MmLayers /\ b.state = m.state /\ b.t3230 = m.t3230
      /\ Uniq(b.conns) /\ Elems(m.conns) \subseteq Elems(b.conns)
      /\ \A c \in Elems(b.conns) :
              \/ c \in Elems(m.conns)
              \/ c = x /\ ~HasRef(m.conns, ref)
      /\ HasRef(b.conns, ref)
  <2>1. CASE HasRef(m.conns, ref)
    BY <1>1, <2>1
  <2>2. CASE ~HasRef(m.conns, ref)
    <3>1. b = [m EXCEPT !.conns = t]
      BY <2>2
    <3> HIDE DEF b
    <3>2. /\ b \in MM!MmLayers /\ b.state = m.state /\ b.t3230 = m.t3230
          /\ b.conns = t
      BY <1>1, <1>5, <2>2, <3>1, WithConns
    <3>3. x \in Elems(t) /\ x.ref = ref
      BY <1>5, <2>2
    <3> HIDE DEF x
    <3>4. HasRef(b.conns, ref)
      BY <3>2, <3>3 DEF HasRef
    <3> QED
      BY <1>5, <2>2, <3>2, <3>4
  <2> QED
    BY <2>1, <2>2
<1> HIDE DEF b
<1>7. /\ n \in MM!MmLayers /\ n.t3230 = m.t3230 /\ n.conns = b.conns
      /\ n.state = IF m.state = "WAIT_NET" THEN "ACTIVE" ELSE m.state
  BY <1>4, <1>6 DEF MM!MmLayers, MM!MmStates
<1>8. (HasPend(n) <=> HasPend(m)) /\ (HasDedic(n) <=> HasDedic(m))
  BY <1>6, <1>7 DEF HasPend, HasDedic
<1> QED
  BY <1>1, <1>6, <1>7, <1>8 DEF Sane, TimedMm, DedicMm, Asks, Asking, Calm

-----------------------------------------------------------------------------
(***************************************************************************)
(* The tables and the handlers of call control.                             *)
(***************************************************************************)
\* What call control tells layer 4.
CcPrims == {"CALL_PROC_IND", "ALERT_IND", "PROGRESS_IND", "FACILITY_IND",
            "SETUP_CNF", "SETUP_IND", "SETUP_COMPL_IND", "HOLD_CNF",
            "RETRIEVE_CNF", "MODIFY_IND", "DISC_IND", "REL_CNF", "REL_IND",
            "REJ_IND"}

LEMMA TellsIt ==
  /\ <<>> \in Seq(CcPrims)
  /\ <<"CALL_PROC_IND">> \in Seq(CcPrims)
  /\ <<"ALERT_IND">> \in Seq(CcPrims)
  /\ <<"PROGRESS_IND">> \in Seq(CcPrims)
  /\ <<"FACILITY_IND">> \in Seq(CcPrims)
  /\ <<"SETUP_CNF">> \in Seq(CcPrims)
  /\ <<"SETUP_IND">> \in Seq(CcPrims)
  /\ <<"SETUP_COMPL_IND">> \in Seq(CcPrims)
  /\ <<"HOLD_CNF">> \in Seq(CcPrims)
  /\ <<"RETRIEVE_CNF">> \in Seq(CcPrims)
  /\ <<"MODIFY_IND">> \in Seq(CcPrims)
  /\ <<"DISC_IND">> \in Seq(CcPrims)
  /\ <<"REL_CNF">> \in Seq(CcPrims)
  /\ <<"REL_IND">> \in Seq(CcPrims)
  /\ <<"REJ_IND">> \in Seq(CcPrims)
  /\ <<"REL_IND", "DISC_IND">> \in Seq(CcPrims)
BY DEF CcPrims

IsPend(t) == t.state = "MM_CONNECTION_PEND"

IsLive(t) == t.state \notin {"FREE", "NULL"}

TimedCc(t) ==
  /\ t.state = "INITIATED"       => t.timer = "T303"
  /\ t.state = "CONNECT_REQUEST" => t.timer = "T313"
  /\ t.state = "RELEASE_REQ"     => t.timer = "T308"

At(x) == [state |-> x, timer |-> "none"]

\* A row goes forward, never to a wait for a connection, and starts the timer
\* of the state it goes to.
RowOk(r) ==
  /\ r.on \subseteq CC!States
  /\ r.to \in (CC!States \ {"MM_CONNECTION_PEND", "NULL", "INITIATED"})
                \cup {"same", "FREE"}
  /\ r.timer \in CC!Timers \cup {"none", "keep"}
  /\ r.up \in Seq(CcPrims)
  /\ r.to = "same" => r.timer = "keep"
  /\ r.to = "CONNECT_REQUEST" => r.timer = "T313"
  /\ r.to = "RELEASE_REQ" => r.timer = "T308"
  /\ r.to \notin {"same", "FREE"} =>
       \A x \in r.on : Phase(At(r.to)) >= Phase(At(x))

LEMMA PhaseIs ==
  ASSUME NEW t, t.state \in CC!States \cup {"FREE"}
  PROVE  /\ Phase(t) \in 0 .. 7 /\ Phase(t) = Phase(At(t.state))
         /\ Phase(t) = 0 <=> ~IsLive(t)
BY DEF Phase, At, IsLive, CC!States

LEMMA TransactionIs ==
  ASSUME NEW t \in CC!Transactions
  PROVE  /\ t = [state |-> t.state, timer |-> t.timer]
         /\ t = CC!Free <=> t.state = "FREE"
         /\ t.state \in CC!States \cup {"FREE"}
         /\ t # CC!Free => t.state \in CC!States
         /\ t.timer \in CC!Timers \cup {"none"}
BY DEF CC!Transactions, CC!Free, CC!States, CC!Timers, CC!NoTimer

LEMMA Phases ==
  /\ Phase(At("NULL")) = 0
  /\ Phase(At("MM_CONNECTION_PEND")) = 1
  /\ Phase(At("CALL_PRESENT")) = 1
  /\ Phase(At("INITIATED")) = 2
  /\ Phase(At("MO_TERM_CALL_CONF")) = 2
  /\ Phase(At("MO_CALL_PROC")) = 3
  /\ Phase(At("CALL_RECEIVED")) = 3
  /\ Phase(At("CALL_DELIVERED")) = 4
  /\ Phase(At("CONNECT_REQUEST")) = 4
  /\ Phase(At("ACTIVE")) = 5
  /\ Phase(At("MO_ORIG_MODIFY")) = 5
  /\ Phase(At("DISCONNECT")) = 6
  /\ Phase(At("RELEASE_REQ")) = 7
BY DEF Phase, At

LEMMA DataRows == \A r \in CC!datastatelist : RowOk(r)
<1>1. ASSUME NEW r \in CC!RxCallProceeding PROVE RowOk(r)
  <2>1. /\ r.on = {"INITIATED"}
        /\ r.to = "MO_CALL_PROC" /\ r.timer \in {"none", "T310"}
        /\ r.up = <<"CALL_PROC_IND">>
    BY DEF CC!RxCallProceeding, CC!Row, CC!NoTimer
  <2> QED
    BY <2>1, Phases, TellsIt DEF RowOk, CC!States, CC!Timers
<1>2. ASSUME NEW r \in CC!RxAlerting PROVE RowOk(r)
  <2>1. /\ r.on = {"INITIATED", "MO_CALL_PROC"}
        /\ r.to = "CALL_DELIVERED" /\ r.timer = "none"
        /\ r.up = <<"ALERT_IND">>
    BY DEF CC!RxAlerting, CC!Row, CC!Proceeding, CC!NoTimer
  <2> QED
    BY <2>1, Phases, TellsIt DEF RowOk, CC!States, CC!Timers
<1>3. ASSUME NEW r \in CC!RxProgress PROVE RowOk(r)
  <2>1. /\ r.on = {"INITIATED", "MO_CALL_PROC", "CALL_DELIVERED"}
        /\ r.to = "same" /\ r.timer = "keep"
        /\ r.up = <<"PROGRESS_IND">>
    BY DEF CC!RxProgress, CC!Row, CC!Proceeding, CC!Calling
  <2> QED
    BY <2>1, Phases, TellsIt DEF RowOk, CC!States, CC!Timers
<1>4. ASSUME NEW r \in CC!RxFacility PROVE RowOk(r)
  <2>1. /\ r.on \subseteq CC!States
        /\ r.to = "same" /\ r.timer = "keep"
        /\ r.up = <<"FACILITY_IND">>
    BY DEF CC!RxFacility, CC!Row, CC!States
  <2> QED
    BY <2>1, Phases, TellsIt DEF RowOk, CC!States, CC!Timers
<1>5. ASSUME NEW r \in CC!RxConnect PROVE RowOk(r)
  <2>1. /\ r.on = {"INITIATED", "MO_CALL_PROC", "CALL_DELIVERED"}
        /\ r.to = "ACTIVE" /\ r.timer = "none"
        /\ r.up = <<"SETUP_CNF">>
    BY DEF CC!RxConnect, CC!Row, CC!Proceeding, CC!Calling, CC!NoTimer
  <2> QED
    BY <2>1, Phases, TellsIt DEF RowOk, CC!States, CC!Timers
<1>6. ASSUME NEW r \in CC!RxSetup PROVE RowOk(r)
  <2>1. /\ r.on = {"NULL"}
        /\ r.to = "CALL_PRESENT" /\ r.timer = "keep"
        /\ r.up = <<"SETUP_IND">>
    BY DEF CC!RxSetup, CC!Row
  <2> QED
    BY <2>1, Phases, TellsIt DEF RowOk, CC!States, CC!Timers
<1>7. ASSUME NEW r \in CC!RxConnectAck PROVE RowOk(r)
  <2>1. /\ r.on = {"CONNECT_REQUEST"}
        /\ r.to = "ACTIVE" /\ r.timer = "none"
        /\ r.up = <<"SETUP_COMPL_IND">>
    BY DEF CC!RxConnectAck, CC!Row, CC!NoTimer
  <2> QED
    BY <2>1, Phases, TellsIt DEF RowOk, CC!States, CC!Timers
<1>8. ASSUME NEW r \in CC!RxHoldAck PROVE RowOk(r)
  <2>1. /\ r.on = {"ACTIVE"}
        /\ r.to = "ACTIVE" /\ r.timer = "keep"
        /\ r.up = <<"HOLD_CNF">>
    BY DEF CC!RxHoldAck, CC!Row
  <2> QED
    BY <2>1, Phases, TellsIt DEF RowOk, CC!States, CC!Timers
<1>9. ASSUME NEW r \in CC!RxRetrieveAck PROVE RowOk(r)
  <2>1. /\ r.on = {"ACTIVE"}
        /\ r.to = "ACTIVE" /\ r.timer = "keep"
        /\ r.up = <<"RETRIEVE_CNF">>
    BY DEF CC!RxRetrieveAck, CC!Row
  <2> QED
    BY <2>1, Phases, TellsIt DEF RowOk, CC!States, CC!Timers
<1>10. ASSUME NEW r \in CC!RxModify PROVE RowOk(r)
  <2>1. /\ r.on = {"ACTIVE"}
        /\ r.to = "MO_ORIG_MODIFY" /\ r.timer = "keep"
        /\ r.up = <<"MODIFY_IND">>
    BY DEF CC!RxModify, CC!Row
  <2> QED
    BY <2>1, Phases, TellsIt DEF RowOk, CC!States, CC!Timers
<1>11. ASSUME NEW r \in CC!RxDisconnect PROVE RowOk(r)
  <2>1. /\ r.on = CC!States \ {"NULL", "RELEASE_REQ", "DISCONNECT"}
        /\ r.to = "DISCONNECT" /\ r.timer = "none"
        /\ r.up = <<"DISC_IND">>
    BY DEF CC!RxDisconnect, CC!Row, CC!NoTimer
  <2> QED
    BY <2>1, Phases, TellsIt DEF RowOk, CC!States, CC!Timers
<1>12. ASSUME NEW r \in CC!RxRelease PROVE RowOk(r)
  <2>1. /\ r.on \subseteq CC!States
        /\ r.to = "FREE" /\ r.timer = "none"
        /\ r.up = <<>> \/ r.up = <<"REL_CNF">> \/ r.up = <<"REL_IND">>
    BY DEF CC!RxRelease, CC!Row, CC!NoTimer, CC!States
  <2> QED
    BY <2>1, Phases, TellsIt DEF RowOk, CC!States, CC!Timers
<1>13. ASSUME NEW r \in CC!RxReleaseCompl PROVE RowOk(r)
  <2>1. /\ r.on \subseteq CC!States
        /\ r.to = "FREE" /\ r.timer = "none"
        /\ r.up = <<"REJ_IND">> \/ r.up = <<"REL_CNF">> \/ r.up = <<"REL_IND">>
    BY DEF CC!RxReleaseCompl, CC!Row, CC!NoTimer, CC!States
  <2> QED
    BY <2>1, Phases, TellsIt DEF RowOk, CC!States, CC!Timers
<1> QED
  BY <1>1, <1>2, <1>3, <1>4, <1>5, <1>6, <1>7, <1>8, <1>9, <1>10, <1>11, <1>12,
     <1>13
  DEF CC!datastatelist

\* Layer 4 makes no transaction by these, and is told nothing; a request in
\* the wait for a connection ends the call, or is the one that disconnects.
DownOk(r) ==
  /\ RowOk(r) /\ r.up = <<>> /\ "NULL" \notin r.on
  /\ "MM_CONNECTION_PEND" \in r.on => r.msg = "DISC_REQ" \/ r.to = "FREE"
  /\ r.to # "same"

LEMMA DownRows == \A r \in CC!downstatelist : DownOk(r)
<1>1. ASSUME NEW r \in CC!AbortMm PROVE DownOk(r)
  <2>1. /\ r.on = {"MM_CONNECTION_PEND"}
        /\ r.to = "FREE" /\ r.timer = "keep" /\ r.up = <<>>
    BY DEF CC!AbortMm, CC!Row
  <2> QED
    BY <2>1, Phases, TellsIt DEF DownOk, RowOk, CC!States, CC!Timers
<1>2. ASSUME NEW r \in CC!TxCallConf PROVE DownOk(r)
  <2>1. /\ r.on = {"CALL_PRESENT"}
        /\ r.to = "MO_TERM_CALL_CONF" /\ r.timer = "keep" /\ r.up = <<>>
    BY DEF CC!TxCallConf, CC!Row
  <2> QED
    BY <2>1, Phases, TellsIt DEF DownOk, RowOk, CC!States, CC!Timers
<1>3. ASSUME NEW r \in CC!TxAlerting PROVE DownOk(r)
  <2>1. /\ r.on = {"MO_TERM_CALL_CONF"}
        /\ r.to = "CALL_RECEIVED" /\ r.timer = "keep" /\ r.up = <<>>
    BY DEF CC!TxAlerting, CC!Row
  <2> QED
    BY <2>1, Phases, TellsIt DEF DownOk, RowOk, CC!States, CC!Timers
<1>4. ASSUME NEW r \in CC!TxConnect PROVE DownOk(r)
  <2>1. /\ r.on = {"MO_TERM_CALL_CONF", "CALL_RECEIVED"}
        /\ r.to = "CONNECT_REQUEST" /\ r.timer = "T313" /\ r.up = <<>>
    BY DEF CC!TxConnect, CC!Row
  <2> QED
    BY <2>1, Phases, TellsIt DEF DownOk, RowOk, CC!States, CC!Timers
<1>5. ASSUME NEW r \in CC!TxHold PROVE DownOk(r)
  <2>1. /\ r.on = {"ACTIVE"}
        /\ r.to = "ACTIVE" /\ r.timer = "keep" /\ r.up = <<>>
    BY DEF CC!TxHold, CC!Row
  <2> QED
    BY <2>1, Phases, TellsIt DEF DownOk, RowOk, CC!States, CC!Timers
<1>6. ASSUME NEW r \in CC!TxRetrieve PROVE DownOk(r)
  <2>1. /\ r.on = {"ACTIVE"}
        /\ r.to = "ACTIVE" /\ r.timer = "keep" /\ r.up = <<>>
    BY DEF CC!TxRetrieve, CC!Row
  <2> QED
    BY <2>1, Phases, TellsIt DEF DownOk, RowOk, CC!States, CC!Timers
<1>7. ASSUME NEW r \in CC!TxDisconnect PROVE DownOk(r)
  <2>1. /\ r.on = CC!States \ {"NULL", "RELEASE_REQ"}
        /\ r.to = "DISCONNECT" /\ r.timer = "T305" /\ r.up = <<>>
        /\ r.msg = "DISC_REQ"
    BY DEF CC!TxDisconnect, CC!Row
  <2> QED
    BY <2>1, Phases, TellsIt DEF DownOk, RowOk, CC!States, CC!Timers
<1>8. ASSUME NEW r \in CC!TxRelease PROVE DownOk(r)
  <2>1. /\ r.on = CC!States \ {"NULL", "RELEASE_REQ", "MM_CONNECTION_PEND"}
        /\ r.to = "RELEASE_REQ" /\ r.timer = "T308" /\ r.up = <<>>
    BY DEF CC!TxRelease, CC!Row
  <2> QED
    BY <2>1, Phases, TellsIt DEF DownOk, RowOk, CC!States, CC!Timers
<1> QED
  BY <1>1, <1>2, <1>3, <1>4, <1>5, <1>6, <1>7, <1>8
  DEF CC!downstatelist

\* What a handler does to the transaction t.
CcOk(t, r) ==
  /\ r.t \in CC!Transactions /\ r.up \in Seq(CcPrims)
  /\ r.conn \in {"none", "REL_REQ"} /\ (r.conn = "REL_REQ" => r.t = CC!Free)
  /\ TimedCc(t) => TimedCc(r.t)
  /\ ~IsLive(r.t) \/ Phase(r.t) >= Phase(t)

LEMMA TakenIs ==
  ASSUME NEW t \in CC!Transactions, NEW r, RowOk(r), t.state \in r.on,
         NEW d, d = CC!Taken(t, r)
  PROVE  /\ CcOk(t, d) /\ d.up = r.up
         /\ IsPend(d.t) => r.to = "same" /\ IsPend(t)
         /\ r.to = "FREE" => d.conn = "REL_REQ"
<1>1. t.state \in CC!States /\ t.timer \in CC!Timers \cup {"none"}
  BY TransactionIs DEF RowOk
<1>2. CASE r.to = "FREE"
  <2>1. d.t = CC!Free /\ d.up = r.up /\ d.conn = "REL_REQ"
    BY <1>2 DEF CC!Taken, CC!RelNullFree, CC!Does
  <2> QED
    BY <2>1 DEF CcOk, RowOk, CC!Free, CC!Transactions, TimedCc, IsLive, IsPend
<1>3. CASE r.to = "same"
  <2>1. /\ d.t = [state |-> t.state, timer |-> t.timer]
        /\ d.up = r.up /\ d.conn = "none"
    BY <1>3 DEF CC!Taken, CC!Does, CC!Nothing, RowOk
  <2>2. d.t = t
    BY <2>1, TransactionIs
  <2>3. Phase(t) \in 0 .. 7
    BY PhaseIs, TransactionIs
  <2> QED
    BY <1>3, <2>1, <2>2, <2>3 DEF CcOk, RowOk
<1>4. CASE r.to \notin {"FREE", "same"}
  <2>1. /\ d.t = [state |-> r.to,
                  timer |-> IF r.timer = "keep" THEN t.timer ELSE r.timer]
        /\ d.up = r.up /\ d.conn = "none"
    BY <1>4 DEF CC!Taken, CC!Does, CC!Nothing
  <2>2. /\ d.t.state = r.to /\ r.to \in CC!States
        /\ d.t.timer = IF r.timer = "keep" THEN t.timer ELSE r.timer
    BY <1>4, <2>1 DEF RowOk
  <2>3. d.t \in CC!Transactions
    BY <1>1, <2>1, <2>2 DEF CC!Transactions, RowOk, CC!NoTimer
  <2>4. Phase(d.t) >= Phase(t)
    BY <1>1, <1>4, <2>2, PhaseIs DEF RowOk
  <2>5. TimedCc(d.t) /\ ~IsPend(d.t)
    BY <1>4, <2>2 DEF RowOk, TimedCc, IsPend
  <2> QED
    BY <1>4, <2>1, <2>3, <2>4, <2>5 DEF CcOk, RowOk
<1> QED
  BY <1>2, <1>3, <1>4

LEMMA FindIs ==
  ASSUME NEW t \in CC!Transactions
  PROVE  /\ CC!Find(t) \in CC!Transactions /\ CC!Find(t) # CC!Free
         /\ CC!Find(t) = t \/ (t = CC!Free /\ CC!Find(t) = At("NULL"))
         /\ IsLive(CC!Find(t)) => CC!Find(t) = t
         /\ TimedCc(t) => TimedCc(CC!Find(t))
         /\ ~IsLive(t) => Phase(t) = 0
BY PhaseIs, TransactionIs
DEF CC!Find, CC!New, CC!Free, CC!NoTimer, At, CC!Transactions, CC!States,
    IsLive, TimedCc

\* A transaction that is left as it was found.
LEMMA FoundIs ==
  ASSUME NEW t \in CC!Transactions, NEW r, r.t = CC!Find(t) \/ r.t = t,
         r.up = <<>> \/ r.up = <<"REL_IND">>, r.conn = "none"
  PROVE  CcOk(t, r)
<1>1. r.up \in Seq(CcPrims)
  BY TellsIt DEF CcPrims
<1>2. Phase(t) \in 0 .. 7
  BY PhaseIs, TransactionIs
<1> QED
  BY <1>1, <1>2, FindIs DEF CcOk

LEMMA DataIndIs ==
  ASSUME NEW t \in CC!Transactions, NEW msg, NEW r, r = CC!DataInd(t, msg)
  PROVE  CcOk(t, r) /\ (IsPend(r.t) => IsPend(t))
<1> DEFINE f == CC!Find(t)
           rows == CC!Rows(CC!datastatelist, f, msg)
<1>1. f \in CC!Transactions
  BY FindIs
<1>2. CASE rows = {}
  <2>1. r.t = f /\ r.up = <<>> /\ r.conn = "none"
    BY <1>2 DEF CC!DataInd, CC!Does, CC!Nothing
  <2> QED
    BY <2>1, FoundIs, FindIs DEF IsPend, IsLive
<1>3. CASE rows # {}
  <2>1. PICK d \in rows : r = CC!Taken(f, d)
    BY <1>3 DEF CC!DataInd
  <2>2. RowOk(d) /\ f.state \in d.on
    BY <2>1, DataRows DEF CC!Rows
  <2> HIDE DEF f
  <2>3. CcOk(f, r) /\ (IsPend(r.t) => IsPend(f))
    BY <1>1, <2>1, <2>2, TakenIs
  <2>4. CASE f = t
    BY <2>3, <2>4
  <2>5. CASE f # t
    <3>1. ~IsPend(f) /\ Phase(t) = 0 /\ f = At("NULL") /\ t = CC!Free
      BY <2>5, FindIs DEF IsPend, At, IsLive, CC!Free, f
    <3>2. TimedCc(f) /\ Phase(r.t) \in 0 .. 7
      BY <2>3, <3>1, PhaseIs, TransactionIs DEF TimedCc, At, CcOk
    <3> QED
      BY <2>3, <3>1, <3>2 DEF CcOk
  <2> QED
    BY <2>4, <2>5
<1> QED
  BY <1>2, <1>3

LEMMA RcvCcIs ==
  ASSUME NEW t \in CC!Transactions, NEW p \in MmPrims,
         NEW r, r = CC!RcvCc(t, p)
  PROVE  /\ CcOk(t, r) /\ r.conn = "none"
         /\ p \in Ended => r.t = CC!Free
         /\ p \notin Ended => r.up = <<>>
         /\ IsLive(r.t) => IsLive(t)
         /\ IsPend(r.t) => IsPend(t) /\ p = "SYNC_IND"
         /\ p = "SYNC_IND" /\ IsPend(t) => r.t = t
<1>1. CASE p \in Ended
  <2>1. r.t = CC!Free /\ r.up = <<"REL_IND">> /\ r.conn = "none"
    BY <1>1 DEF Ended, CC!RcvCc, CC!Does, CC!Nothing
  <2>2. r.up \in Seq(CcPrims)
    BY <2>1, TellsIt DEF CcPrims
  <2> QED
    BY <1>1, <2>1, <2>2
    DEF CcOk, CC!Free, CC!Transactions, TimedCc, IsLive, IsPend, Ended
<1>2. CASE p = "EST_CNF" /\ IsPend(t)
  <2>1. /\ r.t = [state |-> "INITIATED", timer |-> "T303"]
        /\ r.up = <<>> /\ r.conn = "none"
    BY <1>2 DEF CC!RcvCc, CC!TxSetup, CC!Does, CC!Nothing, IsPend
  <2>2. r.up \in Seq(CcPrims)
    BY <2>1, TellsIt DEF CcPrims
  <2>3. r.t \in CC!Transactions
    BY <2>1 DEF CC!Transactions, CC!States, CC!Timers
  <2>4. Phase(r.t) = 2 /\ Phase(t) = 1
    BY <1>2, <2>1 DEF Phase, IsPend
  <2> QED
    BY <1>2, <2>1, <2>2, <2>3, <2>4 DEF CcOk, TimedCc, IsLive, IsPend, Ended
<1>3. CASE p \notin Ended /\ ~(p = "EST_CNF" /\ IsPend(t))
  <2>1. r.t = CC!Find(t) /\ r.up = <<>> /\ r.conn = "none"
    BY <1>3 DEF CC!RcvCc, CC!Does, CC!Nothing, Ended, IsPend
  <2>2. CcOk(t, r)
    BY <2>1, FoundIs
  <2> QED
    BY <1>3, <2>1, <2>2, FindIs DEF MmPrims, IsPend, IsLive, CC!Free
<1> QED
  BY <1>1, <1>2, <1>3

LEMMA TimeoutIs ==
  ASSUME NEW t \in CC!Transactions, NEW r, r = CC!Timeout(t)
  PROVE  CcOk(t, r) /\ r.t = CC!Free /\ r.conn = "REL_REQ"
<1>1. r.t = CC!Free /\ r.conn = "REL_REQ" /\ r.up \in Seq(CcPrims)
  BY TellsIt DEF CC!Timeout, CC!RelNullFree, CC!Does
<1> QED
  BY <1>1 DEF CcOk, CC!Free, CC!Transactions, TimedCc, IsLive

LEMMA MnccTxIs ==
  ASSUME NEW t \in CC!Transactions, NEW req, req # "SETUP_REQ",
         NEW r, r = CC!MnccTx(t, req)
  PROVE  /\ CcOk(t, r)
         /\ IsLive(r.t) => IsLive(t)
         /\ IsPend(r.t) => IsPend(t) /\ r.up = <<>>
         /\ IsPend(t) /\ req # "DISC_REQ" /\ ~IsPend(r.t) =>
              r.conn = "REL_REQ"
<1> DEFINE rows == CC!Rows(CC!downstatelist, t, req)
<1>1. CASE t = CC!Free
  <2>1. r.t = CC!Free /\ r.up = <<"REL_IND">> /\ r.conn = "none"
    BY <1>1 DEF CC!MnccTx, CC!Does, CC!Nothing
  <2>2. CcOk(t, r)
    BY <1>1, <2>1, FoundIs
  <2> QED
    BY <1>1, <2>1, <2>2 DEF IsLive, IsPend, CC!Free
<1>2. CASE t # CC!Free /\ rows = {}
  <2>1. r.t = t /\ r.up = <<>> /\ r.conn = "none"
    BY <1>2 DEF CC!MnccTx, CC!Does, CC!Nothing
  <2> QED
    BY <2>1, FoundIs
<1>3. CASE t # CC!Free /\ rows # {}
  <2>1. PICK d \in rows : r = CC!Taken(t, d)
    BY <1>3 DEF CC!MnccTx
  <2>2. DownOk(d) /\ t.state \in d.on /\ d.msg = req
    BY <2>1, DownRows DEF CC!Rows
  <2>3. /\ CcOk(t, r) /\ r.up = d.up /\ (IsPend(r.t) => d.to = "same")
        /\ d.to = "FREE" => r.conn = "REL_REQ"
    BY <2>1, <2>2, TakenIs DEF DownOk
  <2>4. IsLive(t)
    BY <1>3, <2>2, TransactionIs DEF IsLive, DownOk
  <2> QED
    BY <2>2, <2>3, <2>4 DEF DownOk, IsPend
<1> QED
  BY <1>1, <1>2, <1>3

-----------------------------------------------------------------------------
(***************************************************************************)
(* The radio connection.                                                    *)
(***************************************************************************)
\* RR gives the connection up: what it tells MM.
Falls == {<<"REL_IND">>, <<"ABORT_IND">>}

Tells == Falls \cup {<<>>, <<"EST_CNF">>, <<"EST_IND">>}

\* There is a connection: what MM was told of it will be taken back.
OnAir(l) == l.st \in {"dedic", "release"}

\* No connection of MM, and no question of MM on it.
Unused(l) == ~l.est /\ ~l.asked

LEMMA LinkIs ==
  ASSUME NEW l \in RR!Links
  PROVE  /\ l = [st |-> l.st, est |-> l.est, asked |-> l.asked,
                 t3122 |-> l.t3122]
         /\ l.st \in RR!LinkStates /\ l.est \in BOOLEAN
         /\ l.asked \in BOOLEAN /\ l.t3122 \in BOOLEAN
BY DEF RR!Links

LEMMA IdleIs ==
  ASSUME NEW l \in RR!Links, NEW i, i = RR!Idle(l)
  PROVE  i \in RR!Links /\ i.st = "choose" /\ Unused(i)
BY DEF RR!Idle, RR!LinkInit, RR!Links, RR!LinkStates, Unused

\* What the radio may do to the link l.
Radios(l, g) ==
  /\ g.link \in RR!Links /\ g.link.st # "camped"
  /\ g.up \in Tells
  /\ \/ OnAir(g.link)
     \/ g.up \in Falls
     \/ ~OnAir(l) /\ g.up = <<>>
  /\ Unused(l) => Unused(g.link)
  /\ g.link.st = "choose" => Unused(g.link)

LEMMA RadioStays ==
  ASSUME NEW l \in RR!Links, NEW g,
         NEW st \in RR!LinkStates \ {"camped", "choose"},
         g.link = [l EXCEPT !.st = st], g.up = <<>>,
         OnAir(g.link) \/ ~OnAir(l)
  PROVE  Radios(l, g)
BY DEF Radios, Tells, Unused, RR!Links

LEMMA RadioFalls ==
  ASSUME NEW l \in RR!Links, NEW g, g.up \in Falls,
         g.link = RR!Idle(l) \/ g.link = [l EXCEPT !.st = "relwait"]
  PROVE  Radios(l, g)
<1>1. g.up \in Tells
  BY DEF Tells
<1>2. g.link \in RR!Links /\ g.link.st # "camped"
  BY IdleIs DEF RR!Links, RR!LinkStates
<1>3. /\ Unused(l) => Unused(g.link)
      /\ g.link.st = "choose" => Unused(g.link)
  <2>1. CASE g.link = RR!Idle(l)
    BY <2>1, IdleIs
  <2>2. CASE g.link = [l EXCEPT !.st = "relwait"]
    BY <2>2 DEF Unused, RR!Links
  <2> QED
    BY <2>1, <2>2
<1> QED
  BY <1>1, <1>2, <1>3 DEF Radios

LEMMA RadioSteps ==
  ASSUME NEW l \in RR!Links, NEW g \in RR!Steps(l)
  PROVE  Radios(l, g)
<1> USE DEF RR!Gives
<1>1. l.st \in RR!LinkStates
  BY LinkIs
<1>2. CASE g = RR!Los(l)
  <2>1. g.link = RR!Idle(l) /\ g.up \in Falls
    BY <1>2 DEF RR!Los, Falls
  <2> QED
    BY <2>1, RadioFalls
<1>3. CASE g = RR!Gives([l EXCEPT !.st = "relwait"], <<"REL_IND">>)
  BY <1>3, RadioFalls DEF Falls
<1>4. CASE l.st = "camped"
  <2>1. g.link = [l EXCEPT !.st = "pend"] /\ g.up = <<>>
    BY <1>4 DEF RR!Steps
  <2> QED
    BY <1>4, <2>1, RadioStays DEF RR!LinkStates, OnAir
<1>5. CASE l.st = "choose"
  BY <1>5 DEF RR!Steps
<1>6. CASE l.st = "pend"
  <2>1. CASE g = RR!Established(l)
    <3>1. /\ g.link = [l EXCEPT !.st = "dedic", !.asked = l.est]
          /\ g.up = IF l.est THEN <<"EST_CNF">> ELSE <<"EST_IND">>
      BY <2>1 DEF RR!Established
    <3>2. g.link \in RR!Links /\ g.link.st = "dedic"
      BY <3>1, LinkIs DEF RR!Links, RR!LinkStates
    <3>3. Unused(l) => Unused(g.link)
      BY <3>1, LinkIs DEF RR!Links, Unused
    <3>4. g.up \in Tells
      BY <3>1 DEF Tells
    <3> QED
      BY <3>2, <3>3, <3>4 DEF Radios, OnAir
  <2>2. CASE g = RR!Failed(l)
    <3>1. CASE l.est
      <4>1. g.link = RR!Idle(l) /\ g.up \in Falls
        BY <2>2, <3>1 DEF RR!Failed, Falls
      <4> QED
        BY <4>1, RadioFalls
    <3>2. CASE ~l.est
      <4>1. g.link = RR!Idle(l) /\ g.up = <<>>
        BY <2>2, <3>2 DEF RR!Failed
      <4> QED
        BY <1>6, <4>1, IdleIs DEF Radios, Tells, OnAir
    <3> QED
      BY <3>1, <3>2
  <2>3. CASE g = RR!Gives([l EXCEPT !.t3122 = TRUE], <<>>)
    <3>1. /\ g.link \in RR!Links /\ g.link.st = "pend" /\ g.up = <<>>
          /\ Unused(l) => Unused(g.link)
      BY <1>6, <2>3 DEF RR!Links, Unused
    <3> QED
      BY <1>6, <3>1 DEF Radios, Tells, OnAir
  <2>4. \/ g \in {RR!Established(l), RR!Failed(l), RR!Los(l)}
        \/ g = RR!Gives([l EXCEPT !.st = "relwait"], <<"REL_IND">>)
        \/ g = RR!Gives([l EXCEPT !.t3122 = TRUE], <<>>)
    BY <1>6 DEF RR!Steps
  <2> QED
    BY <1>2, <1>3, <2>1, <2>2, <2>3, <2>4
<1>7. CASE l.st = "dedic"
  <2>1. CASE g = RR!Gives([l EXCEPT !.st = "release"], <<>>)
    <3>1. g.link = [l EXCEPT !.st = "release"] /\ g.up = <<>>
      BY <2>1
    <3>2. OnAir(g.link)
      BY <3>1, LinkIs DEF OnAir, RR!Links
    <3> QED
      BY <3>1, <3>2, RadioStays DEF RR!LinkStates
  <2>2. CASE g = RR!Gives(RR!Idle(l), <<"ABORT_IND">>)
    <3>1. g.link = RR!Idle(l) /\ g.up \in Falls
      BY <2>2 DEF Falls
    <3> QED
      BY <3>1, RadioFalls
  <2>3. \/ g = RR!Los(l)
        \/ g = RR!Gives([l EXCEPT !.st = "relwait"], <<"REL_IND">>)
        \/ g = RR!Gives([l EXCEPT !.st = "release"], <<>>)
        \/ g = RR!Gives(RR!Idle(l), <<"ABORT_IND">>)
    BY <1>7 DEF RR!Steps
  <2> QED
    BY <1>2, <1>3, <2>1, <2>2, <2>3
<1>8. CASE l.st = "release"
  <2>1. g = RR!Gives(RR!Idle(l), <<"REL_IND">>)
    BY <1>8 DEF RR!Steps
  <2>2. g.link = RR!Idle(l) /\ g.up \in Falls
    BY <2>1 DEF Falls
  <2> QED
    BY <2>2, RadioFalls
<1>9. CASE l.st = "relwait"
  <2>1. g = RR!Gives(RR!Idle(l), <<>>) \/ g = RR!Los(l)
    BY <1>9 DEF RR!Steps
  <2>2. CASE g = RR!Gives(RR!Idle(l), <<>>)
    BY <1>9, <2>2, IdleIs DEF Radios, Tells, OnAir
  <2> QED
    BY <1>2, <2>1, <2>2
<1> QED
  BY <1>1, <1>4, <1>5, <1>6, <1>7, <1>8, <1>9 DEF RR!LinkStates

LEMMA LinkAbort ==
  ASSUME NEW l \in RR!Links, NEW n, n = RR!AbortReq(l)
  PROVE  /\ n \in RR!Links /\ (OnAir(n) <=> OnAir(l))
         /\ n.st = "camped" <=> l.st = "camped"
         /\ Unused(l) => Unused(n)
         /\ n.st \in {"camped", "choose"}
              /\ (l.st \in {"camped", "choose"} => Unused(l))
              => Unused(n)
<1>1. CASE l.st = "pend"
  BY <1>1, IdleIs DEF RR!AbortReq, OnAir
<1>2. CASE l.st = "dedic"
  <2>1. n = [l EXCEPT !.st = "release"]
    BY <1>2 DEF RR!AbortReq
  <2> QED
    BY <1>2, <2>1 DEF RR!Links, RR!LinkStates, OnAir, Unused
<1>3. CASE l.st \notin {"pend", "dedic"}
  BY <1>3 DEF RR!AbortReq
<1> QED
  BY <1>1, <1>2, <1>3

LEMMA LinkServes ==
  ASSUME NEW l \in RR!Links, NEW n, n = RR!ServReq(l)
  PROVE  n \in RR!Links /\ n.st = l.st /\ (l.st # "dedic" => n = l)
BY DEF RR!ServReq, RR!Links, RR!LinkStates

\* The request for a connection is taken, or refused at once.
LEMMA LinkEst ==
  ASSUME NEW l \in RR!Links, NEW g, g = RR!EstReq(l)
  PROVE  /\ g.link \in RR!Links
         /\ \/ g.link = l /\ g.up = <<"REL_IND">>
            \/ l.st = "camped" /\ g.link.st = "pend" /\ g.up = <<>>
<1>1. CASE l.t3122 \/ l.st # "camped"
  BY <1>1 DEF RR!EstReq, RR!Gives
<1>2. CASE ~(l.t3122 \/ l.st # "camped")
  <2>1. g.link = [l EXCEPT !.st = "pend", !.est = TRUE] /\ g.up = <<>>
    BY <1>2 DEF RR!EstReq, RR!Gives
  <2> QED
    BY <1>2, <2>1 DEF RR!Links, RR!LinkStates
<1> QED
  BY <1>1, <1>2

-----------------------------------------------------------------------------
(***************************************************************************)
(* Layer 4.                                                                 *)
(***************************************************************************)
CallEntries == [ref : Refs, init : BOOLEAN, hold : BOOLEAN, ring : BOOLEAN]

Requests ==
  [type : {"SETUP_REQ", "REL_REQ", "DISC_REQ", "SETUP_RSP", "HOLD_REQ",
           "RETRIEVE_REQ", "CALL_CONF_REQ", "ALERT_REQ"}, ref : Refs]

\* Requests on a call that has its transaction, or had it.
Late == {q \in Requests : q.type \notin {"SETUP_REQ", "DISC_REQ"}}

\* The calls cs become ds: only calls of ref, and no others, may have come
\* out of their initial state or be new.
Keep(cs, ds, ref) ==
  /\ ds \in Seq(CallEntries)
  /\ \A d \in Elems(ds) :
       d.ref = ref \/ \E c \in Elems(cs) : c.ref = d.ref /\ c.init = d.init

LEMMA KeepTwice ==
  ASSUME NEW cs, NEW ds, NEW es, NEW ref, Keep(cs, ds, ref), Keep(ds, es, ref)
  PROVE  Keep(cs, es, ref)
BY DEF Keep

\* Entries are changed in place.
LEMMA ChangedIs ==
  ASSUME NEW cs \in Seq(CallEntries), NEW ref, NEW ds,
         ds = [i \in DOMAIN cs |-> ds[i]],
         \A i \in DOMAIN cs :
            /\ ds[i] \in CallEntries /\ ds[i].ref = cs[i].ref
            /\ ds[i].init = cs[i].init \/ cs[i].ref = ref
  PROVE  Keep(cs, ds, ref)
<1>1. DOMAIN cs = 1 .. Len(cs) /\ Len(cs) \in Nat
  OBVIOUS
<1>2. DOMAIN ds = DOMAIN cs
  OBVIOUS
<1>3. ds \in Seq(CallEntries)
  BY <1>1
<1> QED
  BY <1>2, <1>3 DEF Keep, Elems

LEMMA CallIs ==
  ASSUME NEW cs \in Seq(CallEntries), NEW i \in DOMAIN cs
  PROVE  /\ cs[i] = [ref |-> cs[i].ref, init |-> cs[i].init,
                     hold |-> cs[i].hold, ring |-> cs[i].ring]
         /\ cs[i].ref \in Refs /\ cs[i].init \in BOOLEAN
         /\ cs[i].hold \in BOOLEAN /\ cs[i].ring \in BOOLEAN
         /\ cs[i] \in CallEntries
<1>1. cs[i] \in CallEntries
  OBVIOUS
<1> QED
  BY <1>1 DEF CallEntries

LEMMA SameCalls ==
  ASSUME NEW cs \in Seq(CallEntries), NEW ref
  PROVE  Keep(cs, cs, ref)
BY DEF Keep

\* Change, as it is used.
LEMMA SeenIs ==
  ASSUME NEW cs \in Seq(CallEntries), NEW ref
  PROVE  Keep(cs, L4!Change(cs, ref, LAMBDA c : [c EXCEPT !.init = FALSE]), ref)
<1> DEFINE ds == L4!Change(cs, ref, LAMBDA c : [c EXCEPT !.init = FALSE])
<1>1. ds = [i \in DOMAIN cs |-> IF cs[i].ref = ref
                                THEN [cs[i] EXCEPT !.init = FALSE] ELSE cs[i]]
  BY DEF L4!Change
<1> HIDE DEF ds
<1>2. \A i \in DOMAIN cs :
        /\ ds[i] \in CallEntries /\ ds[i].ref = cs[i].ref
        /\ ds[i].init = cs[i].init \/ cs[i].ref = ref
  <2> TAKE i \in DOMAIN cs
  <2> DEFINE c == cs[i]
             d == ds[i]
  <2>1. /\ c \in CallEntries
        /\ d = IF c.ref = ref THEN [c EXCEPT !.init = FALSE] ELSE c
    BY <1>1, CallIs
  <2> HIDE DEF c, d
  <2>2. /\ d \in CallEntries /\ d.ref = c.ref
        /\ d.init = c.init \/ c.ref = ref
    BY <2>1 DEF CallEntries
  <2> QED
    BY <2>2 DEF c, d
<1>3. ds = [i \in DOMAIN cs |-> ds[i]]
  BY <1>1
<1> QED
  BY <1>2, <1>3, ChangedIs DEF ds

LEMMA HeldIs ==
  ASSUME NEW cs \in Seq(CallEntries), NEW ref, NEW h \in BOOLEAN
  PROVE  Keep(cs, L4!Change(cs, ref, LAMBDA c : [c EXCEPT !.hold = h]), ref)
<1> DEFINE ds == L4!Change(cs, ref, LAMBDA c : [c EXCEPT !.hold = h])
<1>1. ds = [i \in DOMAIN cs |-> IF cs[i].ref = ref
                                THEN [cs[i] EXCEPT !.hold = h] ELSE cs[i]]
  BY DEF L4!Change
<1> HIDE DEF ds
<1>2. \A i \in DOMAIN cs :
        /\ ds[i] \in CallEntries /\ ds[i].ref = cs[i].ref
        /\ ds[i].init = cs[i].init
  <2> TAKE i \in DOMAIN cs
  <2> DEFINE c == cs[i]
             d == ds[i]
  <2>1. /\ c \in CallEntries
        /\ d = IF c.ref = ref THEN [c EXCEPT !.hold = h] ELSE c
    BY <1>1, CallIs
  <2> HIDE DEF c, d
  <2>2. /\ d \in CallEntries /\ d.ref = c.ref
        /\ d.init = c.init
    BY <2>1 DEF CallEntries
  <2> QED
    BY <2>2 DEF c, d
<1>3. ds = [i \in DOMAIN cs |-> ds[i]]
  BY <1>1
<1> QED
  BY <1>2, <1>3, ChangedIs DEF ds

LEMMA RingsIs ==
  ASSUME NEW cs \in Seq(CallEntries), NEW ref, NEW first \in BOOLEAN
  PROVE  Keep(cs, L4!Change(cs, ref, LAMBDA c :
                    [c EXCEPT !.ring = TRUE, !.hold = @ \/ ~first]), ref)
<1> DEFINE ds == L4!Change(cs, ref, LAMBDA c :
                    [c EXCEPT !.ring = TRUE, !.hold = @ \/ ~first])
<1>1. ds = [i \in DOMAIN cs |-> IF cs[i].ref = ref
              THEN [cs[i] EXCEPT !.ring = TRUE, !.hold = @ \/ ~first]
              ELSE cs[i]]
  BY DEF L4!Change
<1> HIDE DEF ds
<1>2. \A i \in DOMAIN cs :
        /\ ds[i] \in CallEntries /\ ds[i].ref = cs[i].ref
        /\ ds[i].init = cs[i].init
  <2> TAKE i \in DOMAIN cs
  <2> DEFINE c == cs[i]
             d == ds[i]
  <2>1. c \in CallEntries /\ d = IF c.ref = ref THEN 
            [c EXCEPT !.ring = TRUE, !.hold = @ \/ ~first] ELSE c
    BY <1>1, CallIs
  <2> HIDE DEF c, d
  <2>2. /\ d \in CallEntries /\ d.ref = c.ref
        /\ d.init = c.init
    BY <2>1 DEF CallEntries
  <2> QED
    BY <2>2 DEF c, d
<1>3. ds = [i \in DOMAIN cs |-> ds[i]]
  BY <1>1
<1> QED
  BY <1>2, <1>3, ChangedIs DEF ds

\* The highest and the lowest of some numbers.
LEMMA Extremes ==
  ASSUME NEW n \in Nat, NEW S \in SUBSET (1 .. n), S # {}
  PROVE  L4!Max(S) \in S /\ L4!Min(S) \in S
<1>1. \E x \in S : \A y \in S : x >= y
  <2> DEFINE T == {k \in Nat : \A U \in SUBSET (1 .. k) :
                     U # {} => \E x \in U : \A y \in U : x >= y}
  <2>1. 0 \in T
    <3>1. \A U \in SUBSET (1 .. 0) : U = {}
      OBVIOUS
    <3> QED
      BY <3>1
  <2>2. ASSUME NEW k \in Nat, k \in T
        PROVE  k + 1 \in T
    <3> SUFFICES ASSUME NEW U \in SUBSET (1 .. (k + 1)), U # {}
                 PROVE  \E x \in U : \A y \in U : x >= y
      OBVIOUS
    <3>1. CASE k + 1 \in U
      BY <3>1
    <3>2. CASE k + 1 \notin U
      <4>1. U \in SUBSET (1 .. k)
        BY <3>2
      <4> QED
        BY <2>2, <4>1
    <3> QED
      BY <3>1, <3>2
  <2> HIDE DEF T
  <2>3. n \in T
    BY <2>1, <2>2, SetInduction
  <2> QED
    BY <2>3 DEF T
<1>2. \E x \in S : \A y \in S : x <= y
  <2> DEFINE T == {k \in Nat : \A U \in SUBSET (1 .. n) :
                     (U # {} /\ \E z \in U : z <= k) =>
                        \E x \in U : \A y \in U : x <= y}
  <2>1. 0 \in T
    OBVIOUS
  <2>2. ASSUME NEW k \in Nat, k \in T
        PROVE  k + 1 \in T
    <3> SUFFICES ASSUME NEW U \in SUBSET (1 .. n), NEW z \in U, z <= k + 1
                 PROVE  \E x \in U : \A y \in U : x <= y
      OBVIOUS
    <3>1. CASE \E y \in U : y <= k
      BY <2>2, <3>1
    <3>2. CASE ~\E y \in U : y <= k
      <4>1. \A y \in U : y \in Nat /\ y >= k + 1
        BY <3>2
      <4>2. z = k + 1
        BY <4>1
      <4> QED
        BY <4>1, <4>2
    <3> QED
      BY <3>1, <3>2
  <2> HIDE DEF T
  <2>3. n \in T
    BY <2>1, <2>2, SetInduction
  <2>4. PICK z \in S : TRUE
    OBVIOUS
  <2> QED
    BY <2>3, <2>4 DEF T
<1>3. L4!Max(S) \in S
  BY <1>1 DEF L4!Max
<1>4. L4!Min(S) \in S
  BY <1>2 DEF L4!Min
<1> QED
  BY <1>3, <1>4

LEMMA NumbersIs ==
  ASSUME NEW cs \in Seq(CallEntries)
  PROVE  /\ L4!Active(cs) \in SUBSET (DOMAIN cs)
         /\ L4!Ringing(cs) \in SUBSET (DOMAIN cs)
         /\ L4!Active(cs) # {} => L4!Min(L4!Active(cs)) \in DOMAIN cs
         /\ L4!Ringing(cs) # {} => L4!Max(L4!Ringing(cs)) \in DOMAIN cs
<1>1. DOMAIN cs = 1 .. Len(cs) /\ Len(cs) \in Nat
  OBVIOUS
<1>2. /\ L4!Active(cs) \in SUBSET (DOMAIN cs)
      /\ L4!Ringing(cs) \in SUBSET (DOMAIN cs)
  BY DEF L4!Active, L4!Ringing
<1> QED
  BY <1>1, <1>2, Extremes

LEMMA OneRequest ==
  ASSUME NEW q \in Late
  PROVE  <<q>> \in Seq(Late)
OBVIOUS

\* The user answers.
LEMMA AnswerIs ==
  ASSUME NEW cs \in Seq(CallEntries), NEW r, r = L4!Answer(cs)
  PROVE  (\A ref : Keep(cs, r.calls, ref)) /\ r.reqs \in Seq(Late)
<1> DEFINE i == L4!Max(L4!Ringing(cs))
           ref == cs[i].ref
           ds == L4!Change(cs, ref, LAMBDA d :
                              [d EXCEPT !.ring = FALSE, !.hold = FALSE])
           q == L4!Req("SETUP_RSP", ref)
           no == L4!Ringing(cs) = {} \/ L4!Active(cs) \ L4!Ringing(cs) # {}
<1>1. CASE no
  <2>1. r.calls = cs /\ r.reqs = <<>>
    BY <1>1 DEF L4!Answer, L4!Makes
  <2> QED
    BY <2>1, SameCalls
<1>2. CASE ~no
  <2>1. r.calls = ds /\ r.reqs = <<q>>
    BY <1>2 DEF L4!Answer, L4!Makes
  <2>2. i \in DOMAIN cs
    BY <1>2, NumbersIs
  <2> HIDE DEF i
  <2>3. q \in Late
    BY <2>2, CallIs DEF L4!Req, Late, Requests
  <2> HIDE DEF q
  <2>4. ds = [k \in DOMAIN cs |-> IF cs[k].ref = ref
                THEN [cs[k] EXCEPT !.ring = FALSE, !.hold = FALSE] ELSE cs[k]]
    BY DEF L4!Change
  <2> HIDE DEF ds
  <2>5. \A k \in DOMAIN cs :
          /\ ds[k] \in CallEntries /\ ds[k].ref = cs[k].ref
          /\ ds[k].init = cs[k].init
    <3> TAKE k \in DOMAIN cs
    <3> DEFINE c == cs[k]
               d == ds[k]
    <3>1. /\ c \in CallEntries
          /\ d = IF c.ref = ref
                 THEN [c EXCEPT !.ring = FALSE, !.hold = FALSE] ELSE c
      BY <2>4, CallIs
    <3> HIDE DEF c, d
    <3>2. d \in CallEntries /\ d.ref = c.ref /\ d.init = c.init
      BY <3>1 DEF CallEntries
    <3> QED
      BY <3>2 DEF c, d
  <2>6. ds = [k \in DOMAIN cs |-> ds[k]]
    BY <2>4
  <2>7. \A x : Keep(cs, ds, x)
    BY <2>5, <2>6, ChangedIs
  <2> QED
    BY <2>1, <2>3, <2>7, OneRequest
<1> QED
  BY <1>1, <1>2

\* A command about one call.
LEMMA CommandIs ==
  ASSUME NEW cs \in Seq(CallEntries), NEW r,
         r \in {L4!Hold(cs)} \cup {L4!Retrieve(cs, n) : n \in DOMAIN cs}
  PROVE  r.calls = cs /\ r.reqs \in Seq(Late)
<1>1. CASE r.calls = cs /\ r.reqs = <<>>
  BY <1>1
<1>2. CASE \E i \in DOMAIN cs, t \in {"HOLD_REQ", "RETRIEVE_REQ"} :
             r = L4!Makes(cs, <<L4!Req(t, cs[i].ref)>>)
  <2>1. PICK i \in DOMAIN cs, t \in {"HOLD_REQ", "RETRIEVE_REQ"} :
               r = L4!Makes(cs, <<L4!Req(t, cs[i].ref)>>)
    BY <1>2
  <2> DEFINE q == L4!Req(t, cs[i].ref)
  <2>2. r.calls = cs /\ r.reqs = <<q>>
    BY <2>1 DEF L4!Makes
  <2>3. q \in Late
    BY CallIs DEF L4!Req, Late, Requests
  <2> HIDE DEF q
  <2> QED
    BY <2>2, <2>3, OneRequest
<1>3. CASE r = L4!Hold(cs)
  <2>1. CASE L4!Active(cs) = {}
    <3>1. r.calls = cs /\ r.reqs = <<>>
      BY <1>3, <2>1 DEF L4!Hold, L4!Makes
    <3> QED
      BY <1>1, <3>1
  <2>2. CASE L4!Active(cs) # {}
    <3> DEFINE i == L4!Min(L4!Active(cs))
    <3>1. i \in DOMAIN cs
      BY <2>2, NumbersIs
    <3>2. r = L4!Makes(cs, <<L4!Req("HOLD_REQ", cs[i].ref)>>)
      BY <1>3, <2>2 DEF L4!Hold
    <3> HIDE DEF i
    <3> QED
      BY <1>2, <3>1, <3>2
  <2> QED
    BY <2>1, <2>2
<1>4. CASE \E n \in DOMAIN cs : r = L4!Retrieve(cs, n)
  <2>1. PICK n \in DOMAIN cs : r = L4!Retrieve(cs, n)
    BY <1>4
  <2>2. CASE L4!Active(cs) # {}
    <3>1. r.calls = cs /\ r.reqs = <<>>
      BY <2>1, <2>2 DEF L4!Retrieve, L4!Makes
    <3> QED
      BY <1>1, <3>1
  <2>3. CASE L4!Active(cs) = {}
    <3>1. r = L4!Makes(cs, <<L4!Req("RETRIEVE_REQ", cs[n].ref)>>)
      BY <2>1, <2>3 DEF L4!Retrieve
    <3> QED
      BY <1>2, <3>1
  <2> QED
    BY <2>2, <2>3
<1> QED
  BY <1>3, <1>4

\* A call in its initial state is not disconnected but released.
LEMMA HangupIs ==
  ASSUME NEW cs \in Seq(CallEntries), NEW r, r = L4!Hangup(cs)
  PROVE  /\ r.calls = cs
         /\ \/ r.reqs = <<>>
            \/ \E c \in Elems(cs), q \in Requests :
                 /\ r.reqs = <<q>> /\ q.ref = c.ref
                 /\ q.type = IF c.init THEN "REL_REQ" ELSE "DISC_REQ"
<1>1. CASE L4!Active(cs) = {}
  BY <1>1 DEF L4!Hangup, L4!Makes
<1>2. CASE L4!Active(cs) # {}
  <2> DEFINE i == L4!Min(L4!Active(cs))
             c == cs[i]
             q == L4!Req(IF c.init THEN "REL_REQ" ELSE "DISC_REQ", c.ref)
  <2>1. i \in DOMAIN cs
    BY <1>2, NumbersIs
  <2>2. r.calls = cs /\ r.reqs = <<q>>
    BY <1>2 DEF L4!Hangup, L4!Makes
  <2> HIDE DEF i
  <2>3. c \in Elems(cs) /\ c.ref \in Refs
    BY <2>1, CallIs DEF Elems
  <2> HIDE DEF c
  <2>4. /\ q \in Requests /\ q.ref = c.ref
        /\ q.type = IF c.init THEN "REL_REQ" ELSE "DISC_REQ"
    BY <2>3 DEF L4!Req, Requests
  <2> HIDE DEF q
  <2> QED
    BY <2>2, <2>3, <2>4
<1> QED
  BY <1>1, <1>2

LEMMA DialIs ==
  ASSUME NEW cs \in Seq(CallEntries), NEW ref \in Refs,
         NEW r, r = L4!Dial(cs, ref)
  PROVE  \/ r.calls = cs /\ r.reqs = <<>>
         \/ /\ r.reqs = <<[type |-> "SETUP_REQ", ref |-> ref]>>
            /\ r.calls \in Seq(CallEntries)
            /\ \A d \in Elems(r.calls) :
                 d \in Elems(cs) \/ (d.ref = ref /\ d.init)
<1>1. CASE L4!Active(cs) # {}
  BY <1>1 DEF L4!Dial, L4!Makes
<1>2. CASE L4!Active(cs) = {}
  <2> DEFINE e == [L4!Entry(ref) EXCEPT !.init = TRUE]
             o == <<e>>
  <2>1. /\ r.reqs = <<[type |-> "SETUP_REQ", ref |-> ref]>>
        /\ r.calls = Append(cs, e)
    BY <1>2 DEF L4!Dial, L4!Makes, L4!Req
  <2>2. e \in CallEntries /\ e.ref = ref /\ e.init
    BY DEF L4!Entry, CallEntries
  <2> HIDE DEF e
  <2>3. o \in Seq(CallEntries) /\ Elems(o) = {e}
    BY <2>2, ElemsOfOne
  <2>4. Append(cs, e) = cs \o o
    BY <2>2
  <2> HIDE DEF o
  <2>5. /\ cs \o o \in Seq(CallEntries)
        /\ Elems(cs \o o) = Elems(cs) \cup Elems(o)
    BY <2>3, ElemsOfCat
  <2> QED
    BY <2>1, <2>2, <2>3, <2>4, <2>5
<1> QED
  BY <1>1, <1>2

LEMMA DropIs ==
  ASSUME NEW cs \in Seq(CallEntries), NEW ref
  PROVE  Keep(cs, L4!Drop(cs, ref), ref)
<1> DEFINE D == {c \in CallEntries : c.ref = ref}
           n == Len(cs)
           kept[i \in 0 .. Len(cs)] ==
             IF i = 0 THEN <<>>
             ELSE IF cs[i].ref = ref THEN kept[i - 1]
             ELSE Append(kept[i - 1], cs[i])
           r == kept[Len(cs)]
<1>1. n \in Nat /\ DOMAIN cs = 1 .. n
  OBVIOUS
<1>2. \A i \in 1 .. n : cs[i].ref = ref <=> cs[i] \in D
  BY <1>1, CallIs
<1> HIDE DEF D
<1>3. \A f : Keeps(f, n, cs, D) <=>
         f = [i \in 0 .. n |-> IF i = 0 THEN <<>>
                               ELSE IF cs[i].ref = ref THEN f[i - 1]
                               ELSE Append(f[i - 1], cs[i])]
  <2> TAKE f
  <2>1. \A i \in 0 .. n :
          (IF i = 0 THEN <<>> ELSE Visit(f[i - 1], cs[i], D))
            = (IF i = 0 THEN <<>>
               ELSE IF cs[i].ref = ref THEN f[i - 1]
               ELSE Append(f[i - 1], cs[i]))
    BY <1>1, <1>2 DEF Visit
  <2>2. [i \in 0 .. n |-> IF i = 0 THEN <<>> ELSE Visit(f[i - 1], cs[i], D)]
          = [i \in 0 .. n |-> IF i = 0 THEN <<>>
                              ELSE IF cs[i].ref = ref THEN f[i - 1]
                              ELSE Append(f[i - 1], cs[i])]
    BY <2>1
  <2> QED
    BY <2>2 DEF Keeps
<1>4. Keeps(kept, n, cs, D)
  <2>1. \E f : Keeps(f, n, cs, D)
    BY <1>1, KeepsExist
  <2> QED
    BY <1>3, <2>1
<1>5. r \in Seq(CallEntries) /\ Lists(r, n, cs, D)
  BY <1>4, KeepsList
<1>6. r = L4!Drop(cs, ref)
  BY DEF L4!Drop
<1> HIDE DEF kept, r
<1>7. Elems(r) \subseteq Elems(cs)
  <2>1. \A i \in 1 .. Len(r) : \E j \in 1 .. n : r[i] = cs[j]
    BY <1>5 DEF Lists
  <2>2. DOMAIN r = 1 .. Len(r)
    BY <1>5
  <2> QED
    BY <1>1, <2>1, <2>2 DEF Elems
<1> QED
  BY <1>5, <1>6, <1>7 DEF Keep

LEMMA TwoRequests ==
  ASSUME NEW q \in Late, NEW p \in Late, NEW more \in Seq(Late)
  PROVE  <<p, q>> \in Seq(Late) /\ <<p, q>> \o more \in Seq(Late)
OBVIOUS

LEMMA LateIs ==
  ASSUME NEW ref \in Refs,
         NEW t \in {"REL_REQ", "CALL_CONF_REQ", "ALERT_REQ"}
  PROVE  L4!Req(t, ref) \in Late
BY DEF L4!Req, Late, Requests

\* An offered call.
LEMMA SetupIndIs ==
  ASSUME NEW cs \in Seq(CallEntries), NEW ref \in Refs, NEW how,
         NEW r, r = L4!SetupInd(cs, ref, how)
  PROVE  Keep(cs, r.calls, ref) /\ r.reqs \in Seq(Late)
<1> DEFINE first == cs = <<>>
           known == IF L4!Known(cs, ref)
                    THEN L4!Change(cs, ref, LAMBDA c : [c EXCEPT !.init = FALSE])
                    ELSE Append(cs, L4!Entry(ref))
           rings == L4!Change(known, ref, LAMBDA c :
                         [c EXCEPT !.ring = TRUE, !.hold = @ \/ ~first])
           q == L4!Req("REL_REQ", ref)
           c1 == L4!Req("CALL_CONF_REQ", ref)
           c2 == L4!Req("ALERT_REQ", ref)
           taken == L4!Answer(rings)
           no == (~first /\ ~how.cw) \/ ~how.fits
<1>1. /\ no => r = L4!Makes(known, <<q>>)
      /\ ~no /\ how.auto => r = L4!Makes(taken.calls, <<c1, c2>> \o taken.reqs)
      /\ ~no /\ ~how.auto => r = L4!Makes(rings, <<c1, c2>>)
  BY DEF L4!SetupInd
<1>2. q \in Late /\ c1 \in Late /\ c2 \in Late
  BY LateIs
<1> HIDE DEF q, c1, c2, no
<1>3. Keep(cs, known, ref)
  <2>1. CASE L4!Known(cs, ref)
    BY <2>1, SeenIs
  <2>2. CASE ~L4!Known(cs, ref)
    <3> DEFINE e == L4!Entry(ref)
               o == <<e>>
    <3>1. e \in CallEntries /\ e.ref = ref
      BY DEF L4!Entry, CallEntries
    <3>2. known = Append(cs, e)
      BY <2>2
    <3> HIDE DEF e
    <3>3. o \in Seq(CallEntries) /\ Elems(o) = {e}
      BY <3>1, ElemsOfOne
    <3>4. Append(cs, e) = cs \o o
      BY <3>1
    <3> HIDE DEF o
    <3>5. /\ cs \o o \in Seq(CallEntries)
          /\ Elems(cs \o o) = Elems(cs) \cup Elems(o)
      BY <3>3, ElemsOfCat
    <3> HIDE DEF known
    <3> QED
      BY <3>1, <3>2, <3>3, <3>4, <3>5 DEF Keep
  <2> QED
    BY <2>1, <2>2
<1>4. first \in BOOLEAN
  OBVIOUS
<1> HIDE DEF known, first
<1>5. Keep(known, rings, ref)
  <2>1. known \in Seq(CallEntries)
    BY <1>3 DEF Keep
  <2> QED
    BY <1>4, <2>1, RingsIs
<1> HIDE DEF rings
<1>6. Keep(cs, rings, ref)
  BY <1>3, <1>5, KeepTwice
<1>7. Keep(rings, taken.calls, ref) /\ taken.reqs \in Seq(Late)
  <2>1. rings \in Seq(CallEntries)
    BY <1>6 DEF Keep
  <2> QED
    BY <2>1, AnswerIs
<1> HIDE DEF taken
<1>8. Keep(cs, taken.calls, ref)
  BY <1>6, <1>7, KeepTwice
<1>9. CASE no
  <2>1. r.calls = known /\ r.reqs = <<q>>
    BY <1>1, <1>9 DEF L4!Makes
  <2> QED
    BY <1>2, <1>3, <2>1, OneRequest
<1>10. CASE ~no /\ how.auto
  <2>1. r.calls = taken.calls /\ r.reqs = <<c1, c2>> \o taken.reqs
    BY <1>1, <1>10 DEF L4!Makes
  <2> QED
    BY <1>2, <1>7, <1>8, <2>1, TwoRequests
<1>11. CASE ~no /\ ~how.auto
  <2>1. r.calls = rings /\ r.reqs = <<c1, c2>>
    BY <1>1, <1>11 DEF L4!Makes
  <2>2. <<c1, c2>> \in Seq(Late)
    BY <1>2
  <2> QED
    BY <1>6, <2>1, <2>2
<1> QED
  BY <1>9, <1>10, <1>11

LEMMA RecvIs ==
  ASSUME NEW cs \in Seq(CallEntries), NEW p, NEW ref \in Refs, NEW how,
         NEW r, r = L4!Recv(cs, p, ref, how)
  PROVE  Keep(cs, r.calls, ref) /\ r.reqs \in Seq(Late)
<1> DEFINE seen == L4!Change(cs, ref, LAMBDA c : [c EXCEPT !.init = FALSE])
           held(h) == L4!Change(seen, ref, LAMBDA c : [c EXCEPT !.hold = h])
           q == L4!Req("REL_REQ", ref)
<1>1. q \in Late /\ <<q>> \in Seq(Late) /\ <<>> \in Seq(Late)
  <2>1. q \in Late
    BY LateIs
  <2> HIDE DEF q
  <2> QED
    BY <2>1, OneRequest
<1>2. Keep(cs, seen, ref)
  BY SeenIs
<1>3. seen \in Seq(CallEntries)
  BY <1>2 DEF Keep
<1>4. CASE p = "SETUP_IND"
  <2>1. r = L4!SetupInd(cs, ref, how)
    BY <1>4 DEF L4!Recv, L4!Releases
  <2> QED
    BY <2>1, SetupIndIs
<1>5. CASE p # "SETUP_IND" /\ ~L4!Known(cs, ref)
  <2>1. r.calls = cs /\ (r.reqs = <<>> \/ r.reqs = <<q>>)
    BY <1>5 DEF L4!Recv, L4!Makes
  <2> HIDE DEF q
  <2> QED
    BY <1>1, <2>1, SameCalls
<1>6. CASE p # "SETUP_IND" /\ L4!Known(cs, ref)
  <2>1. \/ r = L4!Makes(L4!Drop(cs, ref), <<>>)
        \/ r = L4!Makes(L4!Drop(cs, ref), <<q>>)
        \/ r = L4!Makes(held(TRUE), <<>>)
        \/ r = L4!Makes(held(FALSE), <<>>)
        \/ r = L4!Makes(seen, <<>>)
    <3> HIDE DEF q
    <3>1. CASE p \in {"REL_IND", "REL_CNF"}
      BY <1>6, <3>1 DEF L4!Recv, L4!Releases
    <3>2. CASE p = "DISC_IND"
      BY <1>6, <3>2 DEF L4!Recv, L4!Releases, q
    <3>3. CASE p = "HOLD_CNF"
      BY <1>6, <3>3 DEF L4!Recv, L4!Releases
    <3>4. CASE p = "RETRIEVE_CNF"
      BY <1>6, <3>4 DEF L4!Recv, L4!Releases
    <3>5. CASE p \notin {"REL_IND", "REL_CNF", "DISC_IND", "HOLD_CNF",
                         "RETRIEVE_CNF"}
      BY <1>6, <3>5 DEF L4!Recv, L4!Releases
    <3> QED
      BY <3>1, <3>2, <3>3, <3>4, <3>5
  <2> HIDE DEF q
  <2>2. Keep(cs, L4!Drop(cs, ref), ref)
    BY DropIs
  <2>3. \A h \in BOOLEAN : Keep(seen, held(h), ref)
    BY <1>3, HeldIs
  <2> HIDE DEF seen, held
  <2>4. \A h \in BOOLEAN : Keep(cs, held(h), ref)
    BY <1>2, <2>3, KeepTwice
  <2> DEFINE d == L4!Drop(cs, ref)
             h1 == held(TRUE)
             h2 == held(FALSE)
  <2>5. Keep(cs, d, ref) /\ Keep(cs, h1, ref) /\ Keep(cs, h2, ref)
    BY <2>2, <2>4
  <2>6. r \in {L4!Makes(d, <<>>), L4!Makes(d, <<q>>), L4!Makes(h1, <<>>),
               L4!Makes(h2, <<>>), L4!Makes(seen, <<>>)}
    BY <2>1
  <2> HIDE DEF d, h1, h2
  <2>7. r.calls \in {d, h1, h2, seen} /\ (r.reqs = <<>> \/ r.reqs = <<q>>)
    BY <2>6 DEF L4!Makes
  <2> QED
    BY <1>1, <1>2, <2>5, <2>7
<1> QED
  BY <1>4, <1>5, <1>6


-----------------------------------------------------------------------------
(***************************************************************************)
(* The composition of the layers.                                           *)
(***************************************************************************)
\* What the state is made of.
RrEntries == [p : RrPrims, ref : Refs \cup {NoRef}]
RrQueues == Seq(RrEntries)

MmxxQueues == Seq(Entry)

EventQueues == Seq({"CELL_SELECTED"})

MnccEntries == [p : CcPrims, ref : Refs]
MnccQueues == Seq(MnccEntries)

Lists4 == Seq(CallEntries)

Transes == [Refs -> CC!Transactions]

Worlds ==
  [trans : Transes, mm : MM!MmLayers, link : RR!Links, calls : Lists4,
   rrUp : RrQueues, mmxx : MmxxQueues, events : EventQueues,
   mncc : MnccQueues]

LEMMA WorldIs ==
  ASSUME NEW w
  PROVE  w \in Worlds <=>
           /\ w = [trans |-> w.trans, mm |-> w.mm, link |-> w.link,
                   calls |-> w.calls, rrUp |-> w.rrUp, mmxx |-> w.mmxx,
                   events |-> w.events, mncc |-> w.mncc]
           /\ w.trans \in Transes /\ w.mm \in MM!MmLayers
           /\ w.link \in RR!Links /\ w.calls \in Lists4
           /\ w.rrUp \in RrQueues /\ w.mmxx \in MmxxQueues
           /\ w.events \in EventQueues /\ w.mncc \in MnccQueues
BY DEF Worlds

-----------------------------------------------------------------------------
(***************************************************************************)
(* The invariant.                                                           *)
(***************************************************************************)
\* A release of RR is on its way to MM.
HasFall(q) == \E e \in Elems(q) : e.p \in {"REL_IND", "ABORT_IND"}

\* Messages that make MM serve a connection, or wait for the network.
Raising == {"EST_IND", "CM_SERV_ACC", "CM_SERV_REJ", "SYNC_IND"}

\* Each is followed by a release.
Covered(q) ==
  \A i \in DOMAIN q : q[i].p \in Raising =>
    \E j \in DOMAIN q : j > i /\ q[j].p \in {"REL_IND", "ABORT_IND"}

\* Where there is no radio connection, MM is told so after all the rest.
Air(w) ==
  ~OnAir(w.link) => /\ HasDedic(w.mm) => HasFall(w.rrUp)
                    /\ Covered(w.rrUp)

\* While the mobile camps, MM is idle or will be.
Rests(w) ==
  w.link.st = "camped" =>
    w.mm.state = "IDLE" \/ w.events # <<>> \/ HasFall(w.rrUp)

\* A connection that waits while MM does not is never answered by the
\* network: what MM had asked is forgotten.
Unasked(w) ==
  /\ w.link.st \in {"camped", "choose"} => Unused(w.link)
  /\ HasPend(w.mm) /\ w.mm.state \notin Asking =>
       Unused(w.link) /\ \A e \in Elems(w.rrUp) : e.p # "CM_SERV_ACC"

\* While MM waits, the calls of the connections that wait do, too.
Waits(w) ==
  w.mm.state \in Asking =>
    \A r \in Refs : Pend(r) \in Elems(w.mm.conns) => IsPend(w.trans[r])

\* A connection whose end is told is gone.
Released(w) ==
  \A e \in Elems(w.mmxx) : e.p \in Ended => ~HasRef(w.mm.conns, e.ref)

\* What a transaction t of the reference r is owed by MM.
Owes(w, r, t) ==
  /\ IsLive(t) => HasRef(w.mm.conns, r) \/ Says(w.mmxx, r, Ended)
  /\ IsPend(t) => \/ Pend(r) \in Elems(w.mm.conns)
                  \/ Says(w.mmxx, r, Ended \cup {"EST_CNF"})

Owed(w) == \A r \in Refs : Owes(w, r, w.trans[r])

\* The network does not know a call that waits for its connection.
Unknown(w) ==
  \A e \in Elems(w.rrUp) :
    e.p \in CC!Messages /\ e.ref \in Refs => ~IsPend(w.trans[e.ref])

\* Layer 4 has heard nothing of such a call.
Early(w) ==
  \A r \in Refs : IsPend(w.trans[r]) =>
    /\ \A c \in Elems(w.calls) : c.ref = r => c.init
    /\ \A e \in Elems(w.mncc) : e.ref # r

TimedCalls(w) == \A r \in Refs : TimedCc(w.trans[r])

\* A confirmation comes before anything else that is said of its call, and
\* the call waits for it.
Confirmed(w) ==
  \A i \in DOMAIN w.mmxx : w.mmxx[i].p = "EST_CNF" =>
    /\ IsPend(w.trans[w.mmxx[i].ref])
    /\ Pend(w.mmxx[i].ref) \notin Elems(w.mm.conns)
    /\ \A j \in DOMAIN w.mmxx :
         j < i /\ w.mmxx[j].ref = w.mmxx[i].ref => w.mmxx[j].p = "SYNC_IND"

NoCnf(w) == \A e \in Elems(w.mmxx) : e.p # "EST_CNF"

\* What a step of the event loop may disturb in the entry it has taken from a
\* queue is apart from the rest: Air, Rests, Owed and Confirmed.
Base(w) ==
  /\ w \in Worlds /\ Sane(w.mm) /\ Unasked(w) /\ Waits(w) /\ Released(w)
  /\ Unknown(w) /\ Early(w) /\ TimedCalls(w)

Good(w) == Base(w) /\ Air(w) /\ Rests(w) /\ Owed(w)

-----------------------------------------------------------------------------
(***************************************************************************)
(* What requests and handlers do to the world.                              *)
(***************************************************************************)
\* What MM did, when it asks nothing of RR.
MmActs(r) == r.mm \in MM!MmLayers /\ r.up \in MmxxQueues /\ r.rr = "none"

MmFrame(w, r, n) ==
  /\ n \in Worlds /\ n.mm = r.mm /\ n.mmxx = w.mmxx \o r.up
  /\ n.trans = w.trans /\ n.link = w.link /\ n.calls = w.calls
  /\ n.rrUp = w.rrUp /\ n.events = w.events /\ n.mncc = w.mncc

LEMMA MmDoesIs ==
  ASSUME NEW w \in Worlds, NEW r, MmActs(r)
  PROVE  MmFrame(w, r, MmDoes(w, r))
<1> DEFINE n == MmDoes(w, r)
<1>0. r.mm \in MM!MmLayers /\ r.up \in MmxxQueues /\ r.rr = "none"
  BY DEF MmActs
<1>1. n = [w EXCEPT !.mm = r.mm, !.mmxx = @ \o r.up]
  BY <1>0 DEF MmDoes, RrDown
<1>2. w.mmxx \o r.up \in MmxxQueues
  BY <1>0, WorldIs DEF MmxxQueues
<1> HIDE DEF n
<1>3. MmFrame(w, r, n)
  BY <1>0, <1>1, <1>2 DEF Worlds, MmFrame
<1> QED
  BY <1>3 DEF n

\* A request to call control that asks for no connection.
CcFrame(w, ref, r, n) ==
  /\ n \in Worlds /\ n.trans = [w.trans EXCEPT ![ref] = r.t]
  /\ n.mncc = w.mncc \o [i \in DOMAIN r.up |-> Up(r.up[i], ref)]
  /\ n.link = w.link /\ n.calls = w.calls
  /\ n.rrUp = w.rrUp /\ n.events = w.events
  /\ \/ n.mmxx = w.mmxx
     \/ /\ n.mmxx = w.mmxx \o <<[p |-> "REL_IND", ref |-> ref]>>
        /\ ~HasRef(w.mm.conns, ref)
  /\ IF r.conn = "REL_REQ" THEN n.mm = MM!RelReq(w.mm, ref).mm
     ELSE n.mm = w.mm

LEMMA UpsAre ==
  ASSUME NEW ref \in Refs, NEW u \in Seq(CcPrims),
         NEW v, v = [i \in DOMAIN u |-> Up(u[i], ref)]
  PROVE  /\ v \in MnccQueues /\ (\A e \in Elems(v) : e.ref = ref)
         /\ u = <<>> => v = <<>>
<1>1. \A i \in DOMAIN u : v[i] \in MnccEntries /\ v[i].ref = ref
  <2> TAKE i \in DOMAIN u
  <2>1. u[i] \in CcPrims
    OBVIOUS
  <2> QED
    BY <2>1 DEF Up, MnccEntries
<1>2. DOMAIN u = 1 .. Len(u) /\ Len(u) \in Nat
  OBVIOUS
<1>3. v \in MnccQueues
  BY <1>1, <1>2 DEF MnccQueues
<1>4. u = <<>> => v = <<>>
  BY <1>2
<1> QED
  BY <1>1, <1>3, <1>4 DEF Elems

LEMMA CcDoesIs ==
  ASSUME NEW w \in Worlds, Sane(w.mm), NEW ref \in Refs,
         NEW r, CcOk(w.trans[ref], r), NEW n, n = CcDoes(w, ref, r)
  PROVE  CcFrame(w, ref, r, n)
<1> DEFINE v == [i \in DOMAIN r.up |-> Up(r.up[i], ref)]
           k == [w EXCEPT !.trans[ref] = r.t, !.mncc = @ \o v]
           d == MM!DataReq(k.mm, ref)
           s == IF r.tx = "none" THEN k ELSE MmDoes(k, d)
           f == MM!RelReq(s.mm, ref)
<1>1. w = [trans |-> w.trans, mm |-> w.mm, link |-> w.link,
           calls |-> w.calls, rrUp |-> w.rrUp, mmxx |-> w.mmxx,
           events |-> w.events, mncc |-> w.mncc]
      /\ w.trans \in Transes /\ w.mncc \in MnccQueues /\ w.mmxx \in MmxxQueues
  BY WorldIs
<1>2. n = IF r.conn = "REL_REQ" THEN MmDoes(s, f) ELSE s
  <2>1. r.conn \in {"none", "REL_REQ"}
    BY DEF CcOk
  <2> QED
    BY <2>1 DEF CcDoes, CC!Nothing
<1>3. v \in MnccQueues
  BY UpsAre DEF CcOk
<1> HIDE DEF v
<1>4. /\ k \in Worlds /\ k.trans = [w.trans EXCEPT ![ref] = r.t]
      /\ k.mncc = w.mncc \o v /\ k.mm = w.mm /\ k.link = w.link
      /\ k.calls = w.calls /\ k.rrUp = w.rrUp /\ k.events = w.events
      /\ k.mmxx = w.mmxx
  <2> DEFINE x == [w.trans EXCEPT ![ref] = r.t]
             y == w.mncc \o v
  <2>1. x \in Transes /\ y \in MnccQueues
    BY <1>1, <1>3 DEF CcOk, Transes, MnccQueues
  <2>2. k = [w EXCEPT !.trans = x, !.mncc = y]
    BY <1>1
  <2> HIDE DEF x, y, k
  <2>3. k \in Worlds /\ k.trans = x /\ k.mncc = y
        /\ k.mm = w.mm /\ k.link = w.link /\ k.mmxx = w.mmxx
        /\ k.calls = w.calls /\ k.rrUp = w.rrUp /\ k.events = w.events
    BY <2>1, <2>2 DEF Worlds
  <2> QED
    BY <2>3 DEF x, y
<1> HIDE DEF k
<1>5. /\ s \in Worlds /\ s.trans = k.trans /\ s.mncc = k.mncc
      /\ s.mm = k.mm /\ s.link = k.link /\ s.calls = k.calls
      /\ s.rrUp = k.rrUp /\ s.events = k.events
      /\ \/ s.mmxx = w.mmxx
         \/ /\ s.mmxx = w.mmxx \o <<[p |-> "REL_IND", ref |-> ref]>>
            /\ ~HasRef(w.mm.conns, ref)
  <2>1. CASE r.tx = "none"
    BY <1>4, <2>1
  <2>2. CASE r.tx # "none"
    <3>1. /\ d.mm = w.mm /\ d.rr = "none"
          /\ \/ d.up = <<>>
             \/ /\ d.up = <<[p |-> "REL_IND", ref |-> ref]>>
                /\ ~HasRef(w.mm.conns, ref)
      BY <1>4, DataReqIs
    <3>2. d.up \in MmxxQueues
      <4> DEFINE e == [p |-> "REL_IND", ref |-> ref]
      <4>1. e \in Entry
        BY DEF Entry, MmPrims, Ended
      <4> HIDE DEF e
      <4>2. <<e>> \in MmxxQueues /\ <<>> \in MmxxQueues
        BY <4>1 DEF MmxxQueues
      <4> QED
        BY <3>1, <4>2 DEF e
    <3>3. w.mm \in MM!MmLayers
      BY DEF Sane
    <3>4. s = MmDoes(k, d)
      BY <2>2
    <3> HIDE DEF d, s
    <3>7. k \in Worlds /\ MmActs(d)
      BY <1>4, <3>1, <3>2, <3>3 DEF MmActs
    <3>9. MmFrame(k, d, s)
      BY <3>4, <3>7, MmDoesIs
    <3>8. /\ s \in Worlds /\ s.mm = d.mm /\ s.mmxx = k.mmxx \o d.up
          /\ s.trans = k.trans /\ s.link = k.link /\ s.calls = k.calls
          /\ s.rrUp = k.rrUp /\ s.events = k.events /\ s.mncc = k.mncc
      BY <3>9 DEF MmFrame
    <3>5. /\ s \in Worlds /\ s.trans = k.trans /\ s.mncc = k.mncc
          /\ s.mm = k.mm /\ s.link = k.link /\ s.calls = k.calls
          /\ s.rrUp = k.rrUp /\ s.events = k.events
          /\ s.mmxx = w.mmxx \o d.up
      BY <1>4, <3>1, <3>8
    <3>6. w.mmxx \o <<>> = w.mmxx
      BY <1>1 DEF MmxxQueues
    <3> QED
      BY <3>1, <3>5, <3>6
  <2> QED
    BY <2>1, <2>2
<1> HIDE DEF s
<1>6. CASE r.conn # "REL_REQ"
  BY <1>2, <1>4, <1>5, <1>6 DEF CcFrame, v
<1>7. CASE r.conn = "REL_REQ"
  <2>1. /\ f.mm \in MM!MmLayers /\ f.up = <<>> /\ f.rr = "none"
        /\ f = MM!RelReq(w.mm, ref)
    BY <1>4, <1>5, RelReqIs DEF Sane
  <2>2. n = MmDoes(s, f) /\ <<>> \in MmxxQueues
    BY <1>2, <1>7 DEF MmxxQueues
  <2> HIDE DEF f
  <2>5. MmActs(f) /\ s \in Worlds
    BY <1>5, <2>1, <2>2 DEF MmActs
  <2>7. MmFrame(s, f, n)
    BY <2>2, <2>5, MmDoesIs
  <2>6. /\ n \in Worlds /\ n.mm = f.mm /\ n.mmxx = s.mmxx \o f.up
        /\ n.trans = s.trans /\ n.link = s.link /\ n.calls = s.calls
        /\ n.rrUp = s.rrUp /\ n.events = s.events /\ n.mncc = s.mncc
    BY <2>7 DEF MmFrame
  <2>3. /\ n \in Worlds /\ n.mm = f.mm /\ n.mmxx = s.mmxx \o <<>>
        /\ n.trans = s.trans /\ n.link = s.link /\ n.calls = s.calls
        /\ n.rrUp = s.rrUp /\ n.events = s.events /\ n.mncc = s.mncc
    BY <2>1, <2>6
  <2>4. s.mmxx \o <<>> = s.mmxx
    <3>1. s.mmxx \in MmxxQueues
      BY <1>5, WorldIs
    <3> QED
      BY <3>1 DEF MmxxQueues
  <2> QED
    BY <1>4, <1>5, <1>7, <2>1, <2>3, <2>4 DEF CcFrame, v
<1> QED
  BY <1>6, <1>7


-----------------------------------------------------------------------------
(***************************************************************************)
(* A step of call control.                                                  *)
(***************************************************************************)
LEMMA CatIs ==
  ASSUME NEW T, NEW q \in Seq(T), NEW u \in Seq(T)
  PROVE  /\ q \o u \in Seq(T)
         /\ \A i \in DOMAIN q : i \in DOMAIN (q \o u) /\ (q \o u)[i] = q[i]
         /\ \A i \in DOMAIN (q \o u) :
              \/ i \in DOMAIN q
              \/ /\ i - Len(q) \in DOMAIN u /\ (q \o u)[i] = u[i - Len(q)]
                 /\ \A j \in DOMAIN q : j < i
         /\ \A i \in DOMAIN u :
              i + Len(q) \in DOMAIN (q \o u) /\ (q \o u)[i + Len(q)] = u[i]
OBVIOUS

\* The connections and the messages of MM after a step of call control.
CcSays(w, ref, r, n) ==
  /\ Sane(n.mm) /\ Asks(w.mm, n.mm) /\ Calm(w.mm, n.mm)
  /\ Elems(n.mm.conns) \subseteq Elems(w.mm.conns)
  /\ \A c \in Elems(w.mm.conns) :
       c.ref # ref \/ r.conn # "REL_REQ" => c \in Elems(n.mm.conns)
  /\ r.conn = "REL_REQ" /\ w.mm.state \in Asking =>
       \A c \in Elems(n.mm.conns) : c.ref # ref
  /\ Elems(w.mmxx) \subseteq Elems(n.mmxx)
  /\ \A e \in Elems(n.mmxx) :
       \/ e \in Elems(w.mmxx)
       \/ e.p = "REL_IND" /\ e.ref = ref /\ ~HasRef(w.mm.conns, ref)
  /\ \A i \in DOMAIN n.mmxx :
       \/ n.mmxx[i].p # "EST_CNF"
       \/ /\ i \in DOMAIN w.mmxx /\ n.mmxx[i] = w.mmxx[i]
          /\ \A j \in DOMAIN n.mmxx :
               j < i => j \in DOMAIN w.mmxx /\ n.mmxx[j] = w.mmxx[j]
  /\ \A e \in Elems(n.mncc) :
       e \in Elems(w.mncc) \/ (e.ref = ref /\ r.up # <<>>)

LEMMA CcSaysMm ==
  ASSUME NEW w \in Worlds, Sane(w.mm), NEW ref \in Refs, NEW r, NEW n,
         CcFrame(w, ref, r, n)
  PROVE  /\ Sane(n.mm) /\ Asks(w.mm, n.mm) /\ Calm(w.mm, n.mm)
         /\ Elems(n.mm.conns) \subseteq Elems(w.mm.conns)
         /\ \A c \in Elems(w.mm.conns) :
              c.ref # ref \/ r.conn # "REL_REQ" => c \in Elems(n.mm.conns)
         /\ r.conn = "REL_REQ" /\ w.mm.state \in Asking =>
              \A c \in Elems(n.mm.conns) : c.ref # ref
<1>1. CASE r.conn # "REL_REQ"
  <2>1. n.mm = w.mm
    BY <1>1 DEF CcFrame
  <2> QED
    BY <1>1, <2>1 DEF Asks, Calm
<1>2. CASE r.conn = "REL_REQ"
  <2> DEFINE f == MM!RelReq(w.mm, ref)
  <2>1. n.mm = f.mm
    BY <1>2 DEF CcFrame
  <2>2. /\ Sane(f.mm) /\ Asks(w.mm, f.mm) /\ Calm(w.mm, f.mm)
        /\ \/ w.mm.state \in {"IDLE", "WAIT_NET"} /\ f.mm = w.mm
           \/ Elems(f.mm.conns) = {c \in Elems(w.mm.conns) : c.ref # ref}
    BY RelReqIs
  <2> HIDE DEF f
  <2>3. w.mm.state \in Asking => w.mm.state \notin {"IDLE", "WAIT_NET"}
    BY DEF Asking
  <2> QED
    BY <1>2, <2>1, <2>2, <2>3
<1> QED
  BY <1>1, <1>2

LEMMA CcSaysMmxx ==
  ASSUME NEW w \in Worlds, NEW ref \in Refs, NEW r, NEW n,
         CcFrame(w, ref, r, n)
  PROVE  /\ Elems(w.mmxx) \subseteq Elems(n.mmxx)
         /\ \A e \in Elems(n.mmxx) :
              \/ e \in Elems(w.mmxx)
              \/ e.p = "REL_IND" /\ e.ref = ref /\ ~HasRef(w.mm.conns, ref)
         /\ \A i \in DOMAIN n.mmxx :
              \/ n.mmxx[i].p # "EST_CNF"
              \/ /\ i \in DOMAIN w.mmxx /\ n.mmxx[i] = w.mmxx[i]
                 /\ \A j \in DOMAIN n.mmxx :
                      j < i => j \in DOMAIN w.mmxx /\ n.mmxx[j] = w.mmxx[j]
<1>1. CASE n.mmxx = w.mmxx
  BY <1>1
<1>2. CASE n.mmxx # w.mmxx
  <2> DEFINE e == [p |-> "REL_IND", ref |-> ref]
             u == <<e>>
             q == w.mmxx
  <2>1. n.mmxx = q \o u /\ ~HasRef(w.mm.conns, ref)
    BY <1>2 DEF CcFrame
  <2>2. e \in Entry
    BY DEF Entry, MmPrims, Ended
  <2>3. e.p = "REL_IND" /\ e.ref = ref
    OBVIOUS
  <2>4. q \in Seq(Entry)
    BY WorldIs DEF MmxxQueues
  <2> HIDE DEF e, q
  <2>5. u \in Seq(Entry) /\ Elems(u) = {e} /\ (\A i \in DOMAIN u : u[i] = e)
    BY <2>2, ElemsOfOne
  <2> HIDE DEF u
  <2>6. Elems(q \o u) = Elems(q) \cup {e}
    BY <2>4, <2>5, ElemsOfCat
  <2>7. \A i \in DOMAIN (q \o u) :
          \/ (q \o u)[i] = e
          \/ i \in DOMAIN q /\ (q \o u)[i] = q[i]
    BY <2>4, <2>5, CatIs
  <2>8. \A i \in DOMAIN q, j \in DOMAIN (q \o u) : j < i => j \in DOMAIN q
    BY <2>4, <2>5
  <2> QED
    BY <2>1, <2>3, <2>6, <2>7, <2>8 DEF q
<1> QED
  BY <1>1, <1>2

LEMMA CcSaysIt ==
  ASSUME NEW w \in Worlds, Sane(w.mm), NEW ref \in Refs,
         NEW r, CcOk(w.trans[ref], r), NEW n, n = CcDoes(w, ref, r)
  PROVE  CcFrame(w, ref, r, n) /\ CcSays(w, ref, r, n)
<1>1. CcFrame(w, ref, r, n)
  BY CcDoesIs
<1> DEFINE v == [i \in DOMAIN r.up |-> Up(r.up[i], ref)]
<1>2. v \in MnccQueues /\ (\A e \in Elems(v) : e.ref = ref)
      /\ (r.up = <<>> => v = <<>>)
  BY UpsAre DEF CcOk
<1>3. n.mncc = w.mncc \o v
  BY <1>1 DEF CcFrame
<1> HIDE DEF v
<1>4. w.mncc \in MnccQueues
  BY WorldIs
<1>5. Elems(n.mncc) = Elems(w.mncc) \cup Elems(v)
  BY <1>2, <1>3, <1>4, ElemsOfCat DEF MnccQueues
<1>6. r.up = <<>> => Elems(v) = {}
  BY <1>2, ElemsOfNone
<1>7. \A e \in Elems(n.mncc) :
        e \in Elems(w.mncc) \/ (e.ref = ref /\ r.up # <<>>)
  BY <1>2, <1>5, <1>6
<1> QED
  BY <1>1, <1>7, CcSaysMm, CcSaysMmxx DEF CcSays

\* What call control may do to a call that waits for its connection: to end
\* the wait it gives the connection back, unless MM did so.
CcMay(w, ref, r) ==
  /\ CcOk(w.trans[ref], r)
  /\ IsPend(w.trans[ref]) => \/ r.conn = "REL_REQ" \/ IsPend(r.t)
                             \/ Pend(ref) \notin Elems(w.mm.conns)
  /\ IsPend(r.t) => IsPend(w.trans[ref]) /\ r.up = <<>>

\* Owed, but for the call of ref, which is owed what t is.
OwedAs(w, ref, t) ==
  /\ \A s \in Refs \ {ref} : Owes(w, s, w.trans[s])
  /\ Owes(w, ref, t)

\* What of the transactions is in a world after a step of call control.
LEMMA CcTrans ==
  ASSUME NEW w \in Worlds, NEW ref \in Refs, NEW r, NEW n,
         CcFrame(w, ref, r, n)
  PROVE  /\ n.trans[ref] = r.t
         /\ \A s \in Refs : s # ref => n.trans[s] = w.trans[s]
<1>1. w.trans \in Transes /\ n.trans = [w.trans EXCEPT ![ref] = r.t]
  BY WorldIs DEF CcFrame
<1> QED
  BY <1>1 DEF Transes

LEMMA CcKeepsBase ==
  ASSUME NEW w, Base(w), NEW ref \in Refs, NEW r, CcMay(w, ref, r),
         NEW n, CcFrame(w, ref, r, n), CcSays(w, ref, r, n)
  PROVE  Base(n)
<1>1. w \in Worlds
  BY DEF Base
<1>2. /\ n.trans[ref] = r.t
      /\ \A s \in Refs : s # ref => n.trans[s] = w.trans[s]
  BY <1>1, CcTrans
<1>3. n \in Worlds /\ n.link = w.link /\ n.calls = w.calls /\ n.rrUp = w.rrUp
  BY DEF CcFrame
<1>4. \A s \in Refs : IsPend(n.trans[s]) => IsPend(w.trans[s])
  BY <1>2 DEF CcMay
<1>5. Elems(n.mm.conns) \subseteq Elems(w.mm.conns) /\ Asks(w.mm, n.mm)
      /\ Sane(n.mm) /\ (HasPend(n.mm) => HasPend(w.mm))
  BY DEF CcSays, HasPend
<1>6. Unasked(n)
  BY <1>3, <1>5 DEF Base, Unasked, Asks
<1>7. Waits(n)
  <2> SUFFICES ASSUME n.mm.state \in Asking, NEW s \in Refs,
                      Pend(s) \in Elems(n.mm.conns)
               PROVE  IsPend(n.trans[s])
    BY DEF Waits
  <2>1. HasPend(n.mm) /\ Pend(s) \in Elems(w.mm.conns)
    BY <1>5 DEF HasPend, Pend
  <2>2. w.mm.state \in Asking
    BY <1>5, <2>1 DEF Asks
  <2>3. IsPend(w.trans[s])
    BY <2>1, <2>2 DEF Base, Waits
  <2>4. CASE s # ref
    BY <1>2, <2>3, <2>4
  <2>5. CASE s = ref
    <3>1. Pend(ref) \in Elems(n.mm.conns) /\ Pend(ref).ref = ref
      BY <2>5 DEF Pend
    <3>2. r.conn # "REL_REQ"
      BY <2>2, <3>1 DEF CcSays
    <3> QED
      BY <1>2, <2>1, <2>3, <2>5, <3>2 DEF CcMay
  <2> QED
    BY <2>4, <2>5
<1>8. Released(n)
  BY <1>5 DEF Base, Released, CcSays, HasRef
<1>9. Unknown(n)
  BY <1>3, <1>4 DEF Base, Unknown
<1>10. Early(n)
  <2> SUFFICES ASSUME NEW s \in Refs, IsPend(n.trans[s])
               PROVE  /\ \A c \in Elems(n.calls) : c.ref = s => c.init
                      /\ \A e \in Elems(n.mncc) : e.ref # s
    BY DEF Early
  <2>1. /\ \A c \in Elems(w.calls) : c.ref = s => c.init
        /\ \A e \in Elems(w.mncc) : e.ref # s
    BY <1>4 DEF Base, Early
  <2>2. s = ref => r.up = <<>>
    BY <1>2 DEF CcMay
  <2> QED
    BY <1>3, <2>1, <2>2 DEF CcSays
<1>11. TimedCalls(n)
  <2>1. TimedCc(r.t)
    BY DEF CcMay, CcOk, Base, TimedCalls
  <2> QED
    BY <1>2, <2>1 DEF Base, TimedCalls
<1> QED
  BY <1>3, <1>5, <1>6, <1>7, <1>8, <1>9, <1>10, <1>11 DEF Base

LEMMA CcKeepsRest ==
  ASSUME NEW w, Base(w), NEW ref \in Refs, NEW r, CcMay(w, ref, r),
         NEW n, CcFrame(w, ref, r, n), CcSays(w, ref, r, n)
  PROVE  /\ Air(w) => Air(n)
         /\ Rests(w) => Rests(n)
         /\ OwedAs(w, ref, r.t) => Owed(n)
         /\ NoCnf(w) => NoCnf(n)
         /\ Confirmed(w) /\ (IsPend(r.t) \/ ~Says(w.mmxx, ref, {"EST_CNF"}))
              => Confirmed(n)
<1>1. w \in Worlds
  BY DEF Base
<1>2. /\ n.trans[ref] = r.t
      /\ \A s \in Refs : s # ref => n.trans[s] = w.trans[s]
  BY <1>1, CcTrans
<1>3. n \in Worlds /\ n.link = w.link /\ n.rrUp = w.rrUp
      /\ n.events = w.events
  BY DEF CcFrame
<1>4. Air(w) => Air(n)
  BY <1>3 DEF Air, CcSays, Calm
<1>5. Rests(w) => Rests(n)
  BY <1>3 DEF Rests, CcSays, Calm
<1>6. ASSUME OwedAs(w, ref, r.t)  PROVE Owed(n)
  <2> SUFFICES ASSUME NEW s \in Refs  PROVE Owes(n, s, n.trans[s])
    BY DEF Owed
  <2>1. \A prims : Says(w.mmxx, s, prims) => Says(n.mmxx, s, prims)
    BY DEF CcSays, Says
  <2>2. s # ref \/ r.conn # "REL_REQ" =>
          /\ HasRef(w.mm.conns, s) => HasRef(n.mm.conns, s)
          /\ Pend(s) \in Elems(w.mm.conns) => Pend(s) \in Elems(n.mm.conns)
    BY DEF CcSays, HasRef, Pend
  <2>3. CASE s # ref
    <3>1. Owes(w, s, w.trans[s]) /\ n.trans[s] = w.trans[s]
      BY <1>2, <1>6, <2>3 DEF OwedAs
    <3> QED
      BY <2>1, <2>2, <2>3, <3>1 DEF Owes
  <2>4. CASE s = ref
    <3>1. Owes(w, s, r.t) /\ n.trans[s] = r.t
      BY <1>2, <1>6, <2>4 DEF OwedAs
    <3>2. r.conn = "REL_REQ" => ~IsLive(r.t) /\ ~IsPend(r.t)
      BY DEF CcMay, CcOk, IsLive, IsPend, CC!Free
    <3> QED
      BY <2>1, <2>2, <3>1, <3>2 DEF Owes
  <2> QED
    BY <2>3, <2>4
<1>7. NoCnf(w) => NoCnf(n)
  BY DEF NoCnf, CcSays
<1>8. ASSUME Confirmed(w),
             IsPend(r.t) \/ ~Says(w.mmxx, ref, {"EST_CNF"})
      PROVE  Confirmed(n)
  <2> SUFFICES ASSUME NEW i \in DOMAIN n.mmxx, n.mmxx[i].p = "EST_CNF"
               PROVE  /\ IsPend(n.trans[n.mmxx[i].ref])
                      /\ Pend(n.mmxx[i].ref) \notin Elems(n.mm.conns)
                      /\ \A j \in DOMAIN n.mmxx :
                           j < i /\ n.mmxx[j].ref = n.mmxx[i].ref
                             => n.mmxx[j].p = "SYNC_IND"
    BY DEF Confirmed
  <2>1. /\ i \in DOMAIN w.mmxx /\ n.mmxx[i] = w.mmxx[i]
        /\ \A j \in DOMAIN n.mmxx :
             j < i => j \in DOMAIN w.mmxx /\ n.mmxx[j] = w.mmxx[j]
    BY DEF CcSays
  <2> DEFINE s == w.mmxx[i].ref
  <2>2. /\ IsPend(w.trans[s]) /\ Pend(s) \notin Elems(w.mm.conns)
        /\ \A j \in DOMAIN w.mmxx :
             j < i /\ w.mmxx[j].ref = s => w.mmxx[j].p = "SYNC_IND"
    BY <1>8, <2>1 DEF Confirmed
  <2>3. s \in Refs /\ Says(w.mmxx, s, {"EST_CNF"})
    <3>1. w.mmxx \in Seq(Entry)
      BY <1>1, WorldIs DEF MmxxQueues
    <3>2. w.mmxx[i] \in Entry /\ w.mmxx[i] \in Elems(w.mmxx)
      BY <2>1, <3>1, ElemsOfSeq
    <3> QED
      BY <2>1, <3>2 DEF Says, Entry
  <2> HIDE DEF s
  <2>4. IsPend(n.trans[s])
    BY <1>2, <1>8, <2>2, <2>3
  <2>5. Pend(s) \notin Elems(n.mm.conns)
    BY <2>2 DEF CcSays
  <2> QED
    BY <2>1, <2>2, <2>4, <2>5 DEF s
<1> QED
  BY <1>4, <1>5, <1>6, <1>7, <1>8

\* Everything that a step of call control without a new connection keeps.
CcKept(w, ref, r, n) ==
  /\ Base(n) /\ (Air(w) => Air(n)) /\ (Rests(w) => Rests(n))
  /\ OwedAs(w, ref, r.t) => Owed(n)
  /\ NoCnf(w) => NoCnf(n)
  /\ Confirmed(w) /\ (IsPend(r.t) \/ ~Says(w.mmxx, ref, {"EST_CNF"}))
       => Confirmed(n)
  /\ n.rrUp = w.rrUp /\ n.calls = w.calls
  /\ n.trans = [w.trans EXCEPT ![ref] = r.t]

LEMMA CcKeeps ==
  ASSUME NEW w, Base(w), NEW ref \in Refs, NEW r, CcMay(w, ref, r)
  PROVE  CcKept(w, ref, r, CcDoes(w, ref, r))
<1> DEFINE n == CcDoes(w, ref, r)
<1> HIDE DEF n
<1>1. w \in Worlds /\ Sane(w.mm) /\ CcOk(w.trans[ref], r)
  BY DEF Base, CcMay
<1>2. CcFrame(w, ref, r, n) /\ CcSays(w, ref, r, n)
  BY <1>1, CcSaysIt DEF n
<1>3. n.rrUp = w.rrUp /\ n.calls = w.calls
      /\ n.trans = [w.trans EXCEPT ![ref] = r.t]
  BY <1>2 DEF CcFrame
<1>4. CcKept(w, ref, r, n)
  BY <1>2, <1>3, CcKeepsBase, CcKeepsRest DEF CcKept
<1> QED
  BY <1>4 DEF n

-----------------------------------------------------------------------------
(***************************************************************************)
(* A step of MM.                                                            *)
(***************************************************************************)
LEMMA MmSaysIt ==
  ASSUME NEW w \in Worlds, NEW r, r.up \in Seq(Entry), NEW n, MmFrame(w, r, n)
  PROVE  /\ Elems(n.mmxx) = Elems(w.mmxx) \cup Elems(r.up)
         /\ \A i \in DOMAIN n.mmxx :
              \/ /\ i \in DOMAIN w.mmxx /\ n.mmxx[i] = w.mmxx[i]
                 /\ \A j \in DOMAIN n.mmxx :
                      j < i => j \in DOMAIN w.mmxx /\ n.mmxx[j] = w.mmxx[j]
              \/ /\ i - Len(w.mmxx) \in DOMAIN r.up
                 /\ n.mmxx[i] = r.up[i - Len(w.mmxx)]
<1> DEFINE q == w.mmxx
           u == r.up
<1>1. n.mmxx = q \o u
  BY DEF MmFrame
<1>2. q \in Seq(Entry) /\ u \in Seq(Entry)
  BY WorldIs DEF MmxxQueues
<1> HIDE DEF q, u
<1>3. Elems(q \o u) = Elems(q) \cup Elems(u)
  BY <1>2, ElemsOfCat
<1>4. \A i \in DOMAIN (q \o u) :
        \/ i \in DOMAIN q /\ (q \o u)[i] = q[i]
        \/ i - Len(q) \in DOMAIN u /\ (q \o u)[i] = u[i - Len(q)]
  BY <1>2, CatIs
<1>5. \A i \in DOMAIN q, j \in DOMAIN (q \o u) :
        j < i => j \in DOMAIN q /\ (q \o u)[j] = q[j]
  BY <1>2
<1> QED
  BY <1>1, <1>3, <1>4, <1>5 DEF q, u

LEMMA MmKeepsBase ==
  ASSUME NEW w, Base(w), NEW r, Handles(w.mm, r), NEW n, MmFrame(w, r, n)
  PROVE  Base(n) /\ (Owed(w) => Owed(n))
<1>1. /\ Sane(n.mm) /\ Asks(w.mm, n.mm)
      /\ Answered(w.mm.conns, n.mm.conns, r.up)
      /\ NoneNew(w.mm.conns, n.mm.conns)
      /\ Truthful(w.mm.conns, n.mm.conns, r.up) /\ r.up \in Seq(Entry)
  BY DEF Handles, Serves, MmFrame
<1>2. /\ n \in Worlds /\ n.trans = w.trans /\ n.link = w.link
      /\ n.calls = w.calls /\ n.rrUp = w.rrUp /\ n.mncc = w.mncc
  BY DEF MmFrame
<1>3. Elems(n.mmxx) = Elems(w.mmxx) \cup Elems(r.up)
  BY <1>1, MmSaysIt DEF Base
<1>4. HasPend(n.mm) => HasPend(w.mm)
  BY <1>1 DEF NoneNew, HasPend
<1>5. Unasked(n)
  BY <1>1, <1>2, <1>4 DEF Base, Unasked, Asks
<1>6. Waits(n)
  <2> SUFFICES ASSUME n.mm.state \in Asking, NEW s \in Refs,
                      Pend(s) \in Elems(n.mm.conns)
               PROVE  IsPend(n.trans[s])
    BY DEF Waits
  <2>1. HasPend(n.mm) /\ Pend(s) \in Elems(w.mm.conns)
    BY <1>1 DEF HasPend, Pend, NoneNew
  <2>2. w.mm.state \in Asking
    BY <1>1, <2>1 DEF Asks
  <2> QED
    BY <1>2, <2>1, <2>2 DEF Base, Waits
<1>7. Released(n)
  <2> SUFFICES ASSUME NEW e \in Elems(n.mmxx), e.p \in Ended
               PROVE  ~HasRef(n.mm.conns, e.ref)
    BY DEF Released
  <2>1. CASE e \in Elems(r.up)
    BY <1>1, <2>1 DEF Truthful
  <2>2. CASE e \in Elems(w.mmxx)
    <3>1. ~HasRef(w.mm.conns, e.ref)
      BY <2>2 DEF Base, Released
    <3> QED
      BY <1>1, <3>1 DEF NoneNew, HasRef
  <2> QED
    BY <1>3, <2>1, <2>2
<1>8. Unknown(n) /\ Early(n) /\ TimedCalls(n)
  BY <1>2 DEF Base, Unknown, Early, TimedCalls
<1>9. ASSUME Owed(w)  PROVE Owed(n)
  <2> SUFFICES ASSUME NEW s \in Refs  PROVE Owes(n, s, w.trans[s])
    BY <1>2 DEF Owed
  <2>1. Owes(w, s, w.trans[s])
    BY <1>9 DEF Owed
  <2>2. \A prims : Says(w.mmxx, s, prims) \/ Says(r.up, s, prims)
                     => Says(n.mmxx, s, prims)
    BY <1>3 DEF Says
  <2>3. HasRef(w.mm.conns, s) => HasRef(n.mm.conns, s) \/ Says(r.up, s, Ended)
    BY <1>1 DEF Answered, HasRef
  <2>4. Pend(s) \in Elems(w.mm.conns) =>
          \/ Pend(s) \in Elems(n.mm.conns)
          \/ Says(r.up, s, Ended \cup {"EST_CNF"})
    BY <1>1 DEF Answered, Pend
  <2> QED
    BY <2>1, <2>2, <2>3, <2>4 DEF Owes
<1> QED
  BY <1>1, <1>2, <1>5, <1>6, <1>7, <1>8, <1>9 DEF Base

LEMMA MmKeepsConfirmed ==
  ASSUME NEW w, Base(w), Confirmed(w), NEW r, Handles(w.mm, r),
         Mute(r) \/ (HasPend(w.mm) => w.mm.state \in Asking),
         NEW n, MmFrame(w, r, n)
  PROVE  Confirmed(n)
<1>1. /\ NoneNew(w.mm.conns, n.mm.conns) /\ Uniq(r.up)
      /\ Truthful(w.mm.conns, n.mm.conns, r.up) /\ r.up \in Seq(Entry)
  BY DEF Handles, Serves, MmFrame
<1>2. n.trans = w.trans /\ w \in Worlds
  BY DEF MmFrame, Base
<1>3. \A i \in DOMAIN n.mmxx :
        \/ /\ i \in DOMAIN w.mmxx /\ n.mmxx[i] = w.mmxx[i]
           /\ \A j \in DOMAIN n.mmxx :
                j < i => j \in DOMAIN w.mmxx /\ n.mmxx[j] = w.mmxx[j]
        \/ /\ i - Len(w.mmxx) \in DOMAIN r.up
           /\ n.mmxx[i] = r.up[i - Len(w.mmxx)]
  BY <1>1, <1>2, MmSaysIt
<1>4. w.mmxx \in Seq(Entry)
  BY <1>2, WorldIs DEF MmxxQueues
<1> SUFFICES ASSUME NEW i \in DOMAIN n.mmxx, n.mmxx[i].p = "EST_CNF"
             PROVE  /\ IsPend(n.trans[n.mmxx[i].ref])
                    /\ Pend(n.mmxx[i].ref) \notin Elems(n.mm.conns)
                    /\ \A j \in DOMAIN n.mmxx :
                         j < i /\ n.mmxx[j].ref = n.mmxx[i].ref
                           => n.mmxx[j].p = "SYNC_IND"
  BY DEF Confirmed
<1>5. CASE /\ i \in DOMAIN w.mmxx /\ n.mmxx[i] = w.mmxx[i]
           /\ \A j \in DOMAIN n.mmxx :
                j < i => j \in DOMAIN w.mmxx /\ n.mmxx[j] = w.mmxx[j]
  <2> DEFINE s == w.mmxx[i].ref
  <2>1. /\ IsPend(w.trans[s]) /\ Pend(s) \notin Elems(w.mm.conns)
        /\ \A j \in DOMAIN w.mmxx :
             j < i /\ w.mmxx[j].ref = s => w.mmxx[j].p = "SYNC_IND"
    BY <1>5 DEF Confirmed
  <2> HIDE DEF s
  <2>2. Pend(s) \notin Elems(n.mm.conns)
    BY <1>1, <2>1 DEF NoneNew, Pend
  <2> QED
    BY <1>2, <1>5, <2>1, <2>2 DEF s
<1>6. CASE /\ i - Len(w.mmxx) \in DOMAIN r.up
           /\ n.mmxx[i] = r.up[i - Len(w.mmxx)]
  <2> DEFINE k == i - Len(w.mmxx)
             e == r.up[k]
  <2>1. k \in DOMAIN r.up /\ n.mmxx[i] = e /\ e.p = "EST_CNF"
    BY <1>6
  <2>2. e \in Elems(r.up)
    BY <2>1 DEF Elems
  <2>3. ~Mute(r)
    BY <2>1, <2>2 DEF Mute
  <2>4. /\ Pend(e.ref) \in Elems(w.mm.conns)
        /\ Pend(e.ref) \notin Elems(n.mm.conns)
    BY <1>1, <2>1, <2>2 DEF Truthful
  <2>5. HasPend(w.mm) /\ HasRef(w.mm.conns, e.ref)
    BY <2>4 DEF HasPend, HasRef, Pend
  <2>6. e \in Entry
    BY <1>1, <2>2, ElemsOfSeq
  <2>7. IsPend(n.trans[e.ref])
    <3>1. w.mm.state \in Asking /\ e.ref \in Refs
      BY <2>3, <2>5, <2>6 DEF Entry
    <3> QED
      BY <1>2, <2>4, <3>1 DEF Base, Waits
  <2>8. ASSUME NEW j \in DOMAIN n.mmxx, j < i, n.mmxx[j].ref = e.ref
        PROVE  n.mmxx[j].p = "SYNC_IND"
    <3>1. CASE j \in DOMAIN w.mmxx /\ n.mmxx[j] = w.mmxx[j]
      <4> DEFINE d == w.mmxx[j]
      <4>1. d \in Entry /\ d \in Elems(w.mmxx)
        BY <1>4, <3>1, ElemsOfSeq
      <4>2. d.p \notin Ended
        BY <2>5, <2>8, <3>1, <4>1 DEF Base, Released
      <4>3. d.p # "EST_CNF"
        <5> SUFFICES ASSUME d.p = "EST_CNF"  PROVE FALSE
          OBVIOUS
        <5>1. Pend(d.ref) \notin Elems(w.mm.conns)
          BY <3>1 DEF Confirmed
        <5> QED
          BY <2>4, <2>8, <3>1, <5>1
      <4> QED
        BY <3>1, <4>1, <4>2, <4>3 DEF Entry, MmPrims
    <3>2. CASE /\ j - Len(w.mmxx) \in DOMAIN r.up
               /\ n.mmxx[j] = r.up[j - Len(w.mmxx)]
      <4>1. j - Len(w.mmxx) = k
        BY <1>1, <2>1, <2>8, <3>2 DEF Uniq
      <4>2. j \in Int /\ i \in Int /\ Len(w.mmxx) \in Int
        <5>1. n.mmxx \in Seq(Entry)
          BY WorldIs DEF MmFrame, MmxxQueues
        <5> QED
          BY <1>4, <5>1
      <4> QED
        BY <2>8, <4>1, <4>2
    <3> QED
      BY <1>3, <3>1, <3>2
  <2> HIDE DEF e
  <2> QED
    BY <2>1, <2>4, <2>7, <2>8
<1> QED
  BY <1>3, <1>5, <1>6

\* Everything that a step of MM keeps that asks nothing of RR.
MmKept(w, r, n) ==
  /\ Base(n) /\ (Owed(w) => Owed(n)) /\ MmFrame(w, r, n)
  /\ Mute(r) /\ NoCnf(w) => NoCnf(n)
  /\ Confirmed(w) /\ (Mute(r) \/ (HasPend(w.mm) => w.mm.state \in Asking))
       => Confirmed(n)
  /\ (Air(w) /\ (HasDedic(r.mm) => HasDedic(w.mm))) => Air(n)
  /\ (Rests(w) /\ (w.mm.state = "IDLE" => r.mm.state = "IDLE")) => Rests(n)

LEMMA MmKeeps ==
  ASSUME NEW w, Base(w), NEW r, Handles(w.mm, r), r.rr = "none"
  PROVE  MmKept(w, r, MmDoes(w, r))
<1> DEFINE n == MmDoes(w, r)
<1> HIDE DEF n
<1>1. w \in Worlds /\ MmActs(r)
  BY DEF Base, MmActs, Handles, Serves, Sane, MmxxQueues
<1>2. MmFrame(w, r, n)
  BY <1>1, MmDoesIs DEF n
<1>3. Base(n) /\ (Owed(w) => Owed(n))
  BY <1>2, MmKeepsBase
<1>4. Mute(r) /\ NoCnf(w) => NoCnf(n)
  <2>1. r.up \in Seq(Entry)
    BY DEF Handles, Serves
  <2>2. Elems(n.mmxx) = Elems(w.mmxx) \cup Elems(r.up)
    BY <1>1, <1>2, <2>1, MmSaysIt
  <2> QED
    BY <2>2 DEF NoCnf, Mute
<1>5. Confirmed(w) /\ (Mute(r) \/ (HasPend(w.mm) => w.mm.state \in Asking))
        => Confirmed(n)
  BY <1>2, MmKeepsConfirmed
<1>6. n.mm = r.mm /\ n.link = w.link /\ n.rrUp = w.rrUp
      /\ n.events = w.events
  BY <1>2 DEF MmFrame
<1>7. (Air(w) /\ (HasDedic(r.mm) => HasDedic(w.mm))) => Air(n)
  BY <1>6 DEF Air
<1>8. (Rests(w) /\ (w.mm.state = "IDLE" => r.mm.state = "IDLE")) => Rests(n)
  BY <1>6 DEF Rests
<1>9. MmKept(w, r, n)
  BY <1>2, <1>3, <1>4, <1>5, <1>7, <1>8 DEF MmKept
<1> QED
  BY <1>9 DEF n

-----------------------------------------------------------------------------
(***************************************************************************)
(* An entry is taken from a queue.                                          *)
(***************************************************************************)
LEMMA TailIs ==
  ASSUME NEW T, NEW q \in Seq(T), q # <<>>
  PROVE  /\ 1 \in DOMAIN q /\ Head(q) = q[1] /\ Tail(q) \in Seq(T)
         /\ \A i \in DOMAIN Tail(q) : i + 1 \in DOMAIN q
                                      /\ Tail(q)[i] = q[i + 1] /\ i >= 1
         /\ \A i \in DOMAIN q : i = 1 \/ (i - 1 \in DOMAIN Tail(q)
                                          /\ Tail(q)[i - 1] = q[i] /\ i > 1)
OBVIOUS

FallPrims == {"REL_IND", "ABORT_IND"}

\* What is known of the entry e that was taken from rr_upqueue.
RrEntryOk(w, e) ==
  /\ e \in RrEntries
  /\ e.p \notin FallPrims => Air(w) /\ Rests(w)
  /\ ~OnAir(w.link) => Covered(w.rrUp) /\ (e.p \in Raising => HasFall(w.rrUp))
  /\ e.p = "CM_SERV_ACC" /\ HasPend(w.mm) => w.mm.state \in Asking
  /\ e.p \in CC!Messages /\ e.ref \in Refs => ~IsPend(w.trans[e.ref])

LEMMA PopRr ==
  ASSUME NEW v, Good(v), v.rrUp # <<>>,
         NEW w, w = [v EXCEPT !.rrUp = Tail(@)], NEW e, e = Head(v.rrUp)
  PROVE  /\ Base(w) /\ Owed(w) /\ RrEntryOk(w, e)
         /\ w.mmxx = v.mmxx /\ w.trans = v.trans /\ w.calls = v.calls
         /\ w.events = v.events /\ w.mncc = v.mncc
         /\ (NoCnf(v) => NoCnf(w)) /\ (Confirmed(v) => Confirmed(w))
<1> DEFINE q == v.rrUp
           t == Tail(q)
<1>1. v \in Worlds /\ q \in Seq(RrEntries)
  BY WorldIs DEF Good, Base, RrQueues
<1>2. /\ t \in Seq(RrEntries) /\ e \in RrEntries
      /\ Elems(q) = {e} \cup Elems(t)
  BY <1>1, ElemsOfTail
<1>3. /\ w \in Worlds /\ w.rrUp = t
      /\ w.mmxx = v.mmxx /\ w.trans = v.trans /\ w.calls = v.calls
      /\ w.events = v.events /\ w.mncc = v.mncc /\ w.link = v.link
      /\ w.mm = v.mm
  BY <1>1, <1>2 DEF Worlds, RrQueues
<1>4. /\ 1 \in DOMAIN q /\ e = q[1]
      /\ \A i \in DOMAIN t : i + 1 \in DOMAIN q /\ t[i] = q[i + 1] /\ i \in Int
      /\ \A i \in DOMAIN q : i = 1 \/ (i - 1 \in DOMAIN t /\ t[i - 1] = q[i])
      /\ \A i \in DOMAIN q : i \in Int
  BY <1>1, TailIs
<1>5. Elems(t) \subseteq Elems(v.rrUp) /\ e \in Elems(v.rrUp)
  BY <1>2
<1>6. Base(w)
  BY <1>3, <1>5 DEF Good, Base, Unasked, Waits, Released, Unknown, Early,
                    TimedCalls
<1>7. Owed(w) /\ (NoCnf(v) => NoCnf(w)) /\ (Confirmed(v) => Confirmed(w))
  <2> HIDE DEF t, q
  <2>1. Owed(w)
    BY <1>3 DEF Good, Owed, Owes
  <2>2. NoCnf(v) => NoCnf(w)
    BY <1>3 DEF NoCnf
  <2>3. Confirmed(v) => Confirmed(w)
    BY <1>3 DEF Confirmed
  <2> QED
    BY <2>1, <2>2, <2>3
<1>8. HasFall(q) => HasFall(t) \/ e.p \in FallPrims
  BY <1>2 DEF HasFall, FallPrims
<1>9. ASSUME Covered(q)
      PROVE  Covered(t) /\ (e.p \in Raising => HasFall(t))
  <2> HIDE DEF t, q
  <2>1. ASSUME NEW i \in DOMAIN t, t[i].p \in Raising
        PROVE  \E j \in DOMAIN t : j > i /\ t[j].p \in FallPrims
    <3>1. PICK j \in DOMAIN q : j > i + 1 /\ q[j].p \in FallPrims
      BY <1>4, <1>9, <2>1 DEF Covered, FallPrims
    <3>2. j - 1 \in DOMAIN t /\ t[j - 1] = q[j] /\ j - 1 > i
      <4>1. i \in Int /\ j \in Int /\ i >= 1
        BY <1>2, <1>4, <2>1
      <4> QED
        BY <1>4, <3>1, <4>1
    <3> QED
      BY <3>1, <3>2
  <2>2. ASSUME e.p \in Raising  PROVE HasFall(t)
    <3>1. PICK j \in DOMAIN q : j > 1 /\ q[j].p \in FallPrims
      BY <1>4, <1>9, <2>2 DEF Covered, FallPrims
    <3>2. j - 1 \in DOMAIN t /\ t[j - 1] = q[j]
      BY <1>4, <3>1
    <3> QED
      BY <3>1, <3>2 DEF HasFall, Elems, FallPrims
  <2> QED
    BY <2>1, <2>2 DEF Covered, FallPrims
<1>10. Air(v) /\ Rests(v)
  BY DEF Good
<1> HIDE DEF t, q
<1>11. v.rrUp = q
  BY DEF q
<1>12. e.p \notin FallPrims => Air(w) /\ Rests(w)
  BY <1>3, <1>8, <1>9, <1>10, <1>11 DEF Air, Rests
<1>13. ~OnAir(w.link) =>
         Covered(w.rrUp) /\ (e.p \in Raising => HasFall(w.rrUp))
  BY <1>3, <1>9, <1>10, <1>11 DEF Air
<1>14. e.p = "CM_SERV_ACC" /\ HasPend(w.mm) => w.mm.state \in Asking
  BY <1>3, <1>5 DEF Good, Base, Unasked
<1>15. e.p \in CC!Messages /\ e.ref \in Refs => ~IsPend(w.trans[e.ref])
  BY <1>3, <1>5 DEF Good, Base, Unknown
<1> QED
  BY <1>2, <1>3, <1>6, <1>7, <1>12, <1>13, <1>14, <1>15 DEF RrEntryOk

\* What is known of the entry e that was taken from mmxx_upqueue.
MmxxEntryOk(w, e) ==
  /\ e \in Entry
  /\ e.p \in Ended => ~HasRef(w.mm.conns, e.ref)
  /\ e.p = "EST_CNF" => /\ IsPend(w.trans[e.ref])
                        /\ Pend(e.ref) \notin Elems(w.mm.conns)
  /\ e.p # "SYNC_IND" => ~Says(w.mmxx, e.ref, {"EST_CNF"})
  /\ \A s \in Refs \ {e.ref} : Owes(w, s, w.trans[s])
  /\ e.p \notin Ended => (IsLive(w.trans[e.ref]) =>
       HasRef(w.mm.conns, e.ref) \/ Says(w.mmxx, e.ref, Ended))
  /\ e.p = "SYNC_IND" => Owes(w, e.ref, w.trans[e.ref])

LEMMA PopMmxx ==
  ASSUME NEW v, Good(v), Confirmed(v), v.mmxx # <<>>,
         NEW w, w = [v EXCEPT !.mmxx = Tail(@)], NEW e, e = Head(v.mmxx)
  PROVE  /\ Base(w) /\ Air(w) /\ Rests(w) /\ MmxxEntryOk(w, e)
         /\ Confirmed(w) /\ w.rrUp = v.rrUp /\ w.trans = v.trans
<1> DEFINE q == v.mmxx
           t == Tail(q)
<1>1. v \in Worlds /\ q \in Seq(Entry)
  BY WorldIs DEF Good, Base, MmxxQueues
<1>2. /\ t \in Seq(Entry) /\ e \in Entry
      /\ Elems(q) = {e} \cup Elems(t)
  BY <1>1, ElemsOfTail
<1>3. /\ w \in Worlds /\ w.mmxx = t
      /\ w.rrUp = v.rrUp /\ w.trans = v.trans /\ w.calls = v.calls
      /\ w.events = v.events /\ w.mncc = v.mncc /\ w.link = v.link
      /\ w.mm = v.mm
  BY <1>1, <1>2 DEF Worlds, MmxxQueues
<1>4. /\ 1 \in DOMAIN q /\ e = q[1]
      /\ \A i \in DOMAIN t : i + 1 \in DOMAIN q /\ t[i] = q[i + 1]
                             /\ i \in Int /\ i >= 1
  BY <1>1, TailIs
<1> HIDE DEF t, q
<1>5. v.mmxx = q
  BY DEF q
<1>6. Elems(t) \subseteq Elems(q) /\ e \in Elems(q)
  BY <1>2
<1>7. Base(w) /\ Air(w) /\ Rests(w)
  BY <1>3, <1>5, <1>6 DEF Good, Base, Unasked, Waits, Released, Unknown,
                    Early, TimedCalls, Air, Rests
<1>8. Confirmed(w)
  <2> SUFFICES ASSUME NEW i \in DOMAIN t, t[i].p = "EST_CNF"
               PROVE  /\ IsPend(v.trans[t[i].ref])
                      /\ Pend(t[i].ref) \notin Elems(v.mm.conns)
                      /\ \A j \in DOMAIN t :
                           j < i /\ t[j].ref = t[i].ref => t[j].p = "SYNC_IND"
    BY <1>3 DEF Confirmed
  <2>1. i + 1 \in DOMAIN q /\ q[i + 1] = t[i]
    BY <1>4
  <2>2. /\ IsPend(v.trans[t[i].ref])
        /\ Pend(t[i].ref) \notin Elems(v.mm.conns)
        /\ \A j \in DOMAIN q :
             j < i + 1 /\ q[j].ref = t[i].ref => q[j].p = "SYNC_IND"
    BY <1>5, <2>1 DEF Confirmed
  <2>3. ASSUME NEW j \in DOMAIN t, j < i, t[j].ref = t[i].ref
        PROVE  t[j].p = "SYNC_IND"
    BY <1>4, <2>2, <2>3
  <2> QED
    BY <2>2, <2>3
<1>9. e.p \in Ended => ~HasRef(w.mm.conns, e.ref)
  BY <1>3, <1>5, <1>6 DEF Good, Base, Released
<1>10. e.p = "EST_CNF" => /\ IsPend(w.trans[e.ref])
                          /\ Pend(e.ref) \notin Elems(w.mm.conns)
  BY <1>3, <1>4, <1>5 DEF Confirmed
<1>11. e.p # "SYNC_IND" => ~Says(w.mmxx, e.ref, {"EST_CNF"})
  <2> SUFFICES ASSUME Says(t, e.ref, {"EST_CNF"})  PROVE e.p = "SYNC_IND"
    BY <1>3
  <2>1. PICK i \in DOMAIN t : t[i].ref = e.ref /\ t[i].p = "EST_CNF"
    BY DEF Says, Elems
  <2>2. i + 1 \in DOMAIN q /\ q[i + 1] = t[i] /\ 1 < i + 1
    BY <1>4
  <2> QED
    BY <1>4, <1>5, <2>1, <2>2 DEF Confirmed
<1>12. \A s, prims : Says(q, s, prims) =>
         Says(t, s, prims) \/ (s = e.ref /\ e.p \in prims)
  BY <1>2 DEF Says
<1>13. \A s \in Refs : Owes(v, s, v.trans[s])
  BY DEF Good, Owed
<1>14. \A s \in Refs \ {e.ref} : Owes(w, s, w.trans[s])
  BY <1>3, <1>5, <1>12, <1>13 DEF Owes
<1>15. e.ref \in Refs
  BY <1>2 DEF Entry
<1>16. e.p \notin Ended => (IsLive(w.trans[e.ref]) =>
         HasRef(w.mm.conns, e.ref) \/ Says(w.mmxx, e.ref, Ended))
  BY <1>3, <1>5, <1>12, <1>13, <1>15 DEF Owes
<1>17. e.p = "SYNC_IND" => Owes(w, e.ref, w.trans[e.ref])
  <2>1. e.p = "SYNC_IND" =>
          e.p \notin Ended /\ e.p \notin Ended \cup {"EST_CNF"}
    BY DEF Ended
  <2> QED
    BY <1>3, <1>5, <1>12, <1>13, <1>15, <2>1 DEF Owes
<1> QED
  BY <1>2, <1>3, <1>7, <1>8, <1>9, <1>10, <1>11, <1>14, <1>16, <1>17
     DEF MmxxEntryOk

-----------------------------------------------------------------------------
(***************************************************************************)
(* Deliveries.                                                              *)
(***************************************************************************)
\* No step brings a call back.
Onward(t, u) == ~IsLive(u) \/ Phase(u) >= Phase(t)

Forward(w, n) == \A s \in Refs : Onward(w.trans[s], n.trans[s])

LEMMA SameForward ==
  ASSUME NEW w \in Worlds, NEW n, n.trans = w.trans
  PROVE  Forward(w, n)
<1> SUFFICES ASSUME NEW s \in Refs  PROVE Onward(w.trans[s], w.trans[s])
  BY DEF Forward
<1>1. w.trans[s] \in CC!Transactions
  BY WorldIs DEF Transes
<1>2. Phase(w.trans[s]) \in 0 .. 7
  BY <1>1, PhaseIs, TransactionIs
<1> QED
  BY <1>2 DEF Onward

LEMMA CcForward ==
  ASSUME NEW w \in Worlds, NEW ref \in Refs, NEW r, CcOk(w.trans[ref], r),
         NEW n, n.trans = [w.trans EXCEPT ![ref] = r.t]
  PROVE  Forward(w, n)
<1> SUFFICES ASSUME NEW s \in Refs  PROVE Onward(w.trans[s], n.trans[s])
  BY DEF Forward
<1>1. w.trans \in Transes
  BY WorldIs
<1>2. CASE s = ref
  BY <1>1, <1>2 DEF Onward, CcOk, Transes
<1>3. CASE s # ref
  <2>1. n.trans[s] = w.trans[s] /\ w.trans[s] \in CC!Transactions
    BY <1>1, <1>3 DEF Transes
  <2>2. Phase(w.trans[s]) \in 0 .. 7
    BY <2>1, PhaseIs, TransactionIs
  <2> QED
    BY <2>1, <2>2 DEF Onward
<1> QED
  BY <1>2, <1>3

\* The messages of call control, by name: no primitive of MM is one.
DataMessages ==
  {"CALL_PROC", "CALL_PROC_PROGRESS", "ALERTING", "PROGRESS", "FACILITY",
   "CONNECT", "SETUP", "CONNECT_ACK", "HOLD_ACK", "RETR_ACK", "MODIFY",
   "DISCONNECT", "RELEASE", "RELEASE_COMPL"}

LEMMA MessagesAre == CC!Messages \subseteq DataMessages
<1>1. \A r \in CC!RxCallProceeding : r.msg \in DataMessages
  BY DEF CC!RxCallProceeding, CC!Row, DataMessages
<1>2. \A r \in CC!RxAlerting : r.msg \in DataMessages
  BY DEF CC!RxAlerting, CC!Row, DataMessages
<1>3. \A r \in CC!RxProgress : r.msg \in DataMessages
  BY DEF CC!RxProgress, CC!Row, DataMessages
<1>4. \A r \in CC!RxFacility : r.msg \in DataMessages
  BY DEF CC!RxFacility, CC!Row, DataMessages
<1>5. \A r \in CC!RxConnect : r.msg \in DataMessages
  BY DEF CC!RxConnect, CC!Row, DataMessages
<1>6. \A r \in CC!RxSetup : r.msg \in DataMessages
  BY DEF CC!RxSetup, CC!Row, DataMessages
<1>7. \A r \in CC!RxConnectAck : r.msg \in DataMessages
  BY DEF CC!RxConnectAck, CC!Row, DataMessages
<1>8. \A r \in CC!RxHoldAck : r.msg \in DataMessages
  BY DEF CC!RxHoldAck, CC!Row, DataMessages
<1>9. \A r \in CC!RxRetrieveAck : r.msg \in DataMessages
  BY DEF CC!RxRetrieveAck, CC!Row, DataMessages
<1>10. \A r \in CC!RxModify : r.msg \in DataMessages
  BY DEF CC!RxModify, CC!Row, DataMessages
<1>11. \A r \in CC!RxDisconnect : r.msg \in DataMessages
  BY DEF CC!RxDisconnect, CC!Row, DataMessages
<1>12. \A r \in CC!RxRelease : r.msg \in DataMessages
  BY DEF CC!RxRelease, CC!Row, DataMessages
<1>13. \A r \in CC!RxReleaseCompl : r.msg \in DataMessages
  BY DEF CC!RxReleaseCompl, CC!Row, DataMessages
<1> QED
  BY <1>1, <1>2, <1>3, <1>4, <1>5, <1>6, <1>7,
     <1>8, <1>9, <1>10, <1>11, <1>12, <1>13 DEF CC!Messages, CC!datastatelist

\* What a delivery leaves, and what it keeps on the way.
Delivered(w, n) ==
  Good(n) /\ Forward(w, n) /\ (Confirmed(w) => Confirmed(n))

\* A message of call control reaches the MM connection of its reference.
LEMMA ReachedKeeps ==
  ASSUME NEW v, Base(v), Owed(v), Air(v), Rests(v), NEW ref \in Refs,
         HasRef(v.mm.conns, ref) \/ ~Says(v.mmxx, ref, MmPrims),
         NEW w, w = [v EXCEPT !.mm = MM!Reached(@, ref)]
  PROVE  /\ Base(w) /\ Owed(w) /\ Air(w) /\ Rests(w)
         /\ (Confirmed(v) => Confirmed(w)) /\ w.trans = v.trans
         /\ w.mmxx = v.mmxx /\ HasRef(w.mm.conns, ref)
<1> DEFINE m == MM!Reached(v.mm, ref)
<1>1. v \in Worlds /\ Sane(v.mm)
  BY DEF Base
<1>2. /\ Sane(m) /\ Asks(v.mm, m) /\ Calm(v.mm, m)
      /\ Elems(v.mm.conns) \subseteq Elems(m.conns)
      /\ \A c \in Elems(m.conns) :
           \/ c \in Elems(v.mm.conns)
           \/ c = [ref |-> ref, st |-> "IDLE"] /\ ~HasRef(v.mm.conns, ref)
      /\ HasRef(m.conns, ref)
  BY <1>1, ReachedIs
<1>3. w = [v EXCEPT !.mm = m]
  OBVIOUS
<1> HIDE DEF m
<1>4. /\ w \in Worlds /\ w.mm = m /\ w.link = v.link /\ w.rrUp = v.rrUp
      /\ w.trans = v.trans /\ w.calls = v.calls /\ w.events = v.events
      /\ w.mncc = v.mncc /\ w.mmxx = v.mmxx
  BY <1>1, <1>2, <1>3 DEF Worlds, Sane
<1>5. /\ \A s : Pend(s) \in Elems(m.conns) <=> Pend(s) \in Elems(v.mm.conns)
      /\ \A s : HasRef(m.conns, s) => HasRef(v.mm.conns, s) \/ s = ref
      /\ \A s : HasRef(v.mm.conns, s) => HasRef(m.conns, s)
      /\ HasPend(m) => HasPend(v.mm)
  BY <1>2 DEF Pend, HasRef, HasPend
<1>6. Unasked(w)
  BY <1>2, <1>4, <1>5 DEF Base, Unasked, Asks
<1>7. Waits(w)
  <2> SUFFICES ASSUME m.state \in Asking, NEW s \in Refs,
                      Pend(s) \in Elems(m.conns)
               PROVE  IsPend(v.trans[s])
    BY <1>4 DEF Waits
  <2>1. Pend(s) \in Elems(v.mm.conns) /\ HasPend(m)
    BY <1>5 DEF HasPend, Pend
  <2> QED
    BY <1>2, <2>1 DEF Base, Waits, Asks
<1>8. Released(w)
  <2> SUFFICES ASSUME NEW e \in Elems(v.mmxx), e.p \in Ended
               PROVE  ~HasRef(m.conns, e.ref)
    BY <1>4 DEF Released
  <2>1. ~HasRef(v.mm.conns, e.ref)
    BY DEF Base, Released
  <2>2. Says(v.mmxx, e.ref, MmPrims)
    BY DEF Says, MmPrims
  <2> QED
    BY <1>5, <2>1, <2>2
<1>9. Unknown(w) /\ Early(w) /\ TimedCalls(w)
  BY <1>4 DEF Base, Unknown, Early, TimedCalls
<1>10. Owed(w)
  BY <1>4, <1>5 DEF Owed, Owes
<1>11. Air(w) /\ Rests(w)
  BY <1>2, <1>4 DEF Air, Rests, Calm
<1>12. Confirmed(v) => Confirmed(w)
  BY <1>4, <1>5 DEF Confirmed
<1>13. HasRef(w.mm.conns, ref)
  BY <1>2, <1>4
<1> QED
  BY <1>2, <1>4, <1>6, <1>7, <1>8, <1>9, <1>10, <1>11, <1>12, <1>13 DEF Base

LEMMA CcMessageKeeps ==
  ASSUME NEW v, Base(v), Owed(v), Air(v), Rests(v), NEW ref \in Refs,
         HasRef(v.mm.conns, ref) \/ ~Says(v.mmxx, ref, MmPrims),
         ~IsPend(v.trans[ref]), NEW msg
  PROVE  Delivered(v, CcMessage(v, msg, ref))
<1> DEFINE w == [v EXCEPT !.mm = MM!Reached(@, ref)]
           r == CC!DataInd(w.trans[ref], msg)
           n == CcDoes(w, ref, r)
<1>1. n = CcMessage(v, msg, ref)
  BY DEF CcMessage
<1>2. /\ Base(w) /\ Owed(w) /\ Air(w) /\ Rests(w)
      /\ (Confirmed(v) => Confirmed(w)) /\ w.trans = v.trans
      /\ w.mmxx = v.mmxx /\ HasRef(w.mm.conns, ref)
  BY ReachedKeeps
<1> HIDE DEF w
<1>3. w \in Worlds /\ w.trans[ref] \in CC!Transactions
  BY <1>2, WorldIs DEF Base, Transes
<1>4. CcOk(w.trans[ref], r) /\ ~IsPend(r.t)
  BY <1>2, <1>3, DataIndIs
<1> HIDE DEF r
<1>5. CcMay(w, ref, r)
  BY <1>2, <1>4 DEF CcMay
<1>6. CcKept(w, ref, r, n)
  BY <1>2, <1>5, CcKeeps
<1> HIDE DEF n
<1>7. OwedAs(w, ref, r.t)
  BY <1>2, <1>4 DEF OwedAs, Owed, Owes
<1>8. Good(n)
  BY <1>2, <1>6, <1>7 DEF CcKept, Good
<1>9. n.trans = [w.trans EXCEPT ![ref] = r.t]
  BY <1>6 DEF CcKept
<1>10. Forward(w, n)
  BY <1>3, <1>4, <1>9, CcForward
<1>11. Forward(v, n)
  BY <1>2, <1>10 DEF Forward
<1>12. Confirmed(v) => Confirmed(n)
  <2> SUFFICES ASSUME Confirmed(w), Says(w.mmxx, ref, {"EST_CNF"})
               PROVE  FALSE
    BY <1>2, <1>6 DEF CcKept
  <2>1. PICK i \in DOMAIN w.mmxx :
          w.mmxx[i].ref = ref /\ w.mmxx[i].p = "EST_CNF"
    BY DEF Says, Elems
  <2> QED
    BY <1>2, <2>1 DEF Confirmed
<1> QED
  BY <1>1, <1>8, <1>11, <1>12 DEF Delivered

\* A primitive of RR that MM takes and that asks nothing of RR.
LEMMA MmServed ==
  ASSUME NEW w, Base(w), Owed(w), NEW r, Handles(w.mm, r), r.rr = "none",
         Mute(r) \/ (HasPend(w.mm) => w.mm.state \in Asking),
         ~OnAir(w.link) => /\ HasDedic(r.mm) => HasFall(w.rrUp)
                           /\ Covered(w.rrUp),
         w.link.st = "camped" =>
           r.mm.state = "IDLE" \/ w.events # <<>> \/ HasFall(w.rrUp)
  PROVE  Delivered(w, MmDoes(w, r))
<1> DEFINE n == MmDoes(w, r)
<1> HIDE DEF n
<1>1. MmKept(w, r, n)
  BY MmKeeps DEF n
<1>2. /\ n.mm = r.mm /\ n.link = w.link /\ n.rrUp = w.rrUp
      /\ n.events = w.events /\ n.trans = w.trans
  BY <1>1 DEF MmKept, MmFrame
<1>3. Air(n) /\ Rests(n)
  BY <1>2 DEF Air, Rests
<1>4. Forward(w, n)
  BY <1>2, SameForward DEF Base
<1>5. Delivered(w, n)
  BY <1>1, <1>3, <1>4 DEF MmKept, Good, Delivered
<1> QED
  BY <1>5 DEF n

\* The same, when MM hears nothing of a connection.
LEMMA MmServedCalm ==
  ASSUME NEW w, Base(w), Owed(w), Air(w), Rests(w),
         NEW r, Handles(w.mm, r), r.rr = "none", Mute(r), Calm(w.mm, r.mm)
  PROVE  Delivered(w, MmDoes(w, r))
<1>1. ~OnAir(w.link) => /\ HasDedic(r.mm) => HasFall(w.rrUp)
                        /\ Covered(w.rrUp)
  BY DEF Air, Calm
<1>2. w.link.st = "camped" =>
        r.mm.state = "IDLE" \/ w.events # <<>> \/ HasFall(w.rrUp)
  BY DEF Rests, Calm
<1> QED
  BY <1>1, <1>2, MmServed

LEMMA RrMessageServed ==
  ASSUME NEW w, Base(w), Owed(w), NEW e, RrEntryOk(w, e),
         e.p \in CC!Messages, NEW n,
         n \in IF MM!HasConn(w.mm, e.ref) THEN {CcMessage(w, e.p, e.ref)}
               ELSE LET new == Fresh(w, MtRefs)
                    IN {CcMessage(w, e.p, r) : r \in new} \cup
                       (IF new = {} THEN {w} ELSE {})
  PROVE  Delivered(w, n)
<1>1. Air(w) /\ Rests(w)
  BY MessagesAre DEF RrEntryOk, DataMessages, FallPrims
<1>2. w \in Worlds /\ w.mm \in MM!MmLayers
  BY DEF Base, Sane
<1>3. CASE MM!HasConn(w.mm, e.ref)
  <2>1. HasRef(w.mm.conns, e.ref)
    BY <1>2, <1>3, PendingIs
  <2>2. e.ref \in Refs
    <3>1. w.mm.conns \in Seq(MmConns)
      BY <1>2, MmIs
    <3>2. PICK c \in Elems(w.mm.conns) : c.ref = e.ref
      BY <2>1 DEF HasRef
    <3> QED
      BY <3>1, <3>2, ConnIs DEF Base, Sane
  <2>3. ~IsPend(w.trans[e.ref])
    BY <2>2 DEF RrEntryOk
  <2>4. n = CcMessage(w, e.p, e.ref)
    BY <1>3
  <2> QED
    BY <1>1, <2>1, <2>2, <2>3, <2>4, CcMessageKeeps
<1>4. ASSUME ~MM!HasConn(w.mm, e.ref), NEW ref \in Fresh(w, MtRefs),
             n = CcMessage(w, e.p, ref)
      PROVE  Delivered(w, n)
  <2>1. ref \in Refs /\ ref \notin Mentioned(w)
    BY <1>4 DEF Fresh, Refs
  <2>2. ref \notin {r \in Refs : w.trans[r] # CC!Free}
    BY <2>1 DEF Mentioned
  <2>3. ~IsPend(w.trans[ref])
    BY <2>1, <2>2 DEF IsPend, CC!Free
  <2>4. ~Says(w.mmxx, ref, MmPrims)
    <3>1. ref \notin {w.mmxx[i].ref : i \in DOMAIN w.mmxx}
      BY <2>1 DEF Mentioned
    <3> QED
      BY <3>1 DEF Says, Elems
  <2> QED
    BY <1>1, <1>4, <2>1, <2>3, <2>4, CcMessageKeeps
<1>5. ASSUME n = w  PROVE Delivered(w, n)
  BY <1>1, <1>2, <1>5, SameForward DEF Delivered, Good
<1>6. CASE ~MM!HasConn(w.mm, e.ref)
  BY <1>4, <1>5, <1>6
<1> QED
  BY <1>3, <1>6

LEMMA RrServed ==
  ASSUME NEW w, Base(w), Owed(w), NEW e, RrEntryOk(w, e),
         NEW n \in RrDeliver(w, e)
  PROVE  Delivered(w, n)
<1>1. Sane(w.mm) /\ Camped(w) \in BOOLEAN
  BY DEF Base, Camped
<1>2. e.p \in RrPrims
  BY DEF RrEntryOk, RrEntries
<1>3. \A p \in {"EST_CNF", "EST_IND", "REL_IND", "ABORT_IND"}
               \cup MmMessages : p \notin CC!Messages
  BY MessagesAre DEF DataMessages, MmMessages
<1>4. CASE e.p = "EST_CNF"
  <2> DEFINE r == MM!EstCnf(w.mm)
  <2>1. n = MmDoes(w, r)
    BY <1>3, <1>4 DEF RrDeliver
  <2>2. Handles(w.mm, r) /\ Mute(r) /\ Calm(w.mm, r.mm) /\ r.rr = "none"
    BY <1>1, EstCnfIs
  <2> HIDE DEF r
  <2>3. Air(w) /\ Rests(w)
    BY <1>4 DEF RrEntryOk, FallPrims
  <2> QED
    BY <2>1, <2>2, <2>3, MmServedCalm
<1>5. CASE e.p = "EST_IND"
  <2> DEFINE r == MM!EstInd(w.mm)
  <2>1. n = MmDoes(w, r)
    BY <1>3, <1>5 DEF RrDeliver
  <2>2. Handles(w.mm, r) /\ Mute(r) /\ r.rr = "none"
        /\ (HasDedic(r.mm) => HasDedic(w.mm))
    BY <1>1, EstIndIs
  <2> HIDE DEF r
  <2>3. ~OnAir(w.link) => HasFall(w.rrUp) /\ Covered(w.rrUp)
    BY <1>5 DEF RrEntryOk, Raising
  <2>4. w.link.st = "camped" => ~OnAir(w.link)
    BY DEF OnAir
  <2> QED
    BY <2>1, <2>2, <2>3, <2>4, MmServed
<1>6. CASE e.p \in FallPrims
  <2>1. PICK p \in Ended : n = MmDoes(w, MM!RrGone(w.mm, p, Camped(w)))
    BY <1>3, <1>6 DEF RrDeliver, FallPrims, Ended
  <2> DEFINE r == MM!RrGone(w.mm, p, Camped(w))
  <2>2. /\ Handles(w.mm, r) /\ Mute(r) /\ r.rr = "none"
        /\ ~HasDedic(r.mm) /\ (Camped(w) => r.mm.state = "IDLE")
    BY <1>1, RrGoneIs
  <2>3. n = MmDoes(w, r)
    BY <2>1
  <2> HIDE DEF r
  <2>4. ~OnAir(w.link) => Covered(w.rrUp)
    BY DEF RrEntryOk
  <2> QED
    BY <2>2, <2>3, <2>4, MmServed DEF Camped
<1>7. CASE e.p = "SYNC_IND"
  <2> DEFINE r == MM!SyncInd(w.mm)
  <2>1. n = MmDoes(w, r)
    BY <1>3, <1>7 DEF RrDeliver, MmMessages
  <2>2. /\ Handles(w.mm, r) /\ r.rr = "none"
        /\ Mute(r) \/ w.mm.state \in Asking
        /\ w.mm.state = "IDLE" => r.mm.state = "IDLE"
    BY <1>1, SyncIndIs
  <2> HIDE DEF r
  <2>3. ~OnAir(w.link) => HasFall(w.rrUp) /\ Covered(w.rrUp)
    BY <1>7 DEF RrEntryOk, Raising
  <2>4. w.link.st = "camped" => ~OnAir(w.link)
    BY DEF OnAir
  <2> QED
    BY <2>1, <2>2, <2>3, <2>4, MmServed
<1>8. CASE e.p = "CM_SERV_ACC"
  <2> DEFINE r == MM!CmServAcc(w.mm)
  <2>1. n = MmDoes(w, r)
    BY <1>3, <1>8 DEF RrDeliver, MmMessages
  <2>2. Handles(w.mm, r) /\ r.rr = "none"
    BY <1>1, CmServAccIs
  <2> HIDE DEF r
  <2>3. ~OnAir(w.link) => HasFall(w.rrUp) /\ Covered(w.rrUp)
    BY <1>8 DEF RrEntryOk, Raising
  <2>4. w.link.st = "camped" => ~OnAir(w.link)
    BY DEF OnAir
  <2>5. HasPend(w.mm) => w.mm.state \in Asking
    BY <1>8 DEF RrEntryOk
  <2> QED
    BY <2>1, <2>2, <2>3, <2>4, <2>5, MmServed
<1>9. CASE e.p = "CM_SERV_REJ"
  <2>1. PICK r \in {MM!CmServRej(w.mm), MM!CmServRejAll(w.mm)} :
          n = MmDoes(w, r)
    BY <1>3, <1>9 DEF RrDeliver, MmMessages
  <2>2. Handles(w.mm, r) /\ Mute(r) /\ r.rr = "none"
        /\ (HasDedic(r.mm) => HasDedic(w.mm))
    BY <1>1, CmServRejIs, CmServRejAllIs
  <2>3. ~OnAir(w.link) => HasFall(w.rrUp) /\ Covered(w.rrUp)
    BY <1>9 DEF RrEntryOk, Raising
  <2>4. w.link.st = "camped" => ~OnAir(w.link)
    BY DEF OnAir
  <2> QED
    BY <2>1, <2>2, <2>3, <2>4, MmServed
<1>10. CASE e.p = "MM_ABORT"
  <2> DEFINE r == MM!MmAbort(w.mm)
  <2>1. n = MmDoes(w, r)
    BY <1>3, <1>10 DEF RrDeliver, MmMessages
  <2>2. Handles(w.mm, r) /\ Mute(r) /\ Calm(w.mm, r.mm) /\ r.rr = "none"
    BY <1>1, MmAbortIs
  <2> HIDE DEF r
  <2>3. Air(w) /\ Rests(w)
    BY <1>10 DEF RrEntryOk, FallPrims
  <2> QED
    BY <2>1, <2>2, <2>3, MmServedCalm
<1>11. CASE e.p \in CC!Messages
  <2>1. e.p \in DataMessages
    BY <1>11, MessagesAre
  <2>2. n \in IF MM!HasConn(w.mm, e.ref) THEN {CcMessage(w, e.p, e.ref)}
              ELSE LET new == Fresh(w, MtRefs)
                   IN {CcMessage(w, e.p, r) : r \in new} \cup
                      (IF new = {} THEN {w} ELSE {})
    BY <1>11, <2>1 DEF RrDeliver, DataMessages
  <2> QED
    BY <1>11, <2>2, RrMessageServed
<1> QED
  BY <1>2, <1>4, <1>5, <1>6, <1>7, <1>8, <1>9, <1>10, <1>11
     DEF RrPrims, FallPrims, MmMessages

LEMMA MmxxServed ==
  ASSUME NEW w, Base(w), Air(w), Rests(w), NEW e, MmxxEntryOk(w, e),
         NEW n \in MmxxDeliver(w, e)
  PROVE  Delivered(w, n) /\ n.rrUp = w.rrUp
<1> DEFINE ref == e.ref
           t == w.trans[ref]
           r == CC!RcvCc(t, e.p)
<1>1. n = CcDoes(w, ref, r)
  BY DEF MmxxDeliver
<1>2. /\ ref \in Refs /\ e.p \in MmPrims
      /\ e.p \in Ended => ~HasRef(w.mm.conns, ref)
      /\ e.p = "EST_CNF" => IsPend(t) /\ Pend(ref) \notin Elems(w.mm.conns)
      /\ e.p # "SYNC_IND" => ~Says(w.mmxx, ref, {"EST_CNF"})
      /\ \A s \in Refs \ {ref} : Owes(w, s, w.trans[s])
      /\ e.p \notin Ended => (IsLive(t) =>
           HasRef(w.mm.conns, ref) \/ Says(w.mmxx, ref, Ended))
      /\ e.p = "SYNC_IND" => Owes(w, ref, t)
  BY DEF MmxxEntryOk, Entry
<1>3. w \in Worlds /\ t \in CC!Transactions
  BY <1>2, WorldIs DEF Base, Transes
<1> HIDE DEF ref
<1>4. /\ CcOk(t, r) /\ r.conn = "none"
      /\ e.p \in Ended => r.t = CC!Free
      /\ e.p \notin Ended => r.up = <<>>
      /\ IsLive(r.t) => IsLive(t)
      /\ IsPend(r.t) => IsPend(t) /\ e.p = "SYNC_IND"
      /\ e.p = "SYNC_IND" /\ IsPend(t) => r.t = t
  BY <1>2, <1>3, RcvCcIs
<1> HIDE DEF r
<1>5. ~IsPend(CC!Free) /\ ~IsLive(CC!Free)
  BY DEF IsPend, IsLive, CC!Free
<1>6. e.p \in Ended \/ e.p = "EST_CNF" \/ e.p = "SYNC_IND"
  BY <1>2 DEF MmPrims
<1>7. "SYNC_IND" \notin Ended /\ "EST_CNF" \notin Ended
  BY DEF Ended
<1>8. e.p \in Ended => Pend(ref) \notin Elems(w.mm.conns)
  BY <1>2 DEF HasRef, Pend
<1>9. CcMay(w, ref, r)
  BY <1>2, <1>4, <1>6, <1>7, <1>8 DEF CcMay
<1>10. OwedAs(w, ref, r.t)
  BY <1>2, <1>4, <1>5, <1>6, <1>7 DEF OwedAs, Owes
<1>11. CcKept(w, ref, r, CcDoes(w, ref, r))
  BY <1>2, <1>9, CcKeeps
<1>12. CcKept(w, ref, r, n)
  BY <1>1, <1>11
<1>13. Good(n)
  BY <1>10, <1>12 DEF CcKept, Good
<1>14. Confirmed(w) => Confirmed(n)
  <2>1. CASE e.p # "SYNC_IND"
    BY <1>2, <1>12, <2>1 DEF CcKept
  <2>2. CASE e.p = "SYNC_IND" /\ IsPend(t)
    <3>1. IsPend(r.t)
      BY <1>4, <2>2
    <3> QED
      BY <1>12, <3>1 DEF CcKept
  <2>3. CASE e.p = "SYNC_IND" /\ ~IsPend(t)
    <3>1. SUFFICES ASSUME Confirmed(w), Says(w.mmxx, ref, {"EST_CNF"})
                   PROVE  FALSE
      BY <1>12 DEF CcKept
    <3>2. PICK i \in DOMAIN w.mmxx :
            w.mmxx[i].ref = ref /\ w.mmxx[i].p = "EST_CNF"
      BY <3>1 DEF Says, Elems
    <3> QED
      BY <2>3, <3>1, <3>2 DEF Confirmed
  <2> QED
    BY <2>1, <2>2, <2>3
<1>15. n.trans = [w.trans EXCEPT ![ref] = r.t] /\ n.rrUp = w.rrUp
  BY <1>12 DEF CcKept
<1>16. Forward(w, n)
  BY <1>2, <1>3, <1>4, <1>15, CcForward
<1> QED
  BY <1>13, <1>14, <1>15, <1>16 DEF Delivered

LEMMA PopEvents ==
  ASSUME NEW v, Good(v), NEW w, w = [v EXCEPT !.events = Tail(@)],
         v.events # <<>>
  PROVE  /\ Base(w) /\ Owed(w) /\ Air(w) /\ (NoCnf(v) => NoCnf(w))
         /\ w.rrUp = v.rrUp /\ w.trans = v.trans
<1>1. v \in Worlds /\ v.events \in Seq({"CELL_SELECTED"})
  BY WorldIs DEF Good, Base, EventQueues
<1>2. Tail(v.events) \in EventQueues
  BY <1>1, ElemsOfTail DEF EventQueues
<1>3. /\ w \in Worlds /\ w.mmxx = v.mmxx /\ w.trans = v.trans
      /\ w.calls = v.calls /\ w.mncc = v.mncc /\ w.link = v.link
      /\ w.mm = v.mm /\ w.rrUp = v.rrUp
  BY <1>1, <1>2 DEF Worlds
<1>4. Base(w)
  BY <1>3 DEF Good, Base, Unasked, Waits, Released, Unknown, Early, TimedCalls
<1>5. Owed(w)
  BY <1>3 DEF Good, Owed, Owes
<1>6. Air(w) /\ (NoCnf(v) => NoCnf(w))
  BY <1>3 DEF Good, Air, NoCnf
<1> QED
  BY <1>3, <1>4, <1>5, <1>6

LEMMA EventServed ==
  ASSUME NEW w, Base(w), Owed(w), Air(w), NoCnf(w), w.rrUp = <<>>,
         NEW n \in EventDeliver(w)
  PROVE  Good(n) /\ NoCnf(n) /\ Forward(w, n) /\ n.rrUp = <<>>
<1> DEFINE r == MM!CellSelected(w.mm, Camped(w))
<1>1. n = MmDoes(w, r)
  BY DEF EventDeliver
<1>2. Sane(w.mm) /\ Camped(w) \in BOOLEAN /\ w \in Worlds
  BY DEF Base, Camped
<1>3. ~HasFall(w.rrUp)
  BY ElemsOfNone DEF HasFall
<1>4. Camped(w) => ~HasDedic(w.mm)
  BY <1>3 DEF Camped, Air, OnAir
<1>5. /\ Sane(r.mm) /\ Serves(w.mm.conns, r.mm.conns, r.up) /\ Mute(r)
      /\ r.mm.conns = w.mm.conns /\ r.up = <<>> /\ r.rr = "none"
      /\ r.mm.state = IF Camped(w) THEN "IDLE" ELSE w.mm.state
  BY <1>2, <1>4, CellSelectedIs
<1> HIDE DEF r
<1>6. MmActs(r) /\ <<>> \in MmxxQueues
  BY <1>5 DEF MmActs, Sane, MmxxQueues
<1>7. MmFrame(w, r, n)
  BY <1>1, <1>2, <1>6, MmDoesIs
<1>8. w.mmxx \o <<>> = w.mmxx
  BY <1>2, WorldIs DEF MmxxQueues
<1>9. /\ n \in Worlds /\ n.mm = r.mm /\ n.mmxx = w.mmxx
      /\ n.trans = w.trans /\ n.link = w.link /\ n.calls = w.calls
      /\ n.rrUp = w.rrUp /\ n.events = w.events /\ n.mncc = w.mncc
  BY <1>5, <1>7, <1>8 DEF MmFrame
<1>10. HasPend(n.mm) <=> HasPend(w.mm)
  BY <1>5, <1>9 DEF HasPend
<1>11. Unasked(n)
  <2>1. \A e \in Elems(n.rrUp) : FALSE
    BY <1>9, ElemsOfNone
  <2>2. ~Camped(w) => n.mm.state = w.mm.state
    BY <1>5, <1>9
  <2> QED
    BY <1>9, <1>10, <2>1, <2>2 DEF Base, Unasked, Camped
<1>12. Waits(n)
  BY <1>5, <1>9 DEF Base, Waits, Asking
<1>13. Released(n) /\ Unknown(n) /\ Early(n) /\ TimedCalls(n)
  BY <1>5, <1>9 DEF Base, Released, Unknown, Early, TimedCalls
<1>14. Base(n)
  BY <1>5, <1>9, <1>11, <1>12, <1>13 DEF Base
<1>15. Owed(n)
  BY <1>5, <1>9 DEF Owed, Owes
<1>16. Air(n) /\ Rests(n) /\ NoCnf(n)
  BY <1>5, <1>9 DEF Air, Rests, NoCnf, HasDedic, Camped
<1>17. Forward(w, n)
  BY <1>2, <1>9, SameForward
<1> QED
  BY <1>9, <1>14, <1>15, <1>16, <1>17 DEF Good

-----------------------------------------------------------------------------
(***************************************************************************)
(* Layer 4.                                                                 *)
(***************************************************************************)
\* A call that is there was there, and no less far.
Steady(t, u) == IsLive(u) => IsLive(t) /\ Phase(u) >= Phase(t)

Steadily(w, n) == \A s \in Refs : Steady(w.trans[s], n.trans[s])

\* Between the entries of mncc_upqueue, and outside of the event loop.
Quiet(w) == Good(w) /\ NoCnf(w)

LEMMA PhaseOf ==
  ASSUME NEW w \in Worlds, NEW s \in Refs
  PROVE  /\ w.trans[s] \in CC!Transactions /\ Phase(w.trans[s]) \in 0 .. 7
         /\ ~IsLive(w.trans[s]) => Phase(w.trans[s]) = 0
<1>1. w.trans[s] \in CC!Transactions
  BY WorldIs DEF Transes
<1> QED
  BY <1>1, PhaseIs, TransactionIs

LEMMA SteadyForward ==
  ASSUME NEW w, NEW n, Steadily(w, n)
  PROVE  Forward(w, n)
BY DEF Steadily, Steady, Forward, Onward

LEMMA SameSteadily ==
  ASSUME NEW w \in Worlds, NEW n, n.trans = w.trans
  PROVE  Steadily(w, n)
<1> SUFFICES ASSUME NEW s \in Refs  PROVE Steady(w.trans[s], w.trans[s])
  BY DEF Steadily
<1> QED
  BY PhaseOf DEF Steady

LEMMA SteadilyTwice ==
  ASSUME NEW v \in Worlds, NEW w \in Worlds, NEW n \in Worlds,
         Steadily(v, w), Steadily(w, n)
  PROVE  Steadily(v, n)
<1> SUFFICES ASSUME NEW s \in Refs  PROVE Steady(v.trans[s], n.trans[s])
  BY DEF Steadily
<1>1. Steady(v.trans[s], w.trans[s]) /\ Steady(w.trans[s], n.trans[s])
  BY DEF Steadily
<1>2. /\ Phase(v.trans[s]) \in Int /\ Phase(w.trans[s]) \in Int
      /\ Phase(n.trans[s]) \in Int
  BY PhaseOf
<1> QED
  BY <1>1, <1>2 DEF Steady

\* A request of layer 4 on a call that it did not just make.
LEMMA AskKeeps ==
  ASSUME NEW w, Quiet(w), NEW q \in Requests, q.type # "SETUP_REQ",
         q.type = "DISC_REQ" => ~IsPend(w.trans[q.ref]),
         NEW n, n = CcDoes(w, q.ref, CC!MnccTx(w.trans[q.ref], q.type))
  PROVE  /\ Quiet(n) /\ Steadily(w, n) /\ n.rrUp = w.rrUp
         /\ n.calls = w.calls
<1> DEFINE ref == q.ref
           t == w.trans[ref]
           r == CC!MnccTx(t, q.type)
<1>1. n = CcDoes(w, ref, r)
  OBVIOUS
<1>2. ref \in Refs /\ (q.type = "DISC_REQ" => ~IsPend(t))
  BY DEF Requests
<1>3. w \in Worlds /\ Base(w)
  BY DEF Quiet, Good, Base
<1> HIDE DEF ref
<1>4. t \in CC!Transactions
  BY <1>2, <1>3, PhaseOf
<1>5. /\ CcOk(t, r)
      /\ IsLive(r.t) => IsLive(t)
      /\ IsPend(r.t) => IsPend(t) /\ r.up = <<>>
      /\ IsPend(t) /\ q.type # "DISC_REQ" /\ ~IsPend(r.t) =>
           r.conn = "REL_REQ"
  BY <1>4, MnccTxIs
<1> HIDE DEF r
<1>6. CcMay(w, ref, r)
  BY <1>2, <1>5 DEF CcMay
<1>7. CcKept(w, ref, r, CcDoes(w, ref, r))
  BY <1>2, <1>3, <1>6, CcKeeps
<1>8. CcKept(w, ref, r, n)
  BY <1>1, <1>7
<1>9. OwedAs(w, ref, r.t)
  BY <1>2, <1>5 DEF Quiet, Good, Owed, Owes, OwedAs
<1>10. Quiet(n) /\ n.rrUp = w.rrUp /\ n.calls = w.calls
  BY <1>8, <1>9 DEF CcKept, Quiet, Good
<1>11. n.trans = [w.trans EXCEPT ![ref] = r.t]
  BY <1>8 DEF CcKept
<1>12. Steadily(w, n)
  <2> SUFFICES ASSUME NEW s \in Refs  PROVE Steady(w.trans[s], n.trans[s])
    BY DEF Steadily
  <2>1. w.trans \in Transes
    BY <1>3, WorldIs
  <2>2. CASE s = ref
    <3>1. n.trans[s] = r.t
      BY <1>11, <2>1, <2>2 DEF Transes
    <3> QED
      BY <1>5, <2>2, <3>1 DEF Steady, CcOk
  <2>3. CASE s # ref
    <3>1. n.trans[s] = w.trans[s]
      BY <1>11, <2>1, <2>3 DEF Transes
    <3> QED
      BY <1>3, <3>1, PhaseOf DEF Steady
  <2> QED
    BY <2>2, <2>3
<1> QED
  BY <1>10, <1>12

LEMMA L4AsksKeeps ==
  ASSUME NEW w, Quiet(w), NEW reqs \in Seq(Late), NEW k,
         NEW n, n = L4Asks(w, reqs, k)
  PROVE  Quiet(n) /\ Steadily(w, n) /\ n.rrUp = w.rrUp
<1>1. CASE k \in DOMAIN reqs
  <2> DEFINE q == reqs[k]
  <2>1. q \in Late
    BY <1>1
  <2>2. n = CcDoes(w, q.ref, CC!MnccTx(w.trans[q.ref], q.type))
    BY <1>1 DEF L4Asks
  <2> HIDE DEF q
  <2>3. q \in Requests /\ q.type # "SETUP_REQ" /\ q.type # "DISC_REQ"
    BY <2>1 DEF Late
  <2> QED
    BY <2>2, <2>3, AskKeeps
<1>2. CASE k \notin DOMAIN reqs
  <2>1. n = w
    BY <1>2 DEF L4Asks
  <2> QED
    BY <2>1, SameSteadily DEF Quiet, Good, Base
<1> QED
  BY <1>1, <1>2

\* The list of calls is changed.
LEMMA CallsKeep ==
  ASSUME NEW w, Quiet(w), NEW cs \in Lists4,
         \A s \in Refs : IsPend(w.trans[s]) =>
           \A c \in Elems(cs) : c.ref = s => c.init,
         NEW n, n = [w EXCEPT !.calls = cs]
  PROVE  Quiet(n) /\ Steadily(w, n) /\ n.rrUp = w.rrUp /\ n.trans = w.trans
<1>1. w \in Worlds
  BY DEF Quiet, Good, Base
<1>2. /\ n \in Worlds /\ n.mmxx = w.mmxx /\ n.trans = w.trans
      /\ n.calls = cs /\ n.mncc = w.mncc /\ n.link = w.link
      /\ n.mm = w.mm /\ n.rrUp = w.rrUp /\ n.events = w.events
  BY <1>1 DEF Worlds
<1>3. Early(n)
  BY <1>2 DEF Quiet, Good, Base, Early
<1>4. Base(n)
  BY <1>2, <1>3 DEF Quiet, Good, Base, Unasked, Waits, Released, Unknown,
                    TimedCalls
<1>5. Owed(n)
  BY <1>2 DEF Quiet, Good, Owed, Owes
<1>6. Air(n) /\ Rests(n) /\ NoCnf(n)
  BY <1>2 DEF Quiet, Good, Air, Rests, NoCnf
<1> QED
  BY <1>1, <1>2, <1>4, <1>5, <1>6, SameSteadily DEF Quiet, Good

LEMMA L4DoesKeeps ==
  ASSUME NEW w, Quiet(w), NEW r, r.calls \in Lists4, r.reqs \in Seq(Late),
         \A s \in Refs : IsPend(w.trans[s]) =>
           \A c \in Elems(r.calls) : c.ref = s => c.init,
         NEW n, n = L4Does(w, r)
  PROVE  Quiet(n) /\ Steadily(w, n) /\ n.rrUp = w.rrUp
<1> DEFINE a == [w EXCEPT !.calls = r.calls]
           b == L4Asks(a, r.reqs, 1)
           c == L4Asks(b, r.reqs, 2)
<1>1. n = L4Asks(c, r.reqs, 3)
  BY DEF L4Does
<1>2. Quiet(a) /\ Steadily(w, a) /\ a.rrUp = w.rrUp
  BY CallsKeep
<1> HIDE DEF a
<1>3. Quiet(b) /\ Steadily(a, b) /\ b.rrUp = a.rrUp
  BY <1>2, L4AsksKeeps
<1> HIDE DEF b
<1>4. Quiet(c) /\ Steadily(b, c) /\ c.rrUp = b.rrUp
  BY <1>3, L4AsksKeeps
<1> HIDE DEF c
<1>5. Quiet(n) /\ Steadily(c, n) /\ n.rrUp = c.rrUp
  BY <1>1, <1>4, L4AsksKeeps
<1>6. w \in Worlds /\ a \in Worlds /\ b \in Worlds /\ c \in Worlds
      /\ n \in Worlds
  BY <1>2, <1>3, <1>4, <1>5 DEF Quiet, Good, Base
<1>7. Steadily(w, b)
  BY <1>2, <1>3, <1>6, SteadilyTwice
<1>8. Steadily(w, c)
  BY <1>4, <1>6, <1>7, SteadilyTwice
<1>9. Steadily(w, n)
  BY <1>5, <1>6, <1>8, SteadilyTwice
<1> QED
  BY <1>2, <1>3, <1>4, <1>5, <1>9

LEMMA PopMncc ==
  ASSUME NEW v, Quiet(v), v.mncc # <<>>,
         NEW w, w = [v EXCEPT !.mncc = Tail(@)], NEW e, e = Head(v.mncc)
  PROVE  /\ Quiet(w) /\ w.rrUp = v.rrUp /\ w.trans = v.trans
         /\ e \in MnccEntries /\ ~IsPend(w.trans[e.ref])
<1>1. v \in Worlds /\ v.mncc \in Seq(MnccEntries)
  BY WorldIs DEF Quiet, Good, Base, MnccQueues
<1>2. /\ Tail(v.mncc) \in Seq(MnccEntries) /\ e \in MnccEntries
      /\ Elems(v.mncc) = {e} \cup Elems(Tail(v.mncc))
  BY <1>1, ElemsOfTail
<1>3. /\ w \in Worlds /\ w.mmxx = v.mmxx /\ w.trans = v.trans
      /\ w.calls = v.calls /\ w.link = v.link /\ w.events = v.events
      /\ w.mm = v.mm /\ w.rrUp = v.rrUp
      /\ Elems(w.mncc) \subseteq Elems(v.mncc)
  BY <1>1, <1>2 DEF Worlds, MnccQueues
<1>4. Base(w)
  BY <1>3 DEF Quiet, Good, Base, Unasked, Waits, Released, Unknown, Early,
              TimedCalls
<1>5. Owed(w)
  BY <1>3 DEF Quiet, Good, Owed, Owes
<1>6. Air(w) /\ Rests(w) /\ NoCnf(w)
  BY <1>3 DEF Quiet, Good, Air, Rests, NoCnf
<1>7. ~IsPend(w.trans[e.ref])
  BY <1>2, <1>3 DEF Quiet, Good, Base, Early, MnccEntries
<1> QED
  BY <1>2, <1>3, <1>4, <1>5, <1>6, <1>7 DEF Quiet, Good

LEMMA MnccServed ==
  ASSUME NEW w, Quiet(w), NEW e \in MnccEntries, ~IsPend(w.trans[e.ref]),
         NEW n \in MnccDeliver(w, e)
  PROVE  Quiet(n) /\ Forward(w, n) /\ n.rrUp = w.rrUp
<1>1. PICK how : n = L4Does(w, L4!Recv(w.calls, e.p, e.ref, how))
  BY DEF MnccDeliver
<1> DEFINE r == L4!Recv(w.calls, e.p, e.ref, how)
<1>2. w.calls \in Seq(CallEntries) /\ e.ref \in Refs
  BY WorldIs DEF Quiet, Good, Base, Lists4, MnccEntries
<1>3. Keep(w.calls, r.calls, e.ref) /\ r.reqs \in Seq(Late)
  BY <1>2, RecvIs
<1>4. n = L4Does(w, r)
  BY <1>1
<1> HIDE DEF r
<1>5. \A s \in Refs : IsPend(w.trans[s]) =>
        \A c \in Elems(r.calls) : c.ref = s => c.init
  BY <1>3 DEF Quiet, Good, Base, Early, Keep
<1>6. r.calls \in Lists4
  BY <1>3 DEF Keep, Lists4
<1>7. Quiet(n) /\ Steadily(w, n) /\ n.rrUp = w.rrUp
  BY <1>3, <1>4, <1>5, <1>6, L4DoesKeeps
<1> QED
  BY <1>7, SteadyForward

-----------------------------------------------------------------------------
(***************************************************************************)
(* A call is made.                                                          *)
(***************************************************************************)
\* Nothing has the reference, but the entry of a new call in layer 4.
New(w, ref) ==
  /\ ref \in Refs /\ w.trans[ref] = CC!Free
  /\ ~HasRef(w.mm.conns, ref)
  /\ \A e \in Elems(w.rrUp) : e.ref # ref
  /\ \A e \in Elems(w.mmxx) : e.ref # ref
  /\ \A e \in Elems(w.mncc) : e.ref # ref
  /\ \A c \in Elems(w.calls) : c.ref = ref => c.init

\* gsm48_cc_init_mm leaves everything but the transaction, which waits, the
\* connections and what is said of ref, and the radio connection.
InitLeaves(w, ref, n) ==
  /\ n \in Worlds /\ Sane(n.mm)
  /\ IsPend(n.trans[ref]) /\ TimedCc(n.trans[ref])
  /\ \A s \in Refs \ {ref} : n.trans[s] = w.trans[s]
  /\ n.calls = w.calls /\ n.events = w.events /\ n.mncc = w.mncc
  /\ \/ /\ n.mmxx = w.mmxx /\ ~HasPend(w.mm)
        /\ Elems(n.mm.conns) = {Pend(ref)} \cup Elems(w.mm.conns)
        /\ \/ /\ n.mm.state = "WAIT_RR"
              /\ \/ n.link = w.link
                      /\ n.rrUp = w.rrUp \o <<Up("REL_IND", NoRef)>>
                 \/ w.link.st = "camped" /\ n.link.st = "pend"
                    /\ n.rrUp = w.rrUp
           \/ /\ w.mm.state = "ACTIVE" /\ n.mm.state = "WAIT_ADD"
              /\ n.rrUp = w.rrUp /\ n.link.st = w.link.st
              /\ w.link.st # "dedic" => n.link = w.link
     \/ /\ n.mm = w.mm /\ n.link = w.link /\ n.rrUp = w.rrUp
        /\ n.mmxx = w.mmxx \o <<[p |-> "REL_IND", ref |-> ref]>>

\* All but link and rrUp is the same.
LinkPrims == {"REL_IND", "ABORT_IND", "EST_CNF", "EST_IND"}

LinkLeaves(w, g, n) ==
  /\ n \in Worlds /\ n.trans = w.trans /\ n.mm = w.mm
  /\ n.link = g.link /\ n.calls = w.calls /\ n.mmxx = w.mmxx
  /\ n.events = w.events /\ n.mncc = w.mncc
  /\ \/ g.up = <<>> /\ n.rrUp = w.rrUp
     \/ /\ g.up # <<>> /\ g.up[1] \in LinkPrims
        /\ n.rrUp = w.rrUp \o <<Up(g.up[1], NoRef)>>

LEMMA LinkDoesIs ==
  ASSUME NEW w \in Worlds, NEW g, g.link \in RR!Links, g.up \in Tells
  PROVE  LinkLeaves(w, g, LinkDoes(w, g))
<1> DEFINE n == LinkDoes(w, g)
           u == [i \in DOMAIN g.up |-> Up(g.up[i], NoRef)]
           x == w.rrUp \o u
<1>1. \/ g.up = <<>> /\ u = <<>>
      \/ /\ g.up # <<>> /\ g.up[1] \in LinkPrims
         /\ u = <<Up(g.up[1], NoRef)>>
  <2>1. CASE g.up = <<>>
    BY <2>1
  <2>2. CASE g.up # <<>>
    <3>1. \/ g.up = <<"REL_IND">> \/ g.up = <<"ABORT_IND">>
          \/ g.up = <<"EST_CNF">> \/ g.up = <<"EST_IND">>
      BY <2>2 DEF Tells, Falls
    <3>2. g.up[1] \in LinkPrims
      BY <3>1 DEF LinkPrims
    <3>4. DOMAIN g.up = 1 .. 1
      BY <3>1
    <3>3. u = <<Up(g.up[1], NoRef)>>
      BY <3>4
    <3> QED
      BY <2>2, <3>2, <3>3
  <2> QED
    BY <2>1, <2>2
<1>2. u \in RrQueues
  <2>1. ASSUME NEW p \in LinkPrims  PROVE <<Up(p, NoRef)>> \in RrQueues
    <3> DEFINE e == Up(p, NoRef)
    <3>1. e \in RrEntries
      BY DEF Up, RrEntries, RrPrims, LinkPrims
    <3> HIDE DEF e
    <3>2. <<e>> \in RrQueues
      BY <3>1 DEF RrQueues
    <3> QED
      BY <3>2 DEF e
  <2>2. <<>> \in RrQueues
    BY DEF RrQueues
  <2> HIDE DEF u
  <2> QED
    BY <1>1, <2>1, <2>2
<1>3. n = [w EXCEPT !.link = g.link, !.rrUp = x]
  BY DEF LinkDoes
<1> HIDE DEF u, n
<1>4. w.rrUp \in RrQueues
  BY WorldIs
<1>5. x \in RrQueues /\ (u = <<>> => x = w.rrUp)
  BY <1>2, <1>4 DEF RrQueues
<1>6. x = w.rrUp \o u
  OBVIOUS
<1> HIDE DEF x
<1>7. /\ n \in Worlds /\ n.trans = w.trans /\ n.mm = w.mm
      /\ n.link = g.link /\ n.calls = w.calls /\ n.mmxx = w.mmxx
      /\ n.events = w.events /\ n.mncc = w.mncc /\ n.rrUp = x
  BY <1>3, <1>5 DEF Worlds
<1>8. LinkLeaves(w, g, n)
  BY <1>1, <1>5, <1>6, <1>7 DEF LinkLeaves
<1> QED
  BY <1>8 DEF n

LEMMA InitIs ==
  ASSUME NEW w \in Worlds, Sane(w.mm), NEW ref, New(w, ref),
         NEW n, n = CcDoes(w, ref, CC!InitMm)
  PROVE  InitLeaves(w, ref, n)
<1> DEFINE t == [state |-> "MM_CONNECTION_PEND", timer |-> "none"]
           k == [w EXCEPT !.trans = [w.trans EXCEPT ![ref] = t]]
           m == MM!EstReq(w.mm, ref)
<1>1. ref \in Refs /\ w.trans \in Transes /\ w.mncc \in MnccQueues
      /\ w.mmxx \in MmxxQueues
  BY WorldIs DEF New
<1>2. t \in CC!Transactions /\ IsPend(t) /\ TimedCc(t)
  BY DEF CC!Transactions, CC!States, CC!NoTimer, IsPend, TimedCc
<1>3. CC!InitMm = [t |-> t, up |-> <<>>, tx |-> "none", conn |-> "EST_REQ"]
  <2>1. CC!Free = [state |-> "FREE", timer |-> "none"]
    BY DEF CC!Free, CC!NoTimer
  <2>2. CC!New = [state |-> "NULL", timer |-> "none"]
    BY <2>1 DEF CC!New
  <2>3. [CC!New EXCEPT !.state = "MM_CONNECTION_PEND"] = t
    BY <2>2
  <2> HIDE DEF t
  <2> QED
    BY <2>3 DEF CC!InitMm, CC!Does, CC!Nothing
<1> HIDE DEF t
<1>4. n = MmDoes(k, m)
  <2> DEFINE v == [i \in DOMAIN <<>> |-> Up(<<>>[i], ref)]
  <2>1. v = <<>>
    OBVIOUS
  <2>2. w.mncc \o v = w.mncc
    BY <1>1, <2>1 DEF MnccQueues
  <2>3. [w EXCEPT !.trans[ref] = t, !.mncc = @ \o v] = k
    <3> HIDE DEF v
    <3>1. w = [trans |-> w.trans, mm |-> w.mm, link |-> w.link,
               calls |-> w.calls, rrUp |-> w.rrUp, mmxx |-> w.mmxx,
               events |-> w.events, mncc |-> w.mncc]
      BY WorldIs
    <3> QED
      BY <2>2, <3>1
  <2>4. k.mm = w.mm
    BY DEF Worlds
  <2> HIDE DEF k, v
  <2> QED
    BY <1>3, <2>3, <2>4 DEF CcDoes, CC!Nothing, v
<1>5. /\ k \in Worlds /\ k.trans = [w.trans EXCEPT ![ref] = t]
      /\ k.mm = w.mm /\ k.link = w.link /\ k.calls = w.calls
      /\ k.mmxx = w.mmxx /\ k.events = w.events /\ k.mncc = w.mncc
      /\ k.rrUp = w.rrUp
  <2>1. [w.trans EXCEPT ![ref] = t] \in Transes
    BY <1>1, <1>2 DEF Transes
  <2> QED
    BY <2>1 DEF Worlds
<1> HIDE DEF k
<1>6. k.trans[ref] = t /\ \A s \in Refs \ {ref} : k.trans[s] = w.trans[s]
  BY <1>1, <1>5 DEF Transes
<1>7. Sane(m.mm) /\ (Accepted(w.mm, ref, m) \/ Refused(w.mm, ref, m))
  BY <1>1, EstReqIs DEF New
<1> HIDE DEF m
<1>8. CASE Refused(w.mm, ref, m)
  <2> DEFINE e == [p |-> "REL_IND", ref |-> ref]
  <2>1. e \in Entry
    BY <1>1 DEF Entry, MmPrims, Ended
  <2>2. m.mm = w.mm /\ m.up = <<e>> /\ m.rr = "none"
    BY <1>8 DEF Refused
  <2> HIDE DEF e
  <2>3. MmActs(m)
    BY <1>7, <2>1, <2>2 DEF MmActs, MmxxQueues, Sane
  <2>4. MmFrame(k, m, n)
    BY <1>4, <1>5, <2>3, MmDoesIs
  <2>5. n.mmxx = w.mmxx \o <<e>>
    BY <1>5, <2>2, <2>4 DEF MmFrame
  <2>6. /\ n \in Worlds /\ n.mm = w.mm /\ n.trans = k.trans
        /\ n.link = w.link /\ n.calls = w.calls /\ n.rrUp = w.rrUp
        /\ n.events = w.events /\ n.mncc = w.mncc
    BY <1>5, <2>2, <2>4 DEF MmFrame
  <2> QED
    BY <1>2, <1>6, <2>5, <2>6 DEF InitLeaves, e
<1>9. CASE Accepted(w.mm, ref, m)
  <2>1. /\ ~HasPend(w.mm) /\ w.mm.state \in {"IDLE", "ACTIVE"}
        /\ m.up = <<>>
        /\ Elems(m.mm.conns) = {Pend(ref)} \cup Elems(w.mm.conns)
        /\ w.mm.state = "IDLE" => m.mm.state = "WAIT_RR" /\ m.rr = "EST_REQ"
        /\ w.mm.state = "ACTIVE" =>
             m.mm.state = "WAIT_ADD" /\ m.rr = "CM_SERV_REQ"
    BY <1>9 DEF Accepted
  <2> DEFINE x == [k EXCEPT !.mm = m.mm, !.mmxx = @ \o m.up]
  <2>2. n = RrDown(x, m.rr)
    BY <1>4 DEF MmDoes
  <2>3. k.mmxx \o m.up = w.mmxx
    BY <1>1, <1>5, <2>1 DEF MmxxQueues
  <2>4. /\ x \in Worlds /\ x.mm = m.mm /\ x.mmxx = w.mmxx
        /\ x.trans = k.trans /\ x.link = w.link /\ x.calls = w.calls
        /\ x.rrUp = w.rrUp /\ x.events = w.events /\ x.mncc = w.mncc
    <3>1. x = [k EXCEPT !.mm = m.mm, !.mmxx = w.mmxx]
      BY <2>3
    <3> HIDE DEF x
    <3> QED
      BY <1>1, <1>5, <1>7, <3>1 DEF Worlds, Sane
  <2> HIDE DEF x
  <2>5. x.link \in RR!Links
    BY <2>4, WorldIs
  <2>6. CASE w.mm.state = "IDLE"
    <3> DEFINE g == RR!EstReq(x.link)
    <3>1. n = LinkDoes(x, g)
      BY <2>1, <2>2, <2>6 DEF RrDown
    <3>2. /\ g.link \in RR!Links
          /\ \/ g.link = x.link /\ g.up = <<"REL_IND">>
             \/ x.link.st = "camped" /\ g.link.st = "pend" /\ g.up = <<>>
      BY <2>5, LinkEst
    <3> HIDE DEF g
    <3>3. g.up \in Tells
      BY <3>2 DEF Tells, Falls
    <3>8. LinkLeaves(x, g, n)
      BY <2>4, <3>1, <3>2, <3>3, LinkDoesIs
    <3>4. /\ n \in Worlds /\ n.trans = x.trans /\ n.mm = x.mm
          /\ n.link = g.link /\ n.calls = x.calls /\ n.mmxx = x.mmxx
          /\ n.events = x.events /\ n.mncc = x.mncc
      BY <3>8 DEF LinkLeaves
    <3>5. /\ g.up = <<>> => n.rrUp = x.rrUp
          /\ g.up = <<"REL_IND">> => n.rrUp = x.rrUp \o <<Up("REL_IND", NoRef)>>
      BY <3>8 DEF LinkLeaves
    <3>6. \/ n.link = w.link /\ n.rrUp = w.rrUp \o <<Up("REL_IND", NoRef)>>
          \/ w.link.st = "camped" /\ n.link.st = "pend" /\ n.rrUp = w.rrUp
      BY <2>4, <3>2, <3>4, <3>5
    <3>7. n.mm.state = "WAIT_RR"
      BY <2>1, <2>4, <2>6, <3>4
    <3> QED
      BY <1>2, <1>6, <1>7, <2>1, <2>4, <3>4, <3>6, <3>7 DEF InitLeaves
  <2>7. CASE w.mm.state = "ACTIVE"
    <3> DEFINE l == RR!ServReq(x.link)
    <3>1. n = [x EXCEPT !.link = l]
      BY <2>1, <2>2, <2>7 DEF RrDown
    <3>2. l \in RR!Links /\ l.st = x.link.st
          /\ (x.link.st # "dedic" => l = x.link)
      BY <2>5, LinkServes
    <3> HIDE DEF l
    <3>3. /\ n \in Worlds /\ n.trans = x.trans /\ n.mm = x.mm
          /\ n.link = l /\ n.calls = x.calls /\ n.mmxx = x.mmxx
          /\ n.events = x.events /\ n.mncc = x.mncc /\ n.rrUp = x.rrUp
      BY <2>4, <3>1, <3>2 DEF Worlds
    <3> QED
      BY <1>2, <1>6, <1>7, <2>1, <2>4, <2>7, <3>2, <3>3 DEF InitLeaves
  <2> QED
    BY <2>1, <2>6, <2>7
<1> QED
  BY <1>7, <1>8, <1>9

\* A fall at the end of the queue covers all that is in it.
LEMMA FallAppended ==
  ASSUME NEW q \in RrQueues, NEW p \in FallPrims,
         NEW u, u = q \o <<Up(p, NoRef)>>
  PROVE  /\ u \in RrQueues /\ HasFall(u) /\ Covered(u)
         /\ \A e \in Elems(u) :
              e \in Elems(q) \/ (e.p = p /\ e.p \notin CC!Messages)
<1> DEFINE e == Up(p, NoRef)
           o == <<e>>
<1>1. e \in RrEntries /\ e.p = p /\ p \notin CC!Messages
  BY MessagesAre DEF Up, RrEntries, RrPrims, FallPrims, DataMessages
<1> HIDE DEF e
<1>2. /\ o \in Seq(RrEntries) /\ Elems(o) = {e}
      /\ Len(o) = 1 /\ o[1] = e /\ DOMAIN o = 1 .. 1
  BY <1>1, ElemsOfOne
<1>3. u = q \o o /\ q \in Seq(RrEntries)
  BY DEF e, RrQueues
<1> HIDE DEF o
<1>4. u \in Seq(RrEntries) /\ Elems(u) = Elems(q) \cup {e}
  BY <1>2, <1>3, ElemsOfCat
<1>5. HasFall(u)
  BY <1>1, <1>4 DEF HasFall, FallPrims
<1>6. Covered(u)
  <2>1. /\ DOMAIN u = 1 .. Len(q) + 1 /\ u[Len(q) + 1] = e
        /\ Len(q) \in Nat
    BY <1>2, <1>3
  <2>2. ASSUME NEW i \in DOMAIN u, u[i].p \in Raising
        PROVE  \E j \in DOMAIN u : j > i /\ u[j].p \in FallPrims
    <3>1. i # Len(q) + 1
      BY <1>1, <2>1, <2>2 DEF Raising, FallPrims
    <3>2. Len(q) + 1 > i /\ Len(q) + 1 \in DOMAIN u
      BY <2>1, <3>1
    <3> QED
      BY <1>1, <2>1, <3>2
  <2> QED
    BY <2>2 DEF Covered, FallPrims
<1> QED
  BY <1>1, <1>4, <1>5, <1>6 DEF RrQueues

\* The parts that only a call of ref could break.
LEMMA InitKeepsCalls ==
  ASSUME NEW w, Quiet(w), NEW ref, New(w, ref),
         NEW n, InitLeaves(w, ref, n)
  PROVE  /\ Unknown(n) /\ Early(n) /\ TimedCalls(n) /\ Released(n)
         /\ NoCnf(n) /\ Owed(n) /\ Waits(n)
<1>1. /\ n \in Worlds /\ Sane(n.mm)
      /\ IsPend(n.trans[ref]) /\ TimedCc(n.trans[ref])
      /\ \A s \in Refs \ {ref} : n.trans[s] = w.trans[s]
      /\ n.calls = w.calls /\ n.events = w.events /\ n.mncc = w.mncc
  BY DEF InitLeaves
<1>2. /\ ref \in Refs /\ w \in Worlds /\ w.rrUp \in RrQueues
      /\ w.mmxx \in Seq(Entry)
  BY WorldIs DEF New, Quiet, Good, Base, MmxxQueues
<1>3. \A e \in Elems(n.rrUp) :
        e \in Elems(w.rrUp) \/ e.p \notin CC!Messages
  <2>1. n.rrUp = w.rrUp \/ n.rrUp = w.rrUp \o <<Up("REL_IND", NoRef)>>
    BY DEF InitLeaves
  <2>2. CASE n.rrUp = w.rrUp
    BY <2>2
  <2>3. CASE n.rrUp = w.rrUp \o <<Up("REL_IND", NoRef)>>
    <3> DEFINE p == "REL_IND"
    <3>1. p \in FallPrims /\ n.rrUp = w.rrUp \o <<Up(p, NoRef)>>
      BY <2>3 DEF FallPrims
    <3> HIDE DEF p
    <3> QED
      BY <1>2, <3>1, FallAppended
  <2> QED
    BY <2>1, <2>2, <2>3
<1>4. Unknown(n)
  <2> SUFFICES ASSUME NEW e \in Elems(n.rrUp), e.p \in CC!Messages,
                      e.ref \in Refs
               PROVE  ~IsPend(n.trans[e.ref])
    BY DEF Unknown
  <2>1. e \in Elems(w.rrUp) /\ e.ref # ref
    BY <1>3 DEF New
  <2> QED
    BY <1>1, <2>1 DEF Quiet, Good, Base, Unknown
<1>5. Early(n)
  <2> SUFFICES ASSUME NEW s \in Refs, IsPend(n.trans[s])
               PROVE  /\ \A c \in Elems(w.calls) : c.ref = s => c.init
                      /\ \A e \in Elems(w.mncc) : e.ref # s
    BY <1>1 DEF Early
  <2>1. CASE s = ref
    BY <2>1 DEF New
  <2>2. CASE s # ref
    BY <1>1, <2>2 DEF Quiet, Good, Base, Early
  <2> QED
    BY <2>1, <2>2
<1>6. TimedCalls(n)
  BY <1>1 DEF Quiet, Good, Base, TimedCalls
<1>7. CASE n.mmxx = w.mmxx /\ ~HasPend(w.mm)
           /\ Elems(n.mm.conns) = {Pend(ref)} \cup Elems(w.mm.conns)
  <2>1. Pend(ref).ref = ref
    BY DEF Pend
  <2>2. Released(n)
    <3> SUFFICES ASSUME NEW e \in Elems(w.mmxx), e.p \in Ended,
                        NEW c \in Elems(n.mm.conns), c.ref = e.ref
                 PROVE  FALSE
      BY <1>7 DEF Released, HasRef
    <3>1. e.ref # ref /\ ~HasRef(w.mm.conns, e.ref)
      BY DEF New, Quiet, Good, Base, Released
    <3> QED
      BY <1>7, <2>1, <3>1 DEF HasRef
  <2>3. NoCnf(n)
    BY <1>7 DEF Quiet, NoCnf
  <2>4. Waits(n)
    <3> SUFFICES ASSUME NEW s \in Refs, Pend(s) \in Elems(n.mm.conns)
                 PROVE  IsPend(n.trans[s])
      BY DEF Waits
    <3>1. Pend(s) \notin Elems(w.mm.conns)
      BY <1>7 DEF HasPend, Pend
    <3>2. s = ref
      BY <1>7, <3>1 DEF Pend
    <3> QED
      BY <1>1, <3>2
  <2>5. Owed(n)
    <3> SUFFICES ASSUME NEW s \in Refs  PROVE Owes(n, s, n.trans[s])
      BY DEF Owed
    <3>1. CASE s = ref
      <4>1. Pend(ref) \in Elems(n.mm.conns) /\ HasRef(n.mm.conns, ref)
        BY <1>7, <2>1 DEF HasRef
      <4> QED
        BY <3>1, <4>1 DEF Owes
    <3>2. CASE s # ref
      <4>1. Owes(w, s, w.trans[s]) /\ n.trans[s] = w.trans[s]
        BY <1>1, <3>2 DEF Quiet, Good, Owed
      <4>2. HasRef(w.mm.conns, s) => HasRef(n.mm.conns, s)
        BY <1>7 DEF HasRef
      <4> QED
        BY <1>7, <4>1, <4>2 DEF Owes
    <3> QED
      BY <3>1, <3>2
  <2> QED
    BY <1>4, <1>5, <1>6, <2>2, <2>3, <2>4, <2>5
<1>8. CASE n.mm = w.mm
           /\ n.mmxx = w.mmxx \o <<[p |-> "REL_IND", ref |-> ref]>>
  <2> DEFINE d == [p |-> "REL_IND", ref |-> ref]
             o == <<d>>
  <2>1. d \in Entry /\ d.p = "REL_IND" /\ d.ref = ref
    BY <1>2 DEF Entry, MmPrims, Ended
  <2>2. n.mmxx = w.mmxx \o o
    BY <1>8
  <2> HIDE DEF d
  <2>3. o \in Seq(Entry) /\ Elems(o) = {d}
    BY <2>1, ElemsOfOne
  <2> HIDE DEF o
  <2>4. Elems(n.mmxx) = Elems(w.mmxx) \cup {d}
    BY <1>2, <2>2, <2>3, ElemsOfCat
  <2>5. Released(n)
    BY <1>8, <2>1, <2>4 DEF Released, Quiet, Good, Base, New
  <2>6. NoCnf(n)
    BY <2>1, <2>4 DEF NoCnf, Quiet
  <2>7. Waits(n)
    <3> SUFFICES ASSUME w.mm.state \in Asking, NEW s \in Refs,
                        Pend(s) \in Elems(w.mm.conns)
                 PROVE  IsPend(n.trans[s])
      BY <1>8 DEF Waits
    <3>1. IsPend(w.trans[s])
      BY DEF Quiet, Good, Base, Waits
    <3>2. s # ref
      BY DEF New, HasRef, Pend
    <3> QED
      BY <1>1, <3>1, <3>2
  <2>8. Owed(n)
    <3> SUFFICES ASSUME NEW s \in Refs  PROVE Owes(n, s, n.trans[s])
      BY DEF Owed
    <3>1. CASE s = ref
      <4>1. \A prims : "REL_IND" \in prims => Says(n.mmxx, ref, prims)
        BY <2>1, <2>4 DEF Says
      <4>2. "REL_IND" \in Ended /\ "REL_IND" \in Ended \cup {"EST_CNF"}
        BY DEF Ended
      <4> QED
        BY <3>1, <4>1, <4>2 DEF Owes
    <3>2. CASE s # ref
      <4>1. Owes(w, s, w.trans[s]) /\ n.trans[s] = w.trans[s]
        BY <1>1, <3>2 DEF Quiet, Good, Owed
      <4>2. \A prims : Says(w.mmxx, s, prims) => Says(n.mmxx, s, prims)
        BY <2>4 DEF Says
      <4> QED
        BY <1>8, <4>1, <4>2 DEF Owes
    <3> QED
      BY <3>1, <3>2
  <2> QED
    BY <1>4, <1>5, <1>6, <2>5, <2>6, <2>7, <2>8
<1> QED
  BY <1>7, <1>8 DEF InitLeaves

LEMMA InitKeepsLink ==
  ASSUME NEW w, Quiet(w), NEW ref, New(w, ref),
         NEW n, InitLeaves(w, ref, n)
  PROVE  Unasked(n) /\ Air(n) /\ Rests(n)
<1>1. Air(w) /\ Rests(w) /\ Unasked(w) /\ w.rrUp \in RrQueues
  BY WorldIs DEF Quiet, Good, Base
<1>2. n.events = w.events
  BY DEF InitLeaves
<1>3. CASE n.mm = w.mm /\ n.link = w.link /\ n.rrUp = w.rrUp
  BY <1>1, <1>2, <1>3 DEF Unasked, Air, Rests
<1>4. CASE Elems(n.mm.conns) = {Pend(ref)} \cup Elems(w.mm.conns)
  <2>1. HasDedic(n.mm) => HasDedic(w.mm)
    BY <1>4 DEF HasDedic, Pend
  <2>2. CASE /\ n.mm.state = "WAIT_RR" /\ n.link = w.link
             /\ n.rrUp = w.rrUp \o <<Up("REL_IND", NoRef)>>
    <3> DEFINE p == "REL_IND"
    <3>1. p \in FallPrims /\ n.rrUp = w.rrUp \o <<Up(p, NoRef)>>
      BY <2>2 DEF FallPrims
    <3> HIDE DEF p
    <3>2. HasFall(n.rrUp) /\ Covered(n.rrUp)
      BY <1>1, <3>1, FallAppended
    <3> QED
      BY <1>1, <2>2, <3>2 DEF Unasked, Air, Rests, Asking
  <2>3. CASE /\ n.mm.state = "WAIT_RR" /\ w.link.st = "camped"
             /\ n.link.st = "pend" /\ n.rrUp = w.rrUp
    BY <1>1, <2>1, <2>3 DEF Unasked, Air, Rests, Asking, OnAir
  <2>4. CASE /\ w.mm.state = "ACTIVE" /\ n.mm.state = "WAIT_ADD"
             /\ n.rrUp = w.rrUp /\ n.link.st = w.link.st
             /\ w.link.st # "dedic" => n.link = w.link
    BY <1>1, <1>2, <2>1, <2>4 DEF Unasked, Air, Rests, Asking, OnAir
  <2> QED
    BY <1>3, <2>2, <2>3, <2>4 DEF InitLeaves
<1> QED
  BY <1>3, <1>4 DEF InitLeaves

LEMMA InitKeeps ==
  ASSUME NEW w, Quiet(w), NEW ref, New(w, ref),
         NEW n, n = CcDoes(w, ref, CC!InitMm)
  PROVE  Quiet(n) /\ Forward(w, n)
<1>1. w \in Worlds /\ Sane(w.mm)
  BY DEF Quiet, Good, Base
<1>2. InitLeaves(w, ref, n)
  BY <1>1, InitIs
<1>3. n \in Worlds /\ Sane(n.mm)
      /\ \A s \in Refs \ {ref} : n.trans[s] = w.trans[s]
  BY <1>2 DEF InitLeaves
<1>4. Quiet(n)
  BY <1>2, <1>3, InitKeepsCalls, InitKeepsLink DEF Quiet, Good, Base
<1>5. Forward(w, n)
  <2> SUFFICES ASSUME NEW s \in Refs  PROVE Onward(w.trans[s], n.trans[s])
    BY DEF Forward
  <2>1. CASE s = ref
    <3>1. ~IsLive(w.trans[s])
      BY <2>1 DEF New, IsLive, CC!Free
    <3> QED
      BY <1>1, <1>3, <3>1, PhaseOf DEF Onward
  <2>2. CASE s # ref
    BY <1>1, <1>3, <2>2, PhaseOf DEF Onward
  <2> QED
    BY <2>1, <2>2
<1> QED
  BY <1>4, <1>5

-----------------------------------------------------------------------------
(***************************************************************************)
(* What happens outside of the event loop.                                  *)
(***************************************************************************)
LEMMA FreshIs ==
  ASSUME NEW w, NEW ref \in Refs, ref \notin Mentioned(w)
  PROVE  /\ w.trans[ref] = CC!Free /\ ~HasRef(w.mm.conns, ref)
         /\ \A e \in Elems(w.rrUp) : e.ref # ref
         /\ \A e \in Elems(w.mmxx) : e.ref # ref
         /\ \A e \in Elems(w.mncc) : e.ref # ref
         /\ \A c \in Elems(w.calls) : c.ref # ref
<1>1. w.trans[ref] = CC!Free
  BY DEF Mentioned
<1>2. ref \notin {w.calls[i].ref : i \in DOMAIN w.calls}
      /\ ref \notin {w.mm.conns[i].ref : i \in DOMAIN w.mm.conns}
  BY DEF Mentioned
<1>3. \A q \in {w.rrUp, w.mmxx, w.mncc} : ref \notin {q[i].ref : i \in DOMAIN q}
  BY DEF Mentioned
<1>4. /\ ref \notin {w.rrUp[i].ref : i \in DOMAIN w.rrUp}
      /\ ref \notin {w.mmxx[i].ref : i \in DOMAIN w.mmxx}
      /\ ref \notin {w.mncc[i].ref : i \in DOMAIN w.mncc}
  BY <1>3
<1> QED
  BY <1>1, <1>2, <1>4 DEF Elems, HasRef

LEMMA DialKeeps ==
  ASSUME NEW w, Quiet(w), NEW ref \in Refs, ref \notin Mentioned(w),
         NEW n, n = L4Does(w, L4!Dial(w.calls, ref))
  PROVE  Quiet(n) /\ Forward(w, n)
<1> DEFINE r == L4!Dial(w.calls, ref)
           a == [w EXCEPT !.calls = r.calls]
           b == L4Asks(a, r.reqs, 1)
           c == L4Asks(b, r.reqs, 2)
<1>1. n = L4Asks(c, r.reqs, 3)
  BY DEF L4Does
<1>2. w \in Worlds /\ w.calls \in Seq(CallEntries)
  BY WorldIs DEF Quiet, Good, Base, Lists4
<1>3. \/ r.calls = w.calls /\ r.reqs = <<>>
      \/ /\ r.reqs = <<[type |-> "SETUP_REQ", ref |-> ref]>>
         /\ r.calls \in Seq(CallEntries)
         /\ \A d \in Elems(r.calls) :
              d \in Elems(w.calls) \/ (d.ref = ref /\ d.init)
  BY <1>2, DialIs
<1> HIDE DEF r
<1>4. \A s \in Refs : IsPend(w.trans[s]) =>
        \A d \in Elems(r.calls) : d.ref = s => d.init
  BY <1>3 DEF Quiet, Good, Base, Early
<1>5. r.calls \in Lists4
  BY <1>2, <1>3 DEF Lists4
<1>6. /\ Quiet(a) /\ Steadily(w, a) /\ a.rrUp = w.rrUp /\ a.trans = w.trans
  BY <1>4, <1>5, CallsKeep
<1>7. /\ a.mm = w.mm /\ a.mmxx = w.mmxx /\ a.mncc = w.mncc
      /\ a.calls = r.calls
  BY <1>2 DEF Worlds
<1> HIDE DEF a
<1>8. CASE r.reqs = <<>>
  <2>1. n = a
    BY <1>1, <1>8 DEF L4Asks
  <2> QED
    BY <1>6, <2>1, SteadyForward
<1>9. CASE r.reqs # <<>>
  <2> DEFINE q == [type |-> "SETUP_REQ", ref |-> ref]
  <2>1. q.type = "SETUP_REQ" /\ q.ref = ref
    OBVIOUS
  <2>2. r.reqs = <<q>>
    BY <1>3, <1>9
  <2> HIDE DEF q
  <2>3. DOMAIN r.reqs = 1 .. 1 /\ r.reqs[1] = q
    BY <2>2
  <2>4. b = CcDoes(a, ref, CC!MnccTx(a.trans[ref], "SETUP_REQ"))
    BY <2>1, <2>3 DEF L4Asks
  <2>5. n = b
    BY <1>1, <2>3 DEF L4Asks
  <2>6. a.trans[ref] = CC!Free
    BY <1>6, FreshIs
  <2>7. CC!MnccTx(a.trans[ref], "SETUP_REQ") = CC!InitMm
    BY <2>6 DEF CC!MnccTx
  <2>8. n = CcDoes(a, ref, CC!InitMm)
    BY <2>4, <2>5, <2>7
  <2>9. New(a, ref)
    <3>1. \A d \in Elems(a.calls) : d.ref = ref => d.init
      BY <1>3, <1>7, <1>9, FreshIs
    <3> QED
      BY <1>6, <1>7, <2>6, <3>1, FreshIs DEF New
  <2>10. Quiet(n) /\ Forward(a, n)
    BY <1>6, <2>8, <2>9, InitKeeps
  <2>11. Forward(w, n)
    BY <1>6, <2>10 DEF Forward
  <2> QED
    BY <2>10, <2>11
<1> QED
  BY <1>8, <1>9

\* A command that does not touch the list of calls.
LEMMA SameCallsEarly ==
  ASSUME NEW w, Quiet(w)
  PROVE  /\ w.calls \in Lists4
         /\ \A s \in Refs : IsPend(w.trans[s]) =>
              \A c \in Elems(w.calls) : c.ref = s => c.init
BY WorldIs DEF Quiet, Good, Base, Early

LEMMA HangupKeeps ==
  ASSUME NEW w, Quiet(w), NEW n, n = L4Does(w, L4!Hangup(w.calls))
  PROVE  Quiet(n) /\ Forward(w, n)
<1> DEFINE r == L4!Hangup(w.calls)
           a == [w EXCEPT !.calls = r.calls]
           b == L4Asks(a, r.reqs, 1)
           c == L4Asks(b, r.reqs, 2)
<1>1. n = L4Asks(c, r.reqs, 3)
  BY DEF L4Does
<1>2. w.calls \in Seq(CallEntries)
  BY SameCallsEarly DEF Lists4
<1>3. /\ r.calls = w.calls
      /\ \/ r.reqs = <<>>
         \/ \E d \in Elems(w.calls), q \in Requests :
              /\ r.reqs = <<q>> /\ q.ref = d.ref
              /\ q.type = IF d.init THEN "REL_REQ" ELSE "DISC_REQ"
  BY <1>2, HangupIs
<1> HIDE DEF r
<1>4. r.calls \in Lists4 /\ \A s \in Refs : IsPend(w.trans[s]) =>
        \A d \in Elems(r.calls) : d.ref = s => d.init
  BY <1>3, SameCallsEarly
<1>5. Quiet(a) /\ Steadily(w, a) /\ a.trans = w.trans
  BY <1>4, CallsKeep
<1> HIDE DEF a
<1>6. CASE r.reqs = <<>>
  <2>1. n = a
    BY <1>1, <1>6 DEF L4Asks
  <2> QED
    BY <1>5, <2>1, SteadyForward
<1>7. ASSUME NEW d \in Elems(w.calls), NEW q \in Requests,
             r.reqs = <<q>>, q.ref = d.ref,
             q.type = IF d.init THEN "REL_REQ" ELSE "DISC_REQ"
      PROVE  Quiet(n) /\ Forward(w, n)
  <2>1. DOMAIN r.reqs = 1 .. 1 /\ r.reqs[1] = q
    BY <1>7
  <2>2. n = CcDoes(a, q.ref, CC!MnccTx(a.trans[q.ref], q.type))
    BY <1>1, <2>1 DEF L4Asks
  <2>3. q.type = "DISC_REQ" => ~d.init
    BY <1>7
  <2>4. q.ref \in Refs
    BY DEF Requests
  <2>5. q.type = "DISC_REQ" => ~IsPend(a.trans[q.ref])
    BY <1>3, <1>4, <1>5, <1>7, <2>3, <2>4
  <2>6. q.type # "SETUP_REQ"
    BY <1>7
  <2>7. Quiet(n) /\ Steadily(a, n)
    BY <1>5, <2>2, <2>5, <2>6, AskKeeps
  <2>8. Forward(w, n)
    BY <1>5, <2>7, SteadyForward DEF Forward
  <2> QED
    BY <2>7, <2>8
<1> QED
  BY <1>3, <1>6, <1>7

LEMMA AnswerKeeps ==
  ASSUME NEW w, Quiet(w), NEW n, n = L4Does(w, L4!Answer(w.calls))
  PROVE  Quiet(n) /\ Forward(w, n)
<1> DEFINE r == L4!Answer(w.calls)
<1>1. w.calls \in Seq(CallEntries)
  BY SameCallsEarly DEF Lists4
<1>2. (\A ref : Keep(w.calls, r.calls, ref)) /\ r.reqs \in Seq(Late)
  BY <1>1, AnswerIs
<1>3. n = L4Does(w, r)
  OBVIOUS
<1> HIDE DEF r
<1>4. r.calls \in Lists4
  BY <1>2 DEF Keep, Lists4
<1>5. \A s \in Refs : IsPend(w.trans[s]) =>
        \A c \in Elems(r.calls) : c.ref = s => c.init
  <2> SUFFICES ASSUME NEW s \in Refs, IsPend(w.trans[s]),
                      NEW c \in Elems(r.calls), c.ref = s
               PROVE  c.init
    OBVIOUS
  <2>1. PICK other \in {1, 2} : other # s
    OBVIOUS
  <2>2. Keep(w.calls, r.calls, other)
    BY <1>2
  <2>3. PICK d \in Elems(w.calls) : d.ref = c.ref /\ d.init = c.init
    BY <2>1, <2>2 DEF Keep
  <2>4. d.init
    BY <2>3, SameCallsEarly
  <2> QED
    BY <2>3, <2>4
<1>6. Quiet(n) /\ Steadily(w, n)
  BY <1>2, <1>3, <1>4, <1>5, L4DoesKeeps
<1> QED
  BY <1>6, SteadyForward

LEMMA CommandKeeps ==
  ASSUME NEW w, Quiet(w), NEW r,
         r \in {L4!Hold(w.calls)} \cup {L4!Retrieve(w.calls, k) :
                                          k \in DOMAIN w.calls},
         NEW n, n = L4Does(w, r)
  PROVE  Quiet(n) /\ Forward(w, n)
<1>1. w.calls \in Seq(CallEntries)
  BY SameCallsEarly DEF Lists4
<1>2. r.calls = w.calls /\ r.reqs \in Seq(Late)
  BY <1>1, CommandIs
<1>3. Quiet(n) /\ Steadily(w, n)
  BY <1>2, SameCallsEarly, L4DoesKeeps
<1> QED
  BY <1>3, SteadyForward

LEMMA MmQuiet ==
  ASSUME NEW w, Quiet(w), NEW r, Handles(w.mm, r), r.rr = "none", Mute(r),
         Calm(w.mm, r.mm), NEW n, n = MmDoes(w, r)
  PROVE  Quiet(n) /\ Forward(w, n) /\ MmFrame(w, r, n)
<1>1. Base(w) /\ Owed(w) /\ Air(w) /\ Rests(w) /\ NoCnf(w) /\ w \in Worlds
  BY DEF Quiet, Good, Base
<1>2. MmKept(w, r, MmDoes(w, r))
  BY <1>1, MmKeeps
<1>3. MmKept(w, r, n)
  BY <1>2
<1>4. Quiet(n) /\ MmFrame(w, r, n)
  BY <1>1, <1>3 DEF MmKept, Calm, Quiet, Good
<1>5. Forward(w, n)
  BY <1>1, <1>4, SameForward DEF MmFrame
<1> QED
  BY <1>4, <1>5

\* The link is left in a way that nobody above notices.
LEMMA LinkQuiet ==
  ASSUME NEW w, Quiet(w), NEW l \in RR!Links,
         OnAir(l) <=> OnAir(w.link),
         l.st = "camped" <=> w.link.st = "camped",
         Unused(w.link) => Unused(l),
         l.st \in {"camped", "choose"} => Unused(l),
         NEW n, n = [w EXCEPT !.link = l]
  PROVE  Quiet(n) /\ n.trans = w.trans
<1>1. w \in Worlds
  BY DEF Quiet, Good, Base
<1>2. /\ n \in Worlds /\ n.mmxx = w.mmxx /\ n.trans = w.trans
      /\ n.calls = w.calls /\ n.mncc = w.mncc /\ n.link = l
      /\ n.mm = w.mm /\ n.rrUp = w.rrUp /\ n.events = w.events
  BY <1>1 DEF Worlds
<1>3. Base(n)
  BY <1>2 DEF Quiet, Good, Base, Unasked, Waits, Released, Unknown, Early,
              TimedCalls
<1>4. Owed(n)
  BY <1>2 DEF Quiet, Good, Owed, Owes
<1>5. Air(n) /\ Rests(n) /\ NoCnf(n)
  BY <1>2 DEF Quiet, Good, Air, Rests, NoCnf
<1> QED
  BY <1>2, <1>3, <1>4, <1>5 DEF Quiet, Good

LEMMA T3230Keeps ==
  ASSUME NEW w, Quiet(w), NEW n, n = MmDoes(w, MM!T3230(w.mm))
  PROVE  Quiet(n) /\ Forward(w, n)
<1> DEFINE r == MM!T3230(w.mm)
<1>1. Sane(w.mm)
  BY DEF Quiet, Good, Base
<1>2. Handles(w.mm, r) /\ Mute(r) /\ Calm(w.mm, r.mm) /\ r.rr = "none"
  BY <1>1, T3230Is
<1>3. n = MmDoes(w, r)
  OBVIOUS
<1> HIDE DEF r
<1> QED
  BY <1>2, <1>3, MmQuiet

LEMMA T3240Keeps ==
  ASSUME NEW w, Quiet(w), NEW camped \in BOOLEAN,
         NEW n, n = MmDoes(w, MM!T3240(w.mm, camped))
  PROVE  Quiet(n) /\ Forward(w, n)
<1> DEFINE r == MM!T3240(w.mm, camped)
           p == [mm |-> r.mm, up |-> r.up, rr |-> "none"]
           x == MmDoes(w, p)
<1>1. Sane(w.mm) /\ w \in Worlds
  BY DEF Quiet, Good, Base
<1>2. /\ Handles(w.mm, r) /\ Mute(r) /\ Calm(w.mm, r.mm)
      /\ r.rr \in {"none", "ABORT_REQ"}
  BY <1>1, T3240Is
<1>3. n = MmDoes(w, r)
  OBVIOUS
<1>4. p.mm = r.mm /\ p.up = r.up /\ p.rr = "none"
  OBVIOUS
<1>5. x = [w EXCEPT !.mm = r.mm, !.mmxx = @ \o r.up]
  BY DEF MmDoes, RrDown
<1> HIDE DEF r, p
<1>6. Handles(w.mm, p) /\ Mute(p) /\ Calm(w.mm, p.mm)
  BY <1>2, <1>4 DEF Handles, Mute
<1>7. Quiet(x) /\ Forward(w, x) /\ MmFrame(w, p, x)
  BY <1>4, <1>6, MmQuiet
<1>8. n = RrDown(x, r.rr)
  BY <1>3, <1>5 DEF MmDoes
<1> HIDE DEF x
<1>9. CASE r.rr = "none"
  <2>1. n = x
    BY <1>8, <1>9 DEF RrDown
  <2> QED
    BY <1>7, <2>1
<1>10. CASE r.rr = "ABORT_REQ"
  <2> DEFINE l == RR!AbortReq(x.link)
  <2>1. n = [x EXCEPT !.link = l]
    BY <1>8, <1>10 DEF RrDown
  <2>2. x.link \in RR!Links
    BY <1>7, WorldIs DEF Quiet, Good, Base
  <2>3. x.link.st \in {"camped", "choose"} => Unused(x.link)
    BY <1>7 DEF Quiet, Good, Base, Unasked
  <2>4. /\ l \in RR!Links /\ (OnAir(l) <=> OnAir(x.link))
        /\ l.st = "camped" <=> x.link.st = "camped"
        /\ Unused(x.link) => Unused(l)
        /\ l.st \in {"camped", "choose"} => Unused(l)
    BY <2>2, <2>3, LinkAbort
  <2> HIDE DEF l
  <2>5. Quiet(n) /\ n.trans = x.trans
    BY <1>7, <2>1, <2>4, LinkQuiet
  <2> QED
    BY <1>7, <2>5 DEF Forward
<1> QED
  BY <1>2, <1>9, <1>10

LEMMA T3122Keeps ==
  ASSUME NEW w, Quiet(w), NEW n, n = [w EXCEPT !.link.t3122 = FALSE]
  PROVE  Quiet(n) /\ Forward(w, n)
<1> DEFINE l == [w.link EXCEPT !.t3122 = FALSE]
<1>1. w \in Worlds /\ w.link \in RR!Links
      /\ (w.link.st \in {"camped", "choose"} => Unused(w.link))
  BY WorldIs DEF Quiet, Good, Base, Unasked
<1>2. l \in RR!Links /\ l.st = w.link.st /\ (Unused(l) <=> Unused(w.link))
  BY <1>1 DEF RR!Links, Unused
<1>3. n = [w EXCEPT !.link = l]
  BY <1>1 DEF Worlds
<1> HIDE DEF l
<1>4. OnAir(l) <=> OnAir(w.link)
  BY <1>2 DEF OnAir
<1>5. Quiet(n) /\ n.trans = w.trans
  BY <1>1, <1>2, <1>3, <1>4, LinkQuiet
<1> QED
  BY <1>1, <1>5, SameForward

LEMMA CcTimeoutKeeps ==
  ASSUME NEW w, Quiet(w), NEW ref \in Refs,
         NEW n, n = CcDoes(w, ref, CC!Timeout(w.trans[ref]))
  PROVE  Quiet(n) /\ Forward(w, n)
<1> DEFINE t == w.trans[ref]
           r == CC!Timeout(t)
<1>1. n = CcDoes(w, ref, r)
  OBVIOUS
<1>2. w \in Worlds /\ Base(w) /\ t \in CC!Transactions
  BY PhaseOf DEF Quiet, Good, Base
<1>3. CcOk(t, r) /\ r.t = CC!Free /\ r.conn = "REL_REQ"
  BY <1>2, TimeoutIs
<1> HIDE DEF r
<1>4. ~IsPend(r.t) /\ ~IsLive(r.t)
  BY <1>3 DEF IsPend, IsLive, CC!Free
<1>5. CcMay(w, ref, r)
  BY <1>3, <1>4 DEF CcMay
<1>6. CcKept(w, ref, r, CcDoes(w, ref, r))
  BY <1>2, <1>5, CcKeeps
<1>7. CcKept(w, ref, r, n)
  BY <1>1, <1>6
<1>8. OwedAs(w, ref, r.t)
  BY <1>4 DEF Quiet, Good, Owed, Owes, OwedAs
<1>9. Quiet(n)
  BY <1>7, <1>8 DEF CcKept, Quiet, Good
<1>10. n.trans = [w.trans EXCEPT ![ref] = r.t]
  BY <1>7 DEF CcKept
<1> QED
  BY <1>2, <1>3, <1>9, <1>10, CcForward

LEMMA RadioKeeps ==
  ASSUME NEW w, Quiet(w), NEW g \in RR!Steps(w.link),
         NEW n, n = LinkDoes(w, g)
  PROVE  Quiet(n) /\ Forward(w, n)
<1>1. w \in Worlds /\ w.link \in RR!Links /\ w.rrUp \in RrQueues
  BY WorldIs DEF Quiet, Good, Base
<1>2. Radios(w.link, g)
  BY <1>1, RadioSteps
<1>3. g.link \in RR!Links /\ g.up \in Tells
  BY <1>2 DEF Radios
<1>4. LinkLeaves(w, g, n)
  BY <1>1, <1>3, LinkDoesIs
<1>5. /\ n \in Worlds /\ n.trans = w.trans /\ n.mm = w.mm
      /\ n.link = g.link /\ n.calls = w.calls /\ n.mmxx = w.mmxx
      /\ n.events = w.events /\ n.mncc = w.mncc
  BY <1>4 DEF LinkLeaves
<1>6. \A e \in Elems(n.rrUp) :
        e \in Elems(w.rrUp) \/ (e.p \notin CC!Messages /\ e.p # "CM_SERV_ACC")
  <2>1. CASE n.rrUp = w.rrUp
    BY <2>1
  <2>2. ASSUME NEW p \in LinkPrims, n.rrUp = w.rrUp \o <<Up(p, NoRef)>>
        PROVE  \A e \in Elems(n.rrUp) : e \in Elems(w.rrUp) \/ e.p = p
    <3> DEFINE e == Up(p, NoRef)
               o == <<e>>
    <3>1. e \in RrEntries /\ e.p = p
      BY DEF Up, RrEntries, RrPrims, LinkPrims
    <3>2. n.rrUp = w.rrUp \o o
      BY <2>2
    <3> HIDE DEF e
    <3>3. o \in Seq(RrEntries) /\ Elems(o) = {e}
      BY <3>1, ElemsOfOne
    <3> HIDE DEF o
    <3>4. Elems(n.rrUp) = Elems(w.rrUp) \cup {e}
      BY <1>1, <3>2, <3>3, ElemsOfCat DEF RrQueues
    <3> QED
      BY <3>1, <3>4
  <2>3. \A p \in LinkPrims : p \notin CC!Messages /\ p # "CM_SERV_ACC"
    BY MessagesAre DEF LinkPrims, DataMessages
  <2> QED
    BY <1>4, <2>1, <2>2, <2>3 DEF LinkLeaves
<1>7. Unasked(n)
  <2>1. Unused(w.link) => Unused(g.link)
    BY <1>2 DEF Radios
  <2>2. g.link.st # "camped" /\ (g.link.st = "choose" => Unused(g.link))
    BY <1>2 DEF Radios
  <2> QED
    BY <1>5, <1>6, <2>1, <2>2 DEF Quiet, Good, Base, Unasked
<1>8. Unknown(n)
  BY <1>5, <1>6 DEF Quiet, Good, Base, Unknown
<1>9. Base(n)
  BY <1>5, <1>7, <1>8 DEF Quiet, Good, Base, Waits, Released, Early,
                          TimedCalls
<1>10. Owed(n) /\ NoCnf(n)
  BY <1>5 DEF Quiet, Good, Owed, Owes, NoCnf
<1>11. Rests(n)
  BY <1>2, <1>5 DEF Rests, Radios
<1>12. Air(n)
  <2>1. CASE OnAir(g.link)
    BY <1>5, <2>1 DEF Air
  <2>2. CASE g.up \in Falls
    <3>1. g.up # <<>> /\ g.up[1] \in FallPrims
      BY <2>2 DEF Falls, FallPrims
    <3>2. n.rrUp = w.rrUp \o <<Up(g.up[1], NoRef)>>
      BY <1>4, <3>1 DEF LinkLeaves
    <3>3. HasFall(n.rrUp) /\ Covered(n.rrUp)
      BY <1>1, <3>1, <3>2, FallAppended
    <3> QED
      BY <3>3 DEF Air
  <2>3. CASE ~OnAir(w.link) /\ g.up = <<>>
    <3>1. n.rrUp = w.rrUp
      BY <1>4, <2>3 DEF LinkLeaves
    <3> QED
      BY <1>5, <2>3, <3>1 DEF Quiet, Good, Air
  <2> QED
    BY <1>2, <2>1, <2>2, <2>3 DEF Radios
<1>13. Forward(w, n)
  BY <1>1, <1>5, SameForward
<1> QED
  BY <1>9, <1>10, <1>11, <1>12, <1>13 DEF Quiet, Good

LEMMA CampKeeps ==
  ASSUME NEW w, Quiet(w), w.link.st = "choose",
         NEW n, n = [w EXCEPT !.link.st = "camped",
                              !.events = Append(@, "CELL_SELECTED")]
  PROVE  Quiet(n) /\ Forward(w, n)
<1> DEFINE l == [w.link EXCEPT !.st = "camped"]
           x == Append(w.events, "CELL_SELECTED")
<1>1. w \in Worlds /\ w.link \in RR!Links /\ w.events \in EventQueues
  BY WorldIs DEF Quiet, Good, Base
<1>2. l \in RR!Links /\ l.st = "camped" /\ (Unused(l) <=> Unused(w.link))
  BY <1>1 DEF RR!Links, RR!LinkStates, Unused
<1>3. x \in EventQueues /\ x # <<>>
  BY <1>1 DEF EventQueues
<1>4. n = [w EXCEPT !.link = l, !.events = x]
  BY <1>1 DEF Worlds
<1> HIDE DEF l, x
<1>5. /\ n \in Worlds /\ n.mmxx = w.mmxx /\ n.trans = w.trans
      /\ n.calls = w.calls /\ n.mncc = w.mncc /\ n.link = l
      /\ n.mm = w.mm /\ n.rrUp = w.rrUp /\ n.events = x
  BY <1>1, <1>2, <1>3, <1>4 DEF Worlds
<1>6. Unasked(n)
  BY <1>2, <1>5 DEF Quiet, Good, Base, Unasked
<1>7. Base(n)
  BY <1>5, <1>6 DEF Quiet, Good, Base, Waits, Released, Unknown, Early,
                    TimedCalls
<1>8. Owed(n) /\ NoCnf(n)
  BY <1>5 DEF Quiet, Good, Owed, Owes, NoCnf
<1>9. Air(n) /\ Rests(n)
  BY <1>3, <1>5 DEF Quiet, Good, Air, Rests, OnAir
<1>10. Forward(w, n)
  BY <1>1, <1>5, SameForward
<1> QED
  BY <1>7, <1>8, <1>9, <1>10 DEF Quiet, Good

LEMMA ArrivesKeeps ==
  ASSUME NEW w, Quiet(w), w.link.st = "dedic", NEW e \in RrEntries,
         e.p = "CM_SERV_ACC" => w.link.asked,
         e.p \in CC!Messages /\ e.ref \in Refs => ~IsPend(w.trans[e.ref]),
         NEW l, l = w.link \/ l = [w.link EXCEPT !.asked = FALSE],
         NEW n, n = [w EXCEPT !.rrUp = Append(@, e), !.link = l]
  PROVE  Quiet(n) /\ Forward(w, n)
<1> DEFINE x == Append(w.rrUp, e)
<1>1. w \in Worlds /\ w.link \in RR!Links /\ w.rrUp \in Seq(RrEntries)
  BY WorldIs DEF Quiet, Good, Base, RrQueues
<1>2. /\ l \in RR!Links /\ l.st = "dedic"
      /\ Unused(w.link) => Unused(l) /\ ~w.link.asked
  BY <1>1 DEF RR!Links, RR!LinkStates, Unused
<1>3. x \in RrQueues /\ Elems(x) = Elems(w.rrUp) \cup {e}
  <2> DEFINE o == <<e>>
  <2>1. o \in Seq(RrEntries) /\ Elems(o) = {e}
    BY ElemsOfOne
  <2>2. x = w.rrUp \o o
    BY <1>1
  <2> HIDE DEF o, x
  <2> QED
    BY <1>1, <2>1, <2>2, ElemsOfCat DEF RrQueues
<1>4. n = [w EXCEPT !.rrUp = x, !.link = l]
  BY <1>1 DEF Worlds
<1> HIDE DEF x
<1>5. /\ n \in Worlds /\ n.mmxx = w.mmxx /\ n.trans = w.trans
      /\ n.calls = w.calls /\ n.mncc = w.mncc /\ n.link = l
      /\ n.mm = w.mm /\ n.rrUp = x /\ n.events = w.events
  BY <1>1, <1>2, <1>3, <1>4 DEF Worlds
<1>6. Unasked(n)
  BY <1>2, <1>3, <1>5 DEF Quiet, Good, Base, Unasked
<1>7. Unknown(n)
  BY <1>3, <1>5 DEF Quiet, Good, Base, Unknown
<1>8. Base(n)
  BY <1>5, <1>6, <1>7 DEF Quiet, Good, Base, Waits, Released, Early,
                    TimedCalls
<1>9. Owed(n) /\ NoCnf(n)
  BY <1>5 DEF Quiet, Good, Owed, Owes, NoCnf
<1>10. Air(n) /\ Rests(n)
  BY <1>2, <1>5 DEF Air, Rests, OnAir
<1>11. Forward(w, n)
  BY <1>1, <1>5, SameForward
<1> QED
  BY <1>8, <1>9, <1>10, <1>11 DEF Quiet, Good

-----------------------------------------------------------------------------
(***************************************************************************)
(* The round of the event loop.                                             *)
(***************************************************************************)
LEMMA Least ==
  ASSUME NEW S \in SUBSET (1 .. 4), S # {}
  PROVE  LET m == CHOOSE s \in S : \A t \in S : s <= t
         IN m \in S /\ \A t \in S : m <= t
<1> SUFFICES \E s \in S : \A t \in S : s <= t
  OBVIOUS
<1>1. \A s \in S : s \in {1, 2, 3, 4}
  OBVIOUS
<1>2. CASE 1 \in S
  BY <1>1, <1>2
<1>3. CASE 1 \notin S /\ 2 \in S
  BY <1>1, <1>3
<1>4. CASE 1 \notin S /\ 2 \notin S /\ 3 \in S
  BY <1>1, <1>4
<1>5. CASE 1 \notin S /\ 2 \notin S /\ 3 \notin S
  <2>1. \A s \in S : s = 4
    BY <1>1, <1>5
  <2>2. PICK x \in S : TRUE
    OBVIOUS
  <2> WITNESS x \in S
  <2> QED
    BY <2>1, <2>2
<1> QED
  BY <1>2, <1>3, <1>4, <1>5

LEMMA Places ==
  /\ DOMAIN Round = 1 .. 4 /\ Round[1] = "rrUp" /\ Round[2] = "mmxx"
  /\ Round[3] = "events" /\ Round[4] = "mncc"
  /\ Stages = {"select", "rrUp", "mmxx", "events", "mncc"}
<1>1. /\ DOMAIN Round = 1 .. 4 /\ Round[1] = "rrUp" /\ Round[2] = "mmxx"
      /\ Round[3] = "events" /\ Round[4] = "mncc"
  BY DEF Round
<1>2. 1 .. 4 = {1, 2, 3, 4}
  OBVIOUS
<1>3. {Round[i] : i \in DOMAIN Round} = {"rrUp", "mmxx", "events", "mncc"}
  BY <1>1, <1>2
<1> QED
  BY <1>1, <1>3 DEF Stages

\* Where the first entry to be served is looked for.
Place(stage) ==
  IF stage = "select" THEN 1 ELSE CHOOSE s \in DOMAIN Round : Round[s] = stage

LEMMA PlaceIs ==
  /\ Place("select") = 1 /\ Place("rrUp") = 1 /\ Place("mmxx") = 2
  /\ Place("events") = 3 /\ Place("mncc") = 4
<1>1. \A s \in DOMAIN Round :
        /\ Round[s] = "rrUp" <=> s = 1
        /\ Round[s] = "mmxx" <=> s = 2
        /\ Round[s] = "events" <=> s = 3
        /\ Round[s] = "mncc" <=> s = 4
  <2>1. \A s \in 1 .. 4 : s \in {1, 2, 3, 4}
    OBVIOUS
  <2> QED
    BY <2>1, Places
<1>2. {1, 2, 3, 4} \subseteq DOMAIN Round
  BY Places
<1> QED
  BY <1>1, <1>2 DEF Place

LEMMA TurnIs ==
  ASSUME NEW w, NEW stage \in Stages
  PROVE  /\ Turn(w, stage) = "rrUp" => w.rrUp # <<>>
         /\ Turn(w, stage) = "mmxx" =>
              w.mmxx # <<>> /\ (w.rrUp = <<>> \/ stage = "mmxx")
         /\ Turn(w, stage) = "events" =>
              /\ w.events # <<>>
              /\ w.rrUp = <<>> \/ stage \in {"mmxx", "events"}
              /\ w.mmxx = <<>> \/ stage = "events"
         /\ Turn(w, stage) = "mncc" =>
              /\ w.mncc # <<>>
              /\ w.mmxx = <<>> \/ stage \in {"events", "mncc"}
<1> DEFINE place == Place(stage)
           late == {s \in Waiting(w) : s >= place}
           from == IF late = {} THEN Waiting(w) ELSE late
           m == CHOOSE s \in from : \A t \in from : s <= t
<1>1. Turn(w, stage) = IF from = {} THEN "select" ELSE Round[m]
  BY DEF Turn, Place
<1>2. /\ Waiting(w) \subseteq 1 .. 4
      /\ 1 \in Waiting(w) <=> w.rrUp # <<>>
      /\ 2 \in Waiting(w) <=> w.mmxx # <<>>
      /\ 3 \in Waiting(w) <=> w.events # <<>>
      /\ 4 \in Waiting(w) <=> w.mncc # <<>>
  BY DEF Waiting, Queues
<1>3. place \in 1 .. 4
      /\ (place = 1 <=> stage \in {"select", "rrUp"})
      /\ (place = 2 <=> stage = "mmxx") /\ (place = 3 <=> stage = "events")
      /\ (place = 4 <=> stage = "mncc")
  BY Places, PlaceIs
<1> HIDE DEF place
<1>4. from \in SUBSET (1 .. 4)
  BY <1>2
<1>5. from # {} => m \in from /\ \A t \in from : m <= t
  BY <1>4, Least
<1>6. /\ from \subseteq Waiting(w)
      /\ from # {} => /\ m \in Waiting(w)
                      /\ \A t \in Waiting(w) : t < m => t < place /\ m >= place
  <2> HIDE DEF m
  <2>1. \A t \in Waiting(w) : t \in Int
    BY <1>2
  <2> QED
    BY <1>3, <1>5, <2>1
<1> HIDE DEF from, m
<1>7. CASE from = {}
  BY <1>1, <1>7
<1>8. CASE from # {}
  <2>1. Turn(w, stage) = Round[m] /\ m \in Waiting(w) /\ m \in {1, 2, 3, 4}
    BY <1>1, <1>2, <1>6, <1>8
  <2>2. CASE m = 1
    BY <1>2, <2>1, <2>2, Places
  <2>3. CASE m = 2
    <3>1. w.mmxx # <<>> /\ (1 \in Waiting(w) => 1 < place /\ 2 >= place)
      BY <1>2, <1>6, <1>8, <2>1, <2>3
    <3>2. w.rrUp = <<>> \/ stage = "mmxx"
      BY <1>2, <1>3, <3>1
    <3> QED
      BY <2>1, <2>3, <3>1, <3>2, Places
  <2>4. CASE m = 3
    <3>1. /\ w.events # <<>> /\ (1 \in Waiting(w) => 1 < place /\ 3 >= place)
          /\ 2 \in Waiting(w) => 2 < place /\ 3 >= place
      BY <1>2, <1>6, <1>8, <2>1, <2>4
    <3>2. /\ w.rrUp = <<>> \/ stage \in {"mmxx", "events"}
          /\ w.mmxx = <<>> \/ stage = "events"
      BY <1>2, <1>3, <3>1
    <3> QED
      BY <2>1, <2>4, <3>1, <3>2, Places
  <2>5. CASE m = 4
    <3>1. w.mncc # <<>> /\ (2 \in Waiting(w) => 2 < place)
      BY <1>2, <1>6, <1>8, <2>1, <2>5
    <3>2. w.mmxx = <<>> \/ stage \in {"events", "mncc"}
      BY <1>2, <1>3, <3>1
    <3> QED
      BY <2>1, <2>5, <3>1, <3>2, Places
  <2> QED
    BY <2>1, <2>2, <2>3, <2>4, <2>5
<1> QED
  BY <1>7, <1>8

-----------------------------------------------------------------------------
(***************************************************************************)
(* The inductive invariant of Call, and the steps of the event loop.        *)
(***************************************************************************)
\* Once the queue of RR has been passed it stays empty until the next round,
\* and a confirmation is gone once the queue of MM has been passed.
Passed(w, stage) ==
  /\ stage \in Stages
  /\ stage \in {"mmxx", "events"} => w.rrUp = <<>>
  /\ stage \notin {"rrUp", "mmxx"} => NoCnf(w)

Sound(w, stage) == Good(w) /\ Confirmed(w) /\ Passed(w, stage)

IInv == Sound(World, at)

\* The calls go forward from the transactions of t to those of u.
Onwards(t, u) == \A r \in Refs : Phase(u[r]) = 0 \/ Phase(u[r]) >= Phase(t[r])

LEMMA BecomesIs ==
  ASSUME NEW w \in Worlds, NEW stage, Becomes(w, stage), Sound(w, stage)
  PROVE  IInv' /\ trans' = w.trans
<1>1. World' = w /\ at' = stage
  BY WorldIs DEF Becomes, World
<1>2. Sound(World', at')
  BY <1>1
<1> QED
  BY <1>2 DEF IInv, Becomes

LEMMA ServedIs ==
  ASSUME NEW w, NEW stage, Served(w, stage), Sound(w, stage)
  PROVE  IInv' /\ trans' = w.trans
<1>0. w \in Worlds /\ stage \in Stages
  BY DEF Sound, Good, Base, Passed
<1>1. CASE Waiting(w) = {}
  <2>1. w.mmxx = <<>>
    <3>1. 2 \in DOMAIN Queues(w) /\ Queues(w)[2] = w.mmxx
      BY DEF Queues
    <3> QED
      BY <1>1, <3>1 DEF Waiting
  <2>2. NoCnf(w)
    BY <2>1, ElemsOfNone DEF NoCnf
  <2>3. Sound(w, "select")
    BY <2>2, Places DEF Sound, Passed
  <2>4. Becomes(w, "select")
    BY <1>1 DEF Served
  <2> QED
    BY <1>0, <2>3, <2>4, BecomesIs
<1>2. CASE Waiting(w) # {}
  <2>1. Becomes(w, stage)
    BY <1>2 DEF Served
  <2> QED
    BY <1>0, <2>1, BecomesIs
<1> QED
  BY <1>1, <1>2

LEMMA ForwardIs ==
  ASSUME NEW w, NEW n \in Worlds, Forward(w, n)
  PROVE  Onwards(w.trans, n.trans)
BY PhaseOf DEF Forward, Onward, Onwards

\* What select calls: nothing that is said to call control is a confirmation.
LEMMA SelectsIs ==
  ASSUME IInv, NEW n, Selects(n),
         Quiet(World) => Quiet(n) /\ Forward(World, n)
  PROVE  IInv' /\ Onwards(trans, trans')
<1>1. at = "select" /\ Becomes(n, "select")
  BY DEF Selects, InSelect
<1>2. Quiet(World)
  BY <1>1 DEF IInv, Sound, Passed, Quiet
<1>3. Quiet(n) /\ Forward(World, n) /\ n \in Worlds
  BY <1>2 DEF Quiet, Good, Base
<1>4. Confirmed(n)
  BY <1>3, ElemsOfSeq, WorldIs DEF Quiet, NoCnf, Confirmed, MmxxQueues
<1>5. Sound(n, "select")
  BY <1>3, <1>4, Places DEF Sound, Passed, Quiet
<1>6. IInv' /\ trans' = n.trans
  BY <1>1, <1>3, <1>5, BecomesIs
<1>7. World.trans = trans
  BY DEF World
<1> QED
  BY <1>3, <1>6, <1>7, ForwardIs

LEMMA Starts ==
  ASSUME Init
  PROVE  IInv
<1>1. /\ trans = [r \in Refs |-> CC!Free] /\ mm = MM!MmInit
      /\ link = RR!LinkInit /\ calls = <<>> /\ rrUp = <<>> /\ mmxx = <<>>
      /\ events = <<>> /\ mncc = <<>> /\ at = "select"
  BY DEF Init
<1> DEFINE w == World
<1>2. /\ w.trans = trans /\ w.mm = mm /\ w.link = link /\ w.calls = calls
      /\ w.rrUp = rrUp /\ w.mmxx = mmxx /\ w.events = events /\ w.mncc = mncc
      /\ w = [trans |-> w.trans, mm |-> w.mm, link |-> w.link,
              calls |-> w.calls, rrUp |-> w.rrUp, mmxx |-> w.mmxx,
              events |-> w.events, mncc |-> w.mncc]
  BY DEF World
<1>14. World = w
  OBVIOUS
<1> HIDE DEF w
<1>3. /\ CC!Free \in CC!Transactions /\ ~IsLive(CC!Free) /\ ~IsPend(CC!Free)
      /\ TimedCc(CC!Free)
  BY DEF CC!Free, CC!Transactions, CC!States, CC!Timers, CC!NoTimer, IsLive,
         IsPend, TimedCc
<1>4. mm \in MM!MmLayers /\ mm.conns = <<>> /\ mm.state = "IDLE" /\ Sane(mm)
  <2>1. /\ mm.conns = <<>> /\ mm.state = "IDLE"
        /\ mm = [state |-> mm.state, conns |-> mm.conns, t3230 |-> mm.t3230,
                 t3240 |-> mm.t3240]
        /\ mm.t3230 \in BOOLEAN /\ mm.t3240 \in BOOLEAN
    BY <1>1 DEF MM!MmInit
  <2>2. mm.conns \in Seq(MmConns)
    BY <2>1
  <2>3. mm \in MM!MmLayers
    BY <2>1, <2>2, MmIs DEF MM!MmStates
  <2>4. Uniq(mm.conns) /\ Elems(mm.conns) = {}
    BY <2>1, ElemsOfNone DEF Uniq
  <2> QED
    BY <2>1, <2>3, <2>4 DEF Sane, TimedMm, DedicMm, HasPend, HasDedic
<1>5. link \in RR!Links /\ ~OnAir(link) /\ Unused(link)
  BY <1>1 DEF RR!LinkInit, RR!Links, RR!LinkStates, OnAir, Unused
<1>6. \A r \in Refs : w.trans[r] = CC!Free
  BY <1>1, <1>2
<1>7. w \in Worlds
  <2>1. w.trans \in Transes
    BY <1>1, <1>2, <1>3 DEF Transes
  <2>2. /\ w.rrUp \in RrQueues /\ w.mmxx \in MmxxQueues
        /\ w.events \in EventQueues /\ w.mncc \in MnccQueues
        /\ w.calls \in Lists4
    BY <1>1, <1>2 DEF RrQueues, MmxxQueues, EventQueues, MnccQueues, Lists4
  <2> QED
    BY <1>2, <1>4, <1>5, <2>1, <2>2, WorldIs
<1>8. /\ Elems(w.rrUp) = {} /\ Elems(w.mmxx) = {} /\ Elems(w.mncc) = {}
      /\ Elems(w.mm.conns) = {} /\ DOMAIN w.rrUp = {} /\ DOMAIN w.mmxx = {}
  BY <1>1, <1>2, <1>4, ElemsOfNone
<1>9. ~HasPend(w.mm) /\ ~HasDedic(w.mm)
  BY <1>8 DEF HasPend, HasDedic
<1>10. Base(w)
  BY <1>2, <1>3, <1>4, <1>5, <1>6, <1>7, <1>8, <1>9
     DEF Base, Unasked, Waits, Released, Unknown, Early, TimedCalls
<1>11. Air(w) /\ Rests(w)
  BY <1>2, <1>4, <1>8, <1>9 DEF Air, Rests, Covered
<1>12. Owed(w)
  BY <1>3, <1>6 DEF Owed, Owes
<1>13. NoCnf(w) /\ Confirmed(w)
  BY <1>8 DEF NoCnf, Confirmed
<1> QED
  BY <1>1, <1>10, <1>11, <1>12, <1>13, <1>14, Places
     DEF IInv, Sound, Good, Passed

\* A step of the event loop on the entry that it has taken from a queue.
LEMMA ServeRrStep ==
  ASSUME IInv, ServeRr
  PROVE  IInv' /\ Onwards(trans, trans')
<1> DEFINE v == World
           w == [v EXCEPT !.rrUp = Tail(@)]
           e == Head(v.rrUp)
<1>1. PICK n \in RrDeliver(w, e) : Served(n, "rrUp")
  BY DEF ServeRr, World
<1>2. Good(v) /\ Confirmed(v) /\ v.rrUp # <<>>
  BY TurnIs DEF IInv, Sound, Passed, ServeRr
<1>3. v.trans = trans
  BY DEF World
<1> HIDE DEF v
<1>4. Base(w) /\ Owed(w) /\ RrEntryOk(w, e) /\ w.trans = trans /\ Confirmed(w)
  BY <1>2, <1>3, PopRr
<1> HIDE DEF w, e
<1>5. Good(n) /\ Forward(w, n) /\ Confirmed(n)
  BY <1>1, <1>4, RrServed DEF Delivered
<1>6. Sound(n, "rrUp")
  BY <1>5, Places DEF Sound, Passed
<1>7. IInv' /\ trans' = n.trans
  BY <1>1, <1>6, ServedIs
<1> QED
  BY <1>4, <1>5, <1>7, ForwardIs DEF Good, Base

LEMMA ServeMmxxStep ==
  ASSUME IInv, ServeMmxx
  PROVE  IInv' /\ Onwards(trans, trans')
<1> DEFINE v == World
           w == [v EXCEPT !.mmxx = Tail(@)]
           e == Head(v.mmxx)
<1>1. PICK n \in MmxxDeliver(w, e) : Served(n, "mmxx")
  BY DEF ServeMmxx, World
<1>2. Good(v) /\ Confirmed(v) /\ v.mmxx # <<>> /\ v.rrUp = <<>>
  BY TurnIs DEF IInv, Sound, Passed, ServeMmxx
<1>3. v.trans = trans
  BY DEF World
<1> HIDE DEF v
<1>4. /\ Base(w) /\ Air(w) /\ Rests(w) /\ MmxxEntryOk(w, e)
      /\ w.trans = trans /\ Confirmed(w) /\ w.rrUp = <<>>
  BY <1>2, <1>3, PopMmxx
<1> HIDE DEF w, e
<1>5. Good(n) /\ Forward(w, n) /\ Confirmed(n) /\ n.rrUp = <<>>
  BY <1>1, <1>4, MmxxServed DEF Delivered
<1>6. Sound(n, "mmxx")
  BY <1>5, Places DEF Sound, Passed
<1>7. IInv' /\ trans' = n.trans
  BY <1>1, <1>6, ServedIs
<1> QED
  BY <1>4, <1>5, <1>7, ForwardIs DEF Good, Base

\* No confirmation is queued where nothing else is said to call control.
LEMMA QuietConfirmed ==
  ASSUME NEW w, Quiet(w)
  PROVE  Good(w) /\ Confirmed(w) /\ NoCnf(w) /\ w \in Worlds
<1>1. Good(w) /\ NoCnf(w) /\ w \in Worlds
  BY DEF Quiet, Good, Base
<1> QED
  BY <1>1, ElemsOfSeq, WorldIs DEF NoCnf, Confirmed, MmxxQueues

LEMMA ServeEventsStep ==
  ASSUME IInv, ServeEvents
  PROVE  IInv' /\ Onwards(trans, trans')
<1> DEFINE v == World
           w == [v EXCEPT !.events = Tail(@)]
<1>1. PICK n \in EventDeliver(w) : Served(n, "events")
  BY DEF ServeEvents, World
<1>2. /\ Good(v) /\ v.events # <<>> /\ v.rrUp = <<>>
      /\ v.mmxx = <<>> \/ at = "events"
  BY TurnIs DEF IInv, Sound, Passed, ServeEvents
<1>3. NoCnf(v)
  BY <1>2, ElemsOfNone DEF IInv, Sound, Passed, NoCnf
<1>4. v.trans = trans
  BY DEF World
<1> HIDE DEF v
<1>5. /\ Base(w) /\ Owed(w) /\ Air(w) /\ NoCnf(w)
      /\ w.trans = trans /\ w.rrUp = <<>>
  BY <1>2, <1>3, <1>4, PopEvents
<1> HIDE DEF w
<1>6. Good(n) /\ NoCnf(n) /\ Forward(w, n) /\ n.rrUp = <<>>
  BY <1>1, <1>5, EventServed
<1>7. Sound(n, "events")
  BY <1>6, QuietConfirmed, Places DEF Sound, Passed, Quiet
<1>8. IInv' /\ trans' = n.trans
  BY <1>1, <1>7, ServedIs
<1> QED
  BY <1>5, <1>6, <1>8, ForwardIs DEF Good, Base

LEMMA ServeMnccStep ==
  ASSUME IInv, ServeMncc
  PROVE  IInv' /\ Onwards(trans, trans')
<1> DEFINE v == World
           w == [v EXCEPT !.mncc = Tail(@)]
           e == Head(v.mncc)
<1>1. PICK n \in MnccDeliver(w, e) : Served(n, "mncc")
  BY DEF ServeMncc, World
<1>2. Good(v) /\ v.mncc # <<>> /\ (v.mmxx = <<>> \/ at \in {"events", "mncc"})
  BY TurnIs DEF IInv, Sound, Passed, ServeMncc
<1>3. Quiet(v)
  BY <1>2, ElemsOfNone DEF IInv, Sound, Passed, NoCnf, Quiet
<1>4. v.trans = trans
  BY DEF World
<1> HIDE DEF v
<1>5. /\ Quiet(w) /\ w.trans = trans /\ e \in MnccEntries
      /\ ~IsPend(w.trans[e.ref])
  BY <1>2, <1>3, <1>4, PopMncc
<1> HIDE DEF w, e
<1>6. Quiet(n) /\ Forward(w, n)
  BY <1>1, <1>5, MnccServed
<1>7. Sound(n, "mncc")
  BY <1>6, QuietConfirmed, Places DEF Sound, Passed
<1>8. IInv' /\ trans' = n.trans
  BY <1>1, <1>7, ServedIs
<1> QED
  BY <1>5, <1>6, <1>8, QuietConfirmed, ForwardIs

\* Timers of the mobile.
LEMMA TimersStep ==
  ASSUME IInv, Timers
  PROVE  IInv' /\ Onwards(trans, trans')
<1> DEFINE v == World
<1>0. v.trans = trans /\ v.mm = mm /\ v.link = link
  BY DEF World
<1>1. CASE T3230
  <2> DEFINE n == MmDoes(v, MM!T3230(v.mm))
  <2>1. Selects(n)
    BY <1>0, <1>1 DEF T3230
  <2> HIDE DEF v
  <2>2. Quiet(v) => Quiet(n) /\ Forward(v, n)
    BY T3230Keeps
  <2> HIDE DEF n
  <2> QED
    BY <2>1, <2>2, SelectsIs DEF v
<1>2. CASE T3240
  <2> DEFINE camped == RR!AbortReq(link).st = "camped"
             n == MmDoes(v, MM!T3240(v.mm, camped))
  <2>1. Selects(n)
    BY <1>0, <1>2 DEF T3240
  <2>2. camped \in BOOLEAN
    OBVIOUS
  <2> HIDE DEF v, camped
  <2>3. Quiet(v) => Quiet(n) /\ Forward(v, n)
    BY <2>2, T3240Keeps
  <2> HIDE DEF n
  <2> QED
    BY <2>1, <2>3, SelectsIs DEF v
<1>3. CASE T3122
  <2> DEFINE n == [v EXCEPT !.link.t3122 = FALSE]
  <2>1. Selects(n)
    BY <1>3 DEF T3122
  <2> HIDE DEF v
  <2>2. Quiet(v) => Quiet(n) /\ Forward(v, n)
    BY T3122Keeps
  <2> HIDE DEF n
  <2> QED
    BY <2>1, <2>2, SelectsIs DEF v
<1>4. ASSUME NEW ref \in Refs, CcTimeout(ref)
      PROVE  IInv' /\ Onwards(trans, trans')
  <2> DEFINE n == CcDoes(v, ref, CC!Timeout(v.trans[ref]))
  <2>1. Selects(n)
    BY <1>0, <1>4 DEF CcTimeout
  <2> HIDE DEF v
  <2>2. Quiet(v) => Quiet(n) /\ Forward(v, n)
    BY CcTimeoutKeeps
  <2> HIDE DEF n
  <2> QED
    BY <2>1, <2>2, SelectsIs DEF v
<1> QED
  BY <1>1, <1>2, <1>3, <1>4 DEF Timers

\* A message that the network has sent, and what RR remembers of it.
LEMMA ArrivesStep ==
  ASSUME IInv, NEW msg \in RrPrims, NEW ref \in Refs \cup {NoRef}, NEW l,
         l = link \/ l = [link EXCEPT !.asked = FALSE],
         msg = "CM_SERV_ACC" => link.asked,
         msg \in CC!Messages /\ ref \in Refs => ~IsPend(trans[ref]),
         Arrives(msg, ref, l)
  PROVE  IInv' /\ Onwards(trans, trans')
<1> DEFINE v == World
           e == Up(msg, ref)
           n == [v EXCEPT !.rrUp = Append(@, e), !.link = l]
<1>1. v.trans = trans /\ v.link = link
  BY DEF World
<1>2. Selects(n) /\ link.st = "dedic"
  BY DEF Arrives
<1>3. e \in RrEntries /\ e.p = msg /\ e.ref = ref
  BY DEF RrEntries, Up
<1> HIDE DEF v, e
<1>4. Quiet(v) => Quiet(n) /\ Forward(v, n)
  BY <1>1, <1>2, <1>3, ArrivesKeeps
<1> HIDE DEF n
<1> QED
  BY <1>2, <1>4, SelectsIs DEF v

LEMMA NetworkStep ==
  ASSUME IInv, Network
  PROVE  IInv' /\ Onwards(trans, trans')
<1> DEFINE v == World
<1>0. v.trans = trans /\ v.mm = mm /\ v.link = link
  BY DEF World
<1>1. CASE Radio
  <2>1. PICK g \in RR!Steps(v.link) : Selects(LinkDoes(v, g))
    BY <1>0, <1>1 DEF Radio
  <2> DEFINE n == LinkDoes(v, g)
  <2>2. Selects(n)
    BY <2>1
  <2> HIDE DEF v
  <2>3. Quiet(v) => Quiet(n) /\ Forward(v, n)
    BY <2>1, RadioKeeps
  <2> HIDE DEF n
  <2> QED
    BY <2>2, <2>3, SelectsIs DEF v
<1>2. CASE Camp
  <2> DEFINE n == [v EXCEPT !.link.st = "camped",
                            !.events = Append(@, "CELL_SELECTED")]
  <2>1. Selects(n) /\ v.link.st = "choose"
    BY <1>0, <1>2 DEF Camp
  <2> HIDE DEF v
  <2>2. Quiet(v) => Quiet(n) /\ Forward(v, n)
    BY <2>1, CampKeeps
  <2> HIDE DEF n
  <2> QED
    BY <2>1, <2>2, SelectsIs DEF v
<1>3. CASE MmMessage
  <2>1. /\ {"CM_SERV_ACC", "CM_SERV_REJ", "MM_ABORT", "SYNC_IND"}
             \subseteq RrPrims
        /\ \A p \in {"CM_SERV_ACC", "CM_SERV_REJ", "MM_ABORT", "SYNC_IND"} :
             p \notin CC!Messages
    BY MessagesAre DEF RrPrims, MmMessages, DataMessages
  <2>2. CASE link.asked /\ Answers
    BY <2>1, <2>2, ArrivesStep DEF Answers
  <2>3. CASE link.asked /\ Refuses
    BY <2>1, <2>3, ArrivesStep DEF Refuses
  <2>4. CASE Arrives("MM_ABORT", NoRef, link)
    BY <2>1, <2>4, ArrivesStep
  <2>5. CASE Arrives("SYNC_IND", NoRef, link)
    BY <2>1, <2>5, ArrivesStep
  <2> QED
    BY <1>3, <2>2, <2>3, <2>4, <2>5 DEF MmMessage
<1>4. CASE CcFromNetwork
  <2>1. PICK ref \in Fresh(World, MtRefs) \cup
                     {r \in Refs : MM!HasConn(mm, r) /\ trans[r].state \notin
                                      {"FREE", "MM_CONNECTION_PEND"}} :
          \E msg \in CC!Messages : Arrives(msg, ref, link)
    BY <1>4 DEF CcFromNetwork
  <2>2. PICK msg \in CC!Messages : /\ Arrives(msg, ref, link) /\ ref \in Refs
                                   /\ \/ ref \notin Mentioned(v)
                                      \/ ~IsPend(trans[ref])
    BY <2>1 DEF Fresh, Refs, IsPend
  <2>3. ~IsPend(trans[ref])
    <3>1. CASE ref \notin Mentioned(v)
      <4> HIDE DEF v
      <4>1. v.trans[ref] = CC!Free
        BY <2>2, <3>1, FreshIs
      <4> QED
        BY <1>0, <4>1 DEF IsPend, CC!Free
    <3> QED
      BY <2>2, <3>1
  <2>4. msg \in RrPrims /\ msg # "CM_SERV_ACC"
    BY MessagesAre DEF RrPrims, DataMessages
  <2> QED
    BY <2>2, <2>3, <2>4, ArrivesStep
<1> QED
  BY <1>1, <1>2, <1>3, <1>4 DEF Network

\* The user's commands.
LEMMA UserStep ==
  ASSUME IInv, User
  PROVE  IInv' /\ Onwards(trans, trans')
<1> DEFINE v == World
<1>0. v.calls = calls
  BY DEF World
<1>1. CASE Dial
  <2>1. PICK ref \in Fresh(v, MoRefs) : UserDoes(L4!Dial(v.calls, ref))
    BY <1>0, <1>1 DEF Dial
  <2> DEFINE n == L4Does(v, L4!Dial(v.calls, ref))
  <2>2. Selects(n) /\ ref \in Refs /\ ref \notin Mentioned(v)
    BY <2>1 DEF UserDoes, Fresh, Refs
  <2> HIDE DEF v
  <2>3. Quiet(v) => Quiet(n) /\ Forward(v, n)
    BY <2>2, DialKeeps
  <2> HIDE DEF n
  <2> QED
    BY <2>2, <2>3, SelectsIs DEF v
<1>2. CASE Hangup
  <2> DEFINE n == L4Does(v, L4!Hangup(v.calls))
  <2>1. Selects(n)
    BY <1>0, <1>2 DEF Hangup, UserDoes
  <2> HIDE DEF v
  <2>2. Quiet(v) => Quiet(n) /\ Forward(v, n)
    BY HangupKeeps
  <2> HIDE DEF n
  <2> QED
    BY <2>1, <2>2, SelectsIs DEF v
<1>3. CASE Answer
  <2> DEFINE n == L4Does(v, L4!Answer(v.calls))
  <2>1. Selects(n)
    BY <1>0, <1>3 DEF Answer, UserDoes
  <2> HIDE DEF v
  <2>2. Quiet(v) => Quiet(n) /\ Forward(v, n)
    BY AnswerKeeps
  <2> HIDE DEF n
  <2> QED
    BY <2>1, <2>2, SelectsIs DEF v
<1>4. CASE Hold \/ Retrieve
  <2>1. PICK r \in {L4!Hold(v.calls)} \cup {L4!Retrieve(v.calls, k) :
                                              k \in DOMAIN v.calls} :
          Selects(L4Does(v, r))
    BY <1>0, <1>4 DEF Hold, Retrieve, UserDoes
  <2> DEFINE n == L4Does(v, r)
  <2>2. Selects(n)
    BY <2>1
  <2> HIDE DEF v
  <2>3. Quiet(v) => Quiet(n) /\ Forward(v, n)
    BY <2>1, CommandKeeps
  <2> HIDE DEF n
  <2> QED
    BY <2>2, <2>3, SelectsIs DEF v
<1> QED
  BY <1>1, <1>2, <1>3, <1>4 DEF User

LEMMA NextStep ==
  ASSUME IInv, [Next]_vars
  PROVE  IInv' /\ (Onwards(trans, trans') \/ UNCHANGED vars)
<1>1. CASE Next
  BY <1>1, ServeRrStep, ServeMmxxStep, ServeEventsStep, ServeMnccStep,
     TimersStep, NetworkStep, UserStep DEF Next, Serve
<1>2. CASE UNCHANGED vars
  <2>1. World' = World /\ at' = at
    BY <1>2 DEF vars, World
  <2>2. Sound(World', at')
    BY <2>1 DEF IInv
  <2> QED
    BY <1>2, <2>2 DEF IInv
<1> QED
  BY <1>1, <1>2

LEMMA IInvTheorem == Spec => []IInv
<1>1. Init => IInv
  BY Starts
<1>2. IInv /\ [Next]_vars => IInv'
  BY NextStep
<1> QED
  BY <1>1, <1>2, PTL DEF Spec

-----------------------------------------------------------------------------
(***************************************************************************)
(* What waits.  An invariant of its own says that RR ends the wait for the  *)
(* radio connection; with it goes what a step may do to a connection that   *)
(* waits.  It is about MM, the radio connection and rr_upqueue only.        *)
(***************************************************************************)
Answers4 == {"EST_CNF", "REL_IND", "ABORT_IND"}

HasAnswer(q) == \E e \in Elems(q) : e.p \in Answers4

\* RR sets the connection up for MM, or has said what became of it.
Going(l, q) == (l.st = "pend" /\ l.est) \/ HasAnswer(q)

\* A connection waits for RR; one waits that MM has forgotten.
OnRr(m) == HasPend(m) /\ m.state = "WAIT_RR"

Stuck(m) == HasPend(m) /\ m.state \notin Asking

Promised(w) == OnRr(w.mm) => Going(w.link, w.rrUp)

\* What a step may do.
Heeds(w, n) ==
  (Promised(w) => Promised(n)) /\ (Stuck(n.mm) => Stuck(w.mm))

\* What a handler of MM may do and ask of RR.
Holds(m, r) ==
  /\ r.mm \in MM!MmLayers /\ (Stuck(r.mm) => Stuck(m))
  /\ \/ r.rr = "EST_REQ"
     \/ r.rr \in {"none", "CM_SERV_REQ"} /\ (OnRr(r.mm) => OnRr(m))
     \/ r.rr = "ABORT_REQ" /\ r.mm.state # "WAIT_RR"

\* What is needed of a world.
Plain(w) ==
  /\ w = [trans |-> w.trans, mm |-> w.mm, link |-> w.link, calls |-> w.calls,
          rrUp |-> w.rrUp, mmxx |-> w.mmxx, events |-> w.events,
          mncc |-> w.mncc]
  /\ w.mm \in MM!MmLayers /\ w.link \in RR!Links /\ w.rrUp \in RrQueues

LEMMA HeedsTwice ==
  ASSUME NEW v, NEW w, NEW n, Heeds(v, w), Heeds(w, n)
  PROVE  Heeds(v, n)
BY DEF Heeds

LEMMA HeedsSame ==
  ASSUME NEW w, NEW n, n.mm = w.mm, n.link = w.link, n.rrUp = w.rrUp
  PROVE  Heeds(w, n)
BY DEF Heeds, Promised

LEMMA HeedsMm ==
  ASSUME NEW w, NEW n, Stuck(n.mm) => Stuck(w.mm), OnRr(n.mm) => OnRr(w.mm),
         n.link.st = w.link.st, n.link.est = w.link.est, n.rrUp = w.rrUp
  PROVE  Heeds(w, n)
BY DEF Heeds, Promised, Going

\* A connection that was asked for.
LEMMA EstReqHolds ==
  ASSUME NEW m \in MM!MmLayers, NEW ref \in Refs, NEW r, r = MM!EstReq(m, ref)
  PROVE  Holds(m, r)
<1> DEFINE c == MM!Conn(ref, "PEND")
           t == <<c>> \o m.conns
           b == [m EXCEPT !.conns = t]
<1>1. m.conns \in Seq(MmConns)
  BY MmIs
<1>2. t \in Seq(MmConns)
  <2>1. c \in MmConns
    BY DEF MM!Conn, MmConns, MM!ConnsIn, MM!ConnStates
  <2> QED
    BY <1>1, <2>1
<1> HIDE DEF t
<1>3. CASE m.state = "IDLE" /\ ~MM!Pending(m)
  <2>1. r.mm = [b EXCEPT !.state = "WAIT_RR"] /\ r.rr = "EST_REQ"
    BY <1>3 DEF MM!EstReq, MM!InitNoRr, MM!Acts, t
  <2>2. b \in MM!MmLayers
    BY <1>2, WithConns
  <2> HIDE DEF b
  <2> QED
    BY <2>1, <2>2, WithState DEF Holds, Stuck, Asking, MM!MmStates
<1>4. CASE m.state = "ACTIVE" /\ ~MM!Pending(m)
  <2>1. /\ r.mm = [b EXCEPT !.state = "WAIT_ADD", !.t3230 = TRUE]
        /\ r.rr = "CM_SERV_REQ"
    BY <1>4 DEF MM!EstReq, MM!InitMore, MM!Acts, t
  <2>2. b \in MM!MmLayers
    BY <1>2, WithConns
  <2> HIDE DEF b
  <2>3. r.mm \in MM!MmLayers /\ r.mm.state = "WAIT_ADD"
    BY <2>1, <2>2 DEF MM!MmLayers, MM!MmStates
  <2> QED
    BY <2>1, <2>3 DEF Holds, Stuck, OnRr, Asking
<1>5. CASE ~(m.state \in {"IDLE", "ACTIVE"} /\ ~MM!Pending(m))
  <2>1. r.mm = m /\ r.rr = "none"
    BY <1>5 DEF MM!EstReq, MM!InitReject, MM!Acts, MM!NoReq
  <2> QED
    BY <2>1 DEF Holds
<1> QED
  BY <1>3, <1>4, <1>5

LEMMA RelReqHolds ==
  ASSUME NEW m \in MM!MmLayers, NEW ref, NEW r, r = MM!RelReq(m, ref)
  PROVE  Holds(m, r)
<1> DEFINE t == MM!Omit(m.conns, MM!ConnsIn({ref}, MM!ConnStates))
           b == [m EXCEPT !.conns = t]
<1>1. m.conns \in Seq(MmConns)
  BY MmIs
<1>2. t \in Seq(MmConns) /\ Elems(t) \subseteq Elems(m.conns)
  BY <1>1, OmitIs
<1> HIDE DEF t
<1>3. b \in MM!MmLayers /\ b.conns = t /\ b.state = m.state
  BY <1>2, WithConns
<1>4. r.rr = "none"
  BY DEF MM!RelReq, MM!Acts, MM!NoReq
<1>5. r.mm \in {m, b, MM!ReleaseActive(b)}
  BY DEF MM!RelReq, MM!Acts, t
<1> HIDE DEF b
<1>6. HasPend(b) => HasPend(m)
  BY <1>2, <1>3 DEF HasPend
<1>7. CASE r.mm \in {m, b}
  BY <1>3, <1>4, <1>6, <1>7 DEF Holds, Stuck, OnRr
<1>8. CASE r.mm = MM!ReleaseActive(b) /\ t = <<>>
  <2>1. r.mm = [b EXCEPT !.state = "WAIT_NET", !.t3240 = TRUE]
    BY <1>3, <1>8 DEF MM!ReleaseActive, MM!WaitNet
  <2>2. r.mm \in MM!MmLayers /\ r.mm.conns = <<>>
    BY <1>3, <1>8, <2>1 DEF MM!MmLayers, MM!MmStates
  <2>3. ~HasPend(r.mm)
    BY <2>2, NoConns
  <2> QED
    BY <1>4, <2>2, <2>3 DEF Holds, Stuck, OnRr
<1>9. CASE r.mm = MM!ReleaseActive(b) /\ t # <<>>
  <2>1. r.mm = b
    BY <1>3, <1>9 DEF MM!ReleaseActive
  <2> QED
    BY <1>7, <2>1
<1> QED
  BY <1>5, <1>7, <1>8, <1>9

LEMMA DataReqHolds ==
  ASSUME NEW m \in MM!MmLayers, NEW ref, NEW r, r = MM!DataReq(m, ref)
  PROVE  Holds(m, r)
<1>1. r.mm = m /\ r.rr = "none"
  BY DEF MM!DataReq, MM!Acts, MM!NoReq
<1> QED
  BY <1>1 DEF Holds

\* RR sets the connection up, or refuses it at once.
LEMMA LinkEstGoing ==
  ASSUME NEW w, Plain(w), NEW n, n = LinkDoes(w, RR!EstReq(w.link))
  PROVE  Plain(n) /\ n.mm = w.mm /\ Going(n.link, n.rrUp)
<1>1. CASE w.link.t3122 \/ w.link.st # "camped"
  <2> DEFINE e == Up("REL_IND", NoRef)
             o == <<e>>
  <2> DEFINE g == RR!EstReq(w.link)
             u == [i \in DOMAIN g.up |-> Up(g.up[i], NoRef)]
  <2>1. g.link = w.link /\ g.up = <<"REL_IND">>
    BY <1>1 DEF RR!EstReq, RR!Gives
  <2> HIDE DEF g
  <2>2. u = o
    BY <2>1
  <2> HIDE DEF u
  <2>3. n = [w EXCEPT !.link = w.link, !.rrUp = w.rrUp \o o]
    BY <2>1, <2>2 DEF LinkDoes, g, u
  <2>4. e \in RrEntries /\ e.p = "REL_IND"
    BY DEF Up, RrEntries, RrPrims
  <2> HIDE DEF e
  <2>5. o \in Seq(RrEntries) /\ Elems(o) = {e}
    BY <2>4, ElemsOfOne
  <2> HIDE DEF o
  <2>6. /\ w.rrUp \o o \in RrQueues
        /\ Elems(w.rrUp \o o) = Elems(w.rrUp) \cup {e}
    BY <2>5, ElemsOfCat DEF Plain, RrQueues
  <2>7. Plain(n) /\ n.mm = w.mm /\ n.rrUp = w.rrUp \o o
    BY <2>3, <2>6 DEF Plain
  <2> QED
    BY <2>4, <2>6, <2>7 DEF Going, HasAnswer, Answers4
<1>2. CASE ~(w.link.t3122 \/ w.link.st # "camped")
  <2> DEFINE l == [w.link EXCEPT !.st = "pend", !.est = TRUE]
             none == [i \in DOMAIN <<>> |-> Up(<<>>[i], NoRef)]
  <2>1. RR!EstReq(w.link) = [link |-> l, up |-> <<>>]
    BY <1>2 DEF RR!EstReq, RR!Gives
  <2>2. none = <<>>
    OBVIOUS
  <2>3. n = [w EXCEPT !.link = l, !.rrUp = w.rrUp \o none]
    BY <2>1 DEF LinkDoes
  <2>4. w.rrUp \o none = w.rrUp
    BY <2>2 DEF Plain, RrQueues
  <2>5. l \in RR!Links /\ l.st = "pend" /\ l.est
    BY DEF Plain, RR!Links, RR!LinkStates
  <2> HIDE DEF l, none
  <2>6. Plain(n) /\ n.mm = w.mm /\ n.link = l
    BY <2>3, <2>4, <2>5 DEF Plain
  <2> QED
    BY <2>5, <2>6 DEF Going
<1> QED
  BY <1>1, <1>2

LEMMA MmDoesHeeds ==
  ASSUME NEW w, Plain(w), NEW r, Holds(w.mm, r), NEW n, n = MmDoes(w, r)
  PROVE  Plain(n) /\ n.mm = r.mm /\ Heeds(w, n)
<1> DEFINE x == [w EXCEPT !.mm = r.mm, !.mmxx = @ \o r.up]
<1>1. n = RrDown(x, r.rr)
  BY DEF MmDoes
<1>2. Plain(x) /\ x.mm = r.mm /\ x.link = w.link /\ x.rrUp = w.rrUp
  <2> DEFINE q == w.mmxx \o r.up
  <2>1. x = [w EXCEPT !.mm = r.mm, !.mmxx = q]
    OBVIOUS
  <2> HIDE DEF q, x
  <2> QED
    BY <2>1 DEF Plain, Holds
<1> HIDE DEF x
<1>3. Stuck(r.mm) => Stuck(w.mm)
  BY DEF Holds
<1>4. CASE r.rr = "EST_REQ"
  <2>1. n = LinkDoes(x, RR!EstReq(x.link))
    BY <1>1, <1>4 DEF RrDown
  <2>2. Plain(n) /\ n.mm = x.mm /\ Going(n.link, n.rrUp)
    BY <1>2, <2>1, LinkEstGoing
  <2> QED
    BY <1>2, <1>3, <2>2 DEF Heeds, Promised
<1>5. CASE r.rr = "none" /\ (OnRr(r.mm) => OnRr(w.mm))
  <2>1. n = x
    BY <1>1, <1>5 DEF RrDown
  <2> QED
    BY <1>2, <1>3, <1>5, <2>1, HeedsMm
<1>6. CASE r.rr = "CM_SERV_REQ" /\ (OnRr(r.mm) => OnRr(w.mm))
  <2> DEFINE l == RR!ServReq(x.link)
  <2>1. n = [x EXCEPT !.link = l]
    BY <1>1, <1>6 DEF RrDown
  <2>2. l \in RR!Links /\ l.st = x.link.st /\ l.est = x.link.est
    BY <1>2 DEF Plain, RR!ServReq, RR!Links, RR!LinkStates
  <2> HIDE DEF l
  <2>3. Plain(n) /\ n.mm = x.mm /\ n.link = l /\ n.rrUp = x.rrUp
    BY <1>2, <2>1, <2>2 DEF Plain
  <2> QED
    BY <1>2, <1>3, <1>6, <2>2, <2>3, HeedsMm
<1>7. CASE r.rr = "ABORT_REQ" /\ r.mm.state # "WAIT_RR"
  <2> DEFINE l == RR!AbortReq(x.link)
  <2>1. n = [x EXCEPT !.link = l]
    BY <1>1, <1>7 DEF RrDown
  <2>2. l \in RR!Links
    BY <1>2, LinkAbort DEF Plain
  <2> HIDE DEF l
  <2>3. Plain(n) /\ n.mm = x.mm
    BY <1>2, <2>1, <2>2 DEF Plain
  <2> QED
    BY <1>2, <1>3, <1>7, <2>3 DEF Heeds, Promised, OnRr
<1> QED
  BY <1>4, <1>5, <1>6, <1>7 DEF Holds

\* Whatever call control does.
LEMMA CcDoesHeeds ==
  ASSUME NEW w, Plain(w), NEW ref \in Refs, NEW r, NEW n, n = CcDoes(w, ref, r)
  PROVE  Plain(n) /\ Heeds(w, n)
<1> DEFINE v == [i \in DOMAIN r.up |-> Up(r.up[i], ref)]
           k == [w EXCEPT !.trans = [w.trans EXCEPT ![ref] = r.t],
                          !.mncc = @ \o v]
           s == IF r.tx = "none" THEN k ELSE MmDoes(k, MM!DataReq(k.mm, ref))
<1>1. n = CASE r.conn = "EST_REQ" -> MmDoes(s, MM!EstReq(s.mm, ref))
            [] r.conn = "REL_REQ" -> MmDoes(s, MM!RelReq(s.mm, ref))
            [] OTHER -> s
  <2>1. k = [w EXCEPT !.trans[ref] = r.t, !.mncc = @ \o v]
    BY DEF Plain
  <2> QED
    BY <2>1 DEF CcDoes, CC!Nothing
<1>2. Plain(k) /\ k.mm = w.mm /\ k.link = w.link /\ k.rrUp = w.rrUp
  <2> DEFINE q == w.mncc \o v
             t == [w.trans EXCEPT ![ref] = r.t]
  <2>1. k = [w EXCEPT !.trans = t, !.mncc = q]
    OBVIOUS
  <2> HIDE DEF q, t, k
  <2> QED
    BY <2>1 DEF Plain
<1>3. Heeds(w, k)
  <2> HIDE DEF k
  <2> QED
    BY <1>2, HeedsSame
<1> HIDE DEF k
<1>4. Plain(s) /\ Heeds(w, s)
  <2>1. CASE r.tx = "none"
    BY <1>2, <1>3, <2>1
  <2>2. CASE r.tx # "none"
    <3>1. Holds(k.mm, MM!DataReq(k.mm, ref))
      BY <1>2, DataReqHolds DEF Plain
    <3>2. Plain(s) /\ Heeds(k, s)
      BY <1>2, <2>2, <3>1, MmDoesHeeds
    <3> QED
      BY <1>3, <3>2, HeedsTwice
  <2> QED
    BY <2>1, <2>2
<1> HIDE DEF s
<1>5. CASE r.conn = "EST_REQ"
  <2>1. n = MmDoes(s, MM!EstReq(s.mm, ref)) /\ Holds(s.mm, MM!EstReq(s.mm, ref))
    BY <1>1, <1>4, <1>5, EstReqHolds DEF Plain
  <2>2. Plain(n) /\ Heeds(s, n)
    BY <1>4, <2>1, MmDoesHeeds
  <2> QED
    BY <1>4, <2>2, HeedsTwice
<1>6. CASE r.conn = "REL_REQ"
  <2>1. n = MmDoes(s, MM!RelReq(s.mm, ref)) /\ Holds(s.mm, MM!RelReq(s.mm, ref))
    BY <1>1, <1>4, <1>6, RelReqHolds DEF Plain
  <2>2. Plain(n) /\ Heeds(s, n)
    BY <1>4, <2>1, MmDoesHeeds
  <2> QED
    BY <1>4, <2>2, HeedsTwice
<1>7. CASE r.conn \notin {"EST_REQ", "REL_REQ"}
  BY <1>1, <1>4, <1>7
<1> QED
  BY <1>5, <1>6, <1>7

LEMMA L4AsksHeeds ==
  ASSUME NEW w, Plain(w), NEW reqs, \A i \in DOMAIN reqs : reqs[i].ref \in Refs,
         NEW k, NEW n, n = L4Asks(w, reqs, k)
  PROVE  Plain(n) /\ Heeds(w, n)
<1>1. CASE k \in DOMAIN reqs
  BY <1>1, CcDoesHeeds DEF L4Asks
<1>2. CASE k \notin DOMAIN reqs
  BY <1>2, HeedsSame DEF L4Asks
<1> QED
  BY <1>1, <1>2

LEMMA L4DoesHeeds ==
  ASSUME NEW w, Plain(w), NEW r,
         \A i \in DOMAIN r.reqs : r.reqs[i].ref \in Refs,
         NEW n, n = L4Does(w, r)
  PROVE  Heeds(w, n)
<1> DEFINE a == [w EXCEPT !.calls = r.calls]
           b == L4Asks(a, r.reqs, 1)
           c == L4Asks(b, r.reqs, 2)
<1>1. n = L4Asks(c, r.reqs, 3)
  BY DEF L4Does
<1>2. Plain(a) /\ a.mm = w.mm /\ a.link = w.link /\ a.rrUp = w.rrUp
  BY DEF Plain
<1> HIDE DEF a
<1>3. Heeds(w, a)
  BY <1>2, HeedsSame
<1>4. Plain(b) /\ Heeds(a, b)
  BY <1>2, L4AsksHeeds
<1> HIDE DEF b
<1>5. Plain(c) /\ Heeds(b, c)
  BY <1>4, L4AsksHeeds
<1> HIDE DEF c
<1>6. Heeds(c, n)
  BY <1>1, <1>5, L4AsksHeeds
<1> QED
  BY <1>3, <1>4, <1>5, <1>6, HeedsTwice

LEMMA LateRefs ==
  ASSUME NEW reqs \in Seq(Late)
  PROVE  \A i \in DOMAIN reqs : reqs[i].ref \in Refs
<1> SUFFICES ASSUME NEW i \in DOMAIN reqs  PROVE reqs[i].ref \in Refs
  OBVIOUS
<1>1. reqs[i] \in Late
  OBVIOUS
<1> QED
  BY <1>1 DEF Late, Requests

-----------------------------------------------------------------------------
(* The primitives of RR and the timers of MM.                                *)

LEMMA HandlesHolds ==
  ASSUME NEW m, NEW r, Handles(m, r), r.rr = "none",
         r.mm.state = "WAIT_RR" => m.state = "WAIT_RR"
  PROVE  Holds(m, r)
<1>1. HasPend(r.mm) => HasPend(m)
  BY DEF Handles, Serves, NoneNew, HasPend
<1> QED
  BY <1>1 DEF Handles, Sane, Asks, Holds, Stuck, OnRr

\* Where a primitive of RR leaves MM.
LEMMA Leads ==
  ASSUME NEW m \in MM!MmLayers
  PROVE  /\ MM!EstInd(m).mm.state = "WAIT_RR" => m.state = "WAIT_RR"
         /\ MM!SyncInd(m).mm.state = "WAIT_RR" => m.state = "WAIT_RR"
         /\ MM!CmServAcc(m).mm.state # "WAIT_RR"
         /\ MM!CmServRej(m).mm.state # "WAIT_RR"
         /\ MM!MmAbort(m).mm.state = m.state
         /\ MM!T3230(m).mm.state = "WAIT_RR" => m.state = "WAIT_RR"
<1>1. MM!EstInd(m).mm.state = "WAIT_RR" => m.state = "WAIT_RR"
  BY DEF MM!EstInd, MM!Acts, MM!MmLayers
<1>2. MM!Serving(m) \in MM!MmLayers /\ MM!Serving(m).state = "ACTIVE"
  BY ServingIs
<1>3. \A a \in MM!MmLayers : MM!GoDedic(a).mm.state = a.state
  BY DEF MM!GoDedic, MM!Acts, MM!MmLayers
<1>4. MM!SyncInd(m).mm.state = "WAIT_RR" => m.state = "WAIT_RR"
  BY <1>2, <1>3 DEF MM!SyncInd, MM!SyncIndActive, MM!Acts
<1>5. MM!CmServAcc(m).mm.state # "WAIT_RR"
  BY <1>2, <1>3 DEF MM!CmServAcc
<1>6. MM!CmServRej(m).mm.state # "WAIT_RR"
  BY DEF MM!CmServRej, MM!ReleasePending, MM!Acts, MM!MmLayers
<1>7. MM!MmAbort(m).mm.state = m.state
  BY DEF MM!MmAbort, MM!ReleaseAll, MM!Acts, MM!MmLayers
<1>8. MM!T3230(m).mm.state = "WAIT_RR" => m.state = "WAIT_RR"
  BY DEF MM!T3230, MM!ReleasePending, MM!Acts, MM!WaitNet, MM!MmLayers
<1> QED
  BY <1>1, <1>4, <1>5, <1>6, <1>7, <1>8

\* An answer of RR ends the wait.
LEMMA EstCnfEnds ==
  ASSUME NEW m \in MM!MmLayers
  PROVE  MM!EstCnf(m).mm.state # "WAIT_RR"
BY DEF MM!EstCnf, MM!Acts, MM!WaitNet, MM!MmLayers

LEMMA RrGoneEnds ==
  ASSUME NEW m \in MM!MmLayers, NEW p, NEW camped \in BOOLEAN
  PROVE  ~OnRr(MM!RrGone(m, p, camped).mm)
<1> DEFINE r == MM!RrGone(m, p, camped)
<1>1. CASE m.state \in {"WAIT_RR", "WAIT_OUT", "WAIT_ADD", "ACTIVE"}
  <2>1. r.mm.conns = <<>>
    BY <1>1 DEF MM!RrGone, MM!AbortMmCon, MM!ReleaseAll, MM!ReturnIdle,
                MM!Acts, MM!MmLayers
  <2> QED
    BY <2>1, NoConns DEF OnRr
<1>2. CASE m.state \notin {"WAIT_RR", "WAIT_OUT", "WAIT_ADD", "ACTIVE"}
  <2>1. r.mm.state \in {m.state, "IDLE"}
    BY <1>2 DEF MM!RrGone, MM!RelOther, MM!ReturnIdle, MM!Acts, MM!MmLayers
  <2> QED
    BY <1>2, <2>1 DEF OnRr
<1> QED
  BY <1>1, <1>2

-----------------------------------------------------------------------------
(* The steps.                                                                *)

\* The parts of World are the variables.
LEMMA Parts ==
  /\ World.trans = trans /\ World.mm = mm /\ World.link = link
  /\ World.calls = calls /\ World.rrUp = rrUp /\ World.mmxx = mmxx
  /\ World.events = events /\ World.mncc = mncc
BY DEF World

LEMMA Given ==
  ASSUME IInv
  PROVE  World \in Worlds /\ Plain(World) /\ Sane(World.mm)
<1>1. World \in Worlds /\ Sane(World.mm)
  BY DEF IInv, Sound, Good, Base
<1> QED
  BY <1>1, WorldIs DEF Plain

\* What a step does to those that wait.
Heeded == (Promised(World) => Promised(World)') /\ (Stuck(mm') => Stuck(mm))

LEMMA BecomesHeeded ==
  ASSUME NEW n, NEW stage, Becomes(n, stage)
  PROVE  /\ Heeds(World, n) => Heeded
         /\ (Promised(World) => Promised(n))
              => (Promised(World) => Promised(World)')
<1>1. /\ World'.mm = n.mm /\ World'.link = n.link /\ World'.rrUp = n.rrUp
      /\ mm' = n.mm
  BY DEF Becomes, World
<1>2. Promised(World)' <=> Promised(n)
  BY <1>1 DEF Promised
<1> QED
  BY <1>1, <1>2, Parts DEF Heeds, Heeded

LEMMA SelectsHeeded ==
  ASSUME NEW n, Selects(n), Heeds(World, n)
  PROVE  Heeded
BY BecomesHeeded DEF Selects

LEMMA ServedHeeded ==
  ASSUME NEW n, NEW stage, Served(n, stage), Heeds(World, n)
  PROVE  Heeded
BY BecomesHeeded DEF Served

LEMMA CcMessageHeeds ==
  ASSUME NEW v, Plain(v), Sane(v.mm), NEW ref \in Refs, NEW msg
  PROVE  Heeds(v, CcMessage(v, msg, ref))
<1> DEFINE m == MM!Reached(v.mm, ref)
           w == [v EXCEPT !.mm = m]
           n == CcDoes(w, ref, CC!DataInd(w.trans[ref], msg))
<1>1. n = CcMessage(v, msg, ref)
  BY DEF CcMessage, Plain
<1>2. /\ Sane(m) /\ Asks(v.mm, m)
      /\ \A c \in Elems(m.conns) : c \in Elems(v.mm.conns) \/ c.st = "IDLE"
  BY ReachedIs
<1>3. m.state = "WAIT_RR" => v.mm.state = "WAIT_RR"
  BY DEF MM!Reached, Plain, MM!MmLayers
<1> HIDE DEF m
<1>4. HasPend(m) => HasPend(v.mm)
  BY <1>2 DEF HasPend
<1>5. Plain(w) /\ w.mm = m /\ w.link = v.link /\ w.rrUp = v.rrUp
  BY <1>2 DEF Plain, Sane
<1> HIDE DEF w
<1>6. Heeds(v, w)
  BY <1>2, <1>3, <1>4, <1>5, HeedsMm DEF Stuck, OnRr, Asks
<1>7. Heeds(w, n)
  BY <1>5, CcDoesHeeds
<1> QED
  BY <1>1, <1>6, <1>7, HeedsTwice

\* The entry e of rr_upqueue that MM takes is not an answer.
LEMMA RrHeeds ==
  ASSUME NEW w, Plain(w), Sane(w.mm), NEW e \in RrEntries, e.p \notin Answers4,
         NEW n \in RrDeliver(w, e)
  PROVE  Heeds(w, n)
<1>0. w.mm \in MM!MmLayers
  BY DEF Plain
<1>1. ASSUME NEW r, n = MmDoes(w, r), Handles(w.mm, r), r.rr = "none",
             r.mm.state = "WAIT_RR" => w.mm.state = "WAIT_RR"
      PROVE  Heeds(w, n)
  BY <1>1, HandlesHolds, MmDoesHeeds
<1>2. \A p \in {"EST_CNF", "EST_IND", "REL_IND", "ABORT_IND"}
               \cup MmMessages : p \notin CC!Messages
  BY MessagesAre DEF DataMessages, MmMessages
<1>3. CASE e.p = "EST_IND"
  BY <1>0, <1>1, <1>2, <1>3, EstIndIs, Leads DEF RrDeliver
<1>4. CASE e.p = "SYNC_IND"
  BY <1>0, <1>1, <1>2, <1>4, SyncIndIs, Leads DEF RrDeliver, MmMessages
<1>5. CASE e.p = "CM_SERV_ACC"
  BY <1>0, <1>1, <1>2, <1>5, CmServAccIs, Leads DEF RrDeliver, MmMessages
<1>6. CASE e.p = "CM_SERV_REJ"
  <2>1. n = MmDoes(w, MM!CmServRej(w.mm)) \/ n = MmDoes(w, MM!CmServRejAll(w.mm))
    BY <1>2, <1>6 DEF RrDeliver, MmMessages
  <2> QED
    BY <1>0, <1>1, <2>1, CmServRejIs, CmServRejAllIs, Leads
<1>7. CASE e.p = "MM_ABORT"
  BY <1>0, <1>1, <1>2, <1>7, MmAbortIs, Leads DEF RrDeliver, MmMessages
<1>8. CASE e.p \in CC!Messages
  <2>1. n \in IF MM!HasConn(w.mm, e.ref) THEN {CcMessage(w, e.p, e.ref)}
              ELSE LET new == Fresh(w, MtRefs)
                   IN {CcMessage(w, e.p, r) : r \in new} \cup
                      (IF new = {} THEN {w} ELSE {})
    <3>1. e.p \in DataMessages
      BY <1>8, MessagesAre
    <3> QED
      BY <1>8, <3>1 DEF RrDeliver, DataMessages
  <2>2. CASE MM!HasConn(w.mm, e.ref)
    <3>1. e.ref \in Refs
      <4>1. PICK c \in Elems(w.mm.conns) : c.ref = e.ref
        BY <1>0, <2>2, PendingIs DEF HasRef
      <4> QED
        BY <1>0, <4>1, MmIs, ConnIs
    <3> QED
      BY <2>1, <2>2, <3>1, CcMessageHeeds
  <2>3. CASE n = w
    BY <2>3, HeedsSame
  <2>4. ASSUME NEW ref \in Fresh(w, MtRefs), n = CcMessage(w, e.p, ref)
        PROVE  Heeds(w, n)
    BY <2>4, CcMessageHeeds DEF Fresh, Refs
  <2> QED
    BY <2>1, <2>2, <2>3, <2>4
<1> QED
  BY <1>3, <1>4, <1>5, <1>6, <1>7, <1>8
     DEF RrEntries, RrPrims, Answers4, MmMessages

\* It is one.
LEMMA RrAnswerHeeds ==
  ASSUME NEW w, Plain(w), Sane(w.mm), NEW e, e.p \in Answers4,
         NEW n \in RrDeliver(w, e)
  PROVE  ~OnRr(n.mm) /\ (Stuck(n.mm) => Stuck(w.mm))
<1>0. w.mm \in MM!MmLayers /\ Camped(w) \in BOOLEAN
  BY DEF Plain, Camped
<1>1. ASSUME NEW r, n = MmDoes(w, r), Handles(w.mm, r), r.rr = "none",
             ~OnRr(r.mm)
      PROVE  ~OnRr(n.mm) /\ (Stuck(n.mm) => Stuck(w.mm))
  <2>1. HasPend(r.mm) => HasPend(w.mm)
    BY <1>1 DEF Handles, Serves, NoneNew, HasPend
  <2>2. Holds(w.mm, r)
    BY <1>1, <2>1 DEF Handles, Sane, Asks, Holds, Stuck
  <2> QED
    BY <1>1, <2>2, MmDoesHeeds DEF Heeds
<1>2. \A p \in Answers4 : p \notin CC!Messages
  BY MessagesAre DEF DataMessages, Answers4
<1>3. CASE e.p = "EST_CNF"
  <2>1. n = MmDoes(w, MM!EstCnf(w.mm))
    BY <1>2, <1>3 DEF RrDeliver
  <2> QED
    BY <1>0, <1>1, <2>1, EstCnfIs, EstCnfEnds DEF OnRr
<1>4. CASE e.p \in {"REL_IND", "ABORT_IND"}
  <2>1. PICK p \in Ended : n = MmDoes(w, MM!RrGone(w.mm, p, Camped(w)))
    BY <1>2, <1>4 DEF RrDeliver, Ended
  <2> QED
    BY <1>0, <1>1, <2>1, RrGoneIs, RrGoneEnds
<1> QED
  BY <1>3, <1>4 DEF Answers4

LEMMA ServeRrHeeded ==
  ASSUME IInv, ServeRr
  PROVE  Heeded
<1> DEFINE v == World
           w == [v EXCEPT !.rrUp = Tail(@)]
           e == Head(v.rrUp)
<1>1. PICK n \in RrDeliver(w, e) : Served(n, "rrUp")
  BY DEF ServeRr, World
<1>2. Plain(v) /\ Sane(v.mm) /\ v.rrUp # <<>>
  BY Given, TurnIs DEF IInv, Sound, Passed, ServeRr
<1>3. v.rrUp \in Seq(RrEntries)
  BY <1>2 DEF Plain, RrQueues
<1> HIDE DEF v
<1>4. /\ Tail(v.rrUp) \in RrQueues /\ e \in RrEntries
      /\ Elems(v.rrUp) = {e} \cup Elems(Tail(v.rrUp))
  BY <1>2, <1>3, ElemsOfTail DEF RrQueues
<1>5. /\ Plain(w) /\ w.mm = v.mm /\ w.link = v.link
      /\ w.rrUp = Tail(v.rrUp)
  <2> DEFINE t == Tail(v.rrUp)
  <2>1. w = [v EXCEPT !.rrUp = t]
    OBVIOUS
  <2> HIDE DEF t, w
  <2>2. t \in RrQueues
    BY <1>4 DEF t
  <2>3. Plain(w) /\ w.mm = v.mm /\ w.link = v.link /\ w.rrUp = t
    BY <1>2, <2>1, <2>2 DEF Plain
  <2> QED
    BY <2>3 DEF t
<1> HIDE DEF w, e
<1>6. CASE e.p \notin Answers4
  <2>1. Heeds(w, n)
    BY <1>1, <1>2, <1>4, <1>5, <1>6, RrHeeds
  <2>2. HasAnswer(v.rrUp) => HasAnswer(w.rrUp)
    BY <1>4, <1>5, <1>6 DEF HasAnswer
  <2>3. Heeds(v, w)
    BY <1>5, <2>2 DEF Heeds, Promised, Going
  <2>4. Heeds(v, n)
    BY <2>1, <2>3, HeedsTwice
  <2> QED
    BY <1>1, <2>4, ServedHeeded DEF v
<1>7. CASE e.p \in Answers4
  <2>1. ~OnRr(n.mm) /\ (Stuck(n.mm) => Stuck(w.mm))
    BY <1>1, <1>2, <1>5, <1>7, RrAnswerHeeds
  <2>2. Heeds(v, n)
    BY <1>5, <2>1 DEF Heeds, Promised
  <2> QED
    BY <1>1, <2>2, ServedHeeded DEF v
<1> QED
  BY <1>6, <1>7

LEMMA ServeMmxxHeeded ==
  ASSUME IInv, ServeMmxx
  PROVE  Heeded
<1> DEFINE v == World
           w == [v EXCEPT !.mmxx = Tail(@)]
           e == Head(v.mmxx)
<1>1. PICK n \in MmxxDeliver(w, e) : Served(n, "mmxx")
  BY DEF ServeMmxx, World
<1>2. Plain(v) /\ v.mmxx # <<>> /\ v.mmxx \in Seq(Entry)
  BY Given, TurnIs, WorldIs DEF IInv, Sound, Passed, ServeMmxx, MmxxQueues
<1> HIDE DEF v
<1>3. e \in Entry
  BY <1>2, ElemsOfTail
<1>4. Plain(w) /\ w.mm = v.mm /\ w.link = v.link /\ w.rrUp = v.rrUp
  BY <1>2 DEF Plain
<1> HIDE DEF w, e
<1>5. Heeds(w, n)
  BY <1>1, <1>3, <1>4, CcDoesHeeds DEF MmxxDeliver, Entry
<1>6. Heeds(v, n)
  BY <1>4, <1>5, HeedsSame, HeedsTwice
<1> QED
  BY <1>1, <1>6, ServedHeeded DEF v

\* gsm48_mm_cell_selected is the exception.
LEMMA ServeEventsHeeded ==
  ASSUME IInv, ServeEvents
  PROVE  Promised(World) => Promised(World)'
<1> DEFINE v == World
           w == [v EXCEPT !.events = Tail(@)]
           r == MM!CellSelected(w.mm, Camped(w))
<1>1. PICK n \in EventDeliver(w) : Served(n, "events")
  BY DEF ServeEvents, World
<1>2. Plain(v)
  BY Given
<1> HIDE DEF v
<1>3. Plain(w) /\ w.mm = v.mm /\ w.link = v.link /\ w.rrUp = v.rrUp
  <2> DEFINE t == Tail(v.events)
  <2> w = [v EXCEPT !.events = t]
    OBVIOUS
  <2> HIDE DEF t, w
  <2> QED
    BY <1>2 DEF Plain
<1> HIDE DEF w
<1>4. n = MmDoes(w, r)
  BY <1>1 DEF EventDeliver
<1>5. /\ r.mm \in {w.mm, [w.mm EXCEPT !.state = "IDLE"]} /\ r.rr = "none"
      /\ r.up = <<>>
  BY DEF MM!CellSelected, MM!ReturnIdle, MM!Acts, MM!NoReq
<1> HIDE DEF r
<1>6. OnRr(r.mm) => OnRr(w.mm)
  BY <1>3, <1>5 DEF OnRr, Plain, MM!MmLayers
<1>7. n = [w EXCEPT !.mm = r.mm, !.mmxx = @ \o r.up]
  BY <1>4, <1>5 DEF MmDoes, RrDown
<1>8. n.mm = r.mm /\ n.link = w.link /\ n.rrUp = w.rrUp
  BY <1>3, <1>7 DEF Plain
<1>9. Promised(v) => Promised(n)
  BY <1>3, <1>6, <1>8 DEF Promised
<1>10. PICK stage : Becomes(n, stage)
  BY <1>1 DEF Served
<1> QED
  BY <1>9, <1>10, BecomesHeeded DEF v

LEMMA ServeMnccHeeded ==
  ASSUME IInv, ServeMncc
  PROVE  Heeded
<1> DEFINE v == World
           w == [v EXCEPT !.mncc = Tail(@)]
           e == Head(v.mncc)
<1>1. PICK n \in MnccDeliver(w, e) : Served(n, "mncc")
  BY DEF ServeMncc, World
<1>2. Plain(v) /\ v.mncc # <<>> /\ v.mncc \in Seq(MnccEntries)
      /\ v.calls \in Seq(CallEntries)
  BY Given, TurnIs, WorldIs
     DEF IInv, Sound, Passed, ServeMncc, MnccQueues, Lists4
<1> HIDE DEF v
<1>3. e.ref \in Refs
  <2>1. e \in MnccEntries
    BY <1>2, ElemsOfTail
  <2> HIDE DEF e
  <2> QED
    BY <2>1 DEF MnccEntries
<1>4. /\ Plain(w) /\ w.mm = v.mm /\ w.link = v.link /\ w.rrUp = v.rrUp
      /\ w.calls = v.calls
  <2> DEFINE t == Tail(v.mncc)
  <2> w = [v EXCEPT !.mncc = t]
    OBVIOUS
  <2> HIDE DEF t, w
  <2> QED
    BY <1>2 DEF Plain
<1> HIDE DEF w, e
<1>5. PICK how : n = L4Does(w, L4!Recv(w.calls, e.p, e.ref, how))
  BY <1>1 DEF MnccDeliver
<1> DEFINE r == L4!Recv(w.calls, e.p, e.ref, how)
<1>6. r.reqs \in Seq(Late)
  BY <1>2, <1>3, <1>4, RecvIs
<1> HIDE DEF r
<1>7. Heeds(w, L4Does(w, r))
  BY <1>4, <1>6, LateRefs, L4DoesHeeds
<1>8. Heeds(w, n)
  BY <1>5, <1>7 DEF r
<1>9. Heeds(v, n)
  BY <1>4, <1>8, HeedsSame, HeedsTwice
<1> QED
  BY <1>1, <1>9, ServedHeeded DEF v

LEMMA TimersHeeded ==
  ASSUME IInv, Timers
  PROVE  Heeded
<1> DEFINE v == World
<1>0. v.mm = mm /\ v.trans = trans /\ Plain(v) /\ Sane(v.mm)
  BY Given DEF World
<1>00. v.mm \in MM!MmLayers
  BY <1>0 DEF Plain
<1>1. CASE T3230
  <2> DEFINE r == MM!T3230(v.mm)
  <2>1. Selects(MmDoes(v, r))
    BY <1>0, <1>1 DEF T3230
  <2> HIDE DEF v
  <2>2. Holds(v.mm, r)
    BY <1>0, <1>00, T3230Is, Leads, HandlesHolds
  <2> HIDE DEF r
  <2>3. Heeds(v, MmDoes(v, r))
    BY <1>0, <2>2, MmDoesHeeds
  <2> QED
    BY <2>1, <2>3, SelectsHeeded DEF v
<1>2. CASE T3240
  <2> DEFINE camped == RR!AbortReq(link).st = "camped"
             r == MM!T3240(v.mm, camped)
  <2>1. Selects(MmDoes(v, r))
    BY <1>0, <1>2 DEF T3240
  <2>2. camped \in BOOLEAN
    OBVIOUS
  <2> HIDE DEF v, camped
  <2>3. /\ Handles(v.mm, r) /\ r.rr \in {"none", "ABORT_REQ"}
        /\ r.mm.state = "WAIT_RR" => v.mm.state = "WAIT_RR"
        /\ r.rr = "ABORT_REQ" => r.mm.state # "WAIT_RR"
    <3>1. Handles(v.mm, r) /\ r.rr \in {"none", "ABORT_REQ"}
      BY <1>0, <2>2, T3240Is
    <3>2. /\ r.mm.state = "WAIT_RR" => v.mm.state = "WAIT_RR"
          /\ r.rr = "ABORT_REQ" => r.mm.state # "WAIT_RR"
      BY <1>00 DEF MM!T3240, MM!Acts, MM!NoReq, MM!ReturnIdle, MM!MmLayers
    <3> QED
      BY <3>1, <3>2
  <2> HIDE DEF r
  <2>4. HasPend(r.mm) => HasPend(v.mm)
    BY <2>3 DEF Handles, Serves, NoneNew, HasPend
  <2>5. Holds(v.mm, r)
    BY <2>3, <2>4 DEF Handles, Sane, Asks, Holds, Stuck, OnRr
  <2>6. Heeds(v, MmDoes(v, r))
    BY <1>0, <2>5, MmDoesHeeds
  <2> QED
    BY <2>1, <2>6, SelectsHeeded DEF v
<1>3. CASE T3122
  <2> DEFINE n == [v EXCEPT !.link.t3122 = FALSE]
  <2>1. Selects(n)
    BY <1>3 DEF T3122
  <2> HIDE DEF v
  <2>2. /\ n.mm = v.mm /\ n.rrUp = v.rrUp /\ n.link.st = v.link.st
        /\ n.link.est = v.link.est
    BY <1>0 DEF Plain, RR!Links
  <2> HIDE DEF n
  <2>3. Heeds(v, n)
    BY <2>2, HeedsMm
  <2> QED
    BY <2>1, <2>3, SelectsHeeded DEF v
<1>4. ASSUME NEW ref \in Refs, CcTimeout(ref)
      PROVE  Heeded
  <2> DEFINE n == CcDoes(v, ref, CC!Timeout(v.trans[ref]))
  <2>1. Selects(n)
    BY <1>0, <1>4 DEF CcTimeout
  <2> HIDE DEF v
  <2>2. Heeds(v, n)
    BY <1>0, CcDoesHeeds
  <2> HIDE DEF n
  <2> QED
    BY <2>1, <2>2, SelectsHeeded DEF v
<1> QED
  BY <1>1, <1>2, <1>3, <1>4 DEF Timers

\* The radio goes on with the connection that MM asked for, or says what
\* became of it.
LEMMA RadioGoes ==
  ASSUME NEW l \in RR!Links, l.st = "pend", l.est, NEW g \in RR!Steps(l)
  PROVE  \/ g.link.st = "pend" /\ g.link.est /\ g.up = <<>>
         \/ g.up \in {<<"EST_CNF">>, <<"REL_IND">>}
<1>1. \/ g \in {RR!Established(l), RR!Failed(l), RR!Los(l)}
      \/ g = RR!Gives([l EXCEPT !.st = "relwait"], <<"REL_IND">>)
      \/ g = RR!Gives([l EXCEPT !.t3122 = TRUE], <<>>)
  BY DEF RR!Steps
<1> QED
  BY <1>1 DEF RR!Established, RR!Failed, RR!Los, RR!Gives, RR!Links

LEMMA RadioHeeds ==
  ASSUME NEW w \in Worlds, NEW g \in RR!Steps(w.link)
  PROVE  Heeds(w, LinkDoes(w, g))
<1> DEFINE n == LinkDoes(w, g)
<1> HIDE DEF n
<1>1. w.link \in RR!Links /\ w.rrUp \in Seq(RrEntries)
  BY WorldIs DEF RrQueues
<1>2. g.link \in RR!Links /\ g.up \in Tells
  BY <1>1, RadioSteps DEF Radios
<1>3. LinkLeaves(w, g, n)
  BY <1>2, LinkDoesIs DEF n
<1>4. n.mm = w.mm /\ n.link = g.link
  BY <1>3 DEF LinkLeaves
<1>5. CASE g.up = <<>>
  <2>1. n.rrUp = w.rrUp
    BY <1>3, <1>5 DEF LinkLeaves
  <2>2. w.link.st = "pend" /\ w.link.est => g.link.st = "pend" /\ g.link.est
    BY <1>1, <1>5, RadioGoes
  <2> QED
    BY <1>4, <2>1, <2>2 DEF Heeds, Promised, Going, n
<1>6. CASE g.up # <<>>
  <2> DEFINE e == Up(g.up[1], NoRef)
             o == <<e>>
  <2>1. n.rrUp = w.rrUp \o o /\ g.up[1] \in LinkPrims
    BY <1>3, <1>6 DEF LinkLeaves
  <2>2. e \in RrEntries /\ e.p = g.up[1]
    BY <2>1 DEF Up, RrEntries, RrPrims, LinkPrims
  <2> HIDE DEF e
  <2>3. o \in Seq(RrEntries) /\ Elems(o) = {e}
    BY <2>2, ElemsOfOne
  <2> HIDE DEF o
  <2>4. Elems(n.rrUp) = Elems(w.rrUp) \cup {e}
    BY <1>1, <2>1, <2>3, ElemsOfCat
  <2>5. w.link.st = "pend" /\ w.link.est => e.p \in Answers4
    BY <1>1, <1>6, <2>2, RadioGoes DEF Answers4
  <2>6. Going(w.link, w.rrUp) => Going(n.link, n.rrUp)
    BY <2>4, <2>5 DEF Going, HasAnswer
  <2> QED
    BY <1>4, <2>6 DEF Heeds, Promised, n
<1> QED
  BY <1>5, <1>6

LEMMA ArrivesHeeded ==
  ASSUME IInv, NEW msg, NEW ref, NEW l, Up(msg, ref) \in RrEntries,
         l = link \/ l = [link EXCEPT !.asked = FALSE], Arrives(msg, ref, l)
  PROVE  Heeded
<1> DEFINE v == World
           e == Up(msg, ref)
           o == <<e>>
           n == [v EXCEPT !.rrUp = Append(@, e), !.link = l]
<1>1. v.link = link /\ Plain(v)
  BY Given DEF World
<1>2. Selects(n)
  BY DEF Arrives
<1> HIDE DEF v, e
<1>3. o \in Seq(RrEntries)
  BY ElemsOfOne DEF e
<1>4. /\ l.st = v.link.st /\ l.est = v.link.est
      /\ v.rrUp \in Seq(RrEntries)
  BY <1>1 DEF Plain, RR!Links, RrQueues
<1>5. Append(v.rrUp, e) = v.rrUp \o o
  BY <1>4
<1> HIDE DEF o
<1>6. Elems(v.rrUp \o o) = Elems(v.rrUp) \cup Elems(o)
  BY <1>3, <1>4, ElemsOfCat
<1>7. n.mm = v.mm /\ n.link = l /\ n.rrUp = v.rrUp \o o
  BY <1>1, <1>5 DEF Plain
<1> HIDE DEF n
<1>8. Heeds(v, n)
  BY <1>4, <1>6, <1>7 DEF Heeds, Promised, Going, HasAnswer
<1> QED
  BY <1>2, <1>8, SelectsHeeded DEF v

LEMMA NetworkHeeded ==
  ASSUME IInv, Network
  PROVE  Heeded
<1> DEFINE v == World
<1>0. v.link = link /\ Plain(v) /\ v \in Worlds
  BY Given DEF World
<1>1. CASE Radio
  <2>1. PICK g \in RR!Steps(v.link) : Selects(LinkDoes(v, g))
    BY <1>0, <1>1 DEF Radio
  <2> HIDE DEF v
  <2>2. Heeds(v, LinkDoes(v, g))
    BY <1>0, RadioHeeds
  <2> QED
    BY <2>1, <2>2, SelectsHeeded DEF v
<1>2. CASE Camp
  <2> DEFINE l == [v.link EXCEPT !.st = "camped"]
             x == Append(v.events, "CELL_SELECTED")
             n == [v EXCEPT !.link = l, !.events = x]
  <2>1. Selects(n) /\ v.link.st = "choose"
    BY <1>0, <1>2 DEF Camp, World
  <2> HIDE DEF v, l, x
  <2>2. n.mm = v.mm /\ n.link = l /\ n.rrUp = v.rrUp
    BY <1>0 DEF Plain
  <2> HIDE DEF n
  <2>3. Heeds(v, n)
    BY <2>1, <2>2 DEF Heeds, Promised, Going
  <2> QED
    BY <2>1, <2>3, SelectsHeeded DEF v
<1>3. CASE MmMessage
  <2>1. \A p \in {"CM_SERV_ACC", "CM_SERV_REJ", "MM_ABORT", "SYNC_IND"} :
          Up(p, NoRef) \in RrEntries
    BY DEF Up, RrEntries, RrPrims, MmMessages
  <2> QED
    BY <1>3, <2>1, ArrivesHeeded DEF MmMessage, Answers, Refuses
<1>4. CASE CcFromNetwork
  <2>1. PICK msg \in CC!Messages, ref \in Refs : Arrives(msg, ref, link)
    BY <1>4 DEF CcFromNetwork, Fresh, Refs
  <2>2. Up(msg, ref) \in RrEntries
    BY <2>1 DEF Up, RrEntries, RrPrims
  <2> QED
    BY <2>1, <2>2, ArrivesHeeded
<1> QED
  BY <1>1, <1>2, <1>3, <1>4 DEF Network

LEMMA UserHeeded ==
  ASSUME IInv, User
  PROVE  Heeded
<1> DEFINE v == World
<1>0. v.calls = calls /\ Plain(v) /\ v.calls \in Seq(CallEntries)
  BY Given, WorldIs DEF World, Lists4
<1>1. ASSUME NEW r, Selects(L4Does(v, r)),
             \A i \in DOMAIN r.reqs : r.reqs[i].ref \in Refs
      PROVE  Heeded
  <2> HIDE DEF v
  <2>1. Heeds(v, L4Does(v, r))
    BY <1>0, <1>1, L4DoesHeeds
  <2> QED
    BY <1>1, <2>1, SelectsHeeded DEF v
<1>2. CASE Dial
  <2>1. PICK ref \in Fresh(v, MoRefs) : Selects(L4Does(v, L4!Dial(v.calls, ref)))
    BY <1>0, <1>2 DEF Dial, UserDoes
  <2> DEFINE r == L4!Dial(v.calls, ref)
  <2>2. ref \in Refs
    BY <2>1 DEF Fresh, Refs
  <2> HIDE DEF v
  <2>3. r.reqs = <<>> \/ r.reqs = <<[type |-> "SETUP_REQ", ref |-> ref]>>
    BY <1>0, <2>2, DialIs
  <2>4. \A i \in DOMAIN r.reqs : r.reqs[i].ref \in Refs
    <3> HIDE DEF r
    <3> QED
      BY <2>2, <2>3
  <2> QED
    BY <1>1, <2>1, <2>4
<1>3. CASE Hangup
  <2> DEFINE r == L4!Hangup(v.calls)
  <2>1. Selects(L4Does(v, r))
    BY <1>0, <1>3 DEF Hangup, UserDoes
  <2> HIDE DEF v
  <2>2. r.reqs = <<>> \/ \E q \in Requests : r.reqs = <<q>>
    BY <1>0, HangupIs
  <2>3. \A i \in DOMAIN r.reqs : r.reqs[i].ref \in Refs
    <3> HIDE DEF r
    <3> QED
      BY <2>2 DEF Requests
  <2> QED
    BY <1>1, <2>1, <2>3
<1>4. CASE Answer
  <2> DEFINE r == L4!Answer(v.calls)
  <2>1. Selects(L4Does(v, r))
    BY <1>0, <1>4 DEF Answer, UserDoes
  <2> HIDE DEF v
  <2>2. r.reqs \in Seq(Late)
    BY <1>0, AnswerIs
  <2> QED
    BY <1>1, <2>1, <2>2, LateRefs
<1>5. CASE Hold \/ Retrieve
  <2>1. PICK r \in {L4!Hold(v.calls)} \cup {L4!Retrieve(v.calls, k) :
                                              k \in DOMAIN v.calls} :
          Selects(L4Does(v, r))
    BY <1>0, <1>5 DEF Hold, Retrieve, UserDoes
  <2> HIDE DEF v
  <2>2. r.reqs \in Seq(Late)
    BY <1>0, CommandIs
  <2> QED
    BY <1>1, <2>1, <2>2, LateRefs
<1> QED
  BY <1>2, <1>3, <1>4, <1>5 DEF User

LEMMA NextHeeded ==
  ASSUME IInv, [Next]_vars
  PROVE  /\ Promised(World) => Promised(World)'
         /\ Stuck(mm') => Stuck(mm) \/ ServeEvents
<1>1. CASE Next
  BY <1>1, ServeRrHeeded, ServeMmxxHeeded, ServeEventsHeeded,
     ServeMnccHeeded, TimersHeeded, NetworkHeeded, UserHeeded
     DEF Next, Serve, Heeded
<1>2. CASE UNCHANGED vars
  <2>1. World' = World /\ mm' = mm
    BY <1>2 DEF vars, World
  <2> QED
    BY <2>1 DEF Promised
<1> QED
  BY <1>1, <1>2

LEMMA PromisedTheorem == Spec => []Promised(World)
<1>1. Init => Promised(World)
  <2> SUFFICES ASSUME Init  PROVE ~OnRr(mm)
    BY Parts DEF Promised
  <2> QED
    BY DEF Init, MM!MmInit, OnRr
<1>2. IInv /\ Promised(World) /\ [Next]_vars => Promised(World)'
  BY NextHeeded
<1> QED
  BY <1>1, <1>2, IInvTheorem, PTL DEF Spec

-----------------------------------------------------------------------------
(***************************************************************************)
(* The theorems.                                                            *)
(***************************************************************************)
LEMMA Typed == IInv => TypeOK
<1> SUFFICES ASSUME IInv  PROVE TypeOK
  OBVIOUS
<1>1. World \in Worlds /\ at \in Stages
  BY DEF IInv, Sound, Good, Base, Passed
<1>2. /\ trans \in Transes /\ mm \in MM!MmLayers /\ link \in RR!Links
      /\ calls \in Lists4 /\ rrUp \in RrQueues /\ mmxx \in MmxxQueues
      /\ events \in EventQueues /\ mncc \in MnccQueues
  BY <1>1, WorldIs, Parts
<1>3. calls \in L4!CallLists
  BY <1>2 DEF Lists4, CallEntries, L4!CallLists
<1>4. /\ \A i \in DOMAIN rrUp : rrUp[i] \in RrEntries
      /\ \A i \in DOMAIN mmxx : mmxx[i] \in Entry
      /\ \A i \in DOMAIN mncc : mncc[i] \in MnccEntries
      /\ \A i \in DOMAIN events : events[i] \in {"CELL_SELECTED"}
  BY <1>2 DEF RrQueues, MmxxQueues, MnccQueues, EventQueues
<1>5. Uniq(mm.conns)
  BY Parts DEF IInv, Sound, Good, Base, Sane
<1> QED
  BY <1>1, <1>2, <1>3, <1>4, <1>5
     DEF TypeOK, Transes, RrEntries, Entry, MnccEntries, Uniq

\* The state stays within its types: every reference that is queued is that
\* of a call, every state is one of its layer, and no two MM connections have
\* the same reference, by which all their messages find them.
THEOREM TypeCorrect == Spec => []TypeOK
BY IInvTheorem, Typed, PTL

LEMMA EndedIs == Ended = {"REL_IND", "ERR_IND"} /\ Ended \subseteq Ends
BY DEF Ended, Ends

\* Call control never keeps a call whose MM connection is gone without being
\* told: gsm48_mm_release_mm_conn, however it is reached, says so, and what
\* it says is not overtaken or dropped.
THEOREM TransactionHasConnectionTheorem == Spec => []TransactionHasConnection
<1>1. IInv => TransactionHasConnection
  <2> SUFFICES ASSUME IInv, NEW r \in Refs, Live(r)
               PROVE  MM!HasConn(mm, r) \/ Told(mmxx, r, Ends)
    BY DEF TransactionHasConnection
  <2>1. Owes(World, r, trans[r]) /\ IsLive(trans[r])
    BY Parts DEF IInv, Sound, Good, Owed, Live, IsLive
  <2>2. HasRef(mm.conns, r) \/ Says(mmxx, r, Ended)
    BY <2>1, Parts DEF Owes
  <2> QED
    BY <2>2, EndedIs DEF HasRef, Says, Elems, Told, MM!HasConn
<1> QED
  BY <1>1, IInvTheorem, PTL

\* A call that waits for its MM connection is never forgotten: its request is
\* pending in MM, or the confirmation or the release is queued for it.
LEMMA PendIsAnswered == IInv => WaitIsAnswered
<1> SUFFICES ASSUME IInv, NEW r \in Refs,
                    trans[r].state = "MM_CONNECTION_PEND"
             PROVE  \/ \E i \in DOMAIN mm.conns :
                         mm.conns[i] = MM!Conn(r, "PEND")
                    \/ Told(mmxx, r, Ends \cup {"EST_CNF"})
  BY DEF WaitIsAnswered
<1>1. Owes(World, r, trans[r]) /\ IsPend(trans[r])
  BY Parts DEF IInv, Sound, Good, Owed, IsPend
<1>2. Pend(r) \in Elems(mm.conns) \/ Says(mmxx, r, Ended \cup {"EST_CNF"})
  BY <1>1, Parts DEF Owes
<1> QED
  BY <1>2, EndedIs DEF Pend, Says, Elems, Told, MM!Conn

\* The confirmation of a connection that mobile_work hands to gsm48_rcv_cc
\* always finds its call waiting for it, whatever the user and the network
\* did in between.
THEOREM ConfirmIsExpectedTheorem == Spec => []ConfirmIsExpected
<1>1. IInv => ConfirmIsExpected
  <2> SUFFICES ASSUME IInv, Turn(World, at) = "mmxx",
                      Head(mmxx).p = "EST_CNF"
               PROVE  trans[Head(mmxx).ref].state = "MM_CONNECTION_PEND"
    BY DEF ConfirmIsExpected
  <2>1. mmxx # <<>> /\ Confirmed(World) /\ mmxx \in Seq(Entry)
    BY TurnIs, WorldIs, Parts
       DEF IInv, Sound, Passed, Good, Base, MmxxQueues
  <2>2. 1 \in DOMAIN mmxx /\ Head(mmxx) = mmxx[1]
    BY <2>1
  <2> QED
    BY <2>1, <2>2, Parts DEF Confirmed, IsPend
<1> QED
  BY <1>1, IInvTheorem, PTL

\* In the states of MM and of a call that wait for the network something ends
\* the wait: RR for the radio connection, T3230 for a connection that was
\* asked for on it, T303, T313 or T308 for a call, MM for a call that waits for
\* its connection.
THEOREM WaitsAreTimedTheorem == Spec => []WaitsAreTimed
<1>1. IInv /\ Promised(World) => WaitsAreTimed
  <2> SUFFICES ASSUME IInv, Promised(World)  PROVE WaitsAreTimed
    OBVIOUS
  <2>1. TimedMm(mm) /\ \A r \in Refs : TimedCc(trans[r])
    BY Parts DEF IInv, Sound, Good, Base, Sane, TimedCalls
  <2>2. MM!Pending(mm) => HasPend(mm)
    BY DEF MM!Pending, MM!IsPending, HasPend, Elems
  <2>3. OnRr(mm) => link.st = "pend" \/ RrAnswers
    <3>1. HasAnswer(rrUp) => RrAnswers
      BY DEF HasAnswer, Answers4, RrAnswers, Elems
    <3> QED
      BY <3>1, Parts DEF Promised, Going
  <2> QED
    BY PendIsAnswered, <2>1, <2>2, <2>3 DEF WaitsAreTimed, TimedMm, TimedCc, OnRr
<1> QED
  BY <1>1, IInvTheorem, PromisedTheorem, PTL

\* MM leaves its waiting states only with an answer to the connection that
\* waits, whatever crosses what: the one step that strands a connection is
\* that of gsm48_mm_cell_selected.
THEOREM WaitIsKeptTheorem == Spec => WaitIsKept
<1>1. Stranded <=> Stuck(mm)
  BY DEF Stranded, Stuck, Asking, MM!Pending, MM!IsPending, HasPend, Elems
<1>2. Stranded' <=> Stuck(mm')
  BY DEF Stranded, Stuck, Asking, MM!Pending, MM!IsPending, HasPend, Elems
<1>3. IInv /\ [Next]_vars => [Stranded' => Stranded \/ ServeEvents]_vars
  BY <1>1, <1>2, NextHeeded
<1> QED
  BY <1>3, IInvTheorem, PTL DEF Spec, WaitIsKept

\* While an MM connection serves a call, MM is in one of the states in which
\* it passes the messages of the call on.
THEOREM DedicatedIsActiveTheorem == Spec => []DedicatedIsActive
<1>1. IInv => DedicatedIsActive
  <2> SUFFICES ASSUME IInv, \E i \in DOMAIN mm.conns : mm.conns[i].st = "DEDIC"
               PROVE  mm.state \in {"ACTIVE", "WAIT_ADD"}
    BY DEF DedicatedIsActive
  <2>1. DedicMm(mm)
    BY Parts DEF IInv, Sound, Good, Base, Sane
  <2>2. HasDedic(mm)
    BY DEF HasDedic, Elems
  <2> QED
    BY <2>1, <2>2 DEF DedicMm
<1> QED
  BY <1>1, IInvTheorem, PTL

\* When the mobile camps and every queue has been served, MM is idle,
\* whatever state the radio connection was lost in.
THEOREM CampedMeansIdleTheorem == Spec => []CampedMeansIdle
<1>1. IInv => CampedMeansIdle
  <2> SUFFICES ASSUME IInv, link.st = "camped", Queued = 0
               PROVE  mm.state = "IDLE"
    BY DEF CampedMeansIdle
  <2>1. /\ rrUp \in Seq(RrEntries) /\ mmxx \in Seq(Entry)
        /\ events \in Seq({"CELL_SELECTED"}) /\ mncc \in Seq(MnccEntries)
        /\ Rests(World)
    BY WorldIs, Parts DEF IInv, Sound, Good, Base, RrQueues, MmxxQueues,
                          EventQueues, MnccQueues
  <2>2. /\ Len(rrUp) \in Nat /\ Len(mmxx) \in Nat /\ Len(events) \in Nat
        /\ Len(mncc) \in Nat
    BY <2>1
  <2>3. Len(rrUp) = 0 /\ Len(events) = 0
    BY <2>2 DEF Queued
  <2>4. rrUp = <<>> /\ events = <<>>
    BY <2>1, <2>3
  <2>5. ~HasFall(rrUp)
    BY <2>4, ElemsOfNone DEF HasFall
  <2> QED
    BY <2>1, <2>4, <2>5, Parts DEF Rests
<1> QED
  BY <1>1, IInvTheorem, PTL

\* A call goes forward until it is gone: no late or repeated message, no
\* timer and no command of the user takes it back in its set-up or out of its
\* clearing.
THEOREM NoWayBackTheorem == Spec => NoWayBack
<1>1. IInv /\ [Next]_vars =>
        [\A r \in Refs : Phase(trans'[r]) = 0
                          \/ Phase(trans'[r]) >= Phase(trans[r])]_vars
  BY NextStep DEF Onwards
<1> QED
  BY <1>1, IInvTheorem, PTL DEF Spec, NoWayBack
=============================================================================
