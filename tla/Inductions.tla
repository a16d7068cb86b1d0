----------------------------- MODULE Inductions -----------------------------
(***************************************************************************)
(* Induction over the natural numbers in the form the proofs use it, and    *)
(* the walk over a list that leaves some of its entries out: the code frees *)
(* list entries while it goes over the list (llist_for_each_entry_safe).    *)
(***************************************************************************)
EXTENDS Naturals, Sequences, SequenceTheorems, NaturalsInduction,
        WellFoundedInduction, TLAPS

\* Induction, with a set in the place of the predicate.
LEMMA SetInduction ==
  ASSUME NEW S, 0 \in S, \A n \in Nat : n \in S => n + 1 \in S
  PROVE  Nat \subseteq S
<1> SUFFICES ASSUME Nat \ S # {} PROVE FALSE
  OBVIOUS
<1> DEFINE T == Nat \ S
           R == OpToRel(<, Nat)
<1>1. IsWellFoundedOn(R, Nat)
  BY NatLessThanWellFounded
<1> HIDE DEF R
<1>2. T \subseteq Nat /\ T # {}
  OBVIOUS
<1> HIDE DEF T
<1>3. PICK x \in T : \A y \in T : ~(<<y, x>> \in R)
  BY <1>1, <1>2, WFMin
<1>4. \A y \in T : ~(y < x)
  BY <1>2, <1>3 DEF R, OpToRel
<1>5. x \in Nat /\ x \notin S
  BY DEF T
<1>6. x # 0 /\ x - 1 \in Nat /\ x - 1 \notin T
  BY <1>4, <1>5
<1> QED
  BY <1>5, <1>6 DEF T

-----------------------------------------------------------------------------
\* One step of the walk: the entry x is left out when it is in D.
Visit(l, x, D) == IF x \in D THEN l ELSE Append(l, x)

\* f[i] is what the first i entries of s leave without those in D.
Keeps(f, m, s, D) ==
  f = [i \in 0 .. m |-> IF i = 0 THEN <<>> ELSE Visit(f[i - 1], s[i], D)]

\* The recursive definition of the walk defines a function.
LEMMA KeepsExist ==
  ASSUME NEW m \in Nat, NEW s, NEW D
  PROVE  \E f : Keeps(f, m, s, D)
<1> DEFINE S == {k \in Nat : \E f : Keeps(f, k, s, D)}
<1>1. 0 \in S
  <2> DEFINE f == [i \in 0 .. 0 |-> <<>>]
  <2>1. f = [i \in 0 .. 0 |-> IF i = 0 THEN <<>>
                              ELSE Visit(f[i - 1], s[i], D)]
    OBVIOUS
  <2> QED
    BY <2>1 DEF Keeps
<1>2. ASSUME NEW k \in Nat, k \in S
      PROVE  k + 1 \in S
  <2>1. PICK f : Keeps(f, k, s, D)
    BY <1>2
  <2>2. /\ DOMAIN f = 0 .. k /\ f[0] = <<>>
        /\ \A i \in 1 .. k : f[i] = Visit(f[i - 1], s[i], D)
    BY <2>1 DEF Keeps
  <2> DEFINE h == [i \in 0 .. (k + 1) |->
                     IF i = k + 1 THEN Visit(f[k], s[k + 1], D) ELSE f[i]]
  <2>3. \A i \in 0 .. (k + 1) :
          h[i] = IF i = 0 THEN <<>> ELSE Visit(h[i - 1], s[i], D)
    BY <2>2
  <2>4. h = [i \in 0 .. (k + 1) |-> IF i = 0 THEN <<>>
                                ELSE Visit(h[i - 1], s[i], D)]
    <3>1. h = [i \in 0 .. (k + 1) |-> h[i]]
      OBVIOUS
    <3> HIDE DEF h
    <3> QED
      BY <2>3, <3>1
  <2> HIDE DEF h
  <2>5. Keeps(h, k + 1, s, D)
    BY <2>4 DEF Keeps
  <2> QED
    BY <2>5
<1> HIDE DEF S
<1>3. m \in S
  BY <1>1, <1>2, SetInduction
<1> QED
  BY <1>3 DEF S

\* r lists those of the first m entries of s that are not in D, each once.
Lists(r, m, s, D) ==
  \E e \in [1 .. Len(r) -> 1 .. m] :
    /\ \A i, j \in 1 .. Len(r) : e[i] = e[j] => i = j
    /\ \A i \in 1 .. Len(r) : r[i] = s[e[i]] /\ r[i] \notin D
    /\ \A j \in 1 .. m : s[j] \notin D => \E i \in 1 .. Len(r) : e[i] = j

LEMMA ListsMore ==
  ASSUME NEW T, NEW s \in Seq(T), NEW D, NEW k \in Nat, k < Len(s),
         NEW r \in Seq(T), Lists(r, k, s, D), s[k + 1] \notin D
  PROVE  Lists(Append(r, s[k + 1]), k + 1, s, D)
<1> DEFINE m == Len(r)
           x == s[k + 1]
           q == Append(r, x)
<1>1. /\ m \in Nat /\ x \in T /\ q \in Seq(T) /\ Len(q) = m + 1
      /\ q[m + 1] = x /\ \A i \in 1 .. m : q[i] = r[i]
  OBVIOUS
<1>2. PICK e \in [1 .. m -> 1 .. k] :
        /\ \A i, j \in 1 .. m : e[i] = e[j] => i = j
        /\ \A i \in 1 .. m : r[i] = s[e[i]] /\ r[i] \notin D
        /\ \A j \in 1 .. k : s[j] \notin D => \E i \in 1 .. m : e[i] = j
  BY DEF Lists
<1> DEFINE g == [i \in 1 .. (m + 1) |-> IF i = m + 1 THEN k + 1 ELSE e[i]]
<1> HIDE DEF m, q
<1>3. g \in [1 .. (m + 1) -> 1 .. (k + 1)]
  BY <1>1, <1>2
<1>4. \A i \in 1 .. m : g[i] = e[i] /\ g[i] \in 1 .. k
  BY <1>1, <1>2
<1>5. g[m + 1] = k + 1
  BY <1>1
<1> HIDE DEF g
<1>6. \A i, j \in 1 .. (m + 1) : g[i] = g[j] => i = j
  <2> SUFFICES ASSUME NEW i \in 1 .. (m + 1), NEW j \in 1 .. (m + 1),
                      g[i] = g[j]
               PROVE  i = j
    OBVIOUS
  <2>1. CASE i \in 1 .. m /\ j \in 1 .. m
    BY <1>2, <1>4, <2>1
  <2>2. CASE i = m + 1 /\ j \in 1 .. m
    BY <1>4, <1>5, <2>2
  <2>3. CASE j = m + 1 /\ i \in 1 .. m
    BY <1>4, <1>5, <2>3
  <2> QED
    BY <1>1, <2>1, <2>2, <2>3
<1>7. \A i \in 1 .. (m + 1) : q[i] = s[g[i]] /\ q[i] \notin D
  <2> SUFFICES ASSUME NEW i \in 1 .. (m + 1)
               PROVE  q[i] = s[g[i]] /\ q[i] \notin D
    OBVIOUS
  <2>1. CASE i \in 1 .. m
    BY <1>1, <1>2, <1>4, <2>1
  <2>2. CASE i = m + 1
    BY <1>1, <1>5, <2>2
  <2> QED
    BY <1>1, <2>1, <2>2
<1>8. \A j \in 1 .. (k + 1) :
        s[j] \notin D => \E i \in 1 .. (m + 1) : g[i] = j
  <2> SUFFICES ASSUME NEW j \in 1 .. (k + 1), s[j] \notin D
               PROVE  \E i \in 1 .. (m + 1) : g[i] = j
    OBVIOUS
  <2>1. CASE j \in 1 .. k
    <3>1. PICK i \in 1 .. m : e[i] = j
      BY <1>2, <2>1
    <3> QED
      BY <1>1, <1>4, <3>1
  <2>2. CASE j = k + 1
    BY <1>1, <1>5, <2>2
  <2> QED
    BY <2>1, <2>2
<1>9. Lists(q, k + 1, s, D)
  <2> DEFINE n == Len(q)
  <2>1. n = m + 1
    BY <1>1
  <2> HIDE DEF n
  <2>2. /\ g \in [1 .. n -> 1 .. (k + 1)]
        /\ \A i, j \in 1 .. n : g[i] = g[j] => i = j
        /\ \A i \in 1 .. n : q[i] = s[g[i]] /\ q[i] \notin D
        /\ \A j \in 1 .. (k + 1) :
             s[j] \notin D => \E i \in 1 .. n : g[i] = j
    BY <1>3, <1>6, <1>7, <1>8, <2>1
  <2> QED
    BY <2>2 DEF Lists, n
<1> QED
  BY <1>9 DEF q

\* What the walk leaves.
LEMMA KeepsList ==
  ASSUME NEW T, NEW s \in Seq(T), NEW D, NEW f, Keeps(f, Len(s), s, D)
  PROVE  f[Len(s)] \in Seq(T) /\ Lists(f[Len(s)], Len(s), s, D)
<1> DEFINE m == Len(s)
           S == {k \in Nat : k <= m =>
                               f[k] \in Seq(T) /\ Lists(f[k], k, s, D)}
<1>1. m \in Nat
  OBVIOUS
<1>2. /\ f[0] = <<>>
      /\ \A i \in 1 .. m : f[i] = Visit(f[i - 1], s[i], D)
  BY <1>1 DEF Keeps
<1> HIDE DEF m
<1>3. 0 \in S
  <2> DEFINE r == f[0]
  <2>1. r \in Seq(T) /\ Len(r) = 0
    BY <1>2
  <2>2. PICK e : e = [i \in 1 .. 0 |-> 1]
    OBVIOUS
  <2>3. e \in [1 .. Len(r) -> 1 .. 0]
    BY <2>1, <2>2
  <2>4. Lists(r, 0, s, D)
    BY <2>1, <2>3 DEF Lists
  <2> QED
    BY <2>1, <2>4
<1>4. ASSUME NEW k \in Nat, k \in S
      PROVE  k + 1 \in S
  <2> SUFFICES ASSUME k + 1 <= m
               PROVE  /\ f[k + 1] \in Seq(T)
                      /\ Lists(f[k + 1], k + 1, s, D)
    OBVIOUS
  <2> DEFINE r == f[k]
             i == k + 1
             n == f[k + 1]
  <2>1. r \in Seq(T) /\ Lists(r, k, s, D) /\ k < Len(s) /\ s[i] \in T
    BY <1>1, <1>4 DEF m
  <2>2. n = IF s[i] \in D THEN r ELSE Append(r, s[i])
    BY <1>1, <1>2 DEF Visit
  <2> HIDE DEF r, n
  <2>3. CASE s[i] \in D
    <3>1. n = r
      BY <2>2, <2>3
    <3>2. Lists(r, k + 1, s, D)
      <4>1. PICK e \in [1 .. Len(r) -> 1 .. k] :
              /\ \A a, b \in 1 .. Len(r) : e[a] = e[b] => a = b
              /\ \A a \in 1 .. Len(r) : r[a] = s[e[a]] /\ r[a] \notin D
              /\ \A b \in 1 .. k :
                   s[b] \notin D => \E a \in 1 .. Len(r) : e[a] = b
        BY <2>1 DEF Lists
      <4>2. e \in [1 .. Len(r) -> 1 .. (k + 1)]
        BY <4>1
      <4>3. \A b \in 1 .. (k + 1) : b \in 1 .. k \/ b = i
        OBVIOUS
      <4> QED
        BY <2>3, <4>1, <4>2, <4>3 DEF Lists
    <3> QED
      BY <2>1, <3>1, <3>2 DEF n
  <2>4. CASE s[i] \notin D
    <3>1. n = Append(r, s[i])
      BY <2>2, <2>4
    <3>2. Lists(Append(r, s[k + 1]), k + 1, s, D)
      BY <2>1, <2>4, ListsMore
    <3>3. n \in Seq(T)
      BY <2>1, <3>1
    <3> QED
      BY <3>1, <3>2, <3>3 DEF n
  <2> QED
    BY <2>3, <2>4
<1> HIDE DEF S
<1>5. m \in S
  BY <1>1, <1>3, <1>4, SetInduction
<1> QED
  BY <1>1, <1>5 DEF S, m
=============================================================================
