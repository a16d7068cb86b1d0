--------------------------- MODULE L1Gprs_proofs ---------------------------
(***************************************************************************)
(* Proofs about L1Gprs: the counters of every timeslot count the TBFs that  *)
(* use it, and the lower layers know exactly the timeslots that are in use. *)
(*                                                                          *)
(* The counters are kept by increments and decrements (Link, Unlink, Add)   *)
(* that are spread over the operations, while the properties speak of the   *)
(* sets they count.  The inductive invariant, Good, is that every counter   *)
(* is the cardinality of its set; each operation is shown to change the     *)
(* set and the counter alike.  In the middle of an operation a counter may  *)
(* be ahead of what the lower layers were told: Enabled(g, S) says that the *)
(* timeslots S are set up whether they are in use or not.                   *)
(*                                                                          *)
(* The counters have eight bits and nothing checks for their overflow, so   *)
(* the theorems are about fewer than 256 references in either direction and *)
(* fewer than 256 pending requests (Few): more could wrap a counter.        *)
(***************************************************************************)
EXTENDS L1Gprs, FiniteSetTheorems, Inductions

\* The directions, and the references of a direction.
Dirs == {"ul", "dl"}
Refs(d) == IF d = "ul" THEN UlRef ELSE DlRef

\* An eight-bit counter is never full.
Few ==
  /\ IsFiniteSet(UlRef) /\ Cardinality(UlRef) < 256
  /\ IsFiniteSet(DlRef) /\ Cardinality(DlRef) < 256
  /\ PendingCap < 256

\* The types of the parts of the state.
Request == [tbf : Tbf, start : Blocks]

Counts == [Tns \X Counter -> 0 .. 255]

Shapes ==
  [tbf_list : SUBSET Tbf, tbf_list_pending : Seq(Request),
   count : Counts, dl_tfi_mask : [Tns -> SUBSET Tfi],
   enabled : SUBSET Tns]

\* The parts of a TBF.
LEMMA TbfIs ==
  ASSUME NEW b \in Tbf
  PROVE  /\ b.dir \in Dirs /\ b.ref \in Refs(b.dir)
         /\ b.slots \in SUBSET Tns /\ b.slots # {}
         /\ TfisOf(b) \in SUBSET Tfi
         /\ b.dir \in Counter /\ PendingOf(b.dir) \in Counter
<1>1. CASE b \in [dir : {"ul"}, ref : UlRef, slots : (SUBSET Tns) \ {{}},
                  tfi : {NoTfi}]
  BY <1>1 DEF Dirs, Refs, TfisOf, PendingOf, Counter
<1>2. CASE b \in [dir : {"dl"}, ref : DlRef, slots : (SUBSET Tns) \ {{}},
                  tfi : Tfi]
  BY <1>2 DEF Dirs, Refs, TfisOf, PendingOf, Counter
<1> QED
  BY <1>1, <1>2 DEF Tbf

\* A TBF with other timeslots.
LEMMA TbfSlots ==
  ASSUME NEW b \in Tbf, NEW s \in (SUBSET Tns) \ {{}}, NEW c, c = [b EXCEPT !.slots = s]
  PROVE  c \in Tbf /\ c.dir = b.dir /\ c.ref = b.ref /\ c.slots = s
BY DEF Tbf

-----------------------------------------------------------------------------
\* A reference names one TBF of its direction.
Unique(list) ==
  \A b, c \in list : b.dir = c.dir /\ b.ref = c.ref => b = c

\* The TBF of list that is called d, r, if there is one; the TBFs of
\* direction d on timeslot t; the same, but for the one called r.
Named(list, d, r) == {b \in list : b.dir = d /\ b.ref = r}

On(list, t, d) == {b \in list : b.dir = d /\ t \in b.slots}

Others(list, t, d, r) ==
  {b \in list : b.dir = d /\ b.ref # r /\ t \in b.slots}

\* There are fewer of them than references.
LEMMA OthersFew ==
  ASSUME Few, NEW list \in SUBSET Tbf, Unique(list),
         NEW d \in Dirs, NEW r \in Refs(d), NEW t
  PROVE  /\ IsFiniteSet(Others(list, t, d, r))
         /\ Cardinality(Others(list, t, d, r)) \in 0 .. 254
<1> DEFINE S == Others(list, t, d, r)
           T == Refs(d) \ {r}
           f == [b \in S |-> b.ref]
<1>1. IsFiniteSet(Refs(d)) /\ Cardinality(Refs(d)) < 256
  BY DEF Few, Refs
<1>2. IsFiniteSet(T) /\ Cardinality(T) = Cardinality(Refs(d)) - 1
  BY <1>1, FS_RemoveElement
<1>3. f \in Injection(S, T)
  <2>1. \A b \in S : b.ref \in T
    BY TbfIs DEF Others
  <2>2. \A b, c \in S : b.ref = c.ref => b = c
    BY DEF Others, Unique
  <2> HIDE DEF S, T
  <2>3. f \in [S -> T] /\ \A b \in S : f[b] = b.ref
    BY <2>1
  <2> HIDE DEF f
  <2> QED
    BY <2>2, <2>3 DEF Injection, IsInjective
<1> HIDE DEF f, T
<1>4. IsFiniteSet(S) /\ Cardinality(S) <= Cardinality(T)
  BY <1>2, <1>3, FS_Injection
<1>5. Cardinality(S) \in Nat /\ Cardinality(Refs(d)) \in Nat
  BY <1>1, <1>4, FS_CardinalityType
<1> QED
  BY <1>1, <1>2, <1>4, <1>5

\* A TBF adds one to the number on its timeslots ...
LEMMA OnWith ==
  ASSUME Few, NEW list \in SUBSET Tbf, Unique(list), NEW b \in list, NEW t
  PROVE  Cardinality(On(list, t, b.dir)) =
           Cardinality(Others(list, t, b.dir, b.ref)) +
             (IF t \in b.slots THEN 1 ELSE 0)
<1> DEFINE S == Others(list, t, b.dir, b.ref)
<1>1. IsFiniteSet(S) /\ Cardinality(S) \in 0 .. 254
  BY OthersFew, TbfIs
<1>2. b \notin S
  BY DEF Others
<1>3. On(list, t, b.dir) = IF t \in b.slots THEN S \cup {b} ELSE S
  BY DEF On, Others, Unique
<1> HIDE DEF S
<1>4. Cardinality(S \cup {b}) = Cardinality(S) + 1
  BY <1>1, <1>2, FS_AddElement
<1> QED
  BY <1>1, <1>3, <1>4 DEF S

\* ... and one that is not there adds nothing.
LEMMA OnWithout ==
  ASSUME NEW list \in SUBSET Tbf, NEW t, NEW d, NEW r, Named(list, d, r) = {}
  PROVE  On(list, t, d) = Others(list, t, d, r)
BY DEF On, Others, Named

\* Where two lists differ in the TBF d, r only.
LEMMA OthersSame ==
  ASSUME NEW list, NEW more, NEW d, NEW r, NEW t,
         list \ Named(list, d, r) = more \ Named(more, d, r)
  PROVE  /\ Others(more, t, d, r) = Others(list, t, d, r)
         /\ \A e : e # d => On(more, t, e) = On(list, t, e)
<1>1. \A b : b \in list /\ ~(b.dir = d /\ b.ref = r) <=>
             b \in more /\ ~(b.dir = d /\ b.ref = r)
  BY DEF Named
<1> QED
  BY <1>1 DEF Others, On

-----------------------------------------------------------------------------
\* The timeslots whose counters are not all zero.
Used(g) == {t \in Tns : UseCount(g.count, t) # 0}

\* The lower layers have set up the timeslots in use, and those of S.
Enabled(g, S) == g.enabled = Used(g) \cup S

\* What one change of a counter does to that: the last user of slots takes
\* them down, unless they are in S; the first one sets them up.
KeepsElsewhere(g, n, slots) ==
  \A S : Enabled(g, S) /\ S \cap slots = {} => Enabled(n, S)

KeepsEnabled(g, n) == \A S : Enabled(g, S) => Enabled(n, S)

\* The counters h are f, but for i more users of kind c on slots.
Moved(f, h, slots, c, i) ==
  \A t \in Tns, k \in Counter :
    h[<<t, k>>] = IF t \in slots /\ k = c THEN f[<<t, k>>] + i ELSE f[<<t, k>>]

\* None of them passes zero or 255.
Fits(f, slots, c, i) == \A t \in slots : f[<<t, c>>] + i \in 0 .. 255

\* The number of users of a timeslot, all kinds together, moves alike.
UsesMoved(f, h, slots, i) ==
  \A t \in Tns :
    /\ UseCount(f, t) \in Nat
    /\ t \in slots => UseCount(f, t) + i >= 0
    /\ UseCount(h, t) = IF t \in slots THEN UseCount(f, t) + i ELSE UseCount(f, t)

\* It is a sum of four, of which one changes.
LEMMA UseIsSum ==
  ASSUME NEW f \in Counts, NEW h \in Counts, NEW t \in Tns, NEW c \in Counter,
         NEW i \in {-1, 1},
         f[<<t, c>>] + i >= 0,
         \A k \in Counter :
            h[<<t, k>>] = IF k = c THEN f[<<t, k>>] + i ELSE f[<<t, k>>]
  PROVE  /\ UseCount(f, t) + i >= 0
         /\ UseCount(h, t) = UseCount(f, t) + i
<1>1. /\ f[<<t, "ul">>] \in Nat /\ f[<<t, "dl">>] \in Nat
      /\ f[<<t, "pending_ul">>] \in Nat /\ f[<<t, "pending_dl">>] \in Nat
  <2>1. \A k \in Counter : f[<<t, k>>] \in Nat
    BY DEF Counts
  <2> QED
    BY <2>1 DEF Counter
<1>2. CASE c = "ul"
  BY <1>1, <1>2 DEF UseCount, Counter
<1>3. CASE c = "dl"
  BY <1>1, <1>3 DEF UseCount, Counter
<1>4. CASE c = "pending_ul"
  BY <1>1, <1>4 DEF UseCount, Counter
<1>5. CASE c = "pending_dl"
  BY <1>1, <1>5 DEF UseCount, Counter
<1> QED
  BY <1>2, <1>3, <1>4, <1>5 DEF Counter

\* The number of users of every timeslot after a change of the counters.
LEMMA UsesMove ==
  ASSUME NEW f \in Counts, NEW h \in Counts, NEW slots \in SUBSET Tns,
         NEW c \in Counter, NEW i \in {-1, 1},
         Fits(f, slots, c, i), Moved(f, h, slots, c, i)
  PROVE  UsesMoved(f, h, slots, i)
<1> SUFFICES ASSUME NEW t \in Tns
             PROVE  /\ UseCount(f, t) \in Nat
                    /\ t \in slots => UseCount(f, t) + i >= 0
                    /\ UseCount(h, t) = IF t \in slots THEN UseCount(f, t) + i
                                        ELSE UseCount(f, t)
  BY DEF UsesMoved
<1>1. UseCount(f, t) \in Nat
  <2>1. \A k \in Counter : f[<<t, k>>] \in Nat
    BY DEF Counts
  <2> QED
    BY <2>1 DEF UseCount, Counter
<1>2. CASE t \in slots
  <2>1. \A k \in Counter :
          h[<<t, k>>] = IF k = c THEN f[<<t, k>>] + i ELSE f[<<t, k>>]
    BY <1>2 DEF Moved
  <2>2. f[<<t, c>>] + i >= 0
    BY <1>2 DEF Fits
  <2> QED
    BY <1>1, <1>2, <2>1, <2>2, UseIsSum
<1>3. CASE t \notin slots
  <2>1. \A k \in Counter : h[<<t, k>>] = f[<<t, k>>]
    BY <1>3 DEF Moved
  <2> QED
    BY <1>1, <1>3, <2>1 DEF UseCount, Counter
<1> QED
  BY <1>2, <1>3

\* What Add does to counters that have room for it.
LEMMA AddIs ==
  ASSUME NEW g, g.count \in Counts,
         NEW slots \in SUBSET Tns, NEW c \in Counter, NEW i \in {-1, 1},
         Fits(g.count, slots, c, i),
         NEW h, h = Add(g, slots, c, i)
  PROVE  /\ h \in Counts /\ Moved(g.count, h, slots, c, i)
         /\ UsesMoved(g.count, h, slots, i)
<1> DEFINE f == g.count
<1>1. f \in [Tns \X Counter -> 0 .. 255]
  BY DEF Counts
<1>2. \A x \in Tns \X Counter :
        h[x] = IF x[1] \in slots /\ x[2] = c THEN (f[x] + i) % 256 ELSE f[x]
  BY DEF Add
<1>3. h \in Counts
  <2>1. \A x \in Tns \X Counter : f[x] \in 0 .. 255 /\ (f[x] + i) % 256 \in 0 .. 255
    BY <1>1
  <2> QED
    BY <2>1 DEF Add, Counts
<1>4. \A t \in slots : f[<<t, c>>] + i \in 0 .. 255
  BY DEF Fits
<1>5. f \in Counts /\ Fits(f, slots, c, i)
  OBVIOUS
<1> HIDE DEF f
<1>6. Moved(f, h, slots, c, i)
  <2> SUFFICES ASSUME NEW t \in Tns, NEW k \in Counter
               PROVE  h[<<t, k>>] = IF t \in slots /\ k = c
                                    THEN f[<<t, k>>] + i ELSE f[<<t, k>>]
    BY DEF Moved
  <2>1. f[<<t, k>>] \in 0 .. 255
    BY <1>1
  <2>2. \A a \in 0 .. 255 : a % 256 = a
    OBVIOUS
  <2> QED
    BY <1>2, <1>4, <2>1, <2>2
<1>7. UsesMoved(f, h, slots, i)
  BY <1>3, <1>5, <1>6, UsesMove
<1> QED
  BY <1>3, <1>6, <1>7 DEF f

\* A user more: the counters move, and timeslots that were set up or in use
\* still are.
LEMMA LinkIs ==
  ASSUME NEW g \in Shapes, NEW slots \in SUBSET Tns, NEW c \in Counter,
         NEW tfis \in SUBSET Tfi, Fits(g.count, slots, c, 1),
         NEW n, n = Link(g, slots, c, tfis)
  PROVE  /\ n \in Shapes /\ n.tbf_list = g.tbf_list
         /\ n.tbf_list_pending = g.tbf_list_pending
         /\ Moved(g.count, n.count, slots, c, 1)
         /\ KeepsEnabled(g, n)
<1> DEFINE count == Add(g, slots, c, 1)
           mask  == [t \in Tns |-> IF t \in slots
                        THEN g.dl_tfi_mask[t] \cup tfis ELSE g.dl_tfi_mask[t]]
           en    == g.enabled \cup {t \in slots : UseCount(count, t) = 1}
<1>1. g.count \in Counts
  BY DEF Shapes
<1>2. n = [g EXCEPT !.count = count, !.dl_tfi_mask = mask, !.enabled = en]
  BY DEF Link
<1>3. mask \in [Tns -> SUBSET Tfi]
  BY DEF Shapes
<1>4. en \in SUBSET Tns
  BY DEF Shapes
<1> HIDE DEF mask
<1>5. /\ count \in Counts /\ Moved(g.count, count, slots, c, 1)
      /\ UsesMoved(g.count, count, slots, 1)
  <2>1. 1 \in {-1, 1}
    OBVIOUS
  <2> HIDE DEF count
  <2>2. count = Add(g, slots, c, 1)
    BY DEF count
  <2> QED
    BY <1>1, <2>1, <2>2, AddIs
<1> HIDE DEF count
<1>6. en = g.enabled \cup {t \in slots : UseCount(count, t) = 1}
  OBVIOUS
<1> HIDE DEF en
<1>7. /\ n.tbf_list = g.tbf_list /\ n.tbf_list_pending = g.tbf_list_pending
      /\ n.count = count /\ n \in Shapes /\ n.enabled = en
  BY <1>2, <1>3, <1>4, <1>5 DEF Shapes
<1>8. ASSUME NEW S, Enabled(g, S)
      PROVE  Enabled(n, S)
  BY <1>5, <1>6, <1>7, <1>8 DEF Enabled, Used, UsesMoved
<1> QED
  BY <1>5, <1>7, <1>8 DEF KeepsEnabled

\* A user less: timeslots that nobody uses any more are taken down.
LEMMA UnlinkIs ==
  ASSUME NEW g \in Shapes, NEW slots \in SUBSET Tns, NEW c \in Counter,
         NEW tfis \in SUBSET Tfi, Fits(g.count, slots, c, -1),
         NEW n, n = Unlink(g, slots, c, tfis)
  PROVE  /\ n \in Shapes /\ n.tbf_list = g.tbf_list
         /\ n.tbf_list_pending = g.tbf_list_pending
         /\ Moved(g.count, n.count, slots, c, -1)
         /\ KeepsElsewhere(g, n, slots)
<1> DEFINE count == Add(g, slots, c, -1)
           mask  == [t \in Tns |-> IF t \in slots
                        THEN g.dl_tfi_mask[t] \ tfis ELSE g.dl_tfi_mask[t]]
           en    == g.enabled \ {t \in slots : UseCount(count, t) = 0}
<1>1. g.count \in Counts
  BY DEF Shapes
<1>2. n = [g EXCEPT !.count = count, !.dl_tfi_mask = mask, !.enabled = en]
  BY DEF Unlink
<1>3. mask \in [Tns -> SUBSET Tfi]
  BY DEF Shapes
<1>4. en \in SUBSET Tns
  BY DEF Shapes
<1> HIDE DEF mask
<1>5. /\ count \in Counts /\ Moved(g.count, count, slots, c, -1)
      /\ UsesMoved(g.count, count, slots, -1)
  <2>1. -1 \in {-1, 1}
    OBVIOUS
  <2> HIDE DEF count
  <2>2. count = Add(g, slots, c, -1)
    BY DEF count
  <2> QED
    BY <1>1, <2>1, <2>2, AddIs
<1> HIDE DEF count
<1>6. en = g.enabled \ {t \in slots : UseCount(count, t) = 0}
  OBVIOUS
<1> HIDE DEF en
<1>7. /\ n.tbf_list = g.tbf_list /\ n.tbf_list_pending = g.tbf_list_pending
      /\ n.count = count /\ n \in Shapes /\ n.enabled = en
  BY <1>2, <1>3, <1>4, <1>5 DEF Shapes
<1>8. ASSUME NEW S, Enabled(g, S), S \cap slots = {}
      PROVE  Enabled(n, S)
  BY <1>5, <1>6, <1>7, <1>8 DEF Enabled, Used, UsesMoved
<1> QED
  BY <1>5, <1>7, <1>8 DEF KeepsElsewhere

-----------------------------------------------------------------------------
\* The first two counters of a timeslot count the active TBFs on it.
ActiveCounted(g) ==
  \A t \in Tns, d \in Dirs :
    g.count[<<t, d>>] = Cardinality(On(g.tbf_list, t, d))

\* What holds of the active TBFs in the middle of every operation.
Sound(g) == g \in Shapes /\ Unique(g.tbf_list) /\ ActiveCounted(g)

\* Nothing that is pending is touched.
SamePending(g, n) ==
  /\ n.tbf_list_pending = g.tbf_list_pending
  /\ \A t \in Tns, d \in Dirs :
       n.count[<<t, PendingOf(d)>>] = g.count[<<t, PendingOf(d)>>]

\* The four counters are different ones.
LEMMA DirsAre ==
  ASSUME NEW d \in Dirs, NEW e \in Dirs
  PROVE  /\ d \in Counter /\ PendingOf(d) \in Counter /\ PendingOf(d) # e
         /\ d # e => PendingOf(d) # PendingOf(e)
BY DEF Dirs, Counter, PendingOf

\* What the counter of a timeslot says of the TBFs other than d, r.
LEMMA CountOthers ==
  ASSUME Few, NEW g, Sound(g), NEW d \in Dirs, NEW r \in Refs(d), NEW t \in Tns
  PROVE  /\ Cardinality(Others(g.tbf_list, t, d, r)) \in 0 .. 254
         /\ Named(g.tbf_list, d, r) = {} =>
              g.count[<<t, d>>] = Cardinality(Others(g.tbf_list, t, d, r))
         /\ \A b \in Named(g.tbf_list, d, r) :
              g.count[<<t, d>>] = Cardinality(Others(g.tbf_list, t, d, r)) +
                                    (IF t \in b.slots THEN 1 ELSE 0)
<1>1. /\ g.tbf_list \in SUBSET Tbf /\ Unique(g.tbf_list)
      /\ g.count[<<t, d>>] = Cardinality(On(g.tbf_list, t, d))
  BY DEF Sound, Shapes, ActiveCounted
<1>2. Cardinality(Others(g.tbf_list, t, d, r)) \in 0 .. 254
  BY <1>1, OthersFew
<1>3. ASSUME Named(g.tbf_list, d, r) = {}
      PROVE  g.count[<<t, d>>] = Cardinality(Others(g.tbf_list, t, d, r))
  BY <1>1, <1>3, OnWithout
<1>4. ASSUME NEW b \in Named(g.tbf_list, d, r)
      PROVE  g.count[<<t, d>>] = Cardinality(Others(g.tbf_list, t, d, r)) +
                                   (IF t \in b.slots THEN 1 ELSE 0)
  <2>1. b \in g.tbf_list /\ b.dir = d /\ b.ref = r
    BY DEF Named
  <2> QED
    BY <1>1, <2>1, OnWith
<1> QED
  BY <1>2, <1>3, <1>4

\* The same, of a TBF that is there.
LEMMA CountNamed ==
  ASSUME Few, NEW g, Sound(g), NEW b \in g.tbf_list, NEW t \in Tns
  PROVE  g.count[<<t, b.dir>>] =
           Cardinality(Others(g.tbf_list, t, b.dir, b.ref)) +
             (IF t \in b.slots THEN 1 ELSE 0)
<1>1. b \in Tbf /\ b \in Named(g.tbf_list, b.dir, b.ref)
  BY DEF Sound, Shapes, Named
<1> QED
  BY <1>1, TbfIs, CountOthers

\* Two lists and two counts differ in the TBF d, r only.
OnlyDiffer(g, n, d, r) ==
  /\ g.tbf_list \ Named(g.tbf_list, d, r) = n.tbf_list \ Named(n.tbf_list, d, r)
  /\ \A t \in Tns, e \in Dirs \ {d} : n.count[<<t, e>>] = g.count[<<t, e>>]

\* What the counters are with the TBF d, r on slots.
OnSlots(g, n, d, r, slots) ==
  \A t \in Tns :
    n.count[<<t, d>>] = Cardinality(Others(g.tbf_list, t, d, r)) +
                          (IF t \in slots THEN 1 ELSE 0)

\* The counters after one TBF has been added, changed or taken away.
LEMMA OneChanged ==
  ASSUME Few, NEW g, Sound(g), NEW d \in Dirs, NEW r \in Refs(d),
         NEW n \in Shapes, Unique(n.tbf_list),
         OnlyDiffer(g, n, d, r), NEW slots, OnSlots(g, n, d, r, slots),
         \/ Named(n.tbf_list, d, r) = {} /\ slots = {}
         \/ \E b \in Named(n.tbf_list, d, r) : b.slots = slots
  PROVE  Sound(n)
<1> SUFFICES ASSUME NEW t \in Tns, NEW e \in Dirs
             PROVE  n.count[<<t, e>>] = Cardinality(On(n.tbf_list, t, e))
  BY DEF Sound, ActiveCounted
<1>1. /\ Others(n.tbf_list, t, d, r) = Others(g.tbf_list, t, d, r)
      /\ e # d => On(n.tbf_list, t, e) = On(g.tbf_list, t, e)
  BY OthersSame DEF OnlyDiffer
<1>2. n.tbf_list \in SUBSET Tbf
  BY DEF Shapes
<1>3. CASE e # d
  BY <1>1, <1>3 DEF Sound, ActiveCounted, OnlyDiffer
<1>4. CASE e = d /\ Named(n.tbf_list, d, r) = {} /\ slots = {}
  <2>1. On(n.tbf_list, t, d) = Others(g.tbf_list, t, d, r)
    BY <1>1, <1>2, <1>4, OnWithout
  <2>2. Cardinality(Others(g.tbf_list, t, d, r)) \in 0 .. 254
    BY CountOthers
  <2> QED
    BY <1>4, <2>1, <2>2 DEF OnSlots
<1>5. ASSUME e = d, NEW b \in Named(n.tbf_list, d, r), b.slots = slots
      PROVE  n.count[<<t, e>>] = Cardinality(On(n.tbf_list, t, e))
  <2>1. b \in n.tbf_list /\ b.dir = d /\ b.ref = r
    BY DEF Named
  <2> QED
    BY <1>1, <1>2, <1>5, <2>1, OnWith DEF OnSlots
<1> QED
  BY <1>3, <1>4, <1>5

\* l1gprs_register_tbf, of a TBF that is not there yet.
LEMMA RegisterIs ==
  ASSUME Few, NEW g, Sound(g), NEW tbf \in Tbf,
         Named(g.tbf_list, tbf.dir, tbf.ref) = {},
         NEW n, n = Register(g, tbf)
  PROVE  /\ Sound(n) /\ SamePending(g, n)
         /\ n.tbf_list = g.tbf_list \cup {tbf}
         /\ KeepsEnabled(g, n)
<1> DEFINE d == tbf.dir
           r == tbf.ref
           k == Link(g, tbf.slots, tbf.dir, TfisOf(tbf))
<1>1. /\ d \in Dirs /\ r \in Refs(d) /\ tbf.slots \in SUBSET Tns
      /\ d \in Counter /\ TfisOf(tbf) \in SUBSET Tfi
  BY TbfIs
<1>2. /\ g \in Shapes /\ Unique(g.tbf_list)
  BY DEF Sound
<1>3. \A t \in Tns : /\ Cardinality(Others(g.tbf_list, t, d, r)) \in 0 .. 254
                     /\ g.count[<<t, d>>] = Cardinality(Others(g.tbf_list, t, d, r))
  BY <1>1, CountOthers
<1>4. Fits(g.count, tbf.slots, d, 1)
  BY <1>1, <1>3 DEF Fits
<1>5. /\ k \in Shapes /\ k.tbf_list = g.tbf_list
      /\ k.tbf_list_pending = g.tbf_list_pending
      /\ Moved(g.count, k.count, tbf.slots, d, 1)
      /\ KeepsEnabled(g, k)
  <2> HIDE DEF k
  <2>1. k = Link(g, tbf.slots, d, TfisOf(tbf))
    BY DEF k
  <2> HIDE DEF d
  <2> QED
    BY <1>1, <1>2, <1>4, <2>1, LinkIs
<1>6. n = [k EXCEPT !.tbf_list = @ \cup {tbf}]
  BY DEF Register
<1> HIDE DEF k
<1>7. /\ n \in Shapes /\ n.tbf_list = g.tbf_list \cup {tbf} /\ n.count = k.count
      /\ n.tbf_list_pending = g.tbf_list_pending /\ n.enabled = k.enabled
  BY <1>5, <1>6 DEF Shapes
<1>8. Unique(n.tbf_list)
  BY <1>2, <1>7 DEF Unique, Named
<1>9. tbf \in Named(n.tbf_list, d, r)
  BY <1>7 DEF Named
<1>10. g.tbf_list \ Named(g.tbf_list, d, r) = n.tbf_list \ Named(n.tbf_list, d, r)
  BY <1>7 DEF Named
<1>11. OnlyDiffer(g, n, d, r)
  BY <1>5, <1>7, <1>10, DirsAre DEF Moved, OnlyDiffer
<1>12. OnSlots(g, n, d, r, tbf.slots)
  <2> SUFFICES ASSUME NEW t \in Tns
               PROVE  n.count[<<t, d>>] =
                        Cardinality(Others(g.tbf_list, t, d, r)) +
                          (IF t \in tbf.slots THEN 1 ELSE 0)
    BY DEF OnSlots
  <2>1. n.count[<<t, d>>] = IF t \in tbf.slots THEN g.count[<<t, d>>] + 1
                            ELSE g.count[<<t, d>>]
    BY <1>1, <1>5, <1>7 DEF Moved
  <2> QED
    BY <1>3, <2>1
<1>13. Sound(n)
  <2> HIDE DEF d, r
  <2> QED
    BY <1>1, <1>7, <1>8, <1>9, <1>11, <1>12, OneChanged
<1>14. SamePending(g, n)
  BY <1>1, <1>5, <1>7, DirsAre DEF Moved, SamePending
<1>15. KeepsEnabled(g, n)
  BY <1>5, <1>7 DEF Enabled, Used, KeepsEnabled
<1> QED
  BY <1>7, <1>13, <1>14, <1>15

\* l1gprs_unregister_tbf.
LEMMA UnregisterIs ==
  ASSUME Few, NEW g, Sound(g), NEW tbf \in g.tbf_list, Enabled(g, {}),
         NEW n, n = Unregister(g, tbf)
  PROVE  Sound(n) /\ SamePending(g, n) /\ Enabled(n, {})
<1> DEFINE d == tbf.dir
           r == tbf.ref
           k == Unlink(g, tbf.slots, tbf.dir, TfisOf(tbf))
<1>1. /\ g \in Shapes /\ Unique(g.tbf_list) /\ tbf \in Tbf
  BY DEF Sound, Shapes
<1>2. /\ d \in Dirs /\ r \in Refs(d) /\ tbf.slots \in SUBSET Tns
      /\ d \in Counter /\ TfisOf(tbf) \in SUBSET Tfi
  BY <1>1, TbfIs
<1>3. tbf \in Named(g.tbf_list, d, r)
  BY DEF Named
<1>4. \A t \in Tns : /\ Cardinality(Others(g.tbf_list, t, d, r)) \in 0 .. 254
                     /\ g.count[<<t, d>>] = Cardinality(Others(g.tbf_list, t, d, r))
                                              + (IF t \in tbf.slots THEN 1 ELSE 0)
  BY <1>2, <1>3, CountOthers
<1>5. Fits(g.count, tbf.slots, d, -1)
  BY <1>2, <1>4 DEF Fits
<1>6. /\ k \in Shapes /\ k.tbf_list = g.tbf_list
      /\ k.tbf_list_pending = g.tbf_list_pending
      /\ Moved(g.count, k.count, tbf.slots, d, -1)
      /\ Enabled(k, {})
  <2> HIDE DEF k
  <2>1. k = Unlink(g, tbf.slots, d, TfisOf(tbf))
    BY DEF k
  <2> HIDE DEF d
  <2>2. /\ k \in Shapes /\ k.tbf_list = g.tbf_list
        /\ k.tbf_list_pending = g.tbf_list_pending
        /\ Moved(g.count, k.count, tbf.slots, d, -1)
        /\ KeepsElsewhere(g, k, tbf.slots)
    BY <1>1, <1>2, <1>5, <2>1, UnlinkIs
  <2> QED
    BY <2>2 DEF KeepsElsewhere
<1>7. n = [k EXCEPT !.tbf_list = @ \ {tbf}]
  BY DEF Unregister
<1> HIDE DEF k
<1>8. /\ n \in Shapes /\ n.tbf_list = g.tbf_list \ {tbf} /\ n.count = k.count
      /\ n.tbf_list_pending = g.tbf_list_pending /\ n.enabled = k.enabled
  BY <1>6, <1>7 DEF Shapes
<1>9. Unique(n.tbf_list) /\ Named(n.tbf_list, d, r) = {}
  BY <1>1, <1>8 DEF Unique, Named
<1>10. g.tbf_list \ Named(g.tbf_list, d, r) = n.tbf_list \ Named(n.tbf_list, d, r)
  BY <1>1, <1>8 DEF Named
<1>11. OnlyDiffer(g, n, d, r)
  BY <1>6, <1>8, <1>10, DirsAre DEF Moved, OnlyDiffer
<1>12. OnSlots(g, n, d, r, {})
  <2> SUFFICES ASSUME NEW t \in Tns
               PROVE  n.count[<<t, d>>] =
                        Cardinality(Others(g.tbf_list, t, d, r)) +
                          (IF t \in {} THEN 1 ELSE 0)
    BY DEF OnSlots
  <2>1. n.count[<<t, d>>] = IF t \in tbf.slots THEN g.count[<<t, d>>] + (-1)
                            ELSE g.count[<<t, d>>]
    BY <1>2, <1>6, <1>8 DEF Moved
  <2> QED
    BY <1>4, <2>1
<1>13. Sound(n)
  <2> HIDE DEF d, r
  <2> QED
    BY <1>1, <1>2, <1>8, <1>9, <1>11, <1>12, OneChanged
<1>14. SamePending(g, n)
  BY <1>2, <1>6, <1>8, DirsAre DEF Moved, SamePending
<1>15. Enabled(n, {})
  BY <1>6, <1>8 DEF Enabled, Used
<1> QED
  BY <1>13, <1>14, <1>15

\* l1gprs_update_tbf: the same TBF, on other timeslots.
LEMMA UpdateIs ==
  ASSUME Few, NEW g, Sound(g), NEW tbf \in g.tbf_list,
         NEW slots \in (SUBSET Tns) \ {{}}, NEW S \in SUBSET slots, Enabled(g, S),
         NEW n, n = Update(g, tbf, slots)
  PROVE  /\ Sound(n) /\ SamePending(g, n) /\ Enabled(n, S)
         /\ \E u \in Tbf : /\ u.dir = tbf.dir /\ u.ref = tbf.ref
                           /\ u.slots = slots
                           /\ n.tbf_list = (g.tbf_list \ {tbf}) \cup {u}
<1> DEFINE d == tbf.dir
           r == tbf.ref
           f == TfisOf(tbf)
           u == [tbf EXCEPT !.slots = slots]
           k == Unlink(g, tbf.slots \ slots, tbf.dir, TfisOf(tbf))
           l == Link(k, slots \ tbf.slots, tbf.dir, TfisOf(tbf))
<1>1. /\ g \in Shapes /\ Unique(g.tbf_list) /\ tbf \in Tbf
  BY DEF Sound, Shapes
<1>2. /\ d \in Dirs /\ r \in Refs(d) /\ tbf.slots \in SUBSET Tns
      /\ d \in Counter /\ f \in SUBSET Tfi
  BY <1>1, TbfIs
<1>3. tbf \in Named(g.tbf_list, d, r)
  BY DEF Named
<1>4. \A t \in Tns : /\ Cardinality(Others(g.tbf_list, t, d, r)) \in 0 .. 254
                     /\ g.count[<<t, d>>] = Cardinality(Others(g.tbf_list, t, d, r))
                                              + (IF t \in tbf.slots THEN 1 ELSE 0)
  BY <1>2, <1>3, CountOthers
<1>5. n = [l EXCEPT !.tbf_list = (@ \ {tbf}) \cup {u}]
  BY DEF Update
<1>6. u \in Tbf /\ u.dir = d /\ u.ref = r /\ u.slots = slots
  BY <1>1, TbfSlots
<1> HIDE DEF u
<1>7. /\ k \in Shapes /\ k.tbf_list = g.tbf_list
      /\ k.tbf_list_pending = g.tbf_list_pending
      /\ Moved(g.count, k.count, tbf.slots \ slots, d, -1)
      /\ Enabled(k, S)
  <2> DEFINE off == tbf.slots \ slots
  <2>1. Fits(g.count, off, d, -1)
    BY <1>2, <1>4 DEF Fits
  <2>2. off \in SUBSET Tns /\ S \cap off = {}
    BY <1>2
  <2> HIDE DEF k
  <2>3. k = Unlink(g, off, d, f)
    BY DEF k
  <2> HIDE DEF d, off, f
  <2>4. /\ k \in Shapes /\ k.tbf_list = g.tbf_list
        /\ k.tbf_list_pending = g.tbf_list_pending
        /\ Moved(g.count, k.count, off, d, -1)
        /\ KeepsElsewhere(g, k, off)
    BY <1>1, <1>2, <2>1, <2>2, <2>3, UnlinkIs
  <2> QED
    BY <2>2, <2>4 DEF off, KeepsElsewhere
<1> HIDE DEF k
<1>8. \A t \in Tns : k.count[<<t, d>>] = Cardinality(Others(g.tbf_list, t, d, r))
                       + (IF t \in tbf.slots /\ t \in slots THEN 1 ELSE 0)
  <2> TAKE t \in Tns
  <2>1. k.count[<<t, d>>] = IF t \in tbf.slots \ slots THEN g.count[<<t, d>>] + (-1)
                            ELSE g.count[<<t, d>>]
    BY <1>2, <1>7 DEF Moved
  <2> QED
    BY <1>4, <2>1
<1>9. /\ l \in Shapes /\ l.tbf_list = g.tbf_list
      /\ l.tbf_list_pending = g.tbf_list_pending
      /\ Moved(k.count, l.count, slots \ tbf.slots, d, 1)
      /\ Enabled(l, S)
  <2> DEFINE on == slots \ tbf.slots
  <2>1. Fits(k.count, on, d, 1)
    BY <1>4, <1>8 DEF Fits
  <2>2. on \in SUBSET Tns
    OBVIOUS
  <2> HIDE DEF l
  <2>3. l = Link(k, on, d, f)
    BY DEF l
  <2> HIDE DEF d, on, f
  <2>4. /\ l \in Shapes /\ l.tbf_list = k.tbf_list
        /\ l.tbf_list_pending = k.tbf_list_pending
        /\ Moved(k.count, l.count, on, d, 1)
        /\ KeepsEnabled(k, l)
    BY <1>2, <1>7, <2>1, <2>2, <2>3, LinkIs
  <2> QED
    BY <1>7, <2>4 DEF on, KeepsEnabled
<1> HIDE DEF l
<1>10. /\ n \in Shapes /\ n.tbf_list = (g.tbf_list \ {tbf}) \cup {u}
       /\ n.count = l.count
       /\ n.tbf_list_pending = g.tbf_list_pending /\ n.enabled = l.enabled
  BY <1>5, <1>6, <1>9 DEF Shapes
<1>11. Unique(n.tbf_list)
  BY <1>1, <1>6, <1>10 DEF Unique
<1>12. u \in Named(n.tbf_list, d, r)
  BY <1>6, <1>10 DEF Named
<1>13. g.tbf_list \ Named(g.tbf_list, d, r) = n.tbf_list \ Named(n.tbf_list, d, r)
  BY <1>1, <1>6, <1>10 DEF Named
<1>14. \A t \in Tns, c \in Counter \ {d} : n.count[<<t, c>>] = g.count[<<t, c>>]
  <2>1. \A t \in Tns, c \in Counter \ {d} : k.count[<<t, c>>] = g.count[<<t, c>>]
    BY <1>7 DEF Moved
  <2>2. \A t \in Tns, c \in Counter \ {d} : l.count[<<t, c>>] = k.count[<<t, c>>]
    BY <1>9 DEF Moved
  <2> QED
    BY <1>10, <2>1, <2>2
<1>15. OnlyDiffer(g, n, d, r)
  BY <1>13, <1>14, DirsAre DEF OnlyDiffer
<1>16. OnSlots(g, n, d, r, slots)
  <2> SUFFICES ASSUME NEW t \in Tns
               PROVE  n.count[<<t, d>>] =
                        Cardinality(Others(g.tbf_list, t, d, r)) +
                          (IF t \in slots THEN 1 ELSE 0)
    BY DEF OnSlots
  <2>1. n.count[<<t, d>>] = IF t \in slots \ tbf.slots THEN k.count[<<t, d>>] + 1
                            ELSE k.count[<<t, d>>]
    BY <1>2, <1>9, <1>10 DEF Moved
  <2> QED
    BY <1>4, <1>8, <2>1
<1>17. Sound(n)
  <2> HIDE DEF d, r
  <2> QED
    BY <1>1, <1>2, <1>6, <1>10, <1>11, <1>12, <1>15, <1>16, OneChanged
<1>18. SamePending(g, n)
  BY <1>2, <1>10, <1>14, DirsAre DEF SamePending
<1>19. Enabled(n, S)
  BY <1>9, <1>10 DEF Enabled, Used
<1> QED
  BY <1>6, <1>10, <1>17, <1>18, <1>19

\* An active TBF uses its timeslots.
LEMMA UsedBy ==
  ASSUME Few, NEW g, Sound(g), NEW b \in g.tbf_list
  PROVE  b.slots \subseteq Used(g)
<1> SUFFICES ASSUME NEW t \in b.slots
             PROVE  t \in Tns /\ UseCount(g.count, t) # 0
  BY DEF Used
<1>1. b \in Tbf /\ g.count \in Counts
  BY DEF Sound, Shapes
<1>2. b.dir \in Dirs /\ b.ref \in Refs(b.dir) /\ t \in Tns
  BY <1>1, TbfIs
<1>3. b \in Named(g.tbf_list, b.dir, b.ref)
  BY DEF Named
<1>4. g.count[<<t, b.dir>>] >= 1
  BY <1>2, <1>3, CountOthers
<1>5. \A k \in Counter : g.count[<<t, k>>] \in Nat
  BY <1>1, <1>2 DEF Counts
<1>6. /\ g.count[<<t, "ul">>] \in Nat /\ g.count[<<t, "dl">>] \in Nat
      /\ g.count[<<t, "pending_ul">>] \in Nat
      /\ g.count[<<t, "pending_dl">>] \in Nat
  BY <1>5 DEF Counter
<1> QED
  BY <1>2, <1>4, <1>6 DEF Dirs, UseCount

\* A request that takes effect: of its timeslots, some may have lost their
\* last user when it stopped being pending, and still be set up.
LEMMA ActivateIs ==
  ASSUME Few, NEW g, Sound(g), NEW new \in Tbf, NEW S \in SUBSET new.slots,
         Enabled(g, S), NEW n, n = Activate(g, new)
  PROVE  Sound(n) /\ SamePending(g, n) /\ Enabled(n, {})
<1> DEFINE d == new.dir
           r == new.ref
           old == Named(g.tbf_list, d, r)
<1>1. /\ d \in Dirs /\ r \in Refs(d) /\ new.slots \in (SUBSET Tns) \ {{}}
  BY TbfIs
<1>2. old = FindTbf(g, new.dir, new.ref)
  BY DEF Named, FindTbf
<1>3. CASE old = {}
  <2>1. n = Register(g, new)
    BY <1>2, <1>3 DEF Activate
  <2>2. /\ Sound(n) /\ SamePending(g, n) /\ KeepsEnabled(g, n)
        /\ n.tbf_list = g.tbf_list \cup {new}
    BY <1>3, <2>1, RegisterIs
  <2>3. Enabled(n, S)
    BY <2>2 DEF KeepsEnabled
  <2>4. new.slots \subseteq Used(n)
    BY <2>2, UsedBy
  <2> QED
    BY <2>2, <2>3, <2>4 DEF Enabled
<1>4. CASE old # {}
  <2> DEFINE tbf == CHOOSE b \in old : TRUE
             g1  == Update(g, tbf, new.slots)
  <2>1. tbf \in old
    BY <1>4
  <2>2. tbf \in g.tbf_list /\ tbf.dir = d /\ tbf.ref = r
    BY <2>1 DEF Named
  <2>3. n = [g1 EXCEPT !.tbf_list =
                 (@ \ FindTbf(g1, new.dir, new.ref)) \cup {new}]
    BY <1>2, <1>4 DEF Activate
  <2> HIDE DEF tbf
  <2>4. PICK u \in Tbf :
          /\ Sound(g1) /\ SamePending(g, g1) /\ Enabled(g1, S)
          /\ u.dir = d /\ u.ref = r /\ u.slots = new.slots
          /\ g1.tbf_list = (g.tbf_list \ {tbf}) \cup {u}
    <3> HIDE DEF g1
    <3>1. g1 = Update(g, tbf, new.slots)
      BY DEF g1
    <3> QED
      BY <1>1, <2>2, <3>1, UpdateIs
  <2> HIDE DEF g1
  <2>5. g1 \in Shapes /\ Unique(g1.tbf_list)
    BY <2>4 DEF Sound
  <2>6. Named(g1.tbf_list, d, r) = {u}
    BY <2>4, <2>5 DEF Named, Unique
  <2>7. n = [g1 EXCEPT !.tbf_list = (@ \ {u}) \cup {new}]
    BY <2>3, <2>6 DEF FindTbf, Named
  <2>8. /\ n \in Shapes /\ n.tbf_list = (g1.tbf_list \ {u}) \cup {new}
        /\ n.count = g1.count /\ n.tbf_list_pending = g1.tbf_list_pending
        /\ n.enabled = g1.enabled
    BY <2>5, <2>7 DEF Shapes
  <2>9. /\ Unique(n.tbf_list) /\ new \in Named(n.tbf_list, d, r)
        /\ g1.tbf_list \ Named(g1.tbf_list, d, r) =
             n.tbf_list \ Named(n.tbf_list, d, r)
    <3>1. \A b \in g1.tbf_list \ {u} : ~(b.dir = d /\ b.ref = r)
      BY <2>6 DEF Named
    <3> QED
      BY <2>5, <2>6, <2>8, <3>1 DEF Unique, Named
  <2>10. OnlyDiffer(g1, n, d, r)
    BY <2>8, <2>9 DEF OnlyDiffer
  <2>11. OnSlots(g1, n, d, r, new.slots)
    <3>1. u \in Named(g1.tbf_list, d, r) /\ u.slots = new.slots
      BY <2>4, <2>6
    <3> SUFFICES ASSUME NEW t \in Tns
                 PROVE  n.count[<<t, d>>] =
                          Cardinality(Others(g1.tbf_list, t, d, r)) +
                            (IF t \in new.slots THEN 1 ELSE 0)
      BY DEF OnSlots
    <3> HIDE DEF d, r
    <3>2. g1.count[<<t, u.dir>>] =
            Cardinality(Others(g1.tbf_list, t, u.dir, u.ref)) +
              (IF t \in u.slots THEN 1 ELSE 0)
      <4>1. Sound(g1) /\ u \in g1.tbf_list
        BY <2>4
      <4> QED
        BY <4>1, CountNamed
    <3> QED
      BY <2>4, <2>8, <3>2
  <2>12. Sound(n)
    <3> HIDE DEF d, r
    <3> QED
      BY <1>1, <2>4, <2>8, <2>9, <2>10, <2>11, OneChanged
  <2>13. SamePending(g, n)
    BY <2>4, <2>8 DEF SamePending
  <2>14. new.slots \subseteq Used(n)
    <3>1. new \in n.tbf_list
      BY <2>8
    <3> QED
      BY <2>12, <3>1, UsedBy
  <2>15. Enabled(n, S)
    BY <2>4, <2>8 DEF Enabled, Used
  <2> QED
    BY <2>12, <2>13, <2>14, <2>15 DEF Enabled
<1> QED
  BY <1>3, <1>4

-----------------------------------------------------------------------------
\* The request p waits for timeslot t in direction d.
Wants(p, t, d) == p.tbf.dir = d /\ t \in p.tbf.slots

\* The requests of q from the i-th on that do.
WaitingFrom(q, i, t, d) == {j \in i .. Len(q) : Wants(q[j], t, d)}

\* The other two counters of a timeslot count the requests that wait for it.
PendingCounted(g) ==
  \A t \in Tns, d \in Dirs :
    g.count[<<t, PendingOf(d)>>] =
      Cardinality(WaitingFrom(g.tbf_list_pending, 1, t, d))

\* The parts of a request.
LEMMA RequestIs ==
  ASSUME NEW q \in Seq(Request), NEW i \in 1 .. Len(q)
  PROVE  q[i].tbf.dir \in Dirs /\ q[i].tbf.slots \in SUBSET Tns
<1>1. q[i] \in Request
  BY ElementOfSeq
<1>2. q[i].tbf \in Tbf
  BY <1>1 DEF Request
<1> QED
  BY <1>2, TbfIs

\* There are no more requests waiting than requests.
LEMMA WaitingFew ==
  ASSUME NEW q \in Seq(Request), NEW i \in Nat, NEW t, NEW d
  PROVE  /\ IsFiniteSet(WaitingFrom(q, i, t, d))
         /\ Cardinality(WaitingFrom(q, i, t, d)) \in Nat
         /\ i = 1 => Cardinality(WaitingFrom(q, i, t, d)) <= Len(q)
         /\ i > Len(q) => Cardinality(WaitingFrom(q, i, t, d)) = 0
<1> DEFINE W == WaitingFrom(q, i, t, d)
<1>1. Len(q) \in Nat /\ W \in SUBSET (i .. Len(q))
  BY DEF WaitingFrom
<1>2. /\ IsFiniteSet(i .. Len(q))
      /\ Cardinality(i .. Len(q)) = IF i > Len(q) THEN 0 ELSE Len(q) - i + 1
  <2>1. i \in Int /\ Len(q) \in Int
    BY <1>1
  <2> QED
    BY <2>1, FS_Interval
<1> HIDE DEF W
<1>3. IsFiniteSet(W) /\ Cardinality(W) <= Cardinality(i .. Len(q))
  BY <1>1, <1>2, FS_Subset
<1>4. Cardinality(W) \in Nat
  BY <1>3, FS_CardinalityType
<1> QED
  BY <1>1, <1>2, <1>3, <1>4 DEF W

\* One request on: it counts, if it wants the timeslot.
LEMMA WaitingHere ==
  ASSUME NEW q \in Seq(Request), NEW i \in 1 .. Len(q), NEW t, NEW d
  PROVE  Cardinality(WaitingFrom(q, i, t, d)) =
           Cardinality(WaitingFrom(q, i + 1, t, d)) +
             (IF Wants(q[i], t, d) THEN 1 ELSE 0)
<1> DEFINE W == WaitingFrom(q, i + 1, t, d)
<1>1. Len(q) \in Nat
  OBVIOUS
<1>2. /\ WaitingFrom(q, i, t, d) = IF Wants(q[i], t, d) THEN W \cup {i} ELSE W
      /\ i \notin W
  BY <1>1 DEF WaitingFrom
<1>3. IsFiniteSet(W) /\ Cardinality(W) \in Nat
  BY WaitingFew
<1> HIDE DEF W
<1>4. Cardinality(W \cup {i}) = Cardinality(W) + 1
  BY <1>2, <1>3, FS_AddElement
<1> QED
  BY <1>2, <1>3, <1>4 DEF W

\* One request more, at the end of the list.
LEMMA WaitingMore ==
  ASSUME NEW q \in Seq(Request), NEW p \in Request, NEW t, NEW d
  PROVE  Cardinality(WaitingFrom(Append(q, p), 1, t, d)) =
           Cardinality(WaitingFrom(q, 1, t, d)) +
             (IF Wants(p, t, d) THEN 1 ELSE 0)
<1> DEFINE W == WaitingFrom(q, 1, t, d)
           m == Len(q) + 1
           a == Append(q, p)
<1>1. /\ Len(q) \in Nat /\ a \in Seq(Request) /\ Len(a) = m
      /\ \A i \in 1 .. Len(q) : a[i] = q[i]
      /\ a[m] = p
  BY AppendProperties
<1> HIDE DEF a
<1>2. /\ WaitingFrom(a, 1, t, d) = IF Wants(p, t, d) THEN W \cup {m} ELSE W
      /\ m \notin W
  BY <1>1 DEF WaitingFrom
<1>3. IsFiniteSet(W) /\ Cardinality(W) \in Nat
  BY WaitingFew
<1> HIDE DEF W
<1>4. Cardinality(W \cup {m}) = Cardinality(W) + 1
  BY <1>2, <1>3, FS_AddElement
<1> HIDE DEF m
<1>5. Cardinality(WaitingFrom(a, 1, t, d)) =
        Cardinality(W) + (IF Wants(p, t, d) THEN 1 ELSE 0)
  <2>1. CASE Wants(p, t, d)
    BY <1>2, <1>4, <2>1
  <2>2. CASE ~Wants(p, t, d)
    BY <1>2, <1>3, <2>2
  <2> QED
    BY <2>1, <2>2
<1> QED
  BY <1>5 DEF W, a

\* The requests of two lists that wait for a timeslot, as its counters count
\* them while the pending list is gone through: those that stay in it, and
\* those of q from the i-th on.
TwoCounted(g, q, i) ==
  \A t \in Tns, d \in Dirs :
    g.count[<<t, PendingOf(d)>>] =
      Cardinality(WaitingFrom(g.tbf_list_pending, 1, t, d)) +
        Cardinality(WaitingFrom(q, i, t, d))

\* The state after i turns of the loop.
Turned(q, i, g) ==
  /\ Sound(g) /\ Enabled(g, {})
  /\ Len(g.tbf_list_pending) <= i
  /\ TwoCounted(g, q, i + 1)

\* The request p no longer counts as pending.
Departs(g, n, p) ==
  n = [g EXCEPT !.count = Add(g, p.tbf.slots, PendingOf(p.tbf.dir), -1)]

\* l1gprs_remove_tbf_pending_req: the lower layers are not told.
LEMMA LeaveIs ==
  ASSUME NEW q \in Seq(Request), NEW i \in 1 .. Len(q), NEW g,
         Turned(q, i - 1, g), NEW n, Departs(g, n, q[i])
  PROVE  /\ Sound(n) /\ Enabled(n, q[i].tbf.slots)
         /\ n.tbf_list_pending = g.tbf_list_pending
         /\ TwoCounted(n, q, i + 1)
<1> DEFINE b == q[i].tbf
           d == b.dir
           c == PendingOf(b.dir)
           count == Add(g, b.slots, c, -1)
<1>1. b \in Tbf
  <2>1. q[i] \in Request
    BY ElementOfSeq
  <2> QED
    BY <2>1 DEF Request
<1>2. d \in Dirs /\ b.slots \in SUBSET Tns /\ c \in Counter
  BY <1>1, TbfIs
<1>3. g \in Shapes /\ g.count \in Counts /\ g.tbf_list_pending \in Seq(Request)
  BY DEF Turned, Sound, Shapes
<1>4. \A t \in Tns, e \in Dirs :
        /\ Cardinality(WaitingFrom(g.tbf_list_pending, 1, t, e)) \in Nat
        /\ Cardinality(WaitingFrom(q, i, t, e)) =
             Cardinality(WaitingFrom(q, i + 1, t, e)) +
               (IF Wants(q[i], t, e) THEN 1 ELSE 0)
        /\ Cardinality(WaitingFrom(q, i + 1, t, e)) \in Nat
  <2> TAKE t \in Tns, e \in Dirs
  <2>1. Cardinality(WaitingFrom(g.tbf_list_pending, 1, t, e)) \in Nat
    BY <1>3, WaitingFew
  <2>2. Cardinality(WaitingFrom(q, i + 1, t, e)) \in Nat
    <3>1. i + 1 \in Nat
      OBVIOUS
    <3> QED
      BY <3>1, WaitingFew
  <2>3. Cardinality(WaitingFrom(q, i, t, e)) =
          Cardinality(WaitingFrom(q, i + 1, t, e)) +
            (IF Wants(q[i], t, e) THEN 1 ELSE 0)
    BY WaitingHere
  <2> QED
    BY <2>1, <2>2, <2>3
<1>5. \A t \in Tns, e \in Dirs :
        g.count[<<t, PendingOf(e)>>] =
          Cardinality(WaitingFrom(g.tbf_list_pending, 1, t, e)) +
            Cardinality(WaitingFrom(q, i, t, e))
  BY DEF Turned, TwoCounted
<1>6. \A t \in Tns, e \in Dirs : Wants(q[i], t, e) <=> e = d /\ t \in b.slots
  BY DEF Wants
<1>7. Fits(g.count, b.slots, c, -1)
  <2> SUFFICES ASSUME NEW t \in b.slots
               PROVE  g.count[<<t, c>>] + (-1) \in 0 .. 255
    BY DEF Fits
  <2>1. t \in Tns /\ Wants(q[i], t, d)
    BY <1>2, <1>6
  <2>2. g.count[<<t, c>>] \in 0 .. 255
    BY <1>2, <1>3, <2>1 DEF Counts
  <2>3. g.count[<<t, c>>] >= 1
    <3>1. g.count[<<t, PendingOf(d)>>] =
            Cardinality(WaitingFrom(g.tbf_list_pending, 1, t, d)) +
              Cardinality(WaitingFrom(q, i, t, d))
      BY <1>2, <1>5, <2>1
    <3>2. /\ Cardinality(WaitingFrom(g.tbf_list_pending, 1, t, d)) \in Nat
          /\ Cardinality(WaitingFrom(q, i, t, d)) =
               Cardinality(WaitingFrom(q, i + 1, t, d)) + 1
          /\ Cardinality(WaitingFrom(q, i + 1, t, d)) \in Nat
      BY <1>2, <1>4, <2>1
    <3> QED
      BY <3>1, <3>2
  <2> DEFINE x == g.count[<<t, c>>]
  <2> HIDE DEF x
  <2>4. x \in 0 .. 255 /\ x >= 1
    BY <2>2, <2>3 DEF x
  <2>5. x + (-1) \in 0 .. 255
    BY <2>4
  <2> QED
    BY <2>5 DEF x
<1>8. /\ count \in Counts /\ Moved(g.count, count, b.slots, c, -1)
      /\ UsesMoved(g.count, count, b.slots, -1)
  <2>1. -1 \in {-1, 1}
    OBVIOUS
  <2> HIDE DEF count
  <2>2. count = Add(g, b.slots, c, -1)
    BY DEF count
  <2> HIDE DEF b, c
  <2> QED
    BY <1>2, <1>3, <1>7, <2>1, <2>2, AddIs
<1>9. n = [g EXCEPT !.count = count]
  BY DEF Departs
<1> HIDE DEF count
<1>10. /\ n \in Shapes /\ n.count = count /\ n.tbf_list = g.tbf_list
       /\ n.tbf_list_pending = g.tbf_list_pending /\ n.enabled = g.enabled
  BY <1>3, <1>8, <1>9 DEF Shapes
<1>11. Sound(n)
  <2>1. \A t \in Tns, e \in Dirs : count[<<t, e>>] = g.count[<<t, e>>]
    BY <1>2, <1>8, DirsAre DEF Moved
  <2> QED
    BY <1>10, <2>1 DEF Turned, Sound, ActiveCounted
<1>12. Enabled(n, b.slots)
  <2>1. \A t \in b.slots : UseCount(g.count, t) # 0
    BY <1>2, <1>8 DEF UsesMoved
  <2> QED
    BY <1>2, <1>8, <1>10, <2>1 DEF Turned, Enabled, Used, UsesMoved
<1>13. TwoCounted(n, q, i + 1)
  <2> SUFFICES ASSUME NEW t \in Tns, NEW e \in Dirs
               PROVE  count[<<t, PendingOf(e)>>] =
                        Cardinality(WaitingFrom(g.tbf_list_pending, 1, t, e)) +
                          Cardinality(WaitingFrom(q, i + 1, t, e))
    BY <1>10 DEF TwoCounted
  <2>1. PendingOf(e) \in Counter /\ (PendingOf(e) = c <=> e = d)
    BY <1>2, DirsAre
  <2>2. count[<<t, PendingOf(e)>>] =
          IF t \in b.slots /\ PendingOf(e) = c
          THEN g.count[<<t, PendingOf(e)>>] + (-1) ELSE g.count[<<t, PendingOf(e)>>]
    BY <1>8, <2>1 DEF Moved
  <2>3. Wants(q[i], t, e) <=> PendingOf(e) = c /\ t \in b.slots
    BY <1>6, <2>1
  <2> HIDE DEF b, c, d
  <2> QED
    BY <1>4, <1>5, <2>2, <2>3
<1> QED
  BY <1>10, <1>11, <1>12, <1>13

\* One turn of the loop.
LEMMA MoveIs ==
  ASSUME Few, NEW q \in Seq(Request), NEW i \in 1 .. Len(q), NEW g,
         Turned(q, i - 1, g), NEW now, NEW n, n = Move(g, q[i], now)
  PROVE  Turned(q, i, n)
<1> DEFINE p == q[i]
           k == [g EXCEPT !.count = Add(g, p.tbf.slots, PendingOf(p.tbf.dir), -1)]
           m == [g EXCEPT !.tbf_list_pending = Append(@, p)]
<1>1. p \in Request
  BY ElementOfSeq
<1>2. p.tbf \in Tbf
  BY <1>1 DEF Request
<1>3. /\ g \in Shapes /\ g.tbf_list_pending \in Seq(Request)
      /\ Len(g.tbf_list_pending) <= i - 1
      /\ Sound(g) /\ Enabled(g, {}) /\ TwoCounted(g, q, i)
  BY DEF Turned, Sound, Shapes
<1>4. CASE Due(p, now)
  <2>1. n = Activate(k, p.tbf)
    BY <1>4 DEF Move
  <2>2. Departs(g, k, p)
    BY DEF Departs
  <2> HIDE DEF k
  <2>3. /\ Sound(k) /\ Enabled(k, p.tbf.slots)
        /\ k.tbf_list_pending = g.tbf_list_pending
        /\ TwoCounted(k, q, i + 1)
    BY <2>2, LeaveIs
  <2>4. Sound(n) /\ SamePending(k, n) /\ Enabled(n, {})
    <3> DEFINE new == p.tbf
               S   == p.tbf.slots
    <3>1. new \in Tbf /\ S \in SUBSET new.slots /\ Enabled(k, S)
      BY <1>2, <2>3
    <3>2. n = Activate(k, new)
      BY <2>1
    <3> HIDE DEF new, S
    <3> QED
      BY <2>3, <3>1, <3>2, ActivateIs
  <2>5. TwoCounted(n, q, i + 1)
    BY <2>3, <2>4 DEF TwoCounted, SamePending
  <2>6. Len(n.tbf_list_pending) <= i
    BY <1>3, <2>3, <2>4 DEF SamePending
  <2> QED
    BY <2>4, <2>5, <2>6 DEF Turned
<1>5. CASE ~Due(p, now)
  <2> DEFINE list == g.tbf_list_pending
             more == Append(list, p)
  <2>1. n = m
    BY <1>5 DEF Move
  <2>2. more \in Seq(Request) /\ Len(more) = Len(list) + 1
    BY <1>1, <1>3, AppendProperties
  <2>3. m = [g EXCEPT !.tbf_list_pending = more]
    OBVIOUS
  <2> HIDE DEF m, more
  <2>4. /\ n \in Shapes /\ n.tbf_list = g.tbf_list /\ n.count = g.count
        /\ n.tbf_list_pending = more /\ n.enabled = g.enabled
    BY <1>3, <2>1, <2>2, <2>3 DEF Shapes
  <2>5. Sound(n) /\ Enabled(n, {})
    BY <1>3, <2>4 DEF Sound, ActiveCounted, Enabled, Used
  <2>6. Len(n.tbf_list_pending) <= i
    BY <1>3, <2>2, <2>4
  <2>7. TwoCounted(n, q, i + 1)
    <3> SUFFICES ASSUME NEW t \in Tns, NEW d \in Dirs
                 PROVE  g.count[<<t, PendingOf(d)>>] =
                          Cardinality(WaitingFrom(more, 1, t, d)) +
                            Cardinality(WaitingFrom(q, i + 1, t, d))
      BY <2>4 DEF TwoCounted
    <3>1. g.count[<<t, PendingOf(d)>>] =
            Cardinality(WaitingFrom(list, 1, t, d)) +
              Cardinality(WaitingFrom(q, i, t, d))
      BY <1>3 DEF TwoCounted
    <3>2. Cardinality(WaitingFrom(q, i, t, d)) =
            Cardinality(WaitingFrom(q, i + 1, t, d)) +
              (IF Wants(p, t, d) THEN 1 ELSE 0)
      BY WaitingHere
    <3>3. Cardinality(WaitingFrom(more, 1, t, d)) =
            Cardinality(WaitingFrom(list, 1, t, d)) +
              (IF Wants(p, t, d) THEN 1 ELSE 0)
      <4> HIDE DEF list, p
      <4> QED
        BY <1>1, <1>3, WaitingMore DEF more, list
    <3>4. /\ Cardinality(WaitingFrom(list, 1, t, d)) \in Nat
          /\ Cardinality(WaitingFrom(q, i + 1, t, d)) \in Nat
      <4>1. i + 1 \in Nat /\ 1 \in Nat
        OBVIOUS
      <4>2. list \in Seq(Request)
        BY <1>3
      <4> HIDE DEF list
      <4> QED
        BY <4>1, <4>2, WaitingFew
    <3> HIDE DEF list, p
    <3> QED
      BY <3>1, <3>2, <3>3, <3>4
  <2> QED
    BY <2>5, <2>6, <2>7 DEF Turned
<1> QED
  BY <1>4, <1>5

-----------------------------------------------------------------------------
\* f[i] is the state after i turns of the loop that starts from a.
Turns(f, m, a, q, now) ==
  f = [i \in 0 .. m |-> IF i = 0 THEN a ELSE Move(f[i - 1], q[i], now)]

\* The recursive definition of the loop defines a function.
LEMMA TurnsExist ==
  ASSUME NEW m \in Nat, NEW a, NEW q, NEW now
  PROVE  \E f : Turns(f, m, a, q, now)
<1> DEFINE S == {k \in Nat : \E f : Turns(f, k, a, q, now)}
<1>1. 0 \in S
  <2> DEFINE f == [i \in 0 .. 0 |-> a]
  <2>1. f = [i \in 0 .. 0 |-> IF i = 0 THEN a ELSE Move(f[i - 1], q[i], now)]
    OBVIOUS
  <2> QED
    BY <2>1 DEF Turns
<1>2. ASSUME NEW k \in Nat, k \in S
      PROVE  k + 1 \in S
  <2>1. PICK f : Turns(f, k, a, q, now)
    BY <1>2
  <2>2. /\ DOMAIN f = 0 .. k /\ f[0] = a
        /\ \A i \in 1 .. k : f[i] = Move(f[i - 1], q[i], now)
    BY <2>1 DEF Turns
  <2> DEFINE h == [i \in 0 .. (k + 1) |->
                     IF i = k + 1 THEN Move(f[k], q[k + 1], now) ELSE f[i]]
  <2>3. \A i \in 0 .. (k + 1) :
          h[i] = IF i = 0 THEN a ELSE Move(h[i - 1], q[i], now)
    BY <2>2
  <2>4. h = [i \in 0 .. (k + 1) |->
               IF i = 0 THEN a ELSE Move(h[i - 1], q[i], now)]
    <3>1. h = [i \in 0 .. (k + 1) |-> h[i]]
      OBVIOUS
    <3> HIDE DEF h
    <3> QED
      BY <2>3, <3>1
  <2> HIDE DEF h
  <2>5. Turns(h, k + 1, a, q, now)
    BY <2>4 DEF Turns
  <2> QED
    BY <2>5
<1> HIDE DEF S
<1>3. m \in S
  BY <1>1, <1>2, SetInduction
<1> QED
  BY <1>3 DEF S

\* The invariant of the loop holds at its end.
LEMMA TurnsAre ==
  ASSUME Few, NEW q \in Seq(Request), NEW a, NEW now, Turned(q, 0, a),
         NEW f, Turns(f, Len(q), a, q, now)
  PROVE  Turned(q, Len(q), f[Len(q)])
<1> DEFINE m == Len(q)
           S == {k \in Nat : k <= m => Turned(q, k, f[k])}
<1>1. m \in Nat
  OBVIOUS
<1> HIDE DEF m
<1>2. /\ f[0] = a
      /\ \A i \in 1 .. m : f[i] = Move(f[i - 1], q[i], now)
  BY <1>1 DEF Turns, m
<1>3. 0 \in S
  BY <1>2
<1>4. ASSUME NEW k \in Nat, k \in S
      PROVE  k + 1 \in S
  <2>1. ASSUME k + 1 <= m
        PROVE  Turned(q, k + 1, f[k + 1])
    <3> DEFINE i == k + 1
               g == f[k]
               n == f[k + 1]
    <3>1. i \in 1 .. Len(q) /\ k = i - 1
      BY <1>1, <2>1 DEF m
    <3>2. Turned(q, i - 1, g)
      BY <1>1, <1>4, <2>1, <3>1
    <3>3. n = Move(g, q[i], now)
      BY <1>1, <1>2, <2>1
    <3> HIDE DEF i, g, n
    <3>4. Turned(q, i, n)
      BY <3>1, <3>2, <3>3, MoveIs
    <3> QED
      BY <3>4 DEF i, n
  <2> QED
    BY <2>1
<1> HIDE DEF S
<1>5. m \in S
  BY <1>1, <1>3, <1>4, SetInduction
<1> QED
  BY <1>1, <1>5 DEF S, m

-----------------------------------------------------------------------------
\* What every step of the module keeps.
Good(g) ==
  /\ Sound(g) /\ PendingCounted(g) /\ Enabled(g, {})
  /\ Len(g.tbf_list_pending) <= PendingCap

\* l1gprs_check_pending_tbfs.
LEMMA CheckPendingIs ==
  ASSUME Few, NEW g, Good(g), NEW now, NEW n, n = CheckPending(g, now)
  PROVE  Good(n)
<1> DEFINE q == g.tbf_list_pending
           a == [g EXCEPT !.tbf_list_pending = <<>>]
           moved[i \in 0 .. Len(q)] ==
             IF i = 0 THEN a ELSE Move(moved[i - 1], q[i], now)
<1>1. /\ g \in Shapes /\ q \in Seq(Request) /\ Len(q) \in Nat
      /\ Len(q) <= PendingCap
  BY DEF Good, Sound, Shapes
<1>2. n = moved[Len(q)]
  BY DEF CheckPending
<1>3. Turns(moved, Len(q), a, q, now)
  <2>1. \E f : Turns(f, Len(q), a, q, now)
    BY <1>1, TurnsExist
  <2> QED
    BY <2>1 DEF Turns
<1>4. Turned(q, 0, a)
  <2>1. /\ a \in Shapes /\ a.tbf_list = g.tbf_list /\ a.count = g.count
        /\ a.tbf_list_pending = <<>> /\ a.enabled = g.enabled
    <3> DEFINE e == <<>>
    <3>1. e \in Seq(Request) /\ a = [g EXCEPT !.tbf_list_pending = e]
      OBVIOUS
    <3> HIDE DEF a, e, q
    <3>2. /\ a \in Shapes /\ a.tbf_list = g.tbf_list /\ a.count = g.count
          /\ a.tbf_list_pending = e /\ a.enabled = g.enabled
      BY <1>1, <3>1 DEF Shapes
    <3> QED
      BY <3>2 DEF e
  <2> HIDE DEF a
  <2>2. Sound(a) /\ Enabled(a, {})
    BY <2>1 DEF Good, Sound, ActiveCounted, Enabled, Used
  <2>3. TwoCounted(a, q, 1)
    <3> SUFFICES ASSUME NEW t \in Tns, NEW d \in Dirs
                 PROVE  a.count[<<t, PendingOf(d)>>] =
                          Cardinality(WaitingFrom(<<>>, 1, t, d)) +
                            Cardinality(WaitingFrom(q, 1, t, d))
      BY <2>1 DEF TwoCounted
    <3>1. a.count[<<t, PendingOf(d)>>] = Cardinality(WaitingFrom(q, 1, t, d))
      BY <2>1 DEF Good, PendingCounted
    <3>2. Cardinality(WaitingFrom(<<>>, 1, t, d)) = 0
      <4>1. <<>> \in Seq(Request) /\ 1 > Len(<<>>) /\ 1 \in Nat
        OBVIOUS
      <4> QED
        BY <4>1, WaitingFew
    <3>3. Cardinality(WaitingFrom(q, 1, t, d)) \in Nat
      BY <1>1, WaitingFew
    <3> HIDE DEF q
    <3> QED
      BY <3>1, <3>2, <3>3
  <2>4. Len(a.tbf_list_pending) <= 0
    BY <2>1
  <2> QED
    BY <2>2, <2>3, <2>4 DEF Turned
<1> HIDE DEF moved, a, q
<1>5. Turned(q, Len(q), n)
  BY <1>1, <1>2, <1>3, <1>4, TurnsAre
<1>6. n.tbf_list_pending \in Seq(Request)
  BY <1>5 DEF Turned, Sound, Shapes
<1>7. PendingCounted(n)
  <2> SUFFICES ASSUME NEW t \in Tns, NEW d \in Dirs
               PROVE  n.count[<<t, PendingOf(d)>>] =
                        Cardinality(WaitingFrom(n.tbf_list_pending, 1, t, d))
    BY DEF PendingCounted
  <2>1. n.count[<<t, PendingOf(d)>>] =
          Cardinality(WaitingFrom(n.tbf_list_pending, 1, t, d)) +
            Cardinality(WaitingFrom(q, Len(q) + 1, t, d))
    BY <1>5 DEF Turned, TwoCounted
  <2>2. Cardinality(WaitingFrom(q, Len(q) + 1, t, d)) = 0
    <3>1. Len(q) + 1 \in Nat /\ Len(q) + 1 > Len(q)
      BY <1>1
    <3> QED
      BY <1>1, <3>1, WaitingFew
  <2>3. Cardinality(WaitingFrom(n.tbf_list_pending, 1, t, d)) \in Nat
    BY <1>6, WaitingFew
  <2> QED
    BY <2>1, <2>2, <2>3
<1>8. Len(n.tbf_list_pending) <= PendingCap
  <2>1. Len(n.tbf_list_pending) \in Nat /\ Len(n.tbf_list_pending) <= Len(q)
    BY <1>5, <1>6 DEF Turned
  <2>2. PendingCap \in Nat
    BY L1GprsAssumption
  <2> QED
    BY <1>1, <2>1, <2>2
<1> QED
  BY <1>5, <1>7, <1>8 DEF Good, Turned

\* A request that does not touch the pending ones keeps them counted.
LEMMA SamePendingGood ==
  ASSUME NEW g, Good(g), NEW n, Sound(n), SamePending(g, n), Enabled(n, {})
  PROVE  Good(n)
BY DEF Good, SamePending, PendingCounted

\* l1gprs_add_tbf_pending_req.
LEMMA AddPendingIs ==
  ASSUME Few, NEW g, Good(g), NEW p \in Request,
         Len(g.tbf_list_pending) < PendingCap,
         NEW n, n = AddPending(g, p)
  PROVE  Good(n)
<1> DEFINE b == p.tbf
           c == PendingOf(b.dir)
           q == g.tbf_list_pending
           k == Link(g, b.slots, c, {})
           more == Append(q, p)
<1>1. b \in Tbf
  BY DEF Request
<1>2. b.dir \in Dirs /\ b.slots \in SUBSET Tns /\ c \in Counter
  BY <1>1, TbfIs
<1>3. /\ g \in Shapes /\ q \in Seq(Request) /\ Sound(g)
      /\ Len(q) \in Nat /\ Len(q) < 255
  <2>1. g \in Shapes /\ q \in Seq(Request) /\ Sound(g) /\ Len(q) \in Nat
    BY DEF Good, Sound, Shapes
  <2> HIDE DEF q
  <2>2. Len(q) < PendingCap /\ PendingCap \in Nat /\ PendingCap < 256
    BY L1GprsAssumption DEF Few, q
  <2> QED
    BY <2>1, <2>2
<1>4. \A t \in Tns, d \in Dirs :
        /\ g.count[<<t, PendingOf(d)>>] = Cardinality(WaitingFrom(q, 1, t, d))
        /\ Cardinality(WaitingFrom(q, 1, t, d)) \in Nat
        /\ Cardinality(WaitingFrom(q, 1, t, d)) <= Len(q)
  <2>1. \A t \in Tns, d \in Dirs :
          g.count[<<t, PendingOf(d)>>] = Cardinality(WaitingFrom(q, 1, t, d))
    BY DEF Good, PendingCounted
  <2> HIDE DEF q
  <2>2. \A t, d : /\ Cardinality(WaitingFrom(q, 1, t, d)) \in Nat
                  /\ Cardinality(WaitingFrom(q, 1, t, d)) <= Len(q)
    BY <1>3, WaitingFew
  <2> QED
    BY <2>1, <2>2
<1>5. Fits(g.count, b.slots, c, 1)
  <2> SUFFICES ASSUME NEW t \in b.slots
               PROVE  g.count[<<t, c>>] + 1 \in 0 .. 255
    BY DEF Fits
  <2> DEFINE x == g.count[<<t, c>>]
  <2>1. t \in Tns
    BY <1>2
  <2>2. x \in Nat /\ x <= Len(q)
    BY <1>2, <1>4, <2>1
  <2> HIDE DEF x, q
  <2>3. x + 1 \in 0 .. 255
    BY <1>3, <2>2
  <2> QED
    BY <2>3 DEF x
<1>6. n = [k EXCEPT !.tbf_list_pending = Append(@, p)]
  BY DEF AddPending
<1>7. /\ k \in Shapes /\ k.tbf_list = g.tbf_list /\ k.tbf_list_pending = q
      /\ Moved(g.count, k.count, b.slots, c, 1) /\ KeepsEnabled(g, k)
  <2>1. {} \in SUBSET Tfi
    OBVIOUS
  <2> HIDE DEF k
  <2>2. k = Link(g, b.slots, c, {})
    BY DEF k
  <2> HIDE DEF b, c
  <2> QED
    BY <1>2, <1>3, <1>5, <2>1, <2>2, LinkIs
<1> HIDE DEF k
<1>8. more \in Seq(Request) /\ Len(more) = Len(q) + 1
  BY <1>3, AppendProperties
<1>9. n = [k EXCEPT !.tbf_list_pending = more]
  BY <1>6, <1>7
<1> HIDE DEF more
<1>10. /\ n \in Shapes /\ n.tbf_list = g.tbf_list /\ n.count = k.count
       /\ n.tbf_list_pending = more /\ n.enabled = k.enabled
  BY <1>7, <1>8, <1>9 DEF Shapes
<1>11. Sound(n)
  <2>1. \A t \in Tns, e \in Dirs : k.count[<<t, e>>] = g.count[<<t, e>>]
    BY <1>2, <1>7, DirsAre DEF Moved
  <2> QED
    BY <1>3, <1>10, <2>1 DEF Sound, ActiveCounted
<1>12. PendingCounted(n)
  <2> SUFFICES ASSUME NEW t \in Tns, NEW e \in Dirs
               PROVE  k.count[<<t, PendingOf(e)>>] =
                        Cardinality(WaitingFrom(more, 1, t, e))
    BY <1>10 DEF PendingCounted
  <2>1. PendingOf(e) \in Counter /\ (PendingOf(e) = c <=> e = b.dir)
    BY <1>2, DirsAre
  <2>2. k.count[<<t, PendingOf(e)>>] =
          IF t \in b.slots /\ PendingOf(e) = c
          THEN g.count[<<t, PendingOf(e)>>] + 1 ELSE g.count[<<t, PendingOf(e)>>]
    BY <1>7, <2>1 DEF Moved
  <2>3. Wants(p, t, e) <=> PendingOf(e) = c /\ t \in b.slots
    BY <2>1 DEF Wants
  <2>4. Cardinality(WaitingFrom(more, 1, t, e)) =
          Cardinality(WaitingFrom(q, 1, t, e)) +
            (IF Wants(p, t, e) THEN 1 ELSE 0)
    <3> HIDE DEF q
    <3> QED
      BY <1>3, WaitingMore DEF more
  <2> HIDE DEF b, c, q
  <2> QED
    BY <1>4, <2>2, <2>3, <2>4
<1>13. Enabled(n, {})
  BY <1>7, <1>10 DEF Good, KeepsEnabled, Enabled, Used
<1>14. Len(n.tbf_list_pending) <= PendingCap
  <2>1. PendingCap \in Nat
    BY L1GprsAssumption
  <2> QED
    BY <1>3, <1>8, <1>10, <2>1
<1> QED
  BY <1>11, <1>12, <1>13, <1>14 DEF Good

-----------------------------------------------------------------------------
\* The inductive invariant.
IInv == Good(gprs) /\ fn \in Blocks

\* Nothing is counted where nothing is.
LEMMA EmptyIsGood == Good(Empty)
<1> DEFINE z == [x \in Tns \X Counter |-> 0]
<1>1. z \in Counts /\ \A x \in Tns \X Counter : z[x] = 0
  BY DEF Counts
<1>2. [t \in Tns |-> {}] \in [Tns -> SUBSET Tfi]
  OBVIOUS
<1> DEFINE m == [t \in Tns |-> {}]
<1> HIDE DEF z, m
<1>3. /\ Empty = [tbf_list |-> {}, tbf_list_pending |-> <<>>, count |-> z,
                  dl_tfi_mask |-> m, enabled |-> {}]
      /\ m \in [Tns -> SUBSET Tfi]
  BY <1>2 DEF Empty, z, m
<1>4. /\ Empty \in Shapes /\ Empty.tbf_list = {} /\ Empty.count = z
      /\ Empty.tbf_list_pending = <<>> /\ Empty.enabled = {}
  BY <1>1, <1>3 DEF Shapes
<1>5. \A t \in Tns, d \in Dirs : z[<<t, d>>] = 0 /\ z[<<t, PendingOf(d)>>] = 0
  BY <1>1, DirsAre
<1>6. Sound(Empty)
  <2>1. \A t, d : On({}, t, d) = {}
    BY DEF On
  <2> QED
    BY <1>4, <1>5, <2>1, FS_EmptySet DEF Sound, Unique, ActiveCounted
<1>7. PendingCounted(Empty)
  <2>1. \A t, d : WaitingFrom(<<>>, 1, t, d) = {}
    BY DEF WaitingFrom
  <2> QED
    BY <1>4, <1>5, <2>1, FS_EmptySet DEF PendingCounted
<1>8. Enabled(Empty, {})
  <2>1. \A t \in Tns : UseCount(z, t) = 0
    <3> TAKE t \in Tns
    <3>1. \A c \in Counter : z[<<t, c>>] = 0
      BY <1>1
    <3> QED
      BY <3>1 DEF UseCount, Counter
  <2> QED
    BY <1>4, <2>1 DEF Enabled, Used
<1>9. Len(Empty.tbf_list_pending) <= PendingCap
  BY <1>4, L1GprsAssumption
<1> QED
  BY <1>6, <1>7, <1>8, <1>9 DEF Good

\* The initial state.
LEMMA InitGood == Init => IInv
BY EmptyIsGood, L1GprsAssumption DEF Init, IInv, Blocks

\* Every action keeps the invariant.
LEMMA CfgReqGood ==
  ASSUME Few, IInv, NEW tbf \in Tbf, NEW start \in Starts, CfgReq(tbf, start)
  PROVE  IInv'
<1> DEFINE g == gprs
           old == FindTbf(g, tbf.dir, tbf.ref)
<1>1. Good(g) /\ Sound(g) /\ Enabled(g, {}) /\ fn' = fn /\ fn \in Blocks
  BY DEF IInv, Good, CfgReq
<1>2. CASE start # Now
  <2> DEFINE p == [tbf |-> tbf, start |-> start]
  <2>1. start \in Blocks
    <3>1. PICK d \in 0 .. (Horizon - 1) : start = (fn + d) % HyperFrame
      BY <1>2 DEF Starts
    <3>2. Horizon \in Nat /\ HyperFrame \in Nat /\ HyperFrame # 0
      BY L1GprsAssumption
    <3>3. fn + d \in Nat
      BY <1>1, <3>2 DEF Blocks
    <3> QED
      BY <3>1, <3>2, <3>3 DEF Blocks
  <2>2. p \in Request
    BY <2>1 DEF Request
  <2>3. Len(g.tbf_list_pending) < PendingCap /\ gprs' = AddPending(g, p)
    BY <1>2 DEF CfgReq
  <2> HIDE DEF p, g
  <2>4. Good(gprs')
    BY <1>1, <2>2, <2>3, AddPendingIs
  <2> QED
    BY <1>1, <2>4 DEF IInv
<1>3. CASE start = Now /\ old = {}
  <2>1. gprs' = Register(g, tbf) /\ Named(g.tbf_list, tbf.dir, tbf.ref) = {}
    BY <1>3 DEF CfgReq, FindTbf, Named
  <2> DEFINE n == gprs'
  <2>2. n = Register(g, tbf)
    BY <2>1
  <2> HIDE DEF g, n
  <2>3. Sound(n) /\ SamePending(g, n) /\ KeepsEnabled(g, n)
    BY <1>1, <2>1, <2>2, RegisterIs
  <2>4. Good(n)
    BY <1>1, <2>3, SamePendingGood DEF KeepsEnabled
  <2> QED
    BY <1>1, <2>4 DEF IInv, n
<1>4. CASE start = Now /\ old # {}
  <2> DEFINE b == CHOOSE b \in old : TRUE
             n == gprs'
  <2>1. n = Update(g, b, tbf.slots)
    BY <1>4 DEF CfgReq
  <2>2. b \in g.tbf_list /\ tbf.slots \in (SUBSET Tns) \ {{}}
    BY <1>4, TbfIs DEF FindTbf
  <2>3. {} \in SUBSET tbf.slots
    OBVIOUS
  <2> HIDE DEF g, b, n
  <2>4. Sound(n) /\ SamePending(g, n) /\ Enabled(n, {})
    BY <1>1, <2>1, <2>2, <2>3, UpdateIs
  <2>5. Good(n)
    BY <1>1, <2>4, SamePendingGood
  <2> QED
    BY <1>1, <2>5 DEF IInv, n
<1> QED
  BY <1>2, <1>3, <1>4

\* A release.
LEMMA ReleaseReqGood ==
  ASSUME Few, IInv, NEW dir, NEW ref, ReleaseReq(dir, ref)
  PROVE  IInv'
<1> DEFINE g == gprs
           n == gprs'
<1>1. Good(g) /\ Sound(g) /\ Enabled(g, {}) /\ fn' = fn /\ fn \in Blocks
  BY DEF IInv, Good, ReleaseReq
<1>2. PICK b \in g.tbf_list : n = Unregister(g, b)
  BY DEF ReleaseReq, FindTbf
<1> HIDE DEF g, n
<1>3. Sound(n) /\ SamePending(g, n) /\ Enabled(n, {})
  BY <1>1, <1>2, UnregisterIs
<1>4. Good(n)
  BY <1>1, <1>3, SamePendingGood
<1> QED
  BY <1>1, <1>4 DEF IInv, n

\* A block: the pending requests are checked twice.
LEMMA DlBlockGood ==
  ASSUME Few, IInv, NEW t, NEW gap \in 0 .. MaxGap, DlBlock(t, gap)
  PROVE  IInv'
<1> DEFINE g == gprs
           n == gprs'
           h == CheckPending(g, fn')
           now == (fn' + 1) % HyperFrame
<1>1. Good(g) /\ fn \in Blocks
  BY DEF IInv
<1>2. fn' \in Blocks
  <2>1. MaxGap \in Nat /\ HyperFrame \in Nat /\ HyperFrame # 0
    BY L1GprsAssumption
  <2>2. fn + gap \in Nat
    BY <1>1, <2>1 DEF Blocks
  <2>3. fn' = (fn + gap) % HyperFrame
    BY DEF DlBlock
  <2> QED
    BY <2>1, <2>2, <2>3 DEF Blocks
<1>3. n = CheckPending(h, now)
  BY DEF DlBlock
<1> DEFINE f == fn'
<1>4. h = CheckPending(g, f)
  OBVIOUS
<1> HIDE DEF g, n, h, now, f
<1>5. Good(h)
  BY <1>1, <1>4, CheckPendingIs
<1>6. Good(n)
  BY <1>3, <1>5, CheckPendingIs
<1> QED
  BY <1>2, <1>6 DEF IInv, n

\* Every step.
LEMMA NextGood ==
  ASSUME Few, IInv, [Next]_vars
  PROVE  IInv'
<1>1. ASSUME NEW tbf \in Tbf, NEW start \in Starts, CfgReq(tbf, start)
      PROVE  IInv'
  BY <1>1, CfgReqGood
<1>2. ASSUME NEW dir, NEW ref, ReleaseReq(dir, ref)
      PROVE  IInv'
  BY <1>2, ReleaseReqGood
<1>3. ASSUME NEW t \in Tns, NEW gap \in 0 .. MaxGap, DlBlock(t, gap)
      PROVE  IInv'
  BY <1>3, DlBlockGood
<1>4. CASE Restart
  BY <1>4, EmptyIsGood DEF Restart, IInv
<1>5. CASE UNCHANGED vars
  BY <1>5 DEF vars, IInv
<1> QED
  BY <1>1, <1>2, <1>3, <1>4, <1>5 DEF Next

-----------------------------------------------------------------------------
\* The invariant implies each of the properties.
LEMMA GoodIsTyped ==
  ASSUME IInv
  PROVE  TypeOK
<1>1. /\ gprs \in Shapes /\ Unique(gprs.tbf_list)
      /\ Len(gprs.tbf_list_pending) <= PendingCap /\ fn \in Blocks
  BY DEF IInv, Good, Sound
<1>2. \A i \in 1 .. Len(gprs.tbf_list_pending) :
        gprs.tbf_list_pending[i] \in [tbf : Tbf, start : Blocks]
  <2>1. gprs.tbf_list_pending \in Seq(Request)
    BY <1>1 DEF Shapes
  <2> QED
    BY <2>1, ElementOfSeq DEF Request
<1> QED
  BY <1>1, <1>2 DEF TypeOK, Shapes, Counts, Unique

\* CountsAgree, which spells the sets out.
LEMMA GoodIsCounted ==
  ASSUME IInv
  PROVE  CountsAgree
<1> SUFFICES ASSUME NEW t \in Tns, NEW d \in Dirs
             PROVE  /\ gprs.count[<<t, d>>] =
                         Cardinality({b \in gprs.tbf_list :
                                        b.dir = d /\ t \in b.slots})
                    /\ gprs.count[<<t, PendingOf(d)>>] =
                         Cardinality({i \in 1 .. Len(gprs.tbf_list_pending) :
                           LET b == gprs.tbf_list_pending[i].tbf
                           IN  b.dir = d /\ t \in b.slots})
  BY DEF CountsAgree, Dirs
<1>1. gprs.count[<<t, d>>] = Cardinality(On(gprs.tbf_list, t, d))
  BY DEF IInv, Good, Sound, ActiveCounted
<1>2. gprs.count[<<t, PendingOf(d)>>] =
        Cardinality(WaitingFrom(gprs.tbf_list_pending, 1, t, d))
  BY DEF IInv, Good, PendingCounted
<1> QED
  BY <1>1, <1>2 DEF On, WaitingFrom, Wants

\* A timeslot is used when a TBF, active or pending, has it.
LEMMA UsedIs ==
  ASSUME Few, NEW g, Good(g), NEW t \in Tns
  PROVE  t \in Used(g) <=>
           \/ \E b \in g.tbf_list : t \in b.slots
           \/ \E i \in 1 .. Len(g.tbf_list_pending) :
                t \in g.tbf_list_pending[i].tbf.slots
<1> DEFINE q == g.tbf_list_pending
           A(d) == On(g.tbf_list, t, d)
           W(d) == WaitingFrom(q, 1, t, d)
<1>1. /\ g \in Shapes /\ g.tbf_list \in SUBSET Tbf /\ Unique(g.tbf_list)
      /\ q \in Seq(Request)
  BY DEF Good, Sound, Shapes
<1>2. ASSUME NEW d \in Dirs
      PROVE  /\ g.count[<<t, d>>] \in Nat
             /\ g.count[<<t, d>>] = 0 <=> A(d) = {}
             /\ g.count[<<t, PendingOf(d)>>] \in Nat
             /\ g.count[<<t, PendingOf(d)>>] = 0 <=> W(d) = {}
  <2>1. /\ g.count[<<t, d>>] = Cardinality(A(d))
        /\ g.count[<<t, PendingOf(d)>>] = Cardinality(W(d))
    BY DEF Good, Sound, ActiveCounted, PendingCounted
  <2>2. IsFiniteSet(W(d))
    <3> HIDE DEF q
    <3> QED
      BY <1>1, WaitingFew
  <2>3. IsFiniteSet(A(d))
    <3>1. CASE \E b \in g.tbf_list : b.dir = d
      <4>1. PICK b \in g.tbf_list : b.dir = d
        BY <3>1
      <4>2. IsFiniteSet(Others(g.tbf_list, t, d, b.ref))
        BY <1>1, <4>1, TbfIs, OthersFew
      <4>3. IsFiniteSet(Others(g.tbf_list, t, d, b.ref) \cup {b})
        BY <4>2, FS_AddElement
      <4>4. A(d) \in SUBSET (Others(g.tbf_list, t, d, b.ref) \cup {b})
        BY <1>1, <4>1 DEF On, Others, Unique
      <4> HIDE DEF A
      <4> QED
        BY <4>3, <4>4, FS_Subset
    <3>2. CASE ~ \E b \in g.tbf_list : b.dir = d
      <4>1. A(d) = {}
        BY <3>2 DEF On
      <4> QED
        BY <4>1, FS_EmptySet
    <3> QED
      BY <3>1, <3>2
  <2> HIDE DEF A, W
  <2> QED
    BY <2>1, <2>2, <2>3, FS_EmptySet, FS_CardinalityType
<1>3. t \in Used(g) <=> \E d \in Dirs : A(d) # {} \/ W(d) # {}
  <2>1. "ul" \in Dirs /\ "dl" \in Dirs
    BY DEF Dirs
  <2>2. /\ PendingOf("ul") = "pending_ul" /\ PendingOf("dl") = "pending_dl"
    BY DEF PendingOf
  <2>3. /\ g.count[<<t, "ul">>] \in Nat
        /\ g.count[<<t, "ul">>] = 0 <=> A("ul") = {}
        /\ g.count[<<t, "pending_ul">>] \in Nat
        /\ g.count[<<t, "pending_ul">>] = 0 <=> W("ul") = {}
    BY <1>2, <2>1, <2>2
  <2>4. /\ g.count[<<t, "dl">>] \in Nat
        /\ g.count[<<t, "dl">>] = 0 <=> A("dl") = {}
        /\ g.count[<<t, "pending_dl">>] \in Nat
        /\ g.count[<<t, "pending_dl">>] = 0 <=> W("dl") = {}
    BY <1>2, <2>1, <2>2
  <2> HIDE DEF A, W
  <2> DEFINE a == g.count[<<t, "ul">>]
             b == g.count[<<t, "dl">>]
             c == g.count[<<t, "pending_ul">>]
             e == g.count[<<t, "pending_dl">>]
  <2>5. UseCount(g.count, t) = a + b + c + e
    BY DEF UseCount
  <2>6. a \in Nat /\ b \in Nat /\ c \in Nat /\ e \in Nat
    BY <2>3, <2>4
  <2>7. /\ a = 0 <=> A("ul") = {}
        /\ b = 0 <=> A("dl") = {}
        /\ c = 0 <=> W("ul") = {}
        /\ e = 0 <=> W("dl") = {}
    BY <2>3, <2>4
  <2> HIDE DEF a, b, c, e
  <2>8. UseCount(g.count, t) = 0 <=> a = 0 /\ b = 0 /\ c = 0 /\ e = 0
    BY <2>5, <2>6
  <2>9. UseCount(g.count, t) = 0 <=>
          A("ul") = {} /\ W("ul") = {} /\ A("dl") = {} /\ W("dl") = {}
    BY <2>7, <2>8
  <2> QED
    BY <2>9 DEF Used, Dirs
<1>4. \A d : A(d) # {} <=> \E b \in g.tbf_list : b.dir = d /\ t \in b.slots
  BY DEF On
<1>5. \A d : W(d) # {} <=> \E i \in 1 .. Len(q) :
                               q[i].tbf.dir = d /\ t \in q[i].tbf.slots
  BY DEF WaitingFrom, Wants
<1>6. \A b \in g.tbf_list : b.dir \in Dirs
  BY <1>1, TbfIs
<1>7. \A i \in 1 .. Len(q) : q[i].tbf.dir \in Dirs
  <2> HIDE DEF q
  <2> QED
    BY <1>1, RequestIs
<1> HIDE DEF A, W, q
<1>8. t \in Used(g) <=>
        \E d \in Dirs : \/ \E b \in g.tbf_list : b.dir = d /\ t \in b.slots
                        \/ \E i \in 1 .. Len(q) :
                             q[i].tbf.dir = d /\ t \in q[i].tbf.slots
  BY <1>3, <1>4, <1>5
<1>9. t \in Used(g) <=>
        \/ \E b \in g.tbf_list : t \in b.slots
        \/ \E i \in 1 .. Len(q) : t \in q[i].tbf.slots
  BY <1>6, <1>7, <1>8
<1> QED
  BY <1>9 DEF q

\* EnabledAgrees.
LEMMA GoodIsEnabled ==
  ASSUME Few, IInv
  PROVE  EnabledAgrees
<1>1. Good(gprs) /\ gprs.enabled = Used(gprs)
  BY DEF IInv, Good, Enabled
<1>2. /\ gprs.tbf_list \in SUBSET Tbf
      /\ gprs.tbf_list_pending \in Seq(Request)
  BY <1>1 DEF Good, Sound, Shapes
<1>3. \A b \in gprs.tbf_list : b.slots \in SUBSET Tns
  BY <1>2, TbfIs
<1>4. \A i \in 1 .. Len(gprs.tbf_list_pending) :
        gprs.tbf_list_pending[i].tbf.slots \in SUBSET Tns
  BY <1>2, RequestIs
<1>5. \A t \in Tns :
        t \in Used(gprs) <=>
          \/ \E b \in gprs.tbf_list : t \in b.slots
          \/ \E i \in 1 .. Len(gprs.tbf_list_pending) :
               t \in gprs.tbf_list_pending[i].tbf.slots
  BY <1>1, UsedIs
<1>6. Used(gprs) \subseteq Tns
  BY DEF Used
<1> QED
  BY <1>1, <1>3, <1>4, <1>5, <1>6 DEF EnabledAgrees, Pending

\* The invariant holds in every state.
LEMMA Inductive ==
  ASSUME Few
  PROVE  Spec => []IInv
<1>1. Init => IInv
  BY InitGood
<1>2. IInv /\ [Next]_vars => IInv'
  BY NextGood
<1> QED
  BY <1>1, <1>2, PTL DEF Spec

\* The parts of the state have their types, the counters never pass eight
\* bits and no reference names two TBFs of a direction: l1gprs.c looks a TBF
\* up by its reference (_l1gprs_find_tbf) and takes the first it finds.
THEOREM TypeCorrect ==
  ASSUME Few
  PROVE  Spec => []TypeOK
<1>1. IInv => TypeOK
  BY GoodIsTyped
<1> QED
  BY <1>1, Inductive, PTL

\* The counters of a timeslot count the TBFs that use it, active and pending,
\* through every configuration, reconfiguration, overdue start and release:
\* no OSMO_ASSERT of a decrement in l1gprs.c can fail.
THEOREM CountsAgreeTheorem ==
  ASSUME Few
  PROVE  Spec => []CountsAgree
<1>1. IInv => CountsAgree
  BY GoodIsCounted
<1> QED
  BY <1>1, Inductive, PTL

\* The lower layers were told, by pdch_changed_cb, of every timeslot that is
\* in use and of no other: a request that becomes active neither loses its
\* timeslot nor leaves one on that nobody uses.
THEOREM EnabledAgreesTheorem ==
  ASSUME Few
  PROVE  Spec => []EnabledAgrees
<1>1. IInv => EnabledAgrees
  BY GoodIsEnabled
<1> QED
  BY <1>1, Inductive, PTL
=============================================================================
