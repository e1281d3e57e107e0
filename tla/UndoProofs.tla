----------------------------- MODULE UndoProofs ------------------------------
(***************************************************************************)
(* Theorems about the undo manager (UndoManager): no frame is lost, frames *)
(* never overlap, and undoing leaves the documents' histories alone.       *)
(***************************************************************************)
EXTENDS DocProofs, UndoManager

-----------------------------------------------------------------------------
(* The two stacks.                                                         *)

\* Read from the bottom of u to the bottom of r the frames go up in clocks
\* and do not overlap; all of them end by n.
InOrder(u, r, n) ==
  /\ \A i, j \in DOMAIN u : i < j => u[i].end <= u[j].start
  /\ \A i, j \in DOMAIN r : i < j => r[j].end <= r[i].start
  /\ \A i \in DOMAIN u, j \in DOMAIN r : u[i].end <= r[j].start
  /\ \A i \in DOMAIN u : u[i].end <= n
  /\ \A j \in DOMAIN r : r[j].end <= n

\* Every clock of Me before the limit may be in a frame, none after it.
Limit == IF pre_clock = NotOpen THEN clock[Me] ELSE pre_clock

WindowOK == pre_clock # NotOpen => pre_clock <= clock[Me]

ManagerInv ==
  /\ ManagerTypeOK
  /\ WindowOK
  /\ InOrder(undo_stack, redo_stack, Limit)
  /\ FramesKept

UInv == IInv /\ ClockNotAhead /\ ManagerInv

LEMMA FrameParts ==
  ASSUME NEW f \in Frames
  PROVE  f.start \in Nat /\ f.end \in Nat /\ f.start < f.end
BY DEF Frames

LEMMA Entry ==
  ASSUME NEW S, NEW s \in Seq(S)
  PROVE  /\ Len(s) \in Nat /\ DOMAIN s = 1 .. Len(s)
         /\ \A i \in DOMAIN s : i \in Nat /\ 1 <= i /\ i <= Len(s) /\ s[i] \in S
<1>1. Len(s) \in Nat /\ DOMAIN s = 1 .. Len(s) /\ \A i \in 1 .. Len(s) : s[i] \in S
  BY ElementOfSeq, LenProperties
<1> QED
  BY <1>1

\* Popping (SequencesExt's Front and Last).
LEMMA Popped ==
  ASSUME NEW S, NEW s \in Seq(S), s # << >>
  PROVE  /\ Front(s) \in Seq(S) /\ Len(Front(s)) = Len(s) - 1
         /\ \A i \in DOMAIN Front(s) : i \in DOMAIN s /\ i < Len(s) /\ Front(s)[i] = s[i]
         /\ Last(s) \in S /\ Last(s) = s[Len(s)] /\ Len(s) \in DOMAIN s
<1>1. /\ Len(s) \in Nat /\ Len(s) >= 1 /\ DOMAIN s = 1 .. Len(s)
      /\ Len(s) \in DOMAIN s /\ s[Len(s)] \in S
  <2>1. Len(s) \in Nat /\ Len(s) # 0 /\ DOMAIN s = 1 .. Len(s)
    BY EmptySeq, Entry
  <2>2. Len(s) \in DOMAIN s
    BY <2>1
  <2> QED
    BY <2>1, <2>2, Entry
<1> DEFINE n == Len(s) - 1
           t == SubSeq(s, 1, n)
<1>2. n \in Nat /\ Len(s) = n + 1
  BY <1>1
<1>3. 1 \in 1 .. Len(s) + 1 /\ n \in 0 .. Len(s)
  BY <1>1, <1>2
<1>4. \A i \in 1 .. n : i \in 1 .. Len(s) /\ i < Len(s)
  BY <1>1, <1>2
<1>5. t \in Seq(S) /\ Len(t) = n /\ \A i \in 1 .. n : t[i] = s[i]
  <2>1. \A i \in 1 .. n : s[i] \in S
    BY <1>1, <1>4, Entry
  <2> HIDE DEF n
  <2> QED
    BY <1>2, <1>3, <1>4, <2>1
<1>6. DOMAIN t = 1 .. n
  BY <1>5, Entry
<1>7. Front(s) = t /\ Last(s) = s[Len(s)]
  BY DEF Front, Last
<1> QED
  BY <1>1, <1>4, <1>5, <1>6, <1>7

LEMMA Pushed ==
  ASSUME NEW S, NEW s \in Seq(S), NEW x \in S
  PROVE  /\ Append(s, x) \in Seq(S) /\ Len(Append(s, x)) = Len(s) + 1
         /\ \A i \in DOMAIN Append(s, x) :
              \/ i \in DOMAIN s /\ Append(s, x)[i] = s[i]
              \/ i = Len(s) + 1 /\ Append(s, x)[i] = x
<1>1. /\ Append(s, x) \in Seq(S) /\ Len(Append(s, x)) = Len(s) + 1
      /\ \A i \in 1 .. Len(s) : Append(s, x)[i] = s[i]
      /\ Append(s, x)[Len(s) + 1] = x
  BY AppendProperties
<1>2. /\ DOMAIN Append(s, x) = 1 .. (Len(s) + 1) /\ DOMAIN s = 1 .. Len(s)
      /\ Len(s) \in Nat
  BY <1>1, Entry
<1> QED
  BY <1>1, <1>2

\* undo moves the newest frame across.
LEMMA UndoOrder ==
  ASSUME NEW u \in Seq(Frames), NEW r \in Seq(Frames), NEW n \in Nat,
         InOrder(u, r, n), u # << >>
  PROVE  /\ InOrder(Front(u), r, n)
         /\ InOrder(Front(u), Append(r, Last(u)), n)
<1> DEFINE v == Front(u)
           f == Last(u)
           w == Append(r, f)
           k == Len(u)
<1>1. /\ v \in Seq(Frames) /\ f \in Frames
      /\ \A i \in DOMAIN v : i \in DOMAIN u /\ i < k /\ v[i] = u[i]
      /\ f = u[k] /\ k \in DOMAIN u
  BY Popped
<1>2. \A j \in DOMAIN w : \/ j \in DOMAIN r /\ w[j] = r[j]
                          \/ j = Len(r) + 1 /\ w[j] = f
  BY <1>1, Pushed
<1>3. /\ \A j \in DOMAIN r : j \in Nat /\ j <= Len(r) /\ r[j] \in Frames
      /\ Len(r) \in Nat
  BY Entry
<1> HIDE DEF v, f, w, k
<1>4. InOrder(v, r, n)
  BY <1>1 DEF InOrder
<1>5. \A i, j \in DOMAIN w : i < j => w[j].end <= w[i].start
  <2> SUFFICES ASSUME NEW i \in DOMAIN w, NEW j \in DOMAIN w, i < j
               PROVE  w[j].end <= w[i].start
    OBVIOUS
  <2>1. CASE i \in DOMAIN r /\ w[i] = r[i] /\ j \in DOMAIN r /\ w[j] = r[j]
    BY <2>1 DEF InOrder
  <2>2. CASE i \in DOMAIN r /\ w[i] = r[i] /\ w[j] = f
    BY <1>1, <2>2 DEF InOrder
  <2>3. CASE i = Len(r) + 1 /\ (j = Len(r) + 1 \/ j \in DOMAIN r)
    BY <1>3, <2>3
  <2> QED
    BY <1>2, <2>1, <2>2, <2>3
<1>6. \A i \in DOMAIN v, j \in DOMAIN w : v[i].end <= w[j].start
  <2> SUFFICES ASSUME NEW i \in DOMAIN v, NEW j \in DOMAIN w
               PROVE  v[i].end <= w[j].start
    OBVIOUS
  <2>1. CASE j \in DOMAIN r /\ w[j] = r[j]
    BY <1>4, <2>1 DEF InOrder
  <2>2. CASE w[j] = f
    BY <1>1, <2>2 DEF InOrder
  <2> QED
    BY <1>2, <2>1, <2>2
<1>7. \A j \in DOMAIN w : w[j].end <= n
  BY <1>1, <1>2 DEF InOrder
<1> QED
  BY <1>4, <1>5, <1>6, <1>7 DEF InOrder, v, f, w

\* redo moves it back.
LEMMA RedoOrder ==
  ASSUME NEW u \in Seq(Frames), NEW r \in Seq(Frames), NEW n \in Nat,
         InOrder(u, r, n), r # << >>
  PROVE  /\ InOrder(u, Front(r), n)
         /\ InOrder(Append(u, Last(r)), Front(r), n)
<1> DEFINE v == Front(r)
           f == Last(r)
           w == Append(u, f)
           k == Len(r)
<1>1. /\ v \in Seq(Frames) /\ f \in Frames
      /\ \A i \in DOMAIN v : i \in DOMAIN r /\ i < k /\ v[i] = r[i]
      /\ f = r[k] /\ k \in DOMAIN r
  BY Popped
<1>2. \A j \in DOMAIN w : \/ j \in DOMAIN u /\ w[j] = u[j]
                          \/ j = Len(u) + 1 /\ w[j] = f
  BY <1>1, Pushed
<1>3. /\ \A j \in DOMAIN u : j \in Nat /\ j <= Len(u) /\ u[j] \in Frames
      /\ Len(u) \in Nat
  BY Entry
<1> HIDE DEF v, f, w, k
<1>4. InOrder(u, v, n)
  BY <1>1 DEF InOrder
<1>5. \A i, j \in DOMAIN w : i < j => w[i].end <= w[j].start
  <2> SUFFICES ASSUME NEW i \in DOMAIN w, NEW j \in DOMAIN w, i < j
               PROVE  w[i].end <= w[j].start
    OBVIOUS
  <2>1. CASE i \in DOMAIN u /\ w[i] = u[i] /\ j \in DOMAIN u /\ w[j] = u[j]
    BY <2>1 DEF InOrder
  <2>2. CASE i \in DOMAIN u /\ w[i] = u[i] /\ w[j] = f
    BY <1>1, <2>2 DEF InOrder
  <2>3. CASE i = Len(u) + 1 /\ (j = Len(u) + 1 \/ j \in DOMAIN u)
    BY <1>3, <2>3
  <2> QED
    BY <1>2, <2>1, <2>2, <2>3
<1>6. \A i \in DOMAIN w, j \in DOMAIN v : w[i].end <= v[j].start
  <2> SUFFICES ASSUME NEW i \in DOMAIN w, NEW j \in DOMAIN v
               PROVE  w[i].end <= v[j].start
    OBVIOUS
  <2>1. CASE i \in DOMAIN u /\ w[i] = u[i]
    BY <1>4, <2>1 DEF InOrder
  <2>2. CASE w[i] = f
    BY <1>1, <2>2 DEF InOrder
  <2> QED
    BY <1>2, <2>1, <2>2
<1>7. \A i \in DOMAIN w : w[i].end <= n
  BY <1>1, <1>2 DEF InOrder
<1> QED
  BY <1>4, <1>5, <1>6, <1>7 DEF InOrder, v, f, w

\* capture_end puts a new frame on top of the older ones and drops what
\* could have been redone.
LEMMA CaptureOrder ==
  ASSUME NEW u \in Seq(Frames), NEW r, NEW n \in Nat, NEW f \in Frames,
         InOrder(u, r, n), n <= f.start
  PROVE  InOrder(Append(u, f), << >>, f.end)
<1> DEFINE w == Append(u, f)
<1>1. \A j \in DOMAIN w : \/ j \in DOMAIN u /\ w[j] = u[j]
                          \/ j = Len(u) + 1 /\ w[j] = f
  BY Pushed
<1>2. /\ \A j \in DOMAIN u : /\ j \in Nat /\ j <= Len(u) 
                             /\ u[j].end \in Nat /\ u[j].end <= n
      /\ Len(u) \in Nat
  BY Entry, FrameParts DEF InOrder
<1>3. f.start \in Nat /\ f.end \in Nat /\ f.start < f.end
  BY FrameParts
<1> HIDE DEF w
<1>4. \A i, j \in DOMAIN w : i < j => w[i].end <= w[j].start
  <2> SUFFICES ASSUME NEW i \in DOMAIN w, NEW j \in DOMAIN w, i < j
               PROVE  w[i].end <= w[j].start
    OBVIOUS
  <2>1. CASE i \in DOMAIN u /\ w[i] = u[i] /\ j \in DOMAIN u /\ w[j] = u[j]
    BY <2>1 DEF InOrder
  <2>2. CASE i \in DOMAIN u /\ w[i] = u[i] /\ w[j] = f
    BY <1>2, <1>3, <2>2
  <2>3. CASE i = Len(u) + 1 /\ (j = Len(u) + 1 \/ j \in DOMAIN u)
    BY <1>2, <2>3
  <2> QED
    BY <1>1, <2>1, <2>2, <2>3
<1>5. \A i \in DOMAIN w : w[i].end <= f.end
  BY <1>1, <1>2, <1>3
<1>6. DOMAIN << >> = {}
  OBVIOUS
<1> QED
  BY <1>4, <1>5, <1>6 DEF InOrder, w

\* ... and a full stack forgets its oldest frame.
LEMMA OldestDropped ==
  ASSUME NEW u \in Seq(Frames), NEW r, NEW n \in Nat, InOrder(u, r, n), u # << >>
  PROVE  /\ Tail(u) \in Seq(Frames) /\ Len(Tail(u)) = Len(u) - 1
         /\ InOrder(Tail(u), r, n)
<1> DEFINE t == Tail(u)
<1>1. /\ t \in Seq(Frames) /\ Len(t) = Len(u) - 1
      /\ \A i \in 1 .. Len(t) : t[i] = u[i + 1]
  BY HeadTailProperties
<1>2. /\ \A i \in DOMAIN t : i \in Nat /\ i + 1 \in DOMAIN u /\ t[i] = u[i + 1]
      /\ DOMAIN u = 1 .. Len(u) /\ Len(u) \in Nat
  <2>1. DOMAIN t = 1 .. Len(t) /\ DOMAIN u = 1 .. Len(u) /\ Len(u) \in Nat
    BY <1>1, Entry
  <2> QED
    BY <1>1, <2>1
<1> HIDE DEF t
<1>3. \A i \in DOMAIN t : \E k \in DOMAIN u : k = i + 1 /\ t[i] = u[k]
  BY <1>2
<1>4. \A i, j \in DOMAIN t : i < j => t[i].end <= t[j].start
  <2> SUFFICES ASSUME NEW i \in DOMAIN t, NEW j \in DOMAIN t, i < j
               PROVE  t[i].end <= t[j].start
    OBVIOUS
  <2>1. PICK k \in DOMAIN u, l \in DOMAIN u : 
          k = i + 1 /\ t[i] = u[k] /\ l = j + 1 /\ t[j] = u[l]
    BY <1>3
  <2>2. k < l
    BY <1>2, <2>1
  <2> QED
    BY <2>1, <2>2 DEF InOrder
<1> QED
  BY <1>1, <1>3, <1>4 DEF InOrder, t

\* What InOrder says of the two stacks read as one sequence.
LEMMA ReadAsOne ==
  ASSUME NEW u \in Seq(Frames), NEW r \in Seq(Frames), NEW n, InOrder(u, r, n)
  PROVE  LET frames == u \o Reverse(r)
         IN  /\ \A i, j \in DOMAIN frames : i < j => frames[i].end <= frames[j].start
             /\ \A i \in DOMAIN frames :
                  frames[i].start < frames[i].end /\ frames[i].end <= n
<1> DEFINE a == Len(u)
           b == Len(r)
           v == Reverse(r)
           w == u \o v
<1>1. a \in Nat /\ b \in Nat /\ DOMAIN u = 1 .. a /\ DOMAIN r = 1 .. b
  BY Entry
<1>2. v = [i \in 1 .. b |-> r[(b - i) + 1]]
  BY DEF Reverse
<1>3. v \in Seq(Frames) /\ Len(v) = b
  <2>1. \A i \in 1 .. b : (b - i) + 1 \in 1 .. b
    BY <1>1
  <2>2. v \in [1 .. b -> Frames]
    BY <1>1, <1>2, <2>1, Entry
  <2> HIDE DEF v
  <2> QED
    BY <1>1, <2>2, SeqDef
<1>4. \A i \in 1 .. b : \E k \in DOMAIN r : k = (b - i) + 1 /\ v[i] = r[k]
  BY <1>1, <1>2
<1> HIDE DEF v
<1>5. /\ w \in Seq(Frames) /\ Len(w) = a + b
      /\ \A i \in 1 .. a + b : w[i] = IF i <= a THEN u[i] ELSE v[i - a]
  <2>1. /\ w \in Seq(Frames) /\ Len(w) = Len(u) + Len(v)
        /\ \A i \in 1 .. Len(u) + Len(v) :
             w[i] = IF i <= Len(u) THEN u[i] ELSE v[i - Len(u)]
    BY <1>3, ConcatProperties
  <2> QED
    BY <1>3, <2>1
<1>6. DOMAIN w = 1 .. a + b
  BY <1>5, Entry
<1> HIDE DEF w
<1>7. ASSUME NEW i \in DOMAIN w
      PROVE  /\ i \in Nat /\ w[i] \in Frames
             /\ \/ i <= a /\ i \in DOMAIN u /\ w[i] = u[i]
                \/ /\ i > a
                   /\ \E k \in DOMAIN r : k = (b - (i - a)) + 1 /\ w[i] = r[k]
  <2>1. i \in Nat /\ 1 <= i /\ i <= a + b /\ w[i] \in Frames
    BY <1>5, <1>6, <1>1, Entry
  <2>2. CASE i <= a
    <3>1. i \in 1 .. a
      BY <1>1, <2>1, <2>2
    <3> QED
      BY <1>1, <1>5, <1>6, <2>1, <2>2, <3>1
  <2>3. CASE i > a
    <3>1. PICK m \in Int : m = i - a
      BY <1>1, <2>1
    <3>2. m \in 1 .. b
      BY <1>1, <2>1, <2>3, <3>1
    <3>3. w[i] = v[m]
      BY <1>1, <1>5, <1>6, <2>3, <3>1
    <3>4. \E k \in DOMAIN r : k = (b - m) + 1 /\ w[i] = r[k]
      BY <1>4, <3>2, <3>3
    <3> QED
      BY <2>1, <2>3, <3>1, <3>4
  <2> QED
    BY <1>1, <2>1, <2>2, <2>3
<1>8. ASSUME NEW i \in DOMAIN w, NEW j \in DOMAIN w, i < j
      PROVE  w[i].end <= w[j].start
  <2>1. CASE j <= a
    BY <1>1, <1>7, <1>8, <2>1 DEF InOrder
  <2>2. CASE i <= a /\ j > a
    BY <1>1, <1>7, <2>2 DEF InOrder
  <2>3. CASE i > a
    <3>1. PICK k \in DOMAIN r : k = (b - (i - a)) + 1 /\ w[i] = r[k]
      BY <1>1, <1>7, <2>3
    <3>2. j > a /\ i \in Nat /\ j \in Nat
      BY <1>1, <1>7, <1>8, <2>3
    <3>3. PICK l \in DOMAIN r : l = (b - (j - a)) + 1 /\ w[j] = r[l]
      BY <1>1, <1>7, <3>2
    <3>4. l < k
      BY <1>1, <1>8, <3>1, <3>2, <3>3
    <3> QED
      BY <3>1, <3>3, <3>4 DEF InOrder
  <2> QED
    BY <1>1, <1>7, <2>1, <2>2, <2>3
<1>9. ASSUME NEW i \in DOMAIN w
      PROVE  w[i].start < w[i].end /\ w[i].end <= n
  BY <1>7, FrameParts DEF InOrder
<1> QED
  BY <1>8, <1>9 DEF w, v

-----------------------------------------------------------------------------
(* Every step keeps the invariant.                                         *)

LEMMA ManagerParts ==
  ASSUME UInv
  PROVE  /\ undo_stack \in Seq(Frames) /\ redo_stack \in Seq(Frames)
         /\ Len(undo_stack) \in Nat /\ Len(redo_stack) \in Nat
         /\ pre_clock \in Nat \cup {NotOpen}
         /\ clock[Me] \in Nat /\ Limit \in Nat /\ Limit <= clock[Me]
         /\ MaxFrames \in Nat \ {0}
<1>1. DocOK
  BY InvariantParts DEF UInv
<1>2. clock[Me] \in Nat
  BY <1>1, MeAssumption DEF DocOK
<1>3. /\ undo_stack \in Seq(Frames) /\ redo_stack \in Seq(Frames)
      /\ pre_clock \in Nat \cup {NotOpen} /\ WindowOK
  BY DEF UInv, ManagerInv, ManagerTypeOK
<1> QED
  BY <1>2, <1>3, Entry, MaxFramesAssumption DEF Limit, WindowOK

\* The documents' steps only let the clock of Me grow.
LEMMA ClockGrows ==
  ASSUME IInv, [Next]_vars, NEW p \in Clients
  PROVE  clock'[p] \in Nat /\ clock[p] \in Nat /\ clock[p] <= clock'[p]
<1>1. DocOK /\ clock[p] \in Nat
  BY InvariantParts DEF DocOK
<1>2. ASSUME NEW q \in Clients, NEW it, Extends(q, it)
      PROVE  clock'[p] \in Nat /\ clock[p] <= clock'[p]
  <2>1. CASE p # q \/ Client(it) # q
    BY <1>1, <1>2, <2>1, ExtendOwnState
  <2>2. CASE p = q /\ Client(it) = q
    <3>1. /\ End(it) \in Nat
          /\ \/ clock'[p] = IF End(it) > clock[p] THEN End(it) ELSE clock[p]
             \/ clock'[p] = clock[p]
      BY <1>1, <1>2, <2>2, ExtendOwnState
    <3> QED
      BY <1>1, <3>1
  <2> QED
    BY <2>1, <2>2
<1>3. ASSUME UNCHANGED clock PROVE clock'[p] \in Nat /\ clock[p] <= clock'[p]
  BY <1>1, <1>3
<1> QED
  BY <1>1, <1>2, <1>3, StepShape DEF Compact, vars, docVars

LEMMA DocStep ==
  ASSUME UInv, [Next]_vars, UNCHANGED managerVars
  PROVE  UInv'
<1>1. IInv' /\ ClockNotAhead'
  BY NextInvariant, ClockNotAheadStep DEF UInv
<1>2. UNCHANGED << tracked, undo_stack, redo_stack, pre_clock >>
  BY DEF managerVars, stackVars
<1>3. clock'[Me] \in Nat /\ clock[Me] <= clock'[Me]
  BY ClockGrows, MeAssumption DEF UInv
<1>4. Limit' \in Nat /\ Limit <= Limit' /\ WindowOK'
  BY <1>2, <1>3, ManagerParts DEF Limit, WindowOK, UInv, ManagerInv
<1>5. InOrder(undo_stack, redo_stack, Limit')
  <2>1. \A i \in DOMAIN undo_stack : undo_stack[i].end \in Nat /\ undo_stack[i].end <= Limit
    BY ManagerParts, Entry, FrameParts DEF UInv, ManagerInv, InOrder
  <2>2. \A i \in DOMAIN redo_stack : redo_stack[i].end \in Nat /\ redo_stack[i].end <= Limit
    BY ManagerParts, Entry, FrameParts DEF UInv, ManagerInv, InOrder
  <2>3. Limit \in Nat
    BY ManagerParts
  <2>4. /\ \A i \in DOMAIN undo_stack : undo_stack[i].end <= Limit'
        /\ \A i \in DOMAIN redo_stack : redo_stack[i].end <= Limit'
    BY <1>4, <2>1, <2>2, <2>3
  <2> QED
    BY <2>4 DEF UInv, ManagerInv, InOrder
<1>6. ManagerTypeOK' /\ FramesKept'
  BY <1>2 DEF UInv, ManagerInv, ManagerTypeOK, FramesKept
<1>7. InOrder(undo_stack, redo_stack, Limit)'
  BY <1>2, <1>5
<1> QED
  BY <1>1, <1>4, <1>6, <1>7 DEF UInv, ManagerInv

\* Undo and redo change flags and the delete set only.
LEMMA FlagsOnlyStep ==
  ASSUME IInv, ClockNotAhead,
         UNCHANGED << store, order, list, head, clock, job, msgs, sent >>,
         del' \in [Clients -> SUBSET Ids], ds' \in [Clients -> SUBSET Ids]
  PROVE  IInv' /\ ClockNotAhead'
<1>1. DocOK /\ CallOK /\ History /\ InFlightAuthentic
  BY InvariantParts
<1>2. ListStored' /\ HeadStored'
  BY <1>1 DEF DocOK, ListStored, HeadStored
<1>3. DocOK'
  BY <1>1, <1>2 DEF DocOK
<1>4. CallOK'
  BY <1>1 DEF CallOK
<1>5. History' /\ \A d \in Items : Authentic(d) => Authentic(d)'
  BY <1>1, SameStore
<1>6. InFlightAuthentic'
  BY <1>1, <1>4, <1>5, StillInFlight DEF InFlightAuthentic
<1>7. IInv'
  BY <1>3, <1>4, <1>5, <1>6, InvariantParts, PTL
<1>8. ClockNotAhead'
  BY DEF ClockNotAhead
<1> QED
  BY <1>7, <1>8

LEMMA FrameIds ==
  ASSUME DocOK, NEW f \in Frames
  PROVE  ClocksIn(f) \subseteq Ids /\ ItemsIn(f) \subseteq Ids
<1>1. Me \in Clients /\ f.start \in Nat /\ f.end \in Nat
  BY MeAssumption, FrameParts
<1>2. ClocksIn(f) \subseteq Ids
  <2>1. f.start .. (f.end - 1) \subseteq Nat
    BY <1>1
  <2> QED
    BY <1>1, <2>1 DEF ClocksIn, Ids
<1>3. \A s \in Stored(store[Me]) : s.id \in Ids
  BY <1>1, StoredItem, ItemIds DEF DocOK
<1> QED
  BY <1>2, <1>3 DEF ItemsIn

LEMMA UndoStep ==
  ASSUME UInv, Undo
  PROVE  UInv'
<1> DEFINE f == Last(undo_stack)
<1>1. DocOK /\ IInv /\ ClockNotAhead /\ ManagerInv
  BY InvariantParts DEF UInv
<1>2. /\ f \in Frames /\ undo_stack # << >> /\ Front(undo_stack) \in Seq(Frames)
      /\ Len(Front(undo_stack)) = Len(undo_stack) - 1
  BY Popped, ManagerParts DEF Undo
<1>3. /\ undo_stack' = Front(undo_stack)
      /\ redo_stack' = IF Len(redo_stack) < MaxFrames THEN Append(redo_stack, f)
                       ELSE redo_stack
      /\ del' = [del EXCEPT ![Me] = @ \cup ItemsIn(f)]
      /\ ds' = [ds EXCEPT ![Me] = @ \cup ClocksIn(f)]
      /\ UNCHANGED << store, order, list, head, clock, job, msgs, sent >>
      /\ UNCHANGED << tracked, pre_clock >>
  BY DEF Undo
<1> HIDE DEF f
<1>4. IInv' /\ ClockNotAhead'
  <2>1. del' \in [Clients -> SUBSET Ids] /\ ds' \in [Clients -> SUBSET Ids]
    BY <1>1, <1>2, <1>3, FrameIds, MeAssumption DEF DocOK
  <2> QED
    BY <1>1, <1>3, <2>1, FlagsOnlyStep
<1>5. UNCHANGED Limit /\ WindowOK'
  BY <1>1, <1>3 DEF Limit, WindowOK, ManagerInv
<1>6. Append(redo_stack, f) \in Seq(Frames) /\ Len(Append(redo_stack, f)) = Len(redo_stack) + 1
  BY <1>2, ManagerParts, Pushed
<1>7. ManagerTypeOK'
  BY <1>1, <1>2, <1>3, <1>6 DEF ManagerInv, ManagerTypeOK
<1>8. FramesKept'
  <2>1. Len(undo_stack) + Len(redo_stack) <= MaxFrames
    BY <1>1 DEF ManagerInv, FramesKept
  <2>2. Len(undo_stack') = Len(undo_stack) - 1 /\ Len(redo_stack') <= Len(redo_stack) + 1
        /\ Len(redo_stack') \in Nat
    BY <1>2, <1>3, <1>6, ManagerParts
  <2> QED
    BY <2>1, <2>2, ManagerParts DEF FramesKept
<1>9. InOrder(undo_stack', redo_stack', Limit)
  BY <1>1, <1>2, <1>3, ManagerParts, UndoOrder DEF ManagerInv, f
<1>10. InOrder(undo_stack, redo_stack, Limit)'
  BY <1>5, <1>9
<1> QED
  BY <1>4, <1>5, <1>7, <1>8, <1>10 DEF UInv, ManagerInv

LEMMA RedoStep ==
  ASSUME UInv, Redo
  PROVE  UInv'
<1> DEFINE f == Last(redo_stack)
<1>1. DocOK /\ IInv /\ ClockNotAhead /\ ManagerInv
  BY InvariantParts DEF UInv
<1>2. /\ f \in Frames /\ redo_stack # << >> /\ Front(redo_stack) \in Seq(Frames)
      /\ Len(Front(redo_stack)) = Len(redo_stack) - 1
  BY Popped, ManagerParts DEF Redo
<1>3. /\ redo_stack' = Front(redo_stack)
      /\ undo_stack' = IF Len(undo_stack) < MaxFrames THEN Append(undo_stack, f)
                       ELSE undo_stack
      /\ del' = [del EXCEPT ![Me] = @ \ ItemsIn(f)]
      /\ UNCHANGED << store, order, ds, list, head, clock, job, msgs, sent >>
      /\ UNCHANGED << tracked, pre_clock >>
  BY DEF Redo
<1> HIDE DEF f
<1>4. IInv' /\ ClockNotAhead'
  <2>1. del' \in [Clients -> SUBSET Ids] /\ ds' \in [Clients -> SUBSET Ids]
    BY <1>1, <1>3, MeAssumption DEF DocOK
  <2> QED
    BY <1>1, <1>3, <2>1, FlagsOnlyStep
<1>5. UNCHANGED Limit /\ WindowOK'
  BY <1>1, <1>3 DEF Limit, WindowOK, ManagerInv
<1>6. Append(undo_stack, f) \in Seq(Frames) /\ Len(Append(undo_stack, f)) = Len(undo_stack) + 1
  BY <1>2, ManagerParts, Pushed
<1>7. ManagerTypeOK'
  BY <1>1, <1>2, <1>3, <1>6 DEF ManagerInv, ManagerTypeOK
<1>8. FramesKept'
  <2>1. Len(undo_stack) + Len(redo_stack) <= MaxFrames
    BY <1>1 DEF ManagerInv, FramesKept
  <2>2. Len(redo_stack') = Len(redo_stack) - 1 /\ Len(undo_stack') <= Len(undo_stack) + 1
        /\ Len(undo_stack') \in Nat
    BY <1>2, <1>3, <1>6, ManagerParts
  <2> QED
    BY <2>1, <2>2, ManagerParts DEF FramesKept
<1>9. InOrder(undo_stack', redo_stack', Limit)
  BY <1>1, <1>2, <1>3, ManagerParts, RedoOrder DEF ManagerInv, f
<1>10. InOrder(undo_stack, redo_stack, Limit)'
  BY <1>5, <1>9
<1> QED
  BY <1>4, <1>5, <1>7, <1>8, <1>10 DEF UInv, ManagerInv

LEMMA SameDocVars ==
  ASSUME IInv, ClockNotAhead, UNCHANGED vars
  PROVE  IInv' /\ ClockNotAhead' /\ UNCHANGED clock
BY NextInvariant, ClockNotAheadStep DEF vars, docVars

LEMMA CaptureBeginStep ==
  ASSUME UInv, NEW o \in Origins, CaptureBegin(o)
  PROVE  UInv'
<1>1. UNCHANGED vars /\ UNCHANGED << tracked, undo_stack, redo_stack >>
      /\ pre_clock = NotOpen /\ pre_clock' = clock[Me]
  BY DEF CaptureBegin, stackVars
<1>2. IInv' /\ ClockNotAhead' /\ UNCHANGED clock
  BY <1>1, SameDocVars DEF UInv
<1>3. clock[Me] \in Nat
  BY ManagerParts
<1>4. Limit' = clock[Me] /\ Limit = clock[Me] /\ WindowOK'
  BY <1>1, <1>2, <1>3 DEF Limit, WindowOK
<1>5. ManagerTypeOK' /\ FramesKept'
  BY <1>1, <1>3 DEF UInv, ManagerInv, ManagerTypeOK, FramesKept
<1>6. InOrder(undo_stack, redo_stack, Limit)'
  BY <1>1, <1>4 DEF UInv, ManagerInv
<1> QED
  BY <1>2, <1>4, <1>5, <1>6 DEF UInv, ManagerInv

LEMMA CaptureEndStep ==
  ASSUME UInv, CaptureEnd
  PROVE  UInv'
<1>1. UNCHANGED vars /\ UNCHANGED tracked /\ pre_clock # NotOpen /\ pre_clock' = NotOpen
  BY DEF CaptureEnd
<1>2. IInv' /\ ClockNotAhead' /\ UNCHANGED clock
  BY <1>1, SameDocVars DEF UInv
<1>3. /\ pre_clock \in Nat /\ clock[Me] \in Nat /\ pre_clock <= clock[Me]
      /\ Limit = pre_clock /\ Limit' = clock[Me] /\ WindowOK'
  BY <1>1, <1>2, ManagerParts DEF Limit, WindowOK
<1>4. CASE clock[Me] = pre_clock /\ UNCHANGED stackVars
  <2>1. UNCHANGED << undo_stack, redo_stack >> /\ Limit' = Limit
    BY <1>3, <1>4 DEF stackVars
  <2>2. ManagerTypeOK' /\ FramesKept'
    BY <1>1, <2>1 DEF UInv, ManagerInv, ManagerTypeOK, FramesKept
  <2>3. InOrder(undo_stack, redo_stack, Limit)'
    BY <2>1 DEF UInv, ManagerInv
  <2> QED
    BY <1>2, <1>3, <2>2, <2>3 DEF UInv, ManagerInv
<1>5. CASE clock[Me] # pre_clock
  <2> DEFINE f == [start |-> pre_clock, end |-> clock[Me]]
             u == IF Len(undo_stack) < MaxFrames THEN undo_stack ELSE Tail(undo_stack)
  <2>1. undo_stack' = Append(u, f) /\ redo_stack' = << >>
    BY <1>5 DEF CaptureEnd
  <2>2. f \in Frames /\ f.start = Limit /\ f.end = Limit'
    BY <1>3, <1>5 DEF Frames
  <2>3. u \in Seq(Frames) /\ Len(u) < MaxFrames /\ InOrder(u, redo_stack, Limit)
    <3>1. InOrder(undo_stack, redo_stack, Limit)
      BY DEF UInv, ManagerInv
    <3>2. CASE Len(undo_stack) < MaxFrames
      BY <3>1, <3>2, ManagerParts
    <3>3. CASE ~(Len(undo_stack) < MaxFrames)
      <4>1. Len(undo_stack) = MaxFrames /\ Len(undo_stack) # 0
        <5>1. Len(undo_stack) + Len(redo_stack) <= MaxFrames
          BY DEF UInv, ManagerInv, FramesKept
        <5> QED
          BY <3>3, <5>1, ManagerParts
      <4>2. undo_stack # << >>
        BY <4>1, EmptySeq
      <4> QED
        BY <3>1, <3>3, <4>1, <4>2, ManagerParts, OldestDropped
    <3> QED
      BY <3>2, <3>3
  <2> HIDE DEF f, u
  <2>4. Append(u, f) \in Seq(Frames) /\ Len(Append(u, f)) = Len(u) + 1
    BY <2>2, <2>3, Pushed
  <2>5. InOrder(Append(u, f), << >>, f.end)
    <3>1. Limit \in Nat /\ Limit <= f.start
      BY <1>3, <2>2
    <3> QED
      BY <2>2, <2>3, <3>1, CaptureOrder
  <2>6. InOrder(undo_stack, redo_stack, Limit)'
    BY <2>1, <2>2, <2>5
  <2>7. << >> \in Seq(Frames) /\ Len(<< >>) = 0
    BY EmptySeq
  <2>8. ManagerTypeOK'
    BY <1>1, <2>1, <2>4, <2>7 DEF UInv, ManagerInv, ManagerTypeOK
  <2>9. FramesKept'
    <3>1. Len(u) \in Nat /\ Len(undo_stack') = Len(u) + 1 /\ Len(redo_stack') = 0
      BY <2>1, <2>3, <2>4, <2>7, Entry
    <3> QED
      BY <2>3, <3>1, ManagerParts DEF FramesKept
  <2> QED
    BY <1>2, <1>3, <2>6, <2>8, <2>9 DEF UInv, ManagerInv
<1> QED
  BY <1>4, <1>5 DEF CaptureEnd

LEMMA TrackStep ==
  ASSUME UInv, NEW o \in Origins, Track(o)
  PROVE  UInv'
<1>1. UNCHANGED vars /\ UNCHANGED << undo_stack, redo_stack, pre_clock >>
      /\ tracked' = tracked \cup {o}
  BY DEF Track, stackVars
<1>2. IInv' /\ ClockNotAhead' /\ UNCHANGED clock
  BY <1>1, SameDocVars DEF UInv
<1>3. UNCHANGED Limit /\ WindowOK'
  BY <1>1, <1>2 DEF Limit, WindowOK, UInv, ManagerInv
<1>4. ManagerTypeOK' /\ FramesKept'
  BY <1>1 DEF UInv, ManagerInv, ManagerTypeOK, FramesKept
<1>5. InOrder(undo_stack, redo_stack, Limit)'
  BY <1>1, <1>3 DEF UInv, ManagerInv
<1> QED
  BY <1>2, <1>3, <1>4, <1>5 DEF UInv, ManagerInv

ManagedNext == ManagerNext \/ (Next /\ UNCHANGED managerVars)

LEMMA UndoInvariant == UInv /\ [ManagedNext]_allVars => UInv'
<1> SUFFICES ASSUME UInv, [ManagedNext]_allVars PROVE UInv'
  OBVIOUS
<1>1. CASE ManagerNext
  BY <1>1, TrackStep, CaptureBeginStep, CaptureEndStep, UndoStep, RedoStep DEF ManagerNext
<1>2. CASE Next /\ UNCHANGED managerVars
  BY <1>2, DocStep
<1>3. CASE UNCHANGED allVars
  BY <1>3, DocStep DEF allVars
<1> QED
  BY <1>1, <1>2, <1>3 DEF ManagedNext

LEMMA UndoStarts == Init /\ ManagerInit => UInv
<1> SUFFICES ASSUME Init, ManagerInit PROVE UInv
  OBVIOUS
<1>1. IInv /\ ClockNotAhead
  BY InitInvariant, InitClock
<1>2. clock[Me] = 0
  BY MeAssumption DEF Init
<1>3. undo_stack = << >> /\ redo_stack = << >> /\ tracked = {} /\ pre_clock = NotOpen
  BY DEF ManagerInit
<1>4. Limit = 0 /\ WindowOK
  BY <1>2, <1>3 DEF Limit, WindowOK
<1>5. ManagerTypeOK
  BY <1>3, EmptySeq DEF ManagerTypeOK
<1>6. FramesKept
  <2>1. Len(undo_stack) = 0 /\ Len(redo_stack) = 0
    BY <1>3
  <2> QED
    BY <2>1, MaxFramesAssumption DEF FramesKept
<1>7. InOrder(undo_stack, redo_stack, Limit)
  <2>1. DOMAIN undo_stack = {} /\ DOMAIN redo_stack = {}
    BY <1>3
  <2> QED
    BY <2>1 DEF InOrder
<1> QED
  BY <1>1, <1>4, <1>5, <1>6, <1>7 DEF UInv, ManagerInv

-----------------------------------------------------------------------------

\* The inductive invariant: types, an open window that starts no later than
\* the clock, and both stacks in order below the limit.
THEOREM ManagerInvariance == ManagedSpec => []UInv
BY UndoStarts, UndoInvariant, PTL DEF ManagedSpec, ManagedNext

\* Undo and redo never meet a full stack, so no frame is lost between them
\* (undo, redo, capture_end).
THEOREM NoFrameIsLost == ManagedSpec => []FramesKept
<1>1. UInv => FramesKept
  BY DEF UInv, ManagerInv
<1> QED
  BY ManagerInvariance, <1>1, PTL

\* Frames never overlap and lie within the clocks Me has used, whatever
\* arrives from other documents in between: undoing one frame never touches
\* the items of another (capture_end, undo, redo).
THEOREM FramesNeverOverlap == ManagedSpec => []FramesInOrder
<1>1. ASSUME UInv PROVE FramesInOrder
  <2> DEFINE frames == undo_stack \o Reverse(redo_stack)
             n == IF pre_clock = NotOpen THEN State(store[Me], Me) ELSE pre_clock
  <2>1. InOrder(undo_stack, redo_stack, n)
    <3>1. State(store[Me], Me) \in Nat /\ clock[Me] <= State(store[Me], Me)
      BY <1>1, MeAssumption, StateNat, InvariantParts DEF UInv, ClockNotAhead
    <3>2. Limit \in Nat /\ n \in Nat /\ Limit <= n
      BY <1>1, <3>1, ManagerParts DEF Limit
    <3>3. \A i \in DOMAIN undo_stack : undo_stack[i].end \in Nat /\ undo_stack[i].end <= Limit
      BY <1>1, ManagerParts, Entry, FrameParts DEF UInv, ManagerInv, InOrder
    <3>4. \A i \in DOMAIN redo_stack : redo_stack[i].end \in Nat /\ redo_stack[i].end <= Limit
      BY <1>1, ManagerParts, Entry, FrameParts DEF UInv, ManagerInv, InOrder
    <3> HIDE DEF n
    <3>5. /\ \A i \in DOMAIN undo_stack : undo_stack[i].end <= n
          /\ \A i \in DOMAIN redo_stack : redo_stack[i].end <= n
      BY <3>2, <3>3, <3>4
    <3> QED
      BY <1>1, <3>5 DEF UInv, ManagerInv, InOrder
  <2>2. undo_stack \in Seq(Frames) /\ redo_stack \in Seq(Frames)
    BY <1>1, ManagerParts
  <2> HIDE DEF n
  <2>3. /\ \A i, j \in DOMAIN frames : i < j => frames[i].end <= frames[j].start
        /\ \A i \in DOMAIN frames :
             frames[i].start < frames[i].end /\ frames[i].end <= n
    BY <2>1, <2>2, ReadAsOne
  <2> QED
    BY <2>3 DEF FramesInOrder, n
<1> QED
  BY ManagerInvariance, <1>1, PTL

\* Undo and redo leave the history of every document intact: with a manager
\* at work the stores still are gapless prefixes of what each client
\* emitted, with every origin in place (mark_range_flag changes flags only).
THEOREM UndoKeepsHistories ==
  ManagedSpec => [](TypeOK /\ Dense /\ SameHistory /\ OriginsStored)
<1>1. UInv => TypeOK /\ Dense /\ SameHistory /\ OriginsStored
  BY DEF UInv, IInv
<1> QED
  BY ManagerInvariance, <1>1, PTL
=============================================================================
