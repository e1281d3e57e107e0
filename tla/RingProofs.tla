------------------------------ MODULE RingProofs ------------------------------
(***************************************************************************)
(* Theorems about the ring (SpscRing), for every capacity and every width  *)
(* of the counters: the two threads never meet at a slot, and the ring     *)
(* implements the bounded first-in first-out queue.                        *)
(***************************************************************************)
EXTENDS SpscRing, Integers, TLAPS

\* The sizes, without the nonlinear part of the assumption.
LEMMA Sizes ==
  /\ Capacity \in Nat /\ Capacity >= 2
  /\ Width \in Nat /\ Width > Capacity
BY CapacityAssumption, WidthAssumption

-----------------------------------------------------------------------------
(* Arithmetic modulo the width of the counters and modulo the capacity     *)

\* A quotient and a remainder below the modulus determine each other.
LEMMA Quotient ==
  ASSUME NEW m \in Nat, m > 0, NEW x \in Nat
  PROVE  /\ x % m \in 0 .. (m - 1)
         /\ \E q \in Nat : x = q * m + (x % m)
<1>1. x % m \in 0 .. (m - 1) /\ x = m * (x \div m) + (x % m)
  BY SMT
<1>2. x \div m \in Nat
  BY SMT
<1>3. m * (x \div m) = (x \div m) * m
  BY <1>2
<1> QED BY <1>1, <1>2, <1>3

LEMMA Remainder ==
  ASSUME NEW m \in Nat, m > 0, NEW q \in Nat, NEW r \in 0 .. (m - 1)
  PROVE  (q * m + r) % m = r
BY SMT

\* Below twice the modulus the remainder is a matter of one subtraction.
LEMMA SmallRemainder ==
  ASSUME NEW m \in Nat, m > 0, NEW x \in Nat, x < m + m
  PROVE  x % m = IF x < m THEN x ELSE x - m
<1>1. CASE x < m
  <2>1. (0 * m + x) % m = x
    BY <1>1, Remainder
  <2> QED BY <1>1, <2>1
<1>2. CASE x >= m
  <2>1. (1 * m + (x - m)) % m = x - m
    BY <1>2, Remainder
  <2> QED BY <1>2, <2>1
<1> QED BY <1>1, <1>2

\* What the counters' operators are on counters.
LEMMA AheadIs ==
  ASSUME NEW a \in Counters, NEW b \in Counters
  PROVE  Ahead(a, b) = IF a <= b THEN b - a ELSE b + Width - a
<1>1. PICK x \in Nat : x = b + Width - a /\ x < Width + Width
  BY Sizes DEF Counters
<1>2. x % Width = IF x < Width THEN x ELSE x - Width
  BY <1>1, Sizes, SmallRemainder
<1>3. Ahead(a, b) = x % Width
  BY <1>1 DEF Ahead
<1> HIDE DEF Ahead
<1> QED BY <1>1, <1>2, <1>3, Sizes DEF Counters

LEMMA FollowingIs ==
  ASSUME NEW a \in Counters
  PROVE  /\ Following(a) = IF a + 1 = Width THEN 0 ELSE a + 1
         /\ Following(a) \in Counters
<1>1. PICK x \in Nat : x = a + 1 /\ x <= Width
  BY Sizes DEF Counters
<1>2. x % Width = IF x < Width THEN x ELSE x - Width
  BY <1>1, Sizes, SmallRemainder
<1>3. Following(a) = x % Width
  BY <1>1 DEF Following
<1> QED BY <1>1, <1>2, <1>3, Sizes DEF Counters

LEMMA VisibleIs ==
  ASSUME NEW last \in Counters, NEW now \in Counters, NEW t \in Visible(last, now)
  PROVE  /\ t \in Counters
         /\ Ahead(last, t) <= Ahead(last, now)
<1>1. PICK k \in 0 .. Ahead(last, now) : t = (last + k) % Width
  BY DEF Visible
<1>2. Ahead(last, now) \in 0 .. (Width - 1)
  BY AheadIs, Sizes DEF Counters
<1>3. k \in 0 .. (Width - 1) /\ k <= Ahead(last, now)
  BY <1>1, <1>2, Sizes
<1>4. PICK x \in Nat : x = last + k /\ x < Width + Width
  BY <1>3, Sizes DEF Counters
<1>5. x % Width = IF x < Width THEN x ELSE x - Width
  BY <1>4, Sizes, SmallRemainder
<1>6. t = x % Width
  BY <1>1, <1>4
<1>7. t \in Counters
  BY <1>3, <1>4, <1>5, <1>6, Sizes DEF Counters
<1>8. t = IF last + k < Width THEN last + k ELSE last + k - Width
  BY <1>4, <1>5, <1>6, Sizes DEF Counters
<1>9. Ahead(last, t) = k
  BY <1>3, <1>7, <1>8, AheadIs, Sizes DEF Counters
<1> QED BY <1>3, <1>7, <1>9

\* Slots repeat after Capacity, and with the counters after Width.
LEMMA SlotType ==
  ASSUME NEW n \in Nat
  PROVE  Slot(n) \in 0 .. (Capacity - 1)
BY Sizes, Quotient DEF Slot

LEMMA SlotQuotient ==
  ASSUME NEW n \in Nat
  PROVE  \E q \in Nat : n = q * Capacity + Slot(n)
<1>1. Capacity \in Nat /\ Capacity > 0
  BY Sizes
<1>2. \E q \in Nat : n = q * Capacity + (n % Capacity)
  BY <1>1, Quotient
<1> QED BY <1>2 DEF Slot

LEMMA SlotsDiffer ==
  ASSUME NEW a \in Nat, NEW b \in Nat, a < b, b - a < Capacity
  PROVE  Slot(a) # Slot(b)
<1> SUFFICES ASSUME Slot(a) = Slot(b) PROVE FALSE
  OBVIOUS
<1>1. PICK p \in Nat : a = p * Capacity + Slot(a)
  BY SlotQuotient
<1>2. PICK q \in Nat : b = q * Capacity + Slot(b)
  BY SlotQuotient
<1>3. Slot(a) \in Nat
  BY SlotType, Sizes
<1>4. q * Capacity \in Nat /\ p * Capacity \in Nat
  BY Sizes
<1>5. b - a = q * Capacity - p * Capacity
  BY <1>1, <1>2, <1>3, <1>4
<1>6. (q - p) * Capacity = q * Capacity - p * Capacity
  BY Sizes
<1>7. (q - p) * Capacity > 0 /\ (q - p) * Capacity < Capacity
  BY <1>5, <1>6, <1>4, Sizes
<1>8. CASE q - p >= 1
  <2>1. (q - p) * Capacity >= Capacity
    BY <1>8, Sizes
  <2> QED BY <1>7, <2>1, Sizes
<1>9. CASE q - p <= 0
  <2>1. (q - p) * Capacity <= 0
    BY <1>9, Sizes
  <2> QED BY <1>7, <2>1, Sizes
<1> QED BY <1>8, <1>9

LEMMA SlotWraps ==
  ASSUME NEW n \in Nat
  PROVE  Slot(n + Width) = Slot(n)
<1> Capacity \in Nat /\ Width \in Nat /\ Capacity > 0
  BY Sizes
<1>1. PICK p \in Nat : n = p * Capacity + Slot(n)
  BY SlotQuotient
<1>2. PICK q \in Nat : Width = q * Capacity
  <2>1. PICK q \in Nat : Width = q * Capacity + (Width % Capacity)
    BY Quotient, Sizes
  <2>2. Width = q * Capacity
    BY <2>1, WidthAssumption
  <2> QED BY <2>2
<1>3. Slot(n) \in 0 .. (Capacity - 1)
  BY SlotType
<1>4. (p + q) * Capacity = p * Capacity + q * Capacity
  OBVIOUS
<1>5. p * Capacity \in Nat /\ q * Capacity \in Nat /\ p + q \in Nat
  OBVIOUS
<1>6. n + Width = (p + q) * Capacity + Slot(n)
  BY <1>1, <1>2, <1>3, <1>4, <1>5
<1>7. PICK z \in Nat : z = p + q
  OBVIOUS
<1>8. (z * Capacity + Slot(n)) % Capacity = Slot(n)
  BY <1>3, Remainder
<1> QED BY <1>6, <1>7, <1>8 DEF Slot

LEMMA SlotRepeats ==
  ASSUME NEW n \in Nat
  PROVE  Slot(n + Capacity) = Slot(n)
<1> Capacity \in Nat /\ Capacity > 0
  BY Sizes
<1>1. PICK p \in Nat : n = p * Capacity + Slot(n)
  BY SlotQuotient
<1>2. Slot(n) \in 0 .. (Capacity - 1)
  BY SlotType
<1>3. PICK z \in Nat : z = p + 1
  OBVIOUS
<1>4. z * Capacity = p * Capacity + Capacity
  BY <1>3
<1>5. n + Capacity = z * Capacity + Slot(n)
  BY <1>1, <1>2, <1>4
<1>6. (z * Capacity + Slot(n)) % Capacity = Slot(n)
  BY <1>2, Remainder
<1> QED BY <1>5, <1>6 DEF Slot

-----------------------------------------------------------------------------
(* What the distance of two counters says about their slots                *)

\* The test of try_push: with one slot free the ring is full.
LEMMA FullIs ==
  ASSUME NEW t \in Counters, NEW h \in Counters, Ahead(t, h) = Capacity - 1
  PROVE  Full(h, t)
<1>1. h + 1 = t + Capacity \/ (h + 1) + Width = t + Capacity
  BY AheadIs, Sizes DEF Counters
<1>2. h + 1 \in Nat /\ t \in Nat
  BY Sizes DEF Counters
<1> QED BY <1>1, <1>2, SlotRepeats, SlotWraps DEF Full

\* The i-th slot from a counter on is the slot of the counter i further on.
LEMMA SlotAhead ==
  ASSUME NEW a \in Counters, NEW b \in Counters
  PROVE  Slot(b) = Slot(a + Ahead(a, b))
<1>1. a + Ahead(a, b) = b \/ a + Ahead(a, b) = b + Width
  BY AheadIs, Sizes DEF Counters
<1>2. b \in Nat
  BY Sizes DEF Counters
<1> QED BY <1>1, <1>2, SlotWraps

LEMMA SlotFollowing ==
  ASSUME NEW a \in Counters, NEW i \in Nat
  PROVE  Slot(Following(a) + i) = Slot(a + 1 + i)
<1>1. a \in Nat /\ Width \in Nat
  BY Sizes DEF Counters
<1>2. \/ Following(a) + i = a + 1 + i
      \/ (Following(a) + i) + Width = a + 1 + i /\ Following(a) + i \in Nat
  BY <1>1, FollowingIs
<1> QED BY <1>2, SlotWraps

-----------------------------------------------------------------------------
(* The invariant                                                           *)

\* Each thread's view of the other's counter lies on the side of caution:
\* the tail the producer saw is not ahead of the tail, the head the consumer
\* saw is not ahead of the head; while a call is under way the slot it is
\* about was free, or filled, when the counters were read.
ProducerCautious ==
  /\ Ahead(producer.seen, tail) <= Ahead(producer.seen, head)
  /\ Ahead(producer.seen, head) <= Capacity - 1
  /\ producer.at # "idle" => /\ Ahead(producer.seen, head) < Capacity - 1
                             /\ producer.v \in Values

ConsumerCautious ==
  /\ Ahead(tail, consumer.seen) <= Ahead(tail, head)
  /\ consumer.at # "idle" => consumer.seen # tail

\* What a thread has in its hands between its access to the slot and its
\* store to the counter is what the slot holds.
Carried ==
  /\ producer.at = "publish" => slots[Slot(head)] = producer.v
  /\ consumer.at = "release" => slots[Slot(tail)] = consumer.v

IInv == TypeOK /\ ProducerCautious /\ ConsumerCautious /\ Carried

-----------------------------------------------------------------------------
(* Counters around the circle                                              *)

LEMMA AheadType ==
  ASSUME NEW a \in Counters, NEW b \in Counters
  PROVE  /\ Ahead(a, b) \in Nat
         /\ Ahead(a, b) = 0 <=> a = b
BY AheadIs, Sizes DEF Counters

\* From a past b to c: what t, between a and b, sees of the two.
LEMMA Nearer ==
  ASSUME NEW a \in Counters, NEW t \in Counters,
         NEW b \in Counters, NEW c \in Counters,
         Ahead(a, t) <= Ahead(a, b), Ahead(a, b) <= Ahead(a, c)
  PROVE  /\ Ahead(t, b) <= Ahead(t, c)
         /\ Ahead(t, c) <= Ahead(a, c)
BY AheadIs, Sizes DEF Counters

LEMMA Farther ==
  ASSUME NEW a \in Counters, NEW b \in Counters,
         NEW t \in Counters, NEW c \in Counters,
         Ahead(a, b) <= Ahead(a, c), Ahead(b, t) <= Ahead(b, c)
  PROVE  Ahead(a, t) <= Ahead(a, c)
BY AheadIs, Sizes DEF Counters

\* One more at the far end, one less at the near end.
LEMMA FartherByOne ==
  ASSUME NEW a \in Counters, NEW b \in Counters, Ahead(a, b) < Width - 1
  PROVE  Ahead(a, Following(b)) = Ahead(a, b) + 1
<1>1. PICK n \in Counters : /\ n = Following(b)
                            /\ n = IF b + 1 = Width THEN 0 ELSE b + 1
  BY FollowingIs
<1>2. Ahead(a, n) = IF a <= n THEN n - a ELSE n + Width - a
  BY AheadIs
<1>3. Ahead(a, b) = IF a <= b THEN b - a ELSE b + Width - a
  BY AheadIs
<1> QED BY <1>1, <1>2, <1>3, Sizes DEF Counters

LEMMA NearerByOne ==
  ASSUME NEW a \in Counters, NEW b \in Counters, a # b
  PROVE  Ahead(Following(a), b) = Ahead(a, b) - 1
<1>1. PICK n \in Counters : /\ n = Following(a)
                            /\ n = IF a + 1 = Width THEN 0 ELSE a + 1
  BY FollowingIs
<1>2. Ahead(n, b) = IF n <= b THEN b - n ELSE b + Width - n
  BY AheadIs
<1>3. Ahead(a, b) = IF a <= b THEN b - a ELSE b + Width - a
  BY AheadIs
<1> QED BY <1>1, <1>2, <1>3, Sizes DEF Counters

LEMMA Between ==
  ASSUME NEW a \in Counters, NEW b \in Counters, NEW c \in Counters,
         Ahead(a, b) <= Ahead(a, c)
  PROVE  Ahead(a, c) = Ahead(a, b) + Ahead(b, c)
BY AheadIs, Sizes DEF Counters

LEMMA SlotsApart ==
  ASSUME NEW a \in Counters, NEW b \in Counters, a # b, Ahead(a, b) < Capacity
  PROVE  Slot(a) # Slot(b)
<1>1. /\ a \in Nat /\ Ahead(a, b) \in Nat /\ Ahead(a, b) > 0
      /\ a + Ahead(a, b) \in Nat /\ a < a + Ahead(a, b)
      /\ (a + Ahead(a, b)) - a < Capacity
  BY AheadType, Sizes DEF Counters
<1>2. Slot(a) # Slot(a + Ahead(a, b))
  BY <1>1, SlotsDiffer
<1> QED BY <1>2, SlotAhead

-----------------------------------------------------------------------------
(* Every step keeps the invariant                                          *)

LEMMA InvariantInit == Init => IInv
<1> SUFFICES ASSUME Init PROVE IInv
  OBVIOUS
<1>1. 0 \in Counters
  BY Sizes DEF Counters
<1>2. Ahead(0, 0) = 0
  BY <1>1, AheadType
<1>3. TypeOK
  BY <1>1, Sizes DEF Init, TypeOK
<1> QED BY <1>2, <1>3, Sizes
  DEF Init, IInv, ProducerCautious, ConsumerCautious, Carried

\* What the invariant says of the distance from the tail to the head.
LEMMA Filled ==
  ASSUME IInv
  PROVE  /\ Ahead(tail, head) <= Capacity - 1
         /\ producer.at # "idle" => Ahead(tail, head) < Capacity - 1
         /\ consumer.at # "idle" => tail # head
<1>1. /\ producer.seen \in Counters /\ consumer.seen \in Counters
      /\ head \in Counters /\ tail \in Counters
  BY DEF IInv, TypeOK
<1>2. Ahead(tail, head) <= Ahead(producer.seen, head)
  BY <1>1, Between, AheadType DEF IInv, ProducerCautious
<1>3. ASSUME consumer.at # "idle" PROVE tail # head
  <2>1. Ahead(tail, consumer.seen) > 0
    BY <1>1, <1>3, AheadType DEF IInv, ConsumerCautious
  <2> QED BY <1>1, <2>1, AheadType DEF IInv, ConsumerCautious
<1> QED BY <1>1, <1>2, <1>3, AheadType, Sizes DEF IInv, ProducerCautious

\* The loads of try_push: a newer tail is nearer to the head.
LEMMA ProducerLoads ==
  ASSUME IInv, NEW t \in Visible(producer.seen, tail)
  PROVE  /\ t \in Counters
         /\ Ahead(t, tail) <= Ahead(t, head)
         /\ Ahead(t, head) <= Capacity - 1
         /\ ~ Full(head, t) => Ahead(t, head) < Capacity - 1
<1>1. /\ producer.seen \in Counters /\ head \in Counters /\ tail \in Counters
  BY DEF IInv, TypeOK
<1>2. t \in Counters /\ Ahead(producer.seen, t) <= Ahead(producer.seen, tail)
  BY <1>1, VisibleIs
<1>3. /\ Ahead(t, tail) <= Ahead(t, head)
      /\ Ahead(t, head) <= Ahead(producer.seen, head)
  BY <1>1, <1>2, Nearer DEF IInv, ProducerCautious
<1>4. Ahead(t, head) \in Nat /\ Ahead(producer.seen, head) \in Nat
  BY <1>1, <1>2, AheadType
<1>5. Ahead(t, head) <= Capacity - 1
  BY <1>3, <1>4, Sizes DEF IInv, ProducerCautious
<1>6. ~ Full(head, t) => Ahead(t, head) # Capacity - 1
  BY <1>1, <1>2, FullIs
<1> QED BY <1>2, <1>3, <1>4, <1>5, <1>6, Sizes

\* The loads of try_pop: a newer head is not past the head.
LEMMA ConsumerLoads ==
  ASSUME IInv, NEW h \in Visible(consumer.seen, head)
  PROVE  /\ h \in Counters
         /\ Ahead(tail, h) <= Ahead(tail, head)
<1>1. /\ consumer.seen \in Counters /\ head \in Counters /\ tail \in Counters
  BY DEF IInv, TypeOK
<1>2. h \in Counters /\ Ahead(consumer.seen, h) <= Ahead(consumer.seen, head)
  BY <1>1, VisibleIs
<1> QED BY <1>1, <1>2, Farther DEF IInv, ConsumerCautious

LEMMA PushBeginsOK ==
  ASSUME IInv, NEW v \in Values, NEW t \in Counters, PushBegins(v, t)
  PROVE  IInv'
<1>1. /\ t \in Visible(producer.seen, tail) /\ ~ Full(head, t)
      /\ producer' = [at |-> "write", v |-> v, seen |-> t]
      /\ UNCHANGED << slots, head, tail, consumer, taken >>
  BY DEF PushBegins
<1>2. /\ t \in Counters /\ Ahead(t, tail) <= Ahead(t, head)
      /\ Ahead(t, head) <= Capacity - 1 /\ Ahead(t, head) < Capacity - 1
  BY <1>1, ProducerLoads
<1>3. TypeOK'
  BY <1>1, <1>2 DEF IInv, TypeOK
<1>4. ProducerCautious'
  BY <1>1, <1>2 DEF ProducerCautious
<1>5. ConsumerCautious' /\ Carried'
  BY <1>1 DEF IInv, ConsumerCautious, Carried
<1> QED BY <1>3, <1>4, <1>5 DEF IInv

LEMMA PushFailsOK ==
  ASSUME IInv, NEW t \in Counters, PushFails(t)
  PROVE  IInv'
<1>1. /\ t \in Visible(producer.seen, tail) /\ producer.at = "idle"
      /\ producer' = [producer EXCEPT !.seen = t]
      /\ UNCHANGED << slots, head, tail, consumer, taken >>
  BY DEF PushFails
<1>2. /\ t \in Counters /\ Ahead(t, tail) <= Ahead(t, head)
      /\ Ahead(t, head) <= Capacity - 1
  BY <1>1, ProducerLoads
<1>3. producer'.at = "idle" /\ producer'.seen = t /\ TypeOK'
  BY <1>1, <1>2 DEF IInv, TypeOK
<1>4. ProducerCautious' /\ ConsumerCautious' /\ Carried'
  BY <1>1, <1>2, <1>3 DEF IInv, ProducerCautious, ConsumerCautious, Carried
<1> QED BY <1>3, <1>4 DEF IInv

LEMMA WriteSlotOK ==
  ASSUME IInv, WriteSlot
  PROVE  IInv'
<1>1. /\ producer.at = "write"
      /\ slots' = [slots EXCEPT ![Slot(head)] = producer.v]
      /\ producer' = [producer EXCEPT !.at = "publish"]
      /\ UNCHANGED << head, tail, consumer, taken >>
  BY DEF WriteSlot
<1>2. /\ head \in Counters /\ tail \in Counters /\ head \in Nat /\ tail \in Nat
      /\ slots \in [0 .. (Capacity - 1) -> Values \cup {Nothing}]
      /\ producer.v \in Values
  BY <1>1, Sizes DEF IInv, TypeOK, ProducerCautious, Counters
<1>3. Slot(head) \in 0 .. (Capacity - 1) /\ Slot(tail) \in 0 .. (Capacity - 1)
  BY <1>2, SlotType
<1>4. /\ producer'.at = "publish" /\ producer'.v = producer.v
      /\ producer'.seen = producer.seen
  BY <1>1 DEF IInv, TypeOK
<1>5. TypeOK'
  BY <1>1, <1>2, <1>3 DEF IInv, TypeOK
<1>6. ProducerCautious' /\ ConsumerCautious'
  BY <1>1, <1>4 DEF IInv, ProducerCautious, ConsumerCautious
<1>7. slots'[Slot(head)] = producer.v
  BY <1>1, <1>2, <1>3
<1>8. ASSUME consumer.at = "release" PROVE slots'[Slot(tail)] = slots[Slot(tail)]
  <2>1. tail # head /\ Ahead(tail, head) < Capacity
    BY <1>1, <1>2, <1>8, Filled, AheadType, Sizes
  <2>2. Slot(tail) # Slot(head)
    BY <1>2, <2>1, SlotsApart
  <2> QED BY <1>1, <1>2, <1>3, <2>2
<1>9. Carried'
  BY <1>1, <1>4, <1>7, <1>8 DEF IInv, Carried
<1> QED BY <1>5, <1>6, <1>9 DEF IInv

LEMMA PublishHeadOK ==
  ASSUME IInv, PublishHead
  PROVE  IInv' /\ Ahead(tail', head') = Ahead(tail, head) + 1
<1>1. /\ producer.at = "publish" /\ head' = Following(head)
      /\ producer' = [producer EXCEPT !.at = "idle", !.v = Nothing]
      /\ UNCHANGED << slots, tail, consumer, taken >>
  BY DEF PublishHead
<1>2. /\ producer.seen \in Counters /\ consumer.seen \in Counters
      /\ head \in Counters /\ tail \in Counters
  BY DEF IInv, TypeOK
<1>3. /\ producer'.at = "idle" /\ producer'.seen = producer.seen
      /\ head' \in Counters
  BY <1>1, <1>2, FollowingIs DEF IInv, TypeOK
<1>4. TypeOK'
  BY <1>1, <1>3 DEF IInv, TypeOK
<1>5. /\ Ahead(tail, head) \in Nat /\ Ahead(producer.seen, head) \in Nat
      /\ Ahead(producer.seen, tail) \in Nat /\ Ahead(tail, consumer.seen) \in Nat
  BY <1>2, AheadType
<1>6. Ahead(tail, head) < Width - 1 /\ Ahead(producer.seen, head) < Width - 1
  BY <1>1, <1>5, Filled, Sizes DEF IInv, ProducerCautious
<1>7. /\ Ahead(tail, head') = Ahead(tail, head) + 1
      /\ Ahead(producer.seen, head') = Ahead(producer.seen, head) + 1
  BY <1>1, <1>2, <1>6, FartherByOne
<1>8. ProducerCautious'
  BY <1>1, <1>3, <1>5, <1>7, Sizes DEF IInv, ProducerCautious
<1>9. ConsumerCautious'
  BY <1>1, <1>5, <1>7 DEF IInv, ConsumerCautious
<1>10. Carried'
  BY <1>1, <1>3 DEF IInv, Carried
<1> QED BY <1>1, <1>4, <1>7, <1>8, <1>9, <1>10 DEF IInv

LEMMA PopBeginsOK ==
  ASSUME IInv, NEW h \in Counters, PopBegins(h)
  PROVE  IInv'
<1>1. /\ h \in Visible(consumer.seen, head) /\ ~ Empty(tail, h)
      /\ consumer' = [consumer EXCEPT !.at = "read", !.seen = h]
      /\ UNCHANGED << slots, head, tail, producer, taken >>
  BY DEF PopBegins
<1>2. h # tail /\ Ahead(tail, h) <= Ahead(tail, head)
  BY <1>1, ConsumerLoads DEF Empty
<1>3. consumer'.at = "read" /\ consumer'.seen = h /\ TypeOK'
  BY <1>1 DEF IInv, TypeOK
<1>4. ProducerCautious' /\ ConsumerCautious' /\ Carried'
  BY <1>1, <1>2, <1>3 DEF IInv, ProducerCautious, ConsumerCautious, Carried
<1> QED BY <1>3, <1>4 DEF IInv

LEMMA PopFailsOK ==
  ASSUME IInv, NEW h \in Counters, PopFails(h)
  PROVE  IInv'
<1>1. /\ h \in Visible(consumer.seen, head) /\ consumer.at = "idle"
      /\ consumer' = [consumer EXCEPT !.seen = h]
      /\ UNCHANGED << slots, head, tail, producer, taken >>
  BY DEF PopFails
<1>2. Ahead(tail, h) <= Ahead(tail, head)
  BY <1>1, ConsumerLoads
<1>3. consumer'.at = "idle" /\ consumer'.seen = h /\ TypeOK'
  BY <1>1 DEF IInv, TypeOK
<1>4. ProducerCautious' /\ ConsumerCautious' /\ Carried'
  BY <1>1, <1>2, <1>3 DEF IInv, ProducerCautious, ConsumerCautious, Carried
<1> QED BY <1>3, <1>4 DEF IInv

LEMMA ReadSlotOK ==
  ASSUME IInv, ReadSlot
  PROVE  IInv'
<1>1. /\ consumer.at = "read"
      /\ consumer' = [consumer EXCEPT !.at = "release", !.v = slots[Slot(tail)]]
      /\ UNCHANGED << slots, head, tail, producer, taken >>
  BY DEF ReadSlot
<1>2. tail \in Nat /\ slots \in [0 .. (Capacity - 1) -> Values \cup {Nothing}]
  BY Sizes DEF IInv, TypeOK, Counters
<1>3. Slot(tail) \in 0 .. (Capacity - 1)
  BY <1>2, SlotType
<1>4. slots[Slot(tail)] \in Values \cup {Nothing}
  BY <1>2, <1>3
<1>5. /\ consumer'.at = "release" /\ consumer'.seen = consumer.seen
      /\ consumer'.v = slots[Slot(tail)]
  BY <1>1 DEF IInv, TypeOK
<1>6. TypeOK'
  BY <1>1, <1>4 DEF IInv, TypeOK
<1>7. ProducerCautious' /\ ConsumerCautious' /\ Carried'
  BY <1>1, <1>5 DEF IInv, ProducerCautious, ConsumerCautious, Carried
<1> QED BY <1>6, <1>7 DEF IInv

LEMMA ReleaseTailOK ==
  ASSUME IInv, ReleaseTail
  PROVE  IInv' /\ Ahead(tail', head') = Ahead(tail, head) - 1
<1>1. /\ consumer.at = "release" /\ tail' = Following(tail) /\ taken' = consumer.v
      /\ consumer' = [consumer EXCEPT !.at = "idle", !.v = Nothing]
      /\ UNCHANGED << slots, head, producer >>
  BY DEF ReleaseTail
<1>2. /\ producer.seen \in Counters /\ consumer.seen \in Counters
      /\ head \in Counters /\ tail \in Counters
  BY DEF IInv, TypeOK
<1>3. /\ consumer'.at = "idle" /\ consumer'.seen = consumer.seen
      /\ tail' \in Counters
  BY <1>1, <1>2, FollowingIs DEF IInv, TypeOK
<1>4. TypeOK'
  BY <1>1, <1>3 DEF IInv, TypeOK
<1>5. tail # head /\ tail # consumer.seen
  BY <1>1, Filled DEF IInv, ConsumerCautious
<1>6. /\ Ahead(tail', head) = Ahead(tail, head) - 1
      /\ Ahead(tail', consumer.seen) = Ahead(tail, consumer.seen) - 1
  BY <1>1, <1>2, <1>5, NearerByOne
<1>7. /\ Ahead(tail, head) \in Nat /\ Ahead(tail, head) > 0
      /\ Ahead(producer.seen, tail) \in Nat /\ Ahead(producer.seen, head) \in Nat
      /\ Ahead(tail, consumer.seen) \in Nat
  BY <1>2, <1>5, AheadType
<1>8. Ahead(producer.seen, tail) < Ahead(producer.seen, head)
  BY <1>2, <1>7, Between DEF IInv, ProducerCautious
<1>9. Ahead(producer.seen, tail') = Ahead(producer.seen, tail) + 1
  <2>1. Ahead(producer.seen, tail) < Width - 1
    BY <1>7, <1>8, Sizes DEF IInv, ProducerCautious
  <2> QED BY <1>1, <1>2, <2>1, FartherByOne
<1>10. ProducerCautious'
  BY <1>1, <1>7, <1>8, <1>9 DEF IInv, ProducerCautious
<1>11. ConsumerCautious'
  BY <1>1, <1>3, <1>6, <1>7 DEF IInv, ConsumerCautious
<1>12. Carried'
  BY <1>1, <1>3 DEF IInv, Carried
<1> QED BY <1>1, <1>4, <1>6, <1>10, <1>11, <1>12 DEF IInv

LEMMA InvariantNext == IInv /\ [Next]_vars => IInv'
<1> SUFFICES ASSUME IInv, [Next]_vars PROVE IInv'
  OBVIOUS
<1>1. ASSUME NEW t \in Counters, PushFails(t) PROVE IInv'
  BY <1>1, PushFailsOK
<1>2. ASSUME NEW t \in Counters, NEW v \in Values, PushBegins(v, t) PROVE IInv'
  BY <1>2, PushBeginsOK
<1>3. CASE WriteSlot
  BY <1>3, WriteSlotOK
<1>4. CASE PublishHead
  BY <1>4, PublishHeadOK
<1>5. ASSUME NEW h \in Counters, PopFails(h) PROVE IInv'
  BY <1>5, PopFailsOK
<1>6. ASSUME NEW h \in Counters, PopBegins(h) PROVE IInv'
  BY <1>6, PopBeginsOK
<1>7. CASE ReadSlot
  BY <1>7, ReadSlotOK
<1>8. CASE ReleaseTail
  BY <1>8, ReleaseTailOK
<1>9. CASE UNCHANGED vars
  BY <1>9 DEF vars, IInv, TypeOK, ProducerCautious, ConsumerCautious, Carried
<1> QED BY <1>1, <1>2, <1>3, <1>4, <1>5, <1>6, <1>7, <1>8, <1>9
  DEF Next, Produce, Consume

-----------------------------------------------------------------------------
(* The ring is a queue                                                     *)

Elements == Values \cup {Nothing}

\* The slots read from one counter on, n of them, are a sequence.
Run(s, t, n) == [i \in 1 .. n |-> s[Slot(t + i - 1)]]

LEMMA RunOfSlots ==
  ASSUME NEW s \in [0 .. (Capacity - 1) -> Elements], NEW t \in Nat, NEW n \in Nat
  PROVE  /\ Run(s, t, n) \in Seq(Elements)
         /\ Len(Run(s, t, n)) = n
         /\ \A i \in 1 .. n : /\ Slot(t + i - 1) \in 0 .. (Capacity - 1)
                              /\ Run(s, t, n)[i] = s[Slot(t + i - 1)]
<1>1. ASSUME NEW i \in 1 .. n
      PROVE  Slot(t + i - 1) \in 0 .. (Capacity - 1)
  <2>1. t + i - 1 \in Nat
    OBVIOUS
  <2> QED BY <2>1, SlotType
<1>2. Run(s, t, n) \in [1 .. n -> Elements]
  BY <1>1 DEF Run
<1>3. \A f \in [1 .. n -> Elements] : f \in Seq(Elements) /\ Len(f) = n
  OBVIOUS
<1>4. \A i \in 1 .. n : Run(s, t, n)[i] = s[Slot(t + i - 1)]
  BY DEF Run
<1> QED BY <1>1, <1>2, <1>3, <1>4

LEMMA ContentsIs ==
  ASSUME IInv
  PROVE  /\ Ahead(tail, head) \in Nat
         /\ Contents \in Seq(Elements)
         /\ Len(Contents) = Ahead(tail, head)
         /\ \A i \in 1 .. Ahead(tail, head) :
              /\ Slot(tail + i - 1) \in 0 .. (Capacity - 1)
              /\ Contents[i] = slots[Slot(tail + i - 1)]
<1>1. Ahead(tail, head) \in Nat
  BY AheadType DEF IInv, TypeOK
<1>2. tail \in Nat /\ slots \in [0 .. (Capacity - 1) -> Elements]
  BY Sizes DEF IInv, TypeOK, Counters, Elements
<1>3. Contents = Run(slots, tail, Ahead(tail, head))
  BY DEF Contents, Run
<1> QED BY <1>1, <1>2, <1>3, RunOfSlots

\* The slot about to be filled is none of those that are filled.
LEMMA HeadSlotFree ==
  ASSUME IInv, producer.at # "idle", NEW i \in 1 .. Ahead(tail, head)
  PROVE  Slot(tail + i - 1) # Slot(head)
<1>1. /\ tail \in Counters /\ head \in Counters /\ tail \in Nat
      /\ Ahead(tail, head) \in Nat /\ Ahead(tail, head) < Capacity - 1
  BY AheadType, Filled, Sizes DEF IInv, TypeOK, Counters
<1>2. /\ tail + i - 1 \in Nat /\ tail + Ahead(tail, head) \in Nat
      /\ tail + i - 1 < tail + Ahead(tail, head)
      /\ (tail + Ahead(tail, head)) - (tail + i - 1) < Capacity
  BY <1>1, Sizes
<1>3. Slot(tail + i - 1) # Slot(tail + Ahead(tail, head))
  BY <1>2, SlotsDiffer
<1> QED BY <1>1, <1>3, SlotAhead

\* Filling a slot is not yet a push.
LEMMA WriteSlotHidden ==
  ASSUME IInv, WriteSlot
  PROVE  UNCHANGED << Contents, taken >>
<1>1. /\ producer.at # "idle" /\ UNCHANGED << head, tail, taken >>
      /\ slots' = [slots EXCEPT ![Slot(head)] = producer.v]
      /\ slots \in [0 .. (Capacity - 1) -> Elements]
  BY DEF WriteSlot, IInv, TypeOK, Elements
<1>2. ASSUME NEW i \in 1 .. Ahead(tail, head)
      PROVE  slots'[Slot(tail + i - 1)] = slots[Slot(tail + i - 1)]
  <2>1. Slot(tail + i - 1) # Slot(head)
    BY <1>1, HeadSlotFree
  <2>2. Slot(tail + i - 1) \in 0 .. (Capacity - 1)
    BY ContentsIs
  <2> QED BY <1>1, <2>1, <2>2
<1>3. Contents' = [i \in 1 .. Ahead(tail, head) |-> slots'[Slot(tail + i - 1)]]
  BY <1>1 DEF Contents
<1>4. Contents' = Contents
  BY <1>2, <1>3 DEF Contents
<1> QED BY <1>1, <1>4

\* The release store of try_push is the push of the element in its hands.
LEMMA PublishHeadPushes ==
  ASSUME IInv, PublishHead
  PROVE  Queue!Push(producer.v)
<1>1. /\ producer.at = "publish" /\ UNCHANGED << slots, tail, taken >>
      /\ tail \in Counters /\ head \in Counters /\ tail \in Nat
  BY Sizes DEF PublishHead, IInv, TypeOK, Counters
<1> DEFINE n == Ahead(tail, head)
<1>2. IInv' /\ Ahead(tail', head') = n + 1
  BY PublishHeadOK
<1>3. n \in Nat /\ n < Capacity - 1
  BY <1>1, Filled, AheadType
<1>4. /\ Contents \in Seq(Elements) /\ Len(Contents) = n
      /\ \A i \in 1 .. n : Contents[i] = slots[Slot(tail + i - 1)]
  BY ContentsIs
<1>5. /\ Contents' \in Seq(Elements) /\ Len(Contents') = n + 1
      /\ \A i \in 1 .. (n + 1) : Contents'[i] = slots[Slot(tail + i - 1)]
  <2>1. slots \in [0 .. (Capacity - 1) -> Elements] /\ n + 1 \in Nat
    BY <1>3 DEF IInv, TypeOK, Elements
  <2>2. Contents' = Run(slots, tail, n + 1)
    BY <1>1, <1>2 DEF Contents, Run
  <2> HIDE DEF n
  <2> QED BY <1>1, <2>1, <2>2, RunOfSlots
<1>6. Contents'[n + 1] = producer.v
  <2>1. tail + (n + 1) - 1 = tail + n
    BY <1>1, <1>3
  <2>2. Slot(tail + n) = Slot(head)
    BY <1>1, SlotAhead
  <2> QED BY <1>1, <1>3, <1>5, <2>1, <2>2 DEF IInv, Carried
<1>7. producer.v \in Elements
  BY DEF IInv, TypeOK, Elements
<1> HIDE DEF n
<1>8. Contents' = Append(Contents, producer.v)
  BY <1>3, <1>4, <1>5, <1>6, <1>7
<1> QED BY <1>1, <1>3, <1>4, <1>8, Sizes DEF Queue!Push

\* The release store of try_pop is the pop of the element it copied.
LEMMA ReleaseTailPops ==
  ASSUME IInv, ReleaseTail
  PROVE  Queue!Pop
<1>1. /\ consumer.at = "release" /\ tail' = Following(tail) /\ taken' = consumer.v
      /\ UNCHANGED << slots, head >>
      /\ tail \in Counters /\ head \in Counters /\ tail \in Nat
  BY Sizes DEF ReleaseTail, IInv, TypeOK, Counters
<1> DEFINE n == Ahead(tail, head)
<1>2. IInv' /\ Ahead(tail', head') = n - 1
  BY ReleaseTailOK
<1>3. n \in Nat /\ n > 0
  BY <1>1, Filled, AheadType
<1>4. /\ Contents \in Seq(Elements) /\ Len(Contents) = n
      /\ \A i \in 1 .. n : Contents[i] = slots[Slot(tail + i - 1)]
  BY ContentsIs
<1>5. /\ Contents' \in Seq(Elements) /\ Len(Contents') = n - 1
      /\ \A i \in 1 .. (n - 1) : Contents'[i] = slots[Slot(tail' + i - 1)]
  <2>1. slots \in [0 .. (Capacity - 1) -> Elements] /\ n - 1 \in Nat
    BY <1>3 DEF IInv, TypeOK, Elements
  <2>2. Contents' = Run(slots, tail', n - 1)
    BY <1>1, <1>2 DEF Contents, Run
  <2>3. tail' \in Nat
    BY <1>1, FollowingIs DEF Counters
  <2> HIDE DEF n
  <2> QED BY <2>1, <2>2, <2>3, RunOfSlots
<1>6. ASSUME NEW i \in 1 .. (n - 1)
      PROVE  Contents'[i] = Contents[i + 1]
  <2>1. PICK k \in Nat : i = k + 1
    BY <1>3
  <2>2. Slot(Following(tail) + k) = Slot(tail + 1 + k)
    BY <1>1, SlotFollowing
  <2>3. /\ tail' + i - 1 = Following(tail) + k
        /\ tail + (i + 1) - 1 = tail + 1 + k
        /\ i + 1 \in 1 .. n
    BY <1>1, <1>3, <2>1, FollowingIs DEF Counters
  <2> QED BY <1>4, <1>5, <2>2, <2>3
<1>7. Contents[1] = consumer.v
  <2>1. tail + 1 - 1 = tail /\ 1 \in 1 .. n
    BY <1>1, <1>3
  <2> QED BY <1>1, <1>4, <2>1 DEF IInv, Carried
<1> HIDE DEF n
<1>8. Contents' = Tail(Contents)
  BY <1>3, <1>4, <1>5, <1>6
<1>9. Contents # << >> /\ taken' = Head(Contents)
  BY <1>1, <1>3, <1>4, <1>7
<1> QED BY <1>8, <1>9 DEF Queue!Pop

\* Every step of a thread is a step of the queue or leaves it alone.
LEMMA NextQueues ==
  IInv /\ [Next]_vars => [Queue!Next]_<< Contents, taken >>
<1> SUFFICES ASSUME IInv, [Next]_vars
             PROVE  Queue!Next \/ UNCHANGED << Contents, taken >>
  OBVIOUS
<1>1. ASSUME UNCHANGED << slots, head, tail, taken >>
      PROVE  UNCHANGED << Contents, taken >>
  BY <1>1 DEF Contents
<1>2. ASSUME NEW t \in Counters,
             PushFails(t) \/ (\E v \in Values : PushBegins(v, t)) \/ PopFails(t)
               \/ PopBegins(t)
      PROVE  UNCHANGED << Contents, taken >>
  BY <1>1, <1>2 DEF PushFails, PushBegins, PopFails, PopBegins
<1>3. CASE WriteSlot
  BY <1>3, WriteSlotHidden
<1>4. CASE PublishHead
  <2>1. producer.v \in Values
    BY <1>4 DEF PublishHead, IInv, ProducerCautious
  <2> QED BY <1>4, <2>1, PublishHeadPushes DEF Queue!Next
<1>5. CASE ReadSlot
  BY <1>1, <1>5 DEF ReadSlot
<1>6. CASE ReleaseTail
  BY <1>6, ReleaseTailPops DEF Queue!Next
<1>7. CASE UNCHANGED vars
  BY <1>1, <1>7 DEF vars
<1> QED BY <1>2, <1>3, <1>4, <1>5, <1>6, <1>7 DEF Next, Produce, Consume

LEMMA InitQueue == Init => Queue!Init
<1> SUFFICES ASSUME Init PROVE Contents = << >> /\ taken = Nothing
  BY DEF Queue!Init
<1>1. IInv
  BY InvariantInit
<1>2. head = tail /\ head \in Counters
  BY <1>1 DEF Init, IInv, TypeOK
<1>3. Ahead(tail, head) = 0
  BY <1>2, AheadType
<1>4. Contents \in Seq(Elements) /\ Len(Contents) = 0
  BY <1>1, <1>3, ContentsIs
<1> QED BY <1>4 DEF Init

-----------------------------------------------------------------------------
(* The theorems                                                            *)

\* A thread's view of the other's counter is never optimistic, and what it
\* carries between the slot and its counter is what the slot holds, whatever
\* acquire loads return that the memory model allows (try_push, try_pop).
THEOREM ViewsAreCautious == Spec => []IInv
<1> QED BY InvariantInit, InvariantNext, PTL DEF Spec

\* The plain accesses to the slots are no data race: the producer never
\* writes the slot that the consumer is copying (try_push, try_pop).
THEOREM SlotsNeverShared == Spec => []NoRace
<1>1. IInv => NoRace
  <2> SUFFICES ASSUME IInv, producer.at = "write", consumer.at = "read"
               PROVE  Slot(head) # Slot(tail)
    BY DEF NoRace
  <2>1. /\ tail \in Counters /\ head \in Counters /\ tail # head
        /\ Ahead(tail, head) < Capacity
    BY Filled, AheadType, Sizes DEF IInv, TypeOK
  <2> QED BY <2>1, SlotsApart
<1> QED BY <1>1, ViewsAreCautious, PTL

\* For every capacity and across every wrap-around of the counters the two
\* threads see a bounded first-in first-out queue: each element pushed is
\* popped once, in order, unchanged (SpscRing).
THEOREM RingIsQueue == Spec => Implements
<1> QED BY InvariantInit, InvariantNext, InitQueue, NextQueues, PTL
  DEF Spec, Implements, Queue!Spec
=============================================================================
