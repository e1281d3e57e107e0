------------------------------ MODULE SpscRing ------------------------------
(***************************************************************************)
(* The ring buffer between one producer and one consumer thread            *)
(* (ycpp_ring.h).                                                          *)
(*                                                                         *)
(* Each thread's call is split where the other thread can interfere: the   *)
(* loads of the counters, the access to the slot, the store that publishes *)
(* it.  An acquire load of the other thread's counter may return any value *)
(* that is not older than the one the thread saw before, which is what the *)
(* C++ memory model allows.  Accesses to slots are plain; NoRace says that *)
(* two of them never meet, so their effect may be taken as immediate.      *)
(***************************************************************************)
EXTENDS Naturals, Sequences

CONSTANTS
  Values,     \* elements
  Nothing,    \* no element
  Capacity,   \* number of slots, a power of two: mask_ + 1
  Width       \* the counters are kept modulo Width, 2^64 in the code

ASSUME CapacityAssumption == Capacity \in Nat /\ Capacity >= 2
ASSUME WidthAssumption ==
  Width \in Nat /\ Width > Capacity /\ Width % Capacity = 0
ASSUME NothingAssumption == Nothing \notin Values

VARIABLES
  slots,      \* buf_
  head,       \* head_, written by the producer only
  tail,       \* tail_, written by the consumer only
  producer,   \* try_push: where it is, its argument, the tail it last saw
  consumer,   \* try_pop: where it is, the element copied, the head last seen
  taken       \* the element the last successful try_pop handed out

vars == << slots, head, tail, producer, consumer, taken >>

Counters == 0 .. (Width - 1)
Slot(n) == n % Capacity
Following(n) == (n + 1) % Width
\* The number of increments that lead from one counter value to another.
Ahead(from, to) == (to + Width - from) % Width

TypeOK ==
  /\ slots \in [0 .. (Capacity - 1) -> Values \cup {Nothing}]
  /\ head \in Counters
  /\ tail \in Counters
  /\ producer \in [ at : {"idle", "write", "publish"},
                    v : Values \cup {Nothing}, seen : Counters ]
  /\ consumer \in [ at : {"idle", "read", "release"},
                    v : Values \cup {Nothing}, seen : Counters ]
  /\ taken \in Values \cup {Nothing}

\* init(capacity); the content of the slots is indeterminate and never read.
Init ==
  /\ slots = [i \in 0 .. (Capacity - 1) |-> Nothing]
  /\ head = 0
  /\ tail = 0
  /\ producer = [at |-> "idle", v |-> Nothing, seen |-> 0]
  /\ consumer = [at |-> "idle", v |-> Nothing, seen |-> 0]
  /\ taken = Nothing

\* What a load may return to a thread that saw `last` before.
Visible(last, now) == { (last + k) % Width : k \in 0 .. Ahead(last, now) }

Full(h, t) == Slot(h + 1) = Slot(t)
Empty(t, h) == Slot(t) = Slot(h)

-----------------------------------------------------------------------------
(* try_push                                                                *)

\* The loads; the ring is not full as far as the producer can see.
Overwrites(v, t) ==   \* mutant: no test
  /\ producer.at = "idle" /\ t \in Visible(producer.seen, tail)
  /\ producer' = [at |-> "write", v |-> v, seen |-> t]
  /\ UNCHANGED << slots, head, tail, consumer, taken >>
UsesEverySlot(v, t) ==   \* mutant: no slot is kept free
  /\ producer.at = "idle" /\ t \in Visible(producer.seen, tail)
  /\ Ahead(t, head) < Capacity
  /\ producer' = [at |-> "write", v |-> v, seen |-> t]
  /\ UNCHANGED << slots, head, tail, consumer, taken >>
PushBegins(v, t) ==
  /\ producer.at = "idle"
  /\ t \in Visible(producer.seen, tail)
  /\ ~Full(head, t)
  /\ producer' = [at |-> "write", v |-> v, seen |-> t]
  /\ UNCHANGED << slots, head, tail, consumer, taken >>

\* The loads; try_push returns false.
PushFails(t) ==
  /\ producer.at = "idle"
  /\ t \in Visible(producer.seen, tail)
  /\ Full(head, t)
  /\ producer' = [producer EXCEPT !.seen = t]
  /\ UNCHANGED << slots, head, tail, consumer, taken >>

WriteSlot ==
  /\ producer.at = "write"
  /\ slots' = [slots EXCEPT ![Slot(head)] = producer.v]
  /\ producer' = [producer EXCEPT !.at = "publish"]
  /\ UNCHANGED << head, tail, consumer, taken >>

\* The release store; try_push returns true.
PublishHead ==
  /\ producer.at = "publish"
  /\ head' = Following(head)
  /\ producer' = [producer EXCEPT !.at = "idle", !.v = Nothing]
  /\ UNCHANGED << slots, tail, consumer, taken >>

-----------------------------------------------------------------------------
(* try_pop                                                                 *)

LeavesLast(h) ==   \* mutant: a ring of one element looks empty
  /\ consumer.at = "idle" /\ h \in Visible(consumer.seen, head)
  /\ Ahead(tail, h) > 1
  /\ consumer' = [consumer EXCEPT !.at = "read", !.seen = h]
  /\ UNCHANGED << slots, head, tail, producer, taken >>
PopBegins(h) ==
  /\ consumer.at = "idle"
  /\ h \in Visible(consumer.seen, head)
  /\ ~Empty(tail, h)
  /\ consumer' = [consumer EXCEPT !.at = "read", !.seen = h]
  /\ UNCHANGED << slots, head, tail, producer, taken >>

PopFails(h) ==
  /\ consumer.at = "idle"
  /\ h \in Visible(consumer.seen, head)
  /\ Empty(tail, h)
  /\ consumer' = [consumer EXCEPT !.seen = h]
  /\ UNCHANGED << slots, head, tail, producer, taken >>

ReadSlot ==
  /\ consumer.at = "read"
  /\ consumer' = [consumer EXCEPT !.at = "release", !.v = slots[Slot(tail)]]
  /\ UNCHANGED << slots, head, tail, producer, taken >>

ReleaseTail ==
  /\ consumer.at = "release"
  /\ tail' = Following(tail)
  /\ taken' = consumer.v
  /\ consumer' = [consumer EXCEPT !.at = "idle", !.v = Nothing]
  /\ UNCHANGED << slots, head, producer >>

-----------------------------------------------------------------------------

Produce ==
  \/ \E t \in Counters : PushFails(t) \/ \E v \in Values : PushBegins(v, t)
  \/ WriteSlot
  \/ PublishHead

Consume ==
  \/ \E h \in Counters : PopFails(h) \/ PopBegins(h)
  \/ ReadSlot
  \/ ReleaseTail

Next == Produce \/ Consume

Spec == Init /\ [][Next]_vars

\* The consumer keeps polling, and a store becomes visible to it in the end.
FairSpec == Spec /\ WF_vars(PopBegins(head) \/ ReadSlot \/ ReleaseTail)

-----------------------------------------------------------------------------

\* The two threads never access one slot at the same time, at least one of
\* them writing: the plain accesses of try_push and try_pop are no data race.
NoRace ==
  ~(producer.at = "write" /\ consumer.at = "read" /\ Slot(head) = Slot(tail))

\* What is between the counters is what a queue of Capacity - 1 elements
\* holds, and every step of the threads is a step of the queue or none.
Contents == [i \in 1 .. Ahead(tail, head) |-> slots[Slot(tail + i - 1)]]
Queue == INSTANCE BoundedQueue WITH queue <- Contents, Bound <- Capacity - 1
Implements == Queue!Spec

\* Whatever has been published is popped, also across the wrap-around of the
\* counters: the consumer's counter comes to where the producer's is.
Drains == \A n \in Counters : head = n ~> tail = n
=============================================================================
