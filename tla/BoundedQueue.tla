---------------------------- MODULE BoundedQueue ----------------------------
(***************************************************************************)
(* What SpscRing promises its two threads: a first-in first-out queue that *)
(* never holds more than Bound elements and hands out each element once.   *)
(* A push that finds the queue full and a pop that finds it empty change   *)
(* nothing, so they are stuttering steps.                                  *)
(***************************************************************************)
EXTENDS Naturals, Sequences

CONSTANTS Values, Bound, Nothing

VARIABLES
  queue,   \* the elements pushed and not yet popped
  taken    \* the element popped last

Init == queue = << >> /\ taken = Nothing

Push(v) ==
  /\ Len(queue) < Bound
  /\ queue' = Append(queue, v)
  /\ UNCHANGED taken

Pop ==
  /\ queue # << >>
  /\ taken' = Head(queue)
  /\ queue' = Tail(queue)

Next == Pop \/ \E v \in Values : Push(v)

Spec == Init /\ [][Next]_<< queue, taken >>
=============================================================================
