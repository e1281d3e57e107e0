------------------------------ MODULE ClockSet ------------------------------
(***************************************************************************)
(* What a delete set promises about one client: the set of clocks added to *)
(* it, which only grows.  Module Doc works with this view of it.           *)
(***************************************************************************)
EXTENDS Naturals

CONSTANT Ranges   \* the ranges that may be added: << clock, length >>

VARIABLE covered

Init == covered = {}

Add(clock, length) == covered' = covered \cup (clock .. (clock + length - 1))

Next == \E r \in Ranges : Add(r[1], r[2])

Spec == Init /\ [][Next]_covered
=============================================================================
