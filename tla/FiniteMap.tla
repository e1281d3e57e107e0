----------------------------- MODULE FiniteMap ------------------------------
(***************************************************************************)
(* What HashMap promises: a finite partial function from keys to values.   *)
(* An insert never replaces a value that is there.                         *)
(***************************************************************************)
CONSTANTS Keys, Values

VARIABLE map

Init == map = [k \in {} |-> k]

Insert(k, v) ==
  /\ k \notin DOMAIN map
  /\ map' = [j \in DOMAIN map \cup {k} |-> IF j = k THEN v ELSE map[j]]

Erase(k) ==
  /\ k \in DOMAIN map
  /\ map' = [j \in DOMAIN map \ {k} |-> map[j]]

Next == \E k \in Keys : Erase(k) \/ \E v \in Values : Insert(k, v)

Spec == Init /\ [][Next]_map
=============================================================================
