------------------------------- MODULE MCSync -------------------------------
(***************************************************************************)
(* Bounds for model checking the sync protocol: document 1 writes two      *)
(* items and broadcasts them, document 2 writes one and answers document   *)
(* 3; documents 2 and 3 compact.                                           *)
(***************************************************************************)
EXTENDS Sync

FourTwoNone == [c \in Clients |-> IF c = 1 THEN 4 ELSE IF c = 2 THEN 2 ELSE 0]

TwoThree == { << 2, 3 >> }
=============================================================================
