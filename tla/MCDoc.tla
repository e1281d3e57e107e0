------------------------------- MODULE MCDoc --------------------------------
(* Bounds for model checking the documents: how many clocks each client may *)
(* use, and who exchanges state vectors with whom.                          *)
EXTENDS DocProperties

TwoOneOne    == [c \in Clients |-> IF c = 2 THEN 2 ELSE 1]
OneOneTwo    == [c \in Clients |-> IF c = 3 THEN 2 ELSE 1]
FourTwoTwo   == [c \in Clients |-> IF c = 1 THEN 4 ELSE 2]
TwoNoneOne   == [c \in Clients |-> IF c = 1 THEN 2 ELSE IF c = 3 THEN 1 ELSE 0]

AllLinks == { l \in Clients \X Clients : l[1] # l[2] }
\* Document 2 pulls from 3 and 1 from 2; what 2 has it broadcasts.
UpTheLine == { << 3, 2 >>, << 2, 1 >> }

\* Document 2 only gives.
FromTwo == { << 2, 1 >>, << 2, 3 >>, << 1, 3 >>, << 3, 1 >> }
\* Documents 1 and 3 only meet document 2.
Relay == { << 1, 2 >>, << 2, 1 >>, << 2, 3 >>, << 3, 2 >> }
=============================================================================
