------------------------------- MODULE MCUndo -------------------------------
(* Bounds for the undo manager: the bounds of the documents serve. *)
EXTENDS UndoManager

OneEach     == [c \in Clients |-> 1]
ThreeOne    == [c \in Clients |-> IF c = Me THEN 3 ELSE 1]

AllLinks == { l \in Clients \X Clients : l[1] # l[2] }
=============================================================================
