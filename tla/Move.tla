-------------------------------- MODULE Move --------------------------------
(***************************************************************************)
(* The move of a range (ycpp_move.h) in the doubly linked list of one      *)
(* Y.Array: start_ and the left and right pointers of the items, which the *)
(* sequence of module YArray abstracts from.                               *)
(*                                                                         *)
(* Every item here is inserted between two neighbours, so integrate finds  *)
(* no conflict and only splices.  No item is deleted.  The operation of a  *)
(* move is decoded and both its ends are in the store; the priority, which *)
(* apply_move does not read, is left out.                                  *)
(***************************************************************************)
EXTENDS Naturals, Sequences, FiniteSetsExt

CONSTANTS
  MaxItems,   \* bound on the items, the moves included
  Null        \* nullptr

VARIABLES
  stored,   \* the number of items in the store: they are 1 .. stored
  list      \* the pointers: start is start_, left and right those of the items

vars == << stored, list >>

Init == stored = 0 /\ list = [ start |-> Null, left |-> << >>, right |-> << >> ]

-----------------------------------------------------------------------------

\* The item that n steps to the right lead to.
From(l, item, n) ==
  LET to[k \in 0 .. n] ==
        IF k = 0 THEN item
        ELSE IF to[k - 1] = Null THEN Null ELSE l.right[to[k - 1]]
  IN  to[n]

\* What for_each visits.
Document(l) ==
  LET all == [ k \in 1 .. Len(l.right) |-> From(l, l.start, k - 1) ]
  IN  SelectSeq(all, LAMBDA item : item # Null)
Places(l) == {Null} \cup { Document(l)[i] : i \in DOMAIN Document(l) }

\* A pointer assignment through an item that may be nullptr.
Set(pointers, item, to) ==
  IF item = Null THEN pointers ELSE [pointers EXCEPT ![item] = to]

\* The splice of integrate: item, which is the next one, goes behind left.
Spliced(l, item, left) ==
  LET right == IF left = Null THEN l.start ELSE l.right[left]
  IN  [ start |-> IF left = Null THEN item ELSE l.start,
        left |-> Set(Append(l.left, left), right, item),
        right |-> Append(Set(l.right, left, item), right) ]

\* apply_move(move, op, store): the range is detached, then its first item
\* is wired behind the move, then the walk finds its last item.  start_ is
\* the array's, and apply_move does not have the array.
Detached(l, first, after) ==
  [l EXCEPT !.right = Set(@, l.left[first], after),
            !.left = Set(@, after, l.left[first])]
Wired(l, move, first) ==
  [l EXCEPT !.left[first] = move, !.right[move] = first]
LastOf(l, first, after) ==
  LET ends == { k \in DOMAIN l.right : From(l, first, k) \in {after, Null} }
  IN  From(l, first, Min(ends) - 1)
Closed(l, last, newAfter) ==
  [l EXCEPT !.right[last] = newAfter, !.left = Set(@, newAfter, last)]
ApplyMove(l, move, first, after) ==
  LET cut == Detached(l, first, after)
      wired == Wired(cut, move, first)
  IN  Closed(wired, LastOf(wired, first, after), cut.right[move])

\* emit_array_item, and install_into_array for an item that is no move.
Insert(left) ==
  /\ stored < MaxItems /\ left \in Places(list)
  /\ stored' = stored + 1
  /\ list' = Spliced(list, stored', left)

\* install_into_array for a move of the items from first up to, and without,
\* end: it stands outside of the range.
InstallMove(left, first, end) ==
  LET doc == Document(list)
  IN  /\ stored < MaxItems
      /\ \E i, j \in DOMAIN doc :
           /\ i < j /\ doc[i] = first /\ doc[j] = end
           /\ left \in Places(list) \ { doc[k] : k \in i .. (j - 1) }
      /\ stored' = stored + 1
      /\ list' = ApplyMove(Spliced(list, stored', left), stored', first, end)

Next ==
  \/ \E left \in {Null} \cup (1 .. stored) : Insert(left)
  \/ \E left \in {Null} \cup (1 .. stored), first, end \in 1 .. stored :
       InstallMove(left, first, end)

Spec == Init /\ [][Next]_vars

-----------------------------------------------------------------------------

\* A move changes the order and nothing else (the claim of ycpp_move.h:13):
\* every stored item is still in the document, once.
OrderOnly ==
  LET doc == Document(list)
  IN  Len(doc) = stored /\ { doc[i] : i \in DOMAIN doc } = 1 .. stored
=============================================================================
