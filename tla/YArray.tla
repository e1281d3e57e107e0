------------------------------- MODULE YArray -------------------------------
(***************************************************************************)
(* The sequence type (ycpp_yarray.h): where YATA integration puts an item. *)
(*                                                                         *)
(* The list from start_ along Item::right is a sequence of item ids,       *)
(* tombstones included.  An item whose left origin is stored but is not in *)
(* the list (a placeholder, or an item integration gave up on) is linked   *)
(* behind that origin where no walk from start_ reaches it: it is detached *)
(* and stays out of the sequence for good, because every splice puts the   *)
(* new item next to items of the same chain.                               *)
(***************************************************************************)
EXTENDS StructStore

CONSTANT MaxConflict   \* kMaxConflict, the longest conflict zone walked

ASSUME MaxConflictAssumption == MaxConflict \in Nat \ {0}

\* Position of the item that holds x in the list, 0 when it is not there.
Pos(l, st, x) ==
  IF Has(st, x) /\ Find(st, x).id \in ToSet(l)
  THEN CHOOSE i \in DOMAIN l : l[i] = Find(st, x).id
  ELSE 0

Detached(l, st, it) == it.origin_left # NoId /\ Pos(l, st, it.origin_left) = 0

\* The walk starts behind the left origin and ends in front of the right
\* one, or at the end of the list when the right origin is not ahead.
ZoneStart(l, st, it) == Pos(l, st, it.origin_left)
NoRightLimit(l, st, it) == Len(l) + 1   \* mutant
ZoneLimit(l, st, it) ==
  IF Pos(l, st, it.origin_right) > ZoneStart(l, st, it)
  THEN Pos(l, st, it.origin_right) ELSE Len(l) + 1

SameLeft(l, st, it, q) == Find(st, l[q]).origin_left = it.origin_left

\* The left origin of the q-th item lies among the items already walked.
OriginWalked(l, st, it, q) ==
  Pos(l, st, Find(st, l[q]).origin_left) \in (ZoneStart(l, st, it) + 1) .. q

\* The two breaks of the loop: the item at q ends the conflict zone.
Stops(l, st, it, q) ==
  \/ /\ SameLeft(l, st, it, q)
     /\ Client(Find(st, l[q])) >= Client(it)
     /\ Find(st, l[q]).origin_right = it.origin_right
  \/ /\ ~SameLeft(l, st, it, q)
     /\ ~OriginWalked(l, st, it, q)

\* The item at q goes in front of the new one: it has the same left origin
\* and a smaller client, or it hangs off an item that is already in front.
\* (The code's two scratch arrays hold the walked positions and those of
\* them behind the current left.)
FirstComeFirst(l, st, it, q, left) ==   \* mutant: no tie-break
  \/ SameLeft(l, st, it, q)
  \/ OriginWalked(l, st, it, q) /\ Pos(l, st, Find(st, l[q]).origin_left) <= left
Precedes(l, st, it, q, left) ==
  \/ SameLeft(l, st, it, q) /\ Client(Find(st, l[q])) < Client(it)
  \/ /\ ~SameLeft(l, st, it, q)
     /\ OriginWalked(l, st, it, q)
     /\ Pos(l, st, Find(st, l[q]).origin_left) <= left

\* The first position the walk does not pass.
ZoneEnd(l, st, it) ==
  LET zone == (ZoneStart(l, st, it) + 1) .. (ZoneLimit(l, st, it) - 1)
      stops == { q \in zone : Stops(l, st, it, q) }
  IN  IF stops = {} THEN ZoneLimit(l, st, it)
      ELSE CHOOSE q \in stops : \A r \in stops : q <= r

\* kIntegrationFailed: the walk, including the item it stops at, is longer
\* than the scratch arrays.
Overflows(l, st, it) ==
  LET last == IF ZoneEnd(l, st, it) < ZoneLimit(l, st, it)
              THEN ZoneEnd(l, st, it) ELSE ZoneLimit(l, st, it) - 1
  IN  ~Detached(l, st, it) /\ last - ZoneStart(l, st, it) > MaxConflict

\* The position behind which the item is spliced.
SplicePoint(l, st, it) ==
  LET first == ZoneStart(l, st, it)
      left[q \in first .. (ZoneEnd(l, st, it) - 1)] ==
        IF q = first THEN first
        ELSE IF Precedes(l, st, it, q, left[q - 1]) THEN q
        ELSE left[q - 1]
  IN  left[ZoneEnd(l, st, it) - 1]

\* The live items, in document order: length(), at(i), for_each().
Live(l, dead) ==
  LET live[n \in 0 .. Len(l)] ==
        IF n = 0 THEN << >>
        ELSE IF l[n] \in dead THEN live[n - 1]
        ELSE Append(live[n - 1], l[n])
  IN  live[Len(l)]
=============================================================================
