-------------------------------- MODULE YMap --------------------------------
(***************************************************************************)
(* The map type (ycpp_ymap.h): which of two items of one key is its head.  *)
(*                                                                         *)
(* The items of a key form a forest under origin_left.  The head is the    *)
(* rightmost item of the forest in YATA order.                             *)
(***************************************************************************)
EXTENDS StructStore

CONSTANT MaxOriginChain   \* kMaxOriginChain, the longest chain walked

ASSUME MaxOriginChainAssumption == MaxOriginChain \in Nat \ {0}

\* origin_of(item): the item its left origin points into, if any.
OriginOf(st, x) ==
  LET ol == Find(st, x).origin_left
  IN  IF ol # NoId /\ Has(st, ol) THEN Find(st, ol).id ELSE NoId

\* x, its origin, the origin of that, ... cut at MaxOriginChain items.
Chain(st, x) ==
  LET up[n \in 1 .. MaxOriginChain] ==
        IF n = 1 THEN x
        ELSE IF up[n - 1] = NoId THEN NoId
        ELSE OriginOf(st, up[n - 1])
  IN  [n \in { m \in 1 .. MaxOriginChain : up[m] # NoId } |-> up[n]]

\* sorts_right_of(a, b): b descends from a, or b's branch starts with the
\* larger id at the lowest common ancestor; chains without a common item
\* are compared at the deepest item reached.
LastArrivalWins(st, a, b) == TRUE          \* mutant
LargerIdWins(st, a, b) == IdLess(a, b)    \* mutant
SortsRightOf(st, a, b) ==
  LET chainA == Chain(st, a)
      chainB == Chain(st, b)
      shared == { i \in DOMAIN chainA : chainA[i] \in ToSet(chainB) }
      meetA == CHOOSE i \in shared : \A j \in shared : i <= j
      meetB == CHOOSE j \in DOMAIN chainB : chainB[j] = chainA[meetA]
  IN  \/ a \in ToSet(chainB)
      \/ /\ a \notin ToSet(chainB) /\ b \notin ToSet(chainA)
         /\ IF shared = {} THEN IdLess(chainA[Len(chainA)], chainB[Len(chainB)])
            ELSE IdLess(chainA[meetA - 1], chainB[meetB - 1])
=============================================================================
