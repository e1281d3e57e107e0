----------------------------- MODULE DeleteSet ------------------------------
(***************************************************************************)
(* The run-length representation of a delete set (ycpp_delete_set.h): a    *)
(* vector of clock ranges for one client.  The vectors of different        *)
(* clients share nothing, so one is enough.                                *)
(*                                                                         *)
(* Sequences count from 1 where the code's vectors count from 0.           *)
(***************************************************************************)
EXTENDS Naturals, Sequences

Seqs == INSTANCE SequencesExt
Sets == INSTANCE FiniteSetsExt

CONSTANTS
  MaxClock      \* bound on the clocks deleted

ASSUME ClockBoundAssumption == MaxClock \in Nat

VARIABLE data   \* ClientVec::data[0 .. size)

DeleteRange(start, length) == [ clock_start |-> start, length |-> length ]
EndOf(r) == r.clock_start + r.length

\* The ranges inside the bound.
Ranges == { r \in (0 .. MaxClock) \X (1 .. MaxClock) : r[1] + r[2] <= MaxClock }

\* The binary searches of insert_range and contains, by halving: how many of n
\* ranges go before, where below is the set of those that do.
Search(n, below) ==
  LET from[w \in (0 .. n) \X (0 .. n)] ==   \* lo and hi
        LET mid == w[1] + (w[2] - w[1]) \div 2
        IN  IF w[1] >= w[2] THEN w[1]
            ELSE IF mid + 1 \in below THEN from[<< mid + 1, w[2] >>]
            ELSE from[<< w[1], mid >>]
  IN  from[<< 0, n >>]

\* merge_forward(vec, pos): the range at pos takes in its successors as long
\* as it reaches them.
NextOnly(v, pos) ==   \* mutant: at most one successor is taken in
  IF pos < Len(v) /\ EndOf(v[pos]) >= v[pos + 1].clock_start
  THEN SubSeq(v, 1, pos - 1) \o
       << DeleteRange(v[pos].clock_start,
                      Sets!Max({EndOf(v[pos]), EndOf(v[pos + 1])}) - v[pos].clock_start) >>
       \o SubSeq(v, pos + 2, Len(v))
  ELSE v
MergeForward(v, pos) ==
  LET reach(k) == Sets!Max({ EndOf(v[i]) : i \in pos .. (pos + k) })
      stops == { k \in 0 .. (Len(v) - pos) :
                   k < Len(v) - pos => reach(k) < v[pos + k + 1].clock_start }
      merged == Sets!Min(stops)
  IN  SubSeq(v, 1, pos - 1)
      \o << DeleteRange(v[pos].clock_start, reach(merged) - v[pos].clock_start) >>
      \o SubSeq(v, pos + merged + 1, Len(v))

\* insert_range(vec, clock, length): the place of the range, and whether the
\* predecessor takes it in; otherwise it needs a place of its own.
Place(clock) == Search(Len(data), { i \in DOMAIN data : data[i].clock_start < clock })
Touches(clock) == Place(clock) > 0 /\ EndOf(data[Place(clock)]) >= clock

CutsShort(clock, length) ==   \* mutant: the predecessor may lose its tail
  MergeForward([data EXCEPT ![Place(clock)].length =
                  clock + length - data[Place(clock)].clock_start], Place(clock))
Extended(clock, length) ==
  LET pos == Place(clock) IN
  MergeForward([data EXCEPT ![pos].length =
                  Sets!Max({clock + length, EndOf(data[pos])}) - data[pos].clock_start], pos)
Inserted(clock, length) ==
  MergeForward(Seqs!InsertAt(data, Place(clock) + 1, DeleteRange(clock, length)),
               Place(clock) + 1)

\* contains(id)
LastFrom(clock) == Search(Len(data), { i \in DOMAIN data : data[i].clock_start <= clock })
ReachesEnd(clock) ==   \* mutant: the end is taken as part of the range
  LastFrom(clock) > 0 /\ clock <= EndOf(data[LastFrom(clock)])
Contains(clock) == LastFrom(clock) > 0 /\ clock < EndOf(data[LastFrom(clock)])

-----------------------------------------------------------------------------

\* The ranges are sorted and neither overlap nor touch, whatever was added in
\* whatever order: what the searches rely on and what keeps the vector short.
Compact ==
  \A i, j \in DOMAIN data :
    i < j => EndOf(data[i]) < data[j].clock_start

\* The clocks in the ranges.
Covered == UNION { data[i].clock_start .. (EndOf(data[i]) - 1) : i \in DOMAIN data }

\* The search finds a clock exactly if some range holds it.
ContainsCovered == \A c \in 0 .. MaxClock : Contains(c) <=> c \in Covered

\* Every add is the union with the added clocks: none is lost, none comes in.
Clocks == INSTANCE ClockSet WITH covered <- Covered
Implements == Clocks!Spec
=============================================================================
