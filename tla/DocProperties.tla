--------------------------- MODULE DocProperties ----------------------------
(***************************************************************************)
(* What a net of documents promises.                                       *)
(***************************************************************************)
EXTENDS Doc

-----------------------------------------------------------------------------
(* The store.                                                              *)

\* Every client vector is gapless from clock 0: the arithmetic of state
\* vectors, diffs and find_by_id rests on it (StructStore::append).
Dense ==
  \A p, c \in Clients : \A i \in DOMAIN store[p][c] :
    /\ Client(store[p][c][i]) = c
    /\ store[p][c][i].id[2] = IF i = 1 THEN 0 ELSE End(store[p][c][i - 1])

\* What never changes about an item once its author has emitted it.
Core(it) == << it.id, it.length, it.origin_left, it.origin_right >>

\* Every document's copy of a client's items is a prefix of what that client
\* emitted: apply_one never stores a struct out of place, twice or altered,
\* whatever updates are lost, repeated or reordered.
SameHistory ==
  \A p, c \in Clients : \A i \in DOMAIN store[p][c] :
    /\ i \in DOMAIN store[c][c]
    /\ Core(store[p][c][i]) = Core(store[c][c][i])

\* An item is stored only after the items its origins name, so find_by_id
\* never fails during integration (contract of YArray and YMap integrate).
OriginsStored ==
  \A p \in Clients : \A it \in Stored(store[p]) :
    \A x \in {it.origin_left, it.origin_right} \ {NoId} : Has(store[p], x)

\* next_clock_ is the clock the store expects next, so that the next local
\* edit is not rejected (bump_clock_for).
NextClockFree == \A p \in Clients : clock[p] = State(store[p], p)

-----------------------------------------------------------------------------
(* What the proofs need on top: the inductive invariant.                   *)

\* The lists and the heads name stored items, so every find_by_id on them
\* succeeds.
ListStored ==
  \A p \in Clients, t \in Texts : \A i \in DOMAIN list[p][t] :
    Has(store[p], list[p][t][i])

HeadStored ==
  \A p \in Clients, k \in Keys : head[p][k] # NoId => Has(store[p], head[p][k])

\* The clock ranges of a client vector follow each other (a consequence of
\* Dense whose proof would be an induction over the vector).
Ascending ==
  \A p, c \in Clients : \A i, j \in DOMAIN store[p][c] :
    i < j => End(store[p][c][i]) <= store[p][c][j].id[2]

\* A struct on its way is the one its author emitted, and carries a parent
\* only if it has no origins.
Emitted(d) ==
  \E j \in DOMAIN store[Client(d)][Client(d)] :
    Core(d) = Core(store[Client(d)][Client(d)][j])

Authentic(d) ==
  /\ Emitted(d)
  /\ d.parent # NoParent => d.origin_left = NoId /\ d.origin_right = NoId

InFlightAuthentic ==
  /\ job # NoJob => \A d \in job.todo : Authentic(d)
  /\ \A m \in msgs : \A d \in m.structs : Authentic(d)

\* The inductive invariant: every conjunct is needed to keep another one.
IInv ==
  /\ TypeOK /\ ListStored /\ HeadStored
  /\ Dense /\ Ascending /\ SameHistory /\ OriginsStored
  /\ InFlightAuthentic

-----------------------------------------------------------------------------
(* The abstract specification.                                             *)

\* A net of documents is a log per client, of which every document has
\* executed a causally closed prefix, and sets of deletions that grow: no
\* order of arrival, loss, repetition, failed integration or compaction
\* shows in what a document knows (apply_one, StructStore::append,
\* DeleteSet).
Written == [c \in Clients |-> [i \in DOMAIN store[c][c] |-> Core(store[c][c][i])]]
Executed == [p \in Clients |-> [c \in Clients |-> Len(store[p][c])]]
Log == INSTANCE UpdateLog WITH
         Entries <- Ids \X Nat \X OptIds \X OptIds,
         log <- Written, has <- Executed, dead <- ds
ImplementsLog == Log!Spec

-----------------------------------------------------------------------------
(* Sequences.                                                              *)

Before(l, x, y) == \E i, j \in DOMAIN l : i < j /\ l[i] = x /\ l[j] = y

\* Each item stands behind its left origin and in front of its right origin,
\* in every document, however concurrent inserts were merged.
BetweenOrigins ==
  \A p \in Clients, t \in Texts : \A x \in ToSet(list[p][t]) :
    LET it == Find(store[p], x)
        ol == it.origin_left
        or == it.origin_right
    IN  /\ ol # NoId => Before(list[p][t], Find(store[p], ol).id, x)
        /\ or # NoId => Before(list[p][t], x, Find(store[p], or).id)

\* Two documents never order two items differently, even while each lacks
\* items of the other (the splice rule of YArray::integrate).
ConsistentOrder ==
  \A p, q \in Clients, t \in Texts :
    \A x, y \in ToSet(list[p][t]) \cap ToSet(list[q][t]) :
      Before(list[p][t], x, y) <=> Before(list[q][t], x, y)

\* The element client p just wrote is the one at `index' of the live elements
\* of text t, which are otherwise as before, and its origins are its live
\* neighbours there.
LandsAt(p, t, index) ==
  LET live == Live(list[p][t], del[p])
      new == store'[p][p][Len(store'[p][p])]
  IN  /\ Live(list'[p][t], del'[p]) = InsertAt(live, index + 1, new.id)
      /\ new.origin_left =
           IF index = 0 THEN NoId ELSE LastId(Find(store[p], live[index]))
      /\ new.origin_right =
           IF index = Len(live) THEN NoId ELSE live[index + 1]

\* A local insert that returns kOk, and so moves the clock, lands at the index
\* it was asked for, and an append behind the last live element; nothing else
\* moves (array_insert_at for an index up to the length, text_append).
InsertsWhereAsked ==
  [][ \A p \in Clients, t \in Texts, n \in Lens : clock' # clock =>
        LET live == Live(list[p][t], del[p]) IN
        /\ \A index \in 0 .. Len(live) :
             ArrayInsertAt(p, t, index, n) => LandsAt(p, t, index)
        /\ TextAppend(p, t, n) => LandsAt(p, t, Len(live))
    ]_vars

-----------------------------------------------------------------------------
(* Maps.                                                                   *)

OfKey(p, k) ==
  { it \in Stored(store[p]) : it.parent = k /\ it.content_kind = "string" }

\* Every key that was written has exactly one item that is not deleted, and it
\* is the head: each item that lost was flagged, wherever it lost, and none
\* that won was (install_into_map, ApplyDeletes).
OneLiveValue ==
  \A p \in Clients, k \in Keys : head[p][k] # NoId =>
    { it.id : it \in OfKey(p, k) } \ del[p] = {head[p][k]}

\* The item, its origin's item, and so on up to an item without origin.
Lineage(p, x) ==
  LET up[n \in 1 .. Cardinality(Stored(store[p]))] ==
        IF n = 1 THEN {x}
        ELSE up[n - 1] \cup
             ({ OriginOf(store[p], y) : y \in up[n - 1] } \ {NoId})
  IN  up[Cardinality(Stored(store[p]))]

\* The head is the rightmost leaf of the key's forest: nothing was written on
\* top of it, and wherever its line of writes met a concurrent one it had the
\* larger id (ymap.h lines 8 to 12).  Integration only ever compares two
\* items; this is what the comparisons must add up to.
HeadIsRightmost ==
  \A p \in Clients, k \in Keys : head[p][k] # NoId =>
    LET line == Lineage(p, head[p][k]) IN
    \A it \in OfKey(p, k) \ { i \in OfKey(p, k) : i.id \in line } :
      /\ OriginOf(store[p], it.id) # head[p][k]
      /\ \A x \in line : OriginOf(store[p], x) = OriginOf(store[p], it.id)
                         => IdLess(it.id, x)

\* Between calls, documents that hold the same items pick the same head for
\* every key, in whatever order the items came and the pairwise decisions
\* were made, and whichever of them hold placeholders instead of values.
HeadsAgree ==
  job = NoJob =>
    \A p, q \in Clients :
      StateVector(store[p]) = StateVector(store[q]) => head[p] = head[q]

-----------------------------------------------------------------------------
(* Deletion and convergence.                                               *)

\* The delete set and the flags agree between calls.
DeletedIsFlagged ==
  job = NoJob =>
    \A p \in Clients : \A it \in Stored(store[p]) :
      it.id \in del[p] <=> ClocksOf(it) \cap ds[p] # {}

\* What an application sees of a document.
View(p) ==
  [ texts |-> [t \in Texts |-> Live(list[p][t], del[p])],
    maps |-> [k \in Keys |-> IF head[p][k] \in del[p] THEN NoId ELSE head[p][k]] ]

\* Two documents that know the same items and the same deletions show the
\* same content, whatever the order in which they learned them.
Converged ==
  job = NoJob =>
    \A p, q \in Clients :
      /\ StateVector(store[p]) = StateVector(store[q])
      /\ ds[p] = ds[q]
      => View(p) = View(q)

\* apply_update_v1 leaves a struct out only for want of one that has not
\* arrived: an earlier one of its client, or one that its origins name.  When
\* it leaves none out, it has taken over the delete set.
NothingDropped ==
  [][ job # NoJob /\ job' = NoJob =>
        /\ \A d \in job.todo :
             \/ d.id[2] > State(store[job.doc], Client(d))
             \/ \E x \in {d.origin_left, d.origin_right} \ {NoId} :
                  ~Has(store[job.doc], x)
        /\ job.todo = {} => job.ds \subseteq ds'[job.doc] ]_vars

\* When editing ends and documents keep exchanging, all of them come to show
\* the same content and keep showing it.
EventuallyConverged == <>[](\A p, q \in Clients : View(p) = View(q))

\* Applications keep exchanging state vectors along every link, and a call
\* that has begun runs to its end.
Fairness ==
  /\ WF_vars(Apply)
  /\ \A l \in Links : SF_vars(Pull(l[1], l[2]))

FairSpec == Spec /\ Fairness
=============================================================================
