---------------------------- MODULE StructStore ----------------------------
(***************************************************************************)
(* Identifiers, items and the per-client item vectors of a document        *)
(* (ycpp_id.h, ycpp_item.h, ycpp_struct_store.h).                          *)
(*                                                                         *)
(* A store is a function from clients to sequences of items.  An item      *)
(* occupies the clocks id .. id + length - 1 of its client, and an origin  *)
(* may name any clock inside an item.  The payload is left out: no         *)
(* decision of the code depends on it.                                     *)
(***************************************************************************)
EXTENDS Naturals, FiniteSets, Sequences, SequencesExt

CONSTANTS
  Clients,    \* client ids, natural numbers because the code compares them
  Texts,      \* root Y.Array / Y.Text names
  Keys,       \* map entries: a root Y.Map name together with a key of it
  Lens,       \* item lengths (UTF-16 code units, at least 1)
  NoParent    \* ParentRef::kNone

ASSUME ClientsAssumption == Clients \subseteq Nat /\ IsFiniteSet(Clients)
ASSUME LensAssumption == Lens \subseteq Nat \ {0}
ASSUME ParentAssumption == NoParent \notin Texts \cup Keys /\ Texts \cap Keys = {}

Ids == Clients \X Nat

\* kInvalidId: an origin that is not set.
NoId == << >>
OptIds == Ids \cup {NoId}

\* Id::operator<=>: by client, then by clock.
IdLess(a, b) == a[1] < b[1] \/ (a[1] = b[1] /\ a[2] < b[2])

\* Only the kinds the core distinguishes: a live payload and a placeholder.
Kinds == {"string", "skip"}
Parents == Texts \cup Keys \cup {NoParent}

Items == [ id : Ids, length : Lens,
           origin_left : OptIds, origin_right : OptIds,
           parent : Parents, content_kind : Kinds ]

Client(it) == it.id[1]

\* The first clock after an item, and the id of its last clock.
End(it) == it.id[2] + it.length
LastId(it) == << it.id[1], it.id[2] + (it.length - 1) >>

\* x is one of the clocks of the item.
Covers(it, x) == x # NoId /\ x[1] = it.id[1] /\ it.id[2] <= x[2] /\ x[2] < End(it)
ClocksOf(it) == { it.id[1] } \X (it.id[2] .. (End(it) - 1))

(***************************************************************************)
(* Lookups.  find_by_id is a binary search for the item whose clock range  *)
(* contains the id; Has and Find are its result, which is well defined     *)
(* because the vectors are dense (invariant Dense of module Doc).          *)
(***************************************************************************)
Stored(st) == UNION { ToSet(st[c]) : c \in DOMAIN st }

Has(st, x) == x # NoId /\ \E i \in DOMAIN st[x[1]] : Covers(st[x[1]][i], x)

Find(st, x) == LET s == st[x[1]] IN s[CHOOSE i \in DOMAIN s : Covers(s[i], x)]

\* state(client): the state-vector entry, 0 for an unknown client.
State(st, c) == IF st[c] = << >> THEN 0 ELSE End(st[c][Len(st[c])])

StateVector(st) == [c \in Clients |-> State(st, c)]

\* append(item) is accepted only at the next clock of the item's client.
AcceptsGap(st, it) == it.id[2] >= State(st, Client(it))   \* mutant
CanAppend(st, it) == it.id[2] = State(st, Client(it))
Appended(st, it) == [st EXCEPT ![Client(it)] = Append(@, it)]

\* get_or_create(client) registers the client even if append then rejects
\* the item; the vector of registered clients is the encoder's order.
Registered(order, c) == IF c \in ToSet(order) THEN order ELSE Append(order, c)
=============================================================================
