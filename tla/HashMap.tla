------------------------------ MODULE HashMap -------------------------------
(***************************************************************************)
(* The open-addressing hash table under every container (ycpp_hashmap.h):  *)
(* linear probing, tombstones, growth by doubling.                         *)
(*                                                                         *)
(* A probe is a walk over the slots from the key's home slot; what the     *)
(* loops of the code find is written here as the first step of the walk    *)
(* with some property.                                                     *)
(***************************************************************************)
EXTENDS Naturals, FiniteSets

CONSTANTS
  Keys, Values,
  Hash,       \* the hash of a key; its low bits are the home slot
  Tag,        \* the bits of the hash kept in the control byte: hash_h2
  MinCap,     \* kMinCap
  MaxCap,     \* kMaxCap
  Empty,      \* kCtrlEmpty
  Tombstone,  \* kCtrlTombstone
  NoEntry     \* the slot's entry is not constructed

ASSUME HashAssumption == Hash \in [Keys -> Nat]
ASSUME CapAssumption == MinCap \in Nat /\ MaxCap \in Nat /\ 5 <= MinCap /\ MinCap <= MaxCap
ASSUME CtrlAssumption == Empty # Tombstone
ASSUME TagAssumption == \A k \in Keys : Tag[k] \notin {Empty, Tombstone}

VARIABLES
  cap,         \* cap_
  ctrl,        \* ctrl_
  entries,     \* entries_
  size,        \* size_
  tombstones   \* tombstones_

table == << ctrl, entries, size, tombstones >>
vars == << cap, table >>

Entry == [ key : Keys, value : Values ]

Init ==
  /\ cap = 0
  /\ ctrl = [i \in {} |-> Empty]
  /\ entries = [i \in {} |-> NoEntry]
  /\ size = 0
  /\ tombstones = 0

\* The slot of step n of a walk for k over c slots.
At(k, n, c) == (Hash[k] + n) % c

Least(steps) == CHOOSE n \in steps : \A m \in steps : n <= m

Matches(ct, en, i, k) == ct[i] = Tag[k] /\ en[i].key = k

\* find(k): the slot that holds k, cap if the walk meets an empty slot first.
FindSlot(k) ==
  LET ends == { n \in 0 .. (cap - 1) :
                  ctrl[At(k, n, cap)] = Empty \/ Matches(ctrl, entries, At(k, n, cap), k) }
      slot == At(k, Least(ends), cap)
  IN  IF ends = {} \/ ctrl[slot] = Empty THEN cap ELSE slot

\* insert_unchecked(k, v) into a table t of c slots: nothing if the walk
\* meets k, else the entry goes to the first tombstone met, or to the empty
\* slot that ends the walk.
FirstFree(t, c, k, v) ==   \* mutant: the walk ends at the first tombstone
  LET ends == { n \in 0 .. (c - 1) :
                  \/ t.ctrl[At(k, n, c)] \in {Empty, Tombstone}
                  \/ Matches(t.ctrl, t.entries, At(k, n, c), k) }
      slot == At(k, Least(ends), c)
  IN  IF Matches(t.ctrl, t.entries, slot, k) THEN t
      ELSE [ ctrl |-> [t.ctrl EXCEPT ![slot] = Tag[k]],
             entries |-> [t.entries EXCEPT ![slot] = [key |-> k, value |-> v]],
             size |-> t.size + 1,
             tombstones |-> t.tombstones - (IF t.ctrl[slot] = Tombstone THEN 1 ELSE 0) ]
Inserted(t, c, k, v) ==
  LET ends == { n \in 0 .. (c - 1) :
                  \/ t.ctrl[At(k, n, c)] = Empty
                  \/ Matches(t.ctrl, t.entries, At(k, n, c), k) }
      last == Least(ends)
      tombs == { n \in 0 .. last : t.ctrl[At(k, n, c)] = Tombstone }
      slot == At(k, IF tombs = {} THEN last ELSE Least(tombs), c)
  IN  IF t.ctrl[At(k, last, c)] # Empty THEN t
      ELSE [ ctrl |-> [t.ctrl EXCEPT ![slot] = Tag[k]],
             entries |-> [t.entries EXCEPT ![slot] = [key |-> k, value |-> v]],
             size |-> t.size + 1,
             tombstones |-> t.tombstones - (IF tombs = {} THEN 0 ELSE 1) ]

Live(i) == ctrl[i] \notin {Empty, Tombstone}

\* rehash_to(c): the live entries, in slot order, into c empty slots.
LosesLast(c) ==   \* mutant: the walk over the old slots ends one too early
  LET after[i \in 0 .. cap] ==
        IF i = 0
        THEN [ ctrl |-> [j \in 0 .. (c - 1) |-> Empty],
               entries |-> [j \in 0 .. (c - 1) |-> NoEntry],
               size |-> 0, tombstones |-> 0 ]
        ELSE IF Live(i - 1)
        THEN Inserted(after[i - 1], c, entries[i - 1].key, entries[i - 1].value)
        ELSE after[i - 1]
  IN  after[IF cap = 0 THEN 0 ELSE cap - 1]
Rehashed(c) ==
  LET after[i \in 0 .. cap] ==
        IF i = 0
        THEN [ ctrl |-> [j \in 0 .. (c - 1) |-> Empty],
               entries |-> [j \in 0 .. (c - 1) |-> NoEntry],
               size |-> 0, tombstones |-> 0 ]
        ELSE IF Live(i - 1)
        THEN Inserted(after[i - 1], c, entries[i - 1].key, entries[i - 1].value)
        ELSE after[i - 1]
  IN  after[cap]

Becomes(t) ==
  /\ ctrl' = t.ctrl
  /\ entries' = t.entries
  /\ size' = t.size
  /\ tombstones' = t.tombstones

\* needs_grow(): more than three quarters of the slots are not empty.
CountsLive == 4 * size > 3 * cap   \* mutant: tombstones do not count
NeedsGrow == 4 * (size + tombstones) > 3 * cap

\* insert(k, v).  The table grows first if it has to, also when k is in it;
\* if it cannot grow, insert fails and nothing changes.
Insert(k, v) ==
  LET c == IF cap = 0 THEN MinCap ELSE IF NeedsGrow THEN 2 * cap ELSE cap
      base == [ ctrl |-> ctrl, entries |-> entries,
                size |-> size, tombstones |-> tombstones ]
  IN  /\ c <= MaxCap
      /\ cap' = c
      /\ Becomes(Inserted(IF c = cap THEN base ELSE Rehashed(c), c, k, v))

\* erase(k)
Erase(k) ==
  /\ cap # 0
  /\ FindSlot(k) # cap
  /\ ctrl' = [ctrl EXCEPT ![FindSlot(k)] = Tombstone]
  /\ entries' = [entries EXCEPT ![FindSlot(k)] = NoEntry]
  /\ size' = size - 1
  /\ tombstones' = tombstones + 1
  /\ UNCHANGED cap

\* reserve(want), c being want rounded up to a capacity.
Capacities == { c \in MinCap .. MaxCap : \E n \in 0 .. MaxCap : c = MinCap * 2 ^ n }
Reserve(c) ==
  /\ c > cap
  /\ cap' = c
  /\ Becomes(Rehashed(c))

Next ==
  \/ \E k \in Keys : Erase(k) \/ \E v \in Values : Insert(k, v)
  \/ \E c \in Capacities : Reserve(c)

Spec == Init /\ [][Next]_vars

-----------------------------------------------------------------------------

Holding(k) == { i \in DOMAIN ctrl : Live(i) /\ entries[i].key = k }

\* Whatever was inserted, erased and moved by growth, find reaches every key
\* that is in the table, and a key is in one slot only.
FindsAll ==
  \A k \in Keys :
    Holding(k) = IF cap = 0 \/ FindSlot(k) = cap THEN {} ELSE {FindSlot(k)}

\* A walk always comes to an empty slot, as insert_unchecked asserts: the
\* test for growth keeps one free, tombstones included.
SomeEmpty == cap # 0 => \E i \in DOMAIN ctrl : ctrl[i] = Empty

\* The table is the partial function it represents, and every operation is
\* an operation of the function or changes nothing.
Contents ==
  [ k \in { j \in Keys : Holding(j) # {} } |->
      entries[CHOOSE i \in Holding(k) : TRUE].value ]
Map == INSTANCE FiniteMap WITH map <- Contents
Implements == Map!Spec
=============================================================================
