------------------------------ MODULE DocMemory -----------------------------
(***************************************************************************)
(* What a document does with its memory: the items of one client in its    *)
(* pool and in the store's vector, the delete set's vector, the bytes      *)
(* cloned for names and values, all from one arena whose malloc may fail   *)
(* at any allocation (ycpp_doc.h, ycpp_struct_store.h, ycpp_delete_set.h). *)
(*                                                                         *)
(* Left out: the hash tables and the roots, which the document is taken to *)
(* have already; the bytes a decoder keeps while it runs; and integration, *)
(* which allocates nothing.                                                *)
(***************************************************************************)
EXTENDS Pool, DeleteSet

CONSTANTS
  NameBytes, ValueBytes,       \* of a root's name; of a value, one size per item
  PtrBytes,                    \* sizeof(Item*), and its alignment
  RangeBytes, RangeAlign,      \* of DeleteRange
  InitialItems, MaxItems,      \* StructStore: kInitialPerClientCap, kMaxPerClientItems
  InitialRanges, MaxRanges     \* DeleteSet: the same of kMaxPerClientRanges

ASSUME VectorAssumption ==
  {InitialItems, MaxItems, InitialRanges, MaxRanges} \subseteq Nat \ {0}
ASSUME BytesAssumption ==
  /\ {NameBytes, PtrBytes, RangeBytes, RangeAlign} \subseteq Nat \ {0}
  /\ ValueBytes \subseteq Nat \ {0}

VARIABLES
  arena,    \* alloc_
  pool,     \* item_pool_
  items,    \* the client's vector in store_: the slots of its items
  room,     \* its capacity
  flagged,  \* the items whose kFlagDeleted is set: each has one clock
  width     \* the capacity of the delete set's vector

memory == << arena, pool >>
vars == << arena, pool, items, room, flagged, data, width >>

Init ==
  /\ arena = NewArena /\ pool = NewPool
  /\ items = << >> /\ room = 0
  /\ flagged = {}
  /\ data = << >> /\ width = 0

-----------------------------------------------------------------------------

\* ensure_cap(vec, need), the same for both vectors: the outcomes.  One more
\* than a full vector is at most twice its capacity, so the loop that doubles
\* again never turns.  The old buffer stays behind in the arena.
EnsureCap(a, cap, need, initial, max, size, align) ==
  LET wanted == IF cap = 0 THEN initial ELSE 2 * cap
      fresh == IF wanted > max THEN max ELSE wanted
  IN  IF need <= cap THEN {[ arena |-> a, cap |-> cap, status |-> "kOk" ]}
      ELSE IF need > max
           THEN {[ arena |-> a, cap |-> cap, status |-> "kCapacityExceeded" ]}
      ELSE { IF r.at = Null
             THEN [ arena |-> a, cap |-> cap, status |-> "kOutOfMemory" ]
             ELSE [ arena |-> r.arena, cap |-> fresh, status |-> "kOk" ]
             : r \in Alloc(a, size * fresh, align) }

\* acquire and the clones of name and value: the second clone is made even
\* when the first one failed, and then the slot goes back.
KeepsSlot(n) ==   \* mutant: the slot does not go back
  UNION { IF t.slot = Null THEN {t}
          ELSE UNION { { [ t EXCEPT !.arena = v.arena,
                                    !.slot = IF c.at = Null \/ v.at = Null THEN Null ELSE @ ]
                         : v \in Alloc(c.arena, n, 1) }
                       : c \in Alloc(t.arena, NameBytes, 1) }
          : t \in Acquire(arena, pool) }
NewItem(n) ==
  UNION { IF t.slot = Null THEN {t}
          ELSE UNION { { IF c.at = Null \/ v.at = Null
                         THEN NoSlot(v.arena, Release(t.pool, t.slot))
                         ELSE [ arena |-> v.arena, pool |-> t.pool, slot |-> t.slot ]
                         : v \in Alloc(c.arena, n, 1) }
                       : c \in Alloc(t.arena, NameBytes, 1) }
          : t \in Acquire(arena, pool) }

\* emit_array_item, and apply_one for a struct at the expected clock:
\* append needs room in the vector, or the slot goes back.
AddItem(n) ==
  /\ Len(items) < MaxClock
  /\ \E new \in NewItem(n) :
       \/ /\ new.slot = Null
          /\ arena' = new.arena /\ pool' = new.pool
          /\ UNCHANGED << items, room >>
       \/ /\ new.slot # Null
          /\ \E vec \in EnsureCap(new.arena, room, Len(items) + 1, InitialItems, MaxItems,
                                  PtrBytes, PtrBytes) :
               /\ arena' = vec.arena
               /\ \/ /\ vec.status = "kOk"
                     /\ items' = Append(items, new.slot)
                     /\ room' = vec.cap
                     /\ pool' = new.pool
                  \/ /\ vec.status # "kOk"
                     /\ pool' = Release(new.pool, new.slot)
                     /\ UNCHANGED << items, room >>
  /\ UNCHANGED << flagged, data, width >>

\* apply_one for a struct beyond the expected clock: the store rejects it
\* and the slot goes back.  The clones stay in the arena, pass after pass.
RejectItem(n) ==
  /\ \E new \in NewItem(n) :
       /\ arena' = new.arena
       /\ pool' = IF new.slot = Null THEN new.pool ELSE Release(new.pool, new.slot)
  /\ UNCHANGED << items, room, flagged, data, width >>

\* DeleteSet::add; ok says whether it succeeded.
AddRange(clock, length, ok) ==
  \/ /\ Touches(clock)
     /\ ok
     /\ data' = Extended(clock, length)
     /\ UNCHANGED << arena, width >>
  \/ /\ ~Touches(clock)
     /\ \E vec \in EnsureCap(arena, width, Len(data) + 1, InitialRanges, MaxRanges,
                             RangeBytes, RangeAlign) :
          /\ ok = (vec.status = "kOk")
          /\ arena' = vec.arena
          /\ width' = vec.cap
          /\ data' = IF ok THEN Inserted(clock, length) ELSE data

\* array_delete_at for the item at clock: it is flagged whether or not the
\* delete set can take it.
DeleteItem(clock) ==
  /\ clock < Len(items) /\ clock \notin flagged
  /\ flagged' = flagged \cup {clock}
  /\ \E ok \in BOOLEAN : AddRange(clock, 1, ok)
  /\ UNCHANGED << pool, items, room >>

\* One range of an update's delete set (apply_update_v1, mark_range_deleted).
LearnRange(clock, length) ==
  /\ \E ok \in BOOLEAN :
       /\ AddRange(clock, length, ok)
       /\ flagged' = IF ok THEN flagged \cup ((clock .. (clock + length - 1))
                                              \cap (0 .. (Len(items) - 1)))
                     ELSE flagged
  /\ UNCHANGED << pool, items, room >>

Next ==
  \/ \E n \in ValueBytes : AddItem(n) \/ RejectItem(n)
  \/ \E c \in 0 .. MaxClock : DeleteItem(c)
  \/ \E r \in Ranges : LearnRange(r[1], r[2])

Spec == Init /\ [][Next]_vars

-----------------------------------------------------------------------------

\* Whatever was allocated in whatever order, and whatever failed: an
\* allocation is aligned, lies inside its block and shares no byte with
\* another one (alloc, bump_from, alloc_oversize_block).
NoOverlap ==
  LET all == arena.given IN
  /\ \A i \in DOMAIN all :
       /\ all[i].from % all[i].align = 0
       /\ \E k \in DOMAIN arena.blocks :
            /\ arena.blocks[k].number = all[i].block
            /\ all[i].from + all[i].n <= arena.blocks[k].cap
  /\ \A i, j \in DOMAIN all :
       i # j /\ all[i].block = all[j].block =>
         all[i].from + all[i].n <= all[j].from \/ all[j].from + all[j].n <= all[i].from

\* The inductive invariant behind it: blocks have numbers of their own, what
\* was handed out of a block lies below its off, and off within its cap.
Blocks == [ number : Nat, cap : Nat, off : Nat ]
Allocations == [ block : Nat, from : Nat, n : Nat, align : Nat \ {0} ]

Layout(blocks, given) ==
  /\ \A k \in DOMAIN blocks :
       /\ blocks[k].number \in 1 .. Len(blocks)
       /\ blocks[k].off <= blocks[k].cap
  /\ \A k, l \in DOMAIN blocks : blocks[k].number = blocks[l].number => k = l
  /\ \A i \in DOMAIN given :
       /\ given[i].from % given[i].align = 0
       /\ \E k \in DOMAIN blocks :
            /\ blocks[k].number = given[i].block
            /\ given[i].from + given[i].n <= blocks[k].off
  /\ \A i, j \in DOMAIN given :
       i < j /\ given[i].block = given[j].block =>
         given[i].from + given[i].n <= given[j].from

ArenaOK(a) ==
  /\ a \in [ blocks : Seq(Blocks), given : Seq(Allocations) ]
  /\ Layout(a.blocks, a.given)

MemoryInv == ArenaOK(arena) /\ room \in Nat /\ width \in Nat

\* Every slot of every slab is either in the store, once, or free, once:
\* none is lost and none is handed out twice, through failed clones, rejected
\* structs and full vectors (acquire, release, grow_one and their callers).
SlotOnce ==
  LET slots == UNION { { Slots(pool.slabs[i])[j] : j \in 1 .. SlabSlots }
                       : i \in DOMAIN pool.slabs }
      known == items \o pool.free
  IN  /\ { known[i] : i \in DOMAIN known } = slots
      /\ Len(known) = Cardinality(slots)
      /\ pool.live = Len(items)
=============================================================================
