-------------------------------- MODULE Pool --------------------------------
(***************************************************************************)
(* The free-list pool (ycpp_pool.h) as a value: slots of one size, cut     *)
(* from slabs that come from the arena, handed out one at a time and taken *)
(* back.  The list of free slots is threaded through the slots themselves, *)
(* so a slot that is both free and in use is memory overwritten.           *)
(***************************************************************************)
EXTENDS Arena

CONSTANTS
  SlabSlots,    \* slab_slots_
  SlotBytes,    \* sizeof(T)
  SlotAlign,    \* alignof(T)
  SlabHeader,   \* kSlabHeaderBytes
  kMaxSlabs

ASSUME PoolAssumption ==
  {SlabSlots, SlotBytes, SlotAlign} \subseteq Nat \ {0} /\ SlabHeader \in Nat

NewPool == [ slabs |-> << >>, free |-> << >>, live |-> 0 ]

\* The slots of the slab at p.
Slots(p) ==
  [ i \in 1 .. SlabSlots |-> << p[1], p[2] + SlabHeader + (i - 1) * SlotBytes >> ]

NoSlot(a, p) == [ arena |-> a, pool |-> p, slot |-> Null ]
Took(a, p, slot) == [ arena |-> a, pool |-> [p EXCEPT !.live = @ + 1], slot |-> slot ]

\* grow_one: all slots of the new slab but the first become free.
Grown(a, p) ==
  {NoSlot(a, p)} \cup
  IF Len(p.slabs) >= kMaxSlabs THEN {}
  ELSE { LET slots == Slots(r.at)
         IN  Took(r.arena, [p EXCEPT !.slabs = << r.at >> \o @, !.free = Tail(slots) \o @],
                  slots[1])
         : r \in { s \in Alloc(a, SlabHeader + SlotBytes * SlabSlots, SlotAlign) :
                     s.at # Null } }

\* acquire
Acquire(a, p) ==
  IF p.free # << >> THEN { Took(a, [p EXCEPT !.free = Tail(@)], Head(p.free)) }
  ELSE Grown(a, p)

\* release
Release(p, slot) == [p EXCEPT !.free = << slot >> \o @, !.live = @ - 1]
=============================================================================
