-------------------------------- MODULE Arena -------------------------------
(***************************************************************************)
(* The bump allocator (ycpp_arena.h) as a value, so that the operations    *)
(* of a document can be composed of allocations: Alloc is the set of its   *)
(* outcomes, because malloc may fail.                                      *)
(*                                                                         *)
(* An arena is the list of its blocks, head_ first, and the allocations it *)
(* has handed out, which the code does not record.  A block has a number   *)
(* instead of an address; its payload is aligned for every request (malloc *)
(* aligns to 16 bytes, and no type here asks for more), so the padding     *)
(* follows from off alone.  reset and the destructor end the document; the *)
(* arena's free is never called; used_ only counts.                        *)
(***************************************************************************)
EXTENDS Naturals, Sequences, FiniteSets

CONSTANTS
  BlockBytes,   \* block_bytes_
  kMaxBlocks,
  Null          \* nullptr

ASSUME ArenaAssumption == BlockBytes \in Nat \ {0} /\ kMaxBlocks \in Nat \ {0}
ASSUME NullAssumption == Null \notin Nat \X Nat

NewArena == [ blocks |-> << >>, given |-> << >> ]

\* allocate_block
Block(a, cap) == [ number |-> Len(a.blocks) + 1, cap |-> cap, off |-> 0 ]

\* bump_from(b, n, align), for the block at place i of the list.
Pad(b, align) == (align - (b.off % align)) % align
Fits(b, n, align) == b.off + Pad(b, align) + n <= b.cap
IgnoresPad(a, i, n, align) ==   \* mutant: off moves by the size alone
  LET b == a.blocks[i]
      from == b.off + Pad(b, align)
  IN  [ arena |-> [ blocks |-> [a.blocks EXCEPT ![i].off = b.off + n],
                    given |-> Append(a.given, [ block |-> b.number, from |-> from,
                                                n |-> n, align |-> align ]) ],
        at |-> << b.number, from >> ]
Bumped(a, i, n, align) ==
  LET b == a.blocks[i]
      from == b.off + Pad(b, align)
  IN  [ arena |-> [ blocks |-> [a.blocks EXCEPT ![i].off = from + n],
                    given |-> Append(a.given, [ block |-> b.number, from |-> from,
                                                n |-> n, align |-> align ]) ],
        at |-> << b.number, from >> ]

Failed(a) == [ arena |-> a, at |-> Null ]

\* A block at the head of the list, or behind its head.
AtHead(a, cap) == [a EXCEPT !.blocks = << Block(a, cap) >> \o @]
BehindHead(a, cap) ==
  [a EXCEPT !.blocks = << Head(@), Block(a, cap) >> \o Tail(@)]

\* alloc_oversize_block: the head keeps its place, and its room.
AllocOversize(a, n, align) ==
  {Failed(a)} \cup
  IF Len(a.blocks) >= kMaxBlocks THEN {}
  ELSE IF a.blocks = << >> THEN { Bumped(AtHead(a, n + align), 1, n, align) }
  ELSE { Bumped(BehindHead(a, n + align), 2, n, align) }

\* alloc(n, align), n > 0: from the head, or from a fresh block.
Alloc(a, n, align) ==
  IF n + align > BlockBytes THEN AllocOversize(a, n, align)
  ELSE IF a.blocks # << >> /\ Fits(Head(a.blocks), n, align)
       THEN { Bumped(a, 1, n, align) }
  ELSE {Failed(a)} \cup
       IF Len(a.blocks) >= kMaxBlocks THEN {}
       ELSE { Bumped(AtHead(a, BlockBytes), 1, n, align) }
=============================================================================
