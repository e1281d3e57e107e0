---------------------------- MODULE MemoryProofs ----------------------------
(***************************************************************************)
(* The memory of a document, for every size of blocks and types, every     *)
(* limit and every failure of malloc: no two allocations overlap, a slot   *)
(* is free once or in the store once, and the ranges of the delete set     *)
(* are sorted, found by the binary search, and the set of clocks added.    *)
(*                                                                         *)
(* Allocations.  In a block everything handed out lies below off, and the  *)
(* next allocation begins at off or above (BumpedOK).  A fresh block has a *)
(* number of its own and room for what it was made for (AtHeadOK,          *)
(* BehindHeadOK).  So every outcome of Alloc keeps ArenaOK, and so does    *)
(* every chain of allocations that an operation is composed of.            *)
(*                                                                         *)
(* Slots.  The slots of a slab stand a slot's size apart inside its        *)
(* allocation, and slabs are allocations, hence apart themselves.          *)
(*                                                                         *)
(* Ranges.  The halving search returns the length of a prefix, by          *)
(* induction on the width of its window.  An added range that takes in     *)
(* exactly the successors it reaches leaves the ranges apart and covers    *)
(* the union of the clocks.                                                *)
(***************************************************************************)
EXTENDS DocMemory, FiniteSetTheorems, WellFoundedInduction, TLAPS

\* The padding takes off to the next multiple of the alignment.
LEMMA PadAligns ==
  ASSUME NEW off \in Nat, NEW align \in Nat \ {0}
  PROVE  /\ (align - (off % align)) % align \in Nat
         /\ (off + ((align - (off % align)) % align)) % align = 0
<1> DEFINE r == off % align
           q == off \div align
<1>1. r \in 0 .. (align - 1) /\ q \in Nat /\ off = align * q + r
  OBVIOUS
<1> SUFFICES (align - r) % align \in Nat /\ (off + ((align - r) % align)) % align = 0
  OBVIOUS
<1> HIDE DEF r, q
<1>2. CASE r = 0
  <2>1. (align - r) % align = 0
    <3>1. align - r = align /\ align % align = 0
      BY <1>2
    <3> QED  BY <3>1
  <2>2. off % align = 0
    BY <1>2 DEF r
  <2>3. off + ((align - r) % align) = off
    BY <2>1
  <2> QED  BY <2>1, <2>2, <2>3
<1>3. CASE r # 0
  <2>1. align - r \in Nat /\ align - r < align
    BY <1>1, <1>3
  <2>2. (align - r) % align = align - r
    BY <2>1
  <2>3. off + (align - r) = align * (q + 1)
    BY <1>1
  <2>4. (align * (q + 1)) % align = 0
    BY <1>1
  <2> QED  BY <2>1, <2>2, <2>3, <2>4
<1> QED  BY <1>2, <1>3

\* An empty block has room for a request of its size less the alignment.
LEMMA FreshFits ==
  ASSUME NEW a, NEW cap \in Nat, NEW n \in Nat, NEW align \in Nat \ {0}, n + align <= cap
  PROVE  Fits(Block(a, cap), n, align)
<1>1. 0 % align = 0 /\ align % align = 0
  OBVIOUS
<1> QED  BY <1>1 DEF Fits, Block, Pad

\* The fields of the elements, and where they are.
LEMMA Fields ==
  ASSUME NEW blocks \in Seq(Blocks), NEW given \in Seq(Allocations)
  PROVE  /\ DOMAIN blocks = 1 .. Len(blocks) /\ Len(blocks) \in Nat
         /\ DOMAIN given = 1 .. Len(given) /\ Len(given) \in Nat
         /\ \A k \in DOMAIN blocks :
              /\ blocks[k] \in Blocks
              /\ blocks[k].number \in Nat /\ blocks[k].cap \in Nat /\ blocks[k].off \in Nat
         /\ \A i \in DOMAIN given :
              given[i].block \in Nat /\ given[i].from \in Nat /\ given[i].n \in Nat
<1>1. \A b \in Blocks : b.number \in Nat /\ b.cap \in Nat /\ b.off \in Nat
  BY DEF Blocks
<1>2. \A g \in Allocations : g.block \in Nat /\ g.from \in Nat /\ g.n \in Nat
  BY DEF Allocations
<1> QED  BY <1>1, <1>2

\* An allocation from off or above, at the end of the list of all of them.
LEMMA LayoutBumped ==
  ASSUME NEW blocks \in Seq(Blocks), NEW given \in Seq(Allocations), Layout(blocks, given),
         NEW k \in DOMAIN blocks, NEW c \in Blocks, NEW g \in Allocations,
         c.number = blocks[k].number, c.cap = blocks[k].cap, c.off = g.from + g.n,
         g.block = blocks[k].number, g.from % g.align = 0,
         blocks[k].off <= g.from, g.from + g.n <= blocks[k].cap
  PROVE  Layout([blocks EXCEPT ![k] = c], Append(given, g))
<1> DEFINE bs == [blocks EXCEPT ![k] = c]
           gs == Append(given, g)
<1>1. /\ bs \in Seq(Blocks) /\ Len(bs) = Len(blocks) /\ DOMAIN bs = DOMAIN blocks
      /\ bs[k] = c /\ \A l \in DOMAIN blocks : l # k => bs[l] = blocks[l]
  OBVIOUS
<1>2. /\ gs \in Seq(Allocations) /\ Len(gs) = Len(given) + 1
      /\ gs[Len(given) + 1] = g /\ \A i \in DOMAIN given : gs[i] = given[i]
      /\ DOMAIN gs = DOMAIN given \cup {Len(given) + 1}
  OBVIOUS
<1>3. /\ g.from \in Nat /\ g.n \in Nat
  BY DEF Allocations
<1> HIDE DEF bs, gs
<1>4. ASSUME NEW l \in DOMAIN blocks
      PROVE  /\ bs[l].number = blocks[l].number /\ bs[l].cap = blocks[l].cap
             /\ blocks[l].off <= bs[l].off /\ bs[l].off <= bs[l].cap
  <2>0. blocks[l].off \in Nat /\ blocks[l].cap \in Nat
    BY Fields
  <2>1. CASE l = k
    BY <1>1, <1>3, <2>0, <2>1
  <2>2. CASE l # k
    <3>1. blocks[l].off <= blocks[l].cap
      BY DEF Layout
    <3> QED  BY <1>1, <2>0, <2>2, <3>1
  <2> QED  BY <2>1, <2>2
<1>5. \A l \in DOMAIN bs :
        bs[l].number \in 1 .. Len(bs) /\ bs[l].off <= bs[l].cap
  BY <1>1, <1>4 DEF Layout
<1>6. \A l, m \in DOMAIN bs : bs[l].number = bs[m].number => l = m
  BY <1>1, <1>4 DEF Layout
<1>7. ASSUME NEW i \in DOMAIN given
      PROVE  \E l \in DOMAIN blocks :
               /\ bs[l].number = given[i].block
               /\ given[i].from + given[i].n <= blocks[l].off
               /\ given[i].from + given[i].n <= bs[l].off
  <2>1. PICK l \in DOMAIN blocks : /\ blocks[l].number = given[i].block
                                   /\ given[i].from + given[i].n <= blocks[l].off
    BY DEF Layout
  <2>2. /\ blocks[l].off \in Nat /\ bs[l].off \in Nat
        /\ given[i].from + given[i].n \in Nat
    BY <1>1, Fields
  <2> QED  BY <1>4, <2>1, <2>2
<1>8. ASSUME NEW i \in DOMAIN gs
      PROVE  /\ gs[i].from % gs[i].align = 0
             /\ \E l \in DOMAIN bs : /\ bs[l].number = gs[i].block
                                      /\ gs[i].from + gs[i].n <= bs[l].off
  <2>1. CASE i = Len(given) + 1
    <3>1. /\ gs[i] = g /\ bs[k].number = g.block /\ bs[k].off = g.from + g.n
          /\ k \in DOMAIN bs /\ g.from + g.n <= g.from + g.n
      BY <1>1, <1>2, <1>3, <2>1
    <3> QED  BY <3>1
  <2>2. CASE i \in DOMAIN given
    <3>1. gs[i] = given[i] /\ DOMAIN bs = DOMAIN blocks
      BY <1>1, <1>2, <2>2
    <3>2. given[i].from % given[i].align = 0
      BY <2>2 DEF Layout
    <3> QED  BY <1>7, <2>2, <3>1, <3>2
  <2> QED  BY <1>2, <2>1, <2>2
<1>9. ASSUME NEW i \in DOMAIN gs, NEW j \in DOMAIN gs, i < j, gs[i].block = gs[j].block
      PROVE  gs[i].from + gs[i].n <= gs[j].from
  <2>1. i \in DOMAIN given
    BY <1>2, <1>9
  <2>2. CASE j = Len(given) + 1
    <3>1. PICK l \in DOMAIN blocks : /\ bs[l].number = given[i].block
                                     /\ given[i].from + given[i].n <= blocks[l].off
      BY <2>1, <1>7
    <3>2. blocks[l].number = blocks[k].number
      BY <1>2, <1>4, <1>9, <2>1, <2>2, <3>1
    <3>3. l = k
      BY <3>2 DEF Layout
    <3>4. given[i].from + given[i].n \in Nat /\ blocks[k].off \in Nat
      BY <2>1, Fields
    <3> QED  BY <1>2, <1>3, <2>1, <2>2, <3>1, <3>3, <3>4
  <2>3. CASE j \in DOMAIN given
    BY <1>2, <1>9, <2>1, <2>3 DEF Layout
  <2> QED  BY <1>2, <2>2, <2>3
<1>10. Layout(bs, gs)
  BY <1>5, <1>6, <1>8, <1>9 DEF Layout
<1> QED  BY <1>10 DEF bs, gs

\* Bumping a block that has room.
LEMMA BumpedOK ==
  ASSUME NEW a, ArenaOK(a), NEW k \in DOMAIN a.blocks,
         NEW n \in Nat, NEW align \in Nat \ {0}, Fits(a.blocks[k], n, align)
  PROVE  ArenaOK(Bumped(a, k, n, align).arena)
<1> DEFINE b == a.blocks[k]
           from == b.off + Pad(b, align)
           g == [ block |-> b.number, from |-> from, n |-> n, align |-> align ]
           c == [b EXCEPT !.off = from + n]
           blocks == [a.blocks EXCEPT ![k] = c]
           given == Append(a.given, g)
<1>1. Bumped(a, k, n, align).arena = [ blocks |-> blocks, given |-> given ]
  BY DEF Bumped
<1>2. /\ a.blocks \in Seq(Blocks) /\ a.given \in Seq(Allocations)
      /\ Layout(a.blocks, a.given)
  BY DEF ArenaOK
<1>3. b \in Blocks /\ b.number \in Nat /\ b.off \in Nat /\ b.cap \in Nat
  BY <1>2, Fields
<1>4. /\ from \in Nat /\ b.off <= from /\ from % align = 0 /\ from + n <= b.cap
  <2>1. Pad(b, align) \in Nat /\ from % align = 0
    <3> HIDE DEF b
    <3>1. /\ (align - (b.off % align)) % align \in Nat
          /\ (b.off + ((align - (b.off % align)) % align)) % align = 0
      BY <1>3, PadAligns
    <3> QED  BY <3>1 DEF Pad
  <2>2. from + n <= b.cap
    BY DEF Fits
  <2> HIDE DEF b
  <2> QED  BY <1>3, <2>1, <2>2
<1>5. /\ g.block = b.number /\ g.from = from /\ g.n = n /\ g.align = align
  OBVIOUS
<1> HIDE DEF b, from
<1>6. /\ g \in Allocations
  BY <1>3, <1>4 DEF Allocations
<1>7. c \in Blocks /\ c.number = b.number /\ c.cap = b.cap /\ c.off = from + n
  BY <1>3, <1>4 DEF Blocks
<1> HIDE DEF c, g
<1>8. blocks \in Seq(Blocks) /\ given \in Seq(Allocations)
  BY <1>2, <1>6, <1>7
<1>9. Layout(blocks, given)
  <2>1. b = a.blocks[k]
    BY DEF b
  <2> HIDE DEF blocks, given
  <2> QED  BY <1>2, <1>4, <1>5, <1>6, <1>7, <2>1, LayoutBumped DEF blocks, given
<1> HIDE DEF blocks, given
<1> QED  BY <1>1, <1>8, <1>9 DEF ArenaOK

\* A fresh block put into the list at place p.
LEMMA LayoutFresh ==
  ASSUME NEW blocks \in Seq(Blocks), NEW given \in Seq(Allocations), Layout(blocks, given),
         NEW p \in 1 .. (Len(blocks) + 1), NEW b \in Blocks,
         b.number = Len(blocks) + 1, b.off <= b.cap,
         NEW bs \in Seq(Blocks), Len(bs) = Len(blocks) + 1,
         bs[p] = b,
         \A k \in 1 .. (p - 1) : bs[k] = blocks[k],
         \A k \in p .. Len(blocks) : bs[k + 1] = blocks[k]
  PROVE  Layout(bs, given)
<1>1. ASSUME NEW k \in DOMAIN bs
      PROVE  \/ k = p
             \/ /\ k < p /\ k \in DOMAIN blocks /\ bs[k] = blocks[k]
             \/ /\ p < k /\ k - 1 \in DOMAIN blocks /\ bs[k] = blocks[k - 1]
  <2>1. k \in 1 .. (Len(blocks) + 1) /\ Len(blocks) \in Nat
    BY Fields
  <2>2. CASE p < k
    <3>1. k - 1 \in p .. Len(blocks) /\ (k - 1) + 1 = k
      BY <2>1, <2>2
    <3> QED  BY <2>2, <3>1, Fields
  <2>3. CASE k < p
    <3>1. k \in 1 .. (p - 1) /\ k \in 1 .. Len(blocks)
      BY <2>1, <2>3
    <3> QED  BY <2>3, <3>1, Fields
  <2> QED  BY <2>1, <2>2, <2>3
<1>2. \A k \in DOMAIN blocks : blocks[k].number \in Nat /\ blocks[k].number <= Len(blocks)
  BY Fields DEF Layout
<1> DEFINE Distinct == \A k, l \in DOMAIN blocks : blocks[k].number = blocks[l].number => k = l
<1>d. Distinct
  BY DEF Layout
<1>3. \A k \in DOMAIN bs :
        bs[k].number \in 1 .. Len(bs) /\ bs[k].off <= bs[k].cap
  <2> SUFFICES ASSUME NEW k \in DOMAIN bs
               PROVE  bs[k].number \in 1 .. Len(bs) /\ bs[k].off <= bs[k].cap
    OBVIOUS
  <2>1. \A j \in DOMAIN blocks : /\ blocks[j].number \in 1 .. Len(blocks)
                                 /\ blocks[j].off <= blocks[j].cap
    BY DEF Layout
  <2>2. Len(blocks) \in Nat /\ Len(bs) = Len(blocks) + 1
    BY Fields
  <2>3. CASE k = p
    BY <2>2, <2>3
  <2>4. CASE k # p
    <3>1. \E j \in DOMAIN blocks : bs[k] = blocks[j]
      BY <1>1, <2>4
    <3> QED  BY <3>1, <2>1, <2>2
  <2> QED  BY <2>3, <2>4
<1>4. ASSUME NEW k \in DOMAIN bs, NEW l \in DOMAIN bs, bs[k].number = bs[l].number
      PROVE  k = l
  <2>1. CASE k = p \/ l = p
    <3>1. k # p => bs[k].number <= Len(blocks)
      BY <1>1, <1>2
    <3>2. l # p => bs[l].number <= Len(blocks)
      BY <1>1, <1>2
    <3> QED  BY <1>4, <2>1, <3>1, <3>2, Fields
  <2>i. k \in Nat /\ l \in Nat /\ p \in Nat
    BY Fields
  <2>2. CASE k < p /\ l < p
    BY <1>1, <1>4, <1>d, <2>2, <2>i
  <2>3. CASE p < k /\ p < l
    <3>1. k - 1 \in DOMAIN blocks /\ l - 1 \in DOMAIN blocks
          /\ blocks[k - 1].number = blocks[l - 1].number
      <4>1. k \notin {p} /\ l \notin {p} /\ ~(k < p) /\ ~(l < p)
        BY <2>3, <2>i
      <4> QED  BY <1>1, <1>4, <4>1
    <3>2. k - 1 = l - 1
      BY <1>d, <3>1
    <3> QED  BY <2>i, <3>2
  <2>4. CASE k < p /\ p < l
    <3>1. k \in DOMAIN blocks /\ l - 1 \in DOMAIN blocks
          /\ blocks[k].number = blocks[l - 1].number
      BY <1>1, <1>4, <2>4, <2>i
    <3>2. k = l - 1
      BY <1>d, <3>1
    <3> QED  BY <2>4, <2>i, <3>2
  <2>5. CASE p < k /\ l < p
    <3>1. k - 1 \in DOMAIN blocks /\ l \in DOMAIN blocks
          /\ blocks[k - 1].number = blocks[l].number
      BY <1>1, <1>4, <2>5, <2>i
    <3>2. k - 1 = l
      BY <1>d, <3>1
    <3> QED  BY <2>5, <2>i, <3>2
  <2> QED  BY <2>1, <2>2, <2>3, <2>4, <2>5, <2>i
<1>5. \A k \in DOMAIN blocks : \E l \in DOMAIN bs : bs[l] = blocks[k]
  <2> SUFFICES ASSUME NEW k \in DOMAIN blocks PROVE \E l \in DOMAIN bs : bs[l] = blocks[k]
    OBVIOUS
  <2>1. k \in 1 .. Len(blocks) /\ DOMAIN bs = 1 .. (Len(blocks) + 1)
    BY Fields
  <2>2. CASE k < p
    BY <2>1, <2>2
  <2>3. CASE p <= k
    <3>1. k + 1 \in DOMAIN bs /\ bs[k + 1] = blocks[k]
      BY <2>1, <2>3, Fields
    <3> QED  BY <3>1
  <2> QED  BY <2>1, <2>2, <2>3
<1>6. ASSUME NEW i \in DOMAIN given
      PROVE  /\ given[i].from % given[i].align = 0
             /\ \E l \in DOMAIN bs : /\ bs[l].number = given[i].block
                                      /\ given[i].from + given[i].n <= bs[l].off
  <2>1. PICK k \in DOMAIN blocks : /\ blocks[k].number = given[i].block
                                   /\ given[i].from + given[i].n <= blocks[k].off
    BY DEF Layout
  <2>2. given[i].from % given[i].align = 0
    BY DEF Layout
  <2>3. PICK l \in DOMAIN bs : bs[l] = blocks[k]
    BY <1>5
  <2> QED  BY <2>1, <2>2, <2>3
<1> QED  BY <1>3, <1>4, <1>6 DEF Layout

\* A fresh block at the head.
LEMMA AtHeadOK ==
  ASSUME NEW a, ArenaOK(a), NEW cap \in Nat
  PROVE  /\ ArenaOK(AtHead(a, cap))
         /\ 1 \in DOMAIN AtHead(a, cap).blocks
         /\ AtHead(a, cap).blocks[1] = Block(a, cap)
<1> DEFINE old == a.blocks
           b == Block(a, cap)
           bs == << b >> \o old
<1>1. old \in Seq(Blocks) /\ a.given \in Seq(Allocations) /\ Layout(old, a.given)
  BY DEF ArenaOK
<1>2. AtHead(a, cap) \in [ blocks : {bs}, given : {a.given} ]
  BY DEF AtHead, ArenaOK
<1>3. b.number = Len(old) + 1 /\ b.off = 0 /\ b.cap = cap
  BY DEF Block
<1>4. b \in Blocks
  BY <1>1 DEF Block, Blocks
<1> HIDE DEF b, old
<1>5. /\ bs \in Seq(Blocks) /\ Len(bs) = Len(old) + 1 /\ bs[1] = b
      /\ \A k \in 1 .. Len(old) : bs[k + 1] = old[k]
  BY <1>1, <1>4
<1> HIDE DEF bs
<1>6. Layout(bs, a.given)
  <2>1. 1 \in 1 .. (Len(old) + 1) /\ \A k \in 1 .. (1 - 1) : bs[k] = old[k]
    BY <1>1
  <2>2. b.off <= b.cap
    BY <1>3
  <2> QED  BY <1>1, <1>3, <1>4, <1>5, <2>1, <2>2, LayoutFresh
<1>7. 1 \in DOMAIN bs
  BY <1>1, <1>5
<1> QED  BY <1>1, <1>2, <1>5, <1>6, <1>7 DEF ArenaOK, b

\* A fresh block behind the head.
LEMMA BehindHeadOK ==
  ASSUME NEW a, ArenaOK(a), a.blocks # << >>, NEW cap \in Nat
  PROVE  /\ ArenaOK(BehindHead(a, cap))
         /\ 2 \in DOMAIN BehindHead(a, cap).blocks
         /\ BehindHead(a, cap).blocks[2] = Block(a, cap)
<1> DEFINE old == a.blocks
           b == Block(a, cap)
           tail == Tail(old)
           bs == << Head(old), b >> \o tail
<1>1. /\ old \in Seq(Blocks) /\ a.given \in Seq(Allocations) /\ Layout(old, a.given)
      /\ old # << >>
  BY DEF ArenaOK
<1>2. BehindHead(a, cap) \in [ blocks : {bs}, given : {a.given} ]
  BY DEF BehindHead, ArenaOK
<1>3. b.number = Len(old) + 1 /\ b.off = 0 /\ b.cap = cap
  BY DEF Block
<1>4. b \in Blocks
  BY <1>1 DEF Block, Blocks
<1> HIDE DEF b, old
<1>5. /\ Head(old) = old[1] /\ Head(old) \in Blocks /\ Len(old) \in Nat \ {0}
      /\ tail \in Seq(Blocks) /\ Len(tail) = Len(old) - 1
      /\ \A k \in 1 .. (Len(old) - 1) : tail[k] = old[k + 1]
  BY <1>1
<1> HIDE DEF tail
<1>6. /\ bs \in Seq(Blocks) /\ Len(bs) = Len(tail) + 2 /\ bs[1] = Head(old) /\ bs[2] = b
      /\ \A k \in 1 .. Len(tail) : bs[k + 2] = tail[k]
  BY <1>4, <1>5
<1> HIDE DEF bs
<1>7. \A k \in 2 .. Len(old) : bs[k + 1] = old[k]
  <2> SUFFICES ASSUME NEW k \in 2 .. Len(old) PROVE bs[k + 1] = old[k]
    OBVIOUS
  <2>1. k - 1 \in 1 .. Len(tail) /\ (k - 1) + 2 = k + 1 /\ (k - 1) + 1 = k
    BY <1>5
  <2> QED  BY <1>5, <1>6, <2>1
<1>8. Layout(bs, a.given)
  <2>1. 2 \in 1 .. (Len(old) + 1) /\ Len(bs) = Len(old) + 1
    BY <1>5, <1>6
  <2>2. \A k \in 1 .. (2 - 1) : bs[k] = old[k]
    BY <1>5, <1>6
  <2>3. b.off <= b.cap
    BY <1>3
  <2> QED  BY <1>1, <1>3, <1>4, <1>6, <1>7, <2>1, <2>2, <2>3, LayoutFresh
<1>9. 2 \in DOMAIN bs
  BY <1>5, <1>6
<1> QED  BY <1>1, <1>2, <1>6, <1>8, <1>9 DEF ArenaOK, b

\* Every outcome of an allocation.
LEMMA AllocOK ==
  ASSUME NEW a, ArenaOK(a), NEW n \in Nat, NEW align \in Nat \ {0},
         NEW r \in Alloc(a, n, align)
  PROVE  ArenaOK(r.arena)
<1>1. CASE r = Failed(a)
  BY <1>1 DEF Failed
<1>2. CASE /\ a.blocks # << >> /\ Fits(Head(a.blocks), n, align)
           /\ r = Bumped(a, 1, n, align)
  <2>1. a.blocks \in Seq(Blocks)
    BY DEF ArenaOK
  <2>2. 1 \in DOMAIN a.blocks /\ Head(a.blocks) = a.blocks[1]
    BY <1>2, <2>1
  <2> QED  BY <1>2, <2>2, BumpedOK
<1>3. ASSUME NEW cap \in Nat, n + align <= cap, r = Bumped(AtHead(a, cap), 1, n, align)
      PROVE  ArenaOK(r.arena)
  <2>0. /\ ArenaOK(AtHead(a, cap)) /\ 1 \in DOMAIN AtHead(a, cap).blocks
        /\ AtHead(a, cap).blocks[1] = Block(a, cap)
    BY <1>3, AtHeadOK
  <2>1. Fits(AtHead(a, cap).blocks[1], n, align)
    BY <1>3, <2>0, FreshFits
  <2> QED  BY <1>3, <2>0, <2>1, BumpedOK
<1>4. ASSUME NEW cap \in Nat, n + align <= cap, a.blocks # << >>,
             r = Bumped(BehindHead(a, cap), 2, n, align)
      PROVE  ArenaOK(r.arena)
  <2>0. /\ ArenaOK(BehindHead(a, cap)) /\ 2 \in DOMAIN BehindHead(a, cap).blocks
        /\ BehindHead(a, cap).blocks[2] = Block(a, cap)
    BY <1>4, BehindHeadOK
  <2>1. Fits(BehindHead(a, cap).blocks[2], n, align)
    BY <1>4, <2>0, FreshFits
  <2> QED  BY <1>4, <2>0, <2>1, BumpedOK
<1>5. CASE n + align > BlockBytes
  <2>1. r \in AllocOversize(a, n, align)
    BY <1>5 DEF Alloc
  <2>2. \/ r = Failed(a)
        \/ r = Bumped(AtHead(a, n + align), 1, n, align)
        \/ a.blocks # << >> /\ r = Bumped(BehindHead(a, n + align), 2, n, align)
    BY <2>1 DEF AllocOversize
  <2> QED  BY <2>2, <1>1, <1>3, <1>4
<1>6. CASE ~(n + align > BlockBytes)
  <2>1. \/ r = Failed(a)
        \/ a.blocks # << >> /\ Fits(Head(a.blocks), n, align) /\ r = Bumped(a, 1, n, align)
        \/ r = Bumped(AtHead(a, BlockBytes), 1, n, align)
    BY <1>6 DEF Alloc
  <2> QED  BY <1>1, <1>2, <1>3, <1>6, <2>1, ArenaAssumption
<1> QED  BY <1>5, <1>6

-----------------------------------------------------------------------------
(* The operations are chains of allocations.                               *)

LEMMA EnsureCapOK ==
  ASSUME NEW a, ArenaOK(a), NEW cap \in Nat, NEW need, NEW initial \in Nat \ {0},
         NEW max \in Nat \ {0}, NEW size \in Nat \ {0}, NEW align \in Nat \ {0},
         NEW vec \in EnsureCap(a, cap, need, initial, max, size, align)
  PROVE  ArenaOK(vec.arena) /\ vec.cap \in Nat
<1> DEFINE wanted == IF cap = 0 THEN initial ELSE 2 * cap
           fresh == IF wanted > max THEN max ELSE wanted
<1>1. fresh \in Nat /\ size * fresh \in Nat
  OBVIOUS
<1>2. CASE vec.arena = a /\ vec.cap = cap
  BY <1>2
<1>3. ASSUME NEW r \in Alloc(a, size * fresh, align),
             vec = IF r.at = Null
                   THEN [ arena |-> a, cap |-> cap, status |-> "kOutOfMemory" ]
                   ELSE [ arena |-> r.arena, cap |-> fresh, status |-> "kOk" ]
      PROVE  ArenaOK(vec.arena) /\ vec.cap \in Nat
  <2>1. ArenaOK(r.arena)
    BY <1>1, AllocOK
  <2> HIDE DEF fresh
  <2> QED  BY <1>1, <1>3, <2>1
<1>4. \/ vec.arena = a /\ vec.cap = cap
      \/ \E r \in Alloc(a, size * fresh, align) :
           vec = IF r.at = Null
                 THEN [ arena |-> a, cap |-> cap, status |-> "kOutOfMemory" ]
                 ELSE [ arena |-> r.arena, cap |-> fresh, status |-> "kOk" ]
  BY DEF EnsureCap
<1> HIDE DEF fresh
<1> QED  BY <1>2, <1>3, <1>4

LEMMA AcquireOK ==
  ASSUME NEW a, ArenaOK(a), NEW p, NEW t \in Acquire(a, p)
  PROVE  ArenaOK(t.arena)
<1> DEFINE bytes == SlabHeader + SlotBytes * SlabSlots
<1>1. bytes \in Nat /\ SlotAlign \in Nat \ {0}
  BY PoolAssumption
<1>2. CASE p.free # << >>
  BY <1>2 DEF Acquire, Took
<1>3. CASE p.free = << >>
  <2>1. t \in Grown(a, p)
    BY <1>3 DEF Acquire
  <2>2. t = NoSlot(a, p) \/ \E r \in Alloc(a, bytes, SlotAlign) : t.arena = r.arena
    <3>1. ASSUME t # NoSlot(a, p)
          PROVE  \E r \in Alloc(a, bytes, SlotAlign) : \E q, slot : t = Took(r.arena, q, slot)
      BY <2>1, <3>1 DEF Grown
    <3>2. \A x, q, slot : Took(x, q, slot).arena = x
      BY DEF Took
    <3> HIDE DEF bytes
    <3> QED  BY <3>1, <3>2
  <2>3. CASE t = NoSlot(a, p)
    BY <2>3 DEF NoSlot
  <2> HIDE DEF bytes
  <2> QED  BY <1>1, <2>2, <2>3, AllocOK
<1> QED  BY <1>2, <1>3

LEMMA NewItemOK ==
  ASSUME ArenaOK(arena), NEW n \in ValueBytes, NEW new \in NewItem(n)
  PROVE  ArenaOK(new.arena)
<1>1. n \in Nat /\ NameBytes \in Nat /\ 1 \in Nat \ {0}
  BY BytesAssumption
<1>2. PICK t \in Acquire(arena, pool) :
        \/ new = t
        \/ \E c \in Alloc(t.arena, NameBytes, 1) : \E v \in Alloc(c.arena, n, 1) :
             new = IF c.at = Null \/ v.at = Null
                   THEN NoSlot(v.arena, Release(t.pool, t.slot))
                   ELSE [ arena |-> v.arena, pool |-> t.pool, slot |-> t.slot ]
  BY DEF NewItem
<1>3. ArenaOK(t.arena)
  BY AcquireOK
<1> QED  BY <1>1, <1>2, <1>3, AllocOK DEF NoSlot

-----------------------------------------------------------------------------

LEMMA AddRangeOK ==
  ASSUME MemoryInv, NEW clock, NEW length, NEW ok, AddRange(clock, length, ok)
  PROVE  ArenaOK(arena') /\ width' \in Nat
<1>1. CASE UNCHANGED << arena, width >>
  BY <1>1 DEF MemoryInv
<1>2. CASE \E vec \in EnsureCap(arena, width, Len(data) + 1, InitialRanges, MaxRanges,
                                RangeBytes, RangeAlign) :
             arena' = vec.arena /\ width' = vec.cap
  BY <1>2, EnsureCapOK, BytesAssumption, VectorAssumption DEF MemoryInv
<1> QED  BY <1>1, <1>2 DEF AddRange

\* The step that keeps the invariant.
LEMMA NextMemory == MemoryInv /\ [Next]_vars => MemoryInv'
<1> SUFFICES ASSUME MemoryInv, [Next]_vars PROVE MemoryInv'
  OBVIOUS
<1>1. ASSUME NEW n \in ValueBytes, AddItem(n) PROVE MemoryInv'
  <2>1. PICK new \in NewItem(n) :
          \/ arena' = new.arena /\ UNCHANGED << items, room >>
          \/ \E vec \in EnsureCap(new.arena, room, Len(items) + 1, InitialItems, MaxItems,
                                  PtrBytes, PtrBytes) :
               arena' = vec.arena /\ (room' = vec.cap \/ UNCHANGED room)
    BY <1>1 DEF AddItem
  <2>2. ArenaOK(new.arena)
    BY NewItemOK DEF MemoryInv
  <2>3. ASSUME NEW vec \in EnsureCap(new.arena, room, Len(items) + 1, InitialItems, MaxItems,
                                     PtrBytes, PtrBytes)
        PROVE  ArenaOK(vec.arena) /\ vec.cap \in Nat
    <3>1. room \in Nat /\ {InitialItems, MaxItems, PtrBytes} \subseteq Nat \ {0}
      BY BytesAssumption, VectorAssumption DEF MemoryInv
    <3> QED  BY <2>2, <2>3, <3>1, EnsureCapOK
  <2>4. width' = width
    BY <1>1 DEF AddItem
  <2>5. CASE arena' = new.arena /\ UNCHANGED << items, room >>
    BY <2>2, <2>4, <2>5 DEF MemoryInv
  <2>6. CASE \E vec \in EnsureCap(new.arena, room, Len(items) + 1, InitialItems, MaxItems,
                                  PtrBytes, PtrBytes) :
               arena' = vec.arena /\ (room' = vec.cap \/ UNCHANGED room)
    BY <2>3, <2>4, <2>6 DEF MemoryInv
  <2> QED  BY <2>1, <2>5, <2>6
<1>2. ASSUME NEW n \in ValueBytes, RejectItem(n) PROVE MemoryInv'
  <2>1. \E new \in NewItem(n) : arena' = new.arena
    BY <1>2 DEF RejectItem
  <2> QED  BY <1>2, <2>1, NewItemOK DEF RejectItem, MemoryInv
<1>3. ASSUME NEW c \in 0 .. MaxClock, DeleteItem(c) PROVE MemoryInv'
  BY <1>3, AddRangeOK DEF DeleteItem, MemoryInv
<1>4. ASSUME NEW r \in Ranges, LearnRange(r[1], r[2]) PROVE MemoryInv'
  BY <1>4, AddRangeOK DEF LearnRange, MemoryInv
<1>5. CASE UNCHANGED vars
  BY <1>5 DEF vars, MemoryInv
<1> QED  BY <1>1, <1>2, <1>3, <1>4, <1>5 DEF Next

\* The invariant says what NoOverlap says.
LEMMA InvNoOverlap == MemoryInv => NoOverlap
<1> SUFFICES ASSUME MemoryInv PROVE NoOverlap
  OBVIOUS
<1>1. ASSUME NEW i \in DOMAIN arena.given
      PROVE  /\ arena.given[i].from % arena.given[i].align = 0
             /\ \E k \in DOMAIN arena.blocks :
                  /\ arena.blocks[k].number = arena.given[i].block
                  /\ arena.given[i].from + arena.given[i].n <= arena.blocks[k].cap
  <2>1. PICK k \in DOMAIN arena.blocks :
          /\ arena.blocks[k].number = arena.given[i].block
          /\ arena.given[i].from + arena.given[i].n <= arena.blocks[k].off
    BY DEF MemoryInv, ArenaOK, Layout
  <2>2. /\ arena.blocks[k] \in Blocks /\ arena.given[i] \in Allocations
        /\ arena.blocks[k].off <= arena.blocks[k].cap
    BY DEF MemoryInv, ArenaOK, Layout
  <2>3. arena.given[i].from + arena.given[i].n <= arena.blocks[k].cap
    BY <2>1, <2>2 DEF Blocks, Allocations
  <2> QED  BY <2>1, <2>3 DEF MemoryInv, ArenaOK, Layout
<1>2. ASSUME NEW i \in DOMAIN arena.given, NEW j \in DOMAIN arena.given,
             i # j, arena.given[i].block = arena.given[j].block
      PROVE  \/ arena.given[i].from + arena.given[i].n <= arena.given[j].from
             \/ arena.given[j].from + arena.given[j].n <= arena.given[i].from
  <2>1. i < j \/ j < i
    BY <1>2 DEF MemoryInv, ArenaOK, Layout
  <2> QED  BY <1>2, <2>1 DEF MemoryInv, ArenaOK, Layout
<1> QED  BY <1>1, <1>2 DEF NoOverlap

\* A document's allocations never overlap, whatever fails (NoOverlap).
THEOREM NeverOverlaps == Spec => []NoOverlap
<1>1. Init => MemoryInv
  BY DEF Init, MemoryInv, ArenaOK, Layout, NewArena
<1>2. Spec => []MemoryInv
  BY <1>1, NextMemory, PTL DEF Spec
<1> QED  BY <1>2, InvNoOverlap, PTL

-----------------------------------------------------------------------------
(* The delete set.  First what its operators compute, for any vector.      *)

Less == { ss \in Nat \X Nat : ss[1] < ss[2] }

LEMMA NatLeast ==
  ASSUME NEW T \in SUBSET Nat, T # {}
  PROVE  \E m \in T : \A k \in T : m <= k
<1>1. IsWellFoundedOn(Less, Nat)
  BY NatLessThanWellFounded DEF OpToRel, Less
<1>2. PICK m \in T : \A k \in T : << k, m >> \notin Less
  BY <1>1, WFMin
<1>3. \A k \in T : ~(k < m)
  BY <1>2 DEF Less
<1> QED  BY <1>3

LEMMA SetInduction ==
  ASSUME NEW T, 0 \in T, \A n \in Nat : n \in T => n + 1 \in T
  PROVE  Nat \subseteq T
<1> SUFFICES ASSUME Nat \ T # {} PROVE FALSE
  OBVIOUS
<1>1. PICK m \in Nat \ T : \A k \in Nat \ T : m <= k
  BY NatLeast
<1>2. m - 1 \in Nat /\ m - 1 \in T
  BY <1>1
<1> QED  BY <1>1, <1>2

\* The equation that the function of Search solves.
Halves(n, below, f) ==
  f = [ w \in (0 .. n) \X (0 .. n) |->
          LET mid == w[1] + (w[2] - w[1]) \div 2
          IN  IF w[1] >= w[2] THEN w[1]
              ELSE IF mid + 1 \in below THEN f[<< mid + 1, w[2] >>]
              ELSE f[<< w[1], mid >>] ]

\* Half way is between.
LEMMA Midway ==
  ASSUME NEW n \in Nat, NEW lo \in 0 .. n, NEW hi \in 0 .. n, lo < hi,
         NEW mid, mid = lo + (hi - lo) \div 2
  PROVE  mid \in 0 .. n /\ lo <= mid /\ mid < hi /\ mid + 1 \in 1 .. n
OBVIOUS

\* It has a solution if the places below are those up to p ...
LEMMA HalvesSolvable ==
  ASSUME NEW n \in Nat, NEW p \in 0 .. n, NEW below,
         \A i \in 1 .. n : i \in below <=> i <= p
  PROVE  \E f : Halves(n, below, f)
<1> DEFINE f == [ w \in (0 .. n) \X (0 .. n) |->
                    IF w[1] >= w[2] \/ p <= w[1] THEN w[1]
                    ELSE IF w[2] <= p THEN w[2] ELSE p ]
<1>1. \A lo, hi \in 0 .. n :
        f[<< lo, hi >>] = IF lo >= hi \/ p <= lo THEN lo ELSE IF hi <= p THEN hi ELSE p
  OBVIOUS
<1>2. f = [ w \in (0 .. n) \X (0 .. n) |-> f[w] ]
  OBVIOUS
<1> HIDE DEF f
<1>3. ASSUME NEW w \in (0 .. n) \X (0 .. n)
      PROVE  f[w] = LET mid == w[1] + (w[2] - w[1]) \div 2
                    IN  IF w[1] >= w[2] THEN w[1]
                        ELSE IF mid + 1 \in below THEN f[<< mid + 1, w[2] >>]
                        ELSE f[<< w[1], mid >>]
  <2>1. PICK lo \in 0 .. n, hi \in 0 .. n : w = << lo, hi >> /\ w[1] = lo /\ w[2] = hi
    OBVIOUS
  <2>2. PICK mid : mid = lo + (hi - lo) \div 2
    OBVIOUS
  <2>3. CASE lo >= hi
    BY <1>1, <2>1, <2>3
  <2>4. CASE lo < hi
    <3>1. mid \in 0 .. n /\ lo <= mid /\ mid < hi /\ mid + 1 \in 1 .. n
      BY <2>2, <2>4, Midway
    <3>2. PICK up \in 1 .. n : up = mid + 1
      BY <3>1
    <3>3. f[w] = IF up \in below THEN f[<< up, hi >>] ELSE f[<< lo, mid >>]
      BY <1>1, <2>1, <2>4, <3>1, <3>2
    <3> QED  BY <2>1, <2>2, <2>4, <3>2, <3>3
  <2> QED  BY <2>3, <2>4
<1>4. Halves(n, below, f)
  BY <1>2, <1>3 DEF Halves
<1> QED  BY <1>4

\* ... and every solution finds p.
LEMMA HalvesFinds ==
  ASSUME NEW n \in Nat, NEW p \in 0 .. n, NEW below,
         \A i \in 1 .. n : i \in below <=> i <= p,
         NEW f, Halves(n, below, f)
  PROVE  f[<< 0, n >>] = p
<1> DEFINE T == { d \in Nat : \A lo, hi \in 0 .. n :
                    lo <= p /\ p <= hi /\ hi <= lo + d => f[<< lo, hi >>] = p }
<1>1. ASSUME NEW lo \in 0 .. n, NEW hi \in 0 .. n, NEW mid, mid = lo + (hi - lo) \div 2
      PROVE  f[<< lo, hi >>] = IF lo >= hi THEN lo
                               ELSE IF mid + 1 \in below THEN f[<< mid + 1, hi >>]
                               ELSE f[<< lo, mid >>]
  <2>1. << lo, hi >> \in (0 .. n) \X (0 .. n) /\ << lo, hi >>[1] = lo /\ << lo, hi >>[2] = hi
    OBVIOUS
  <2> QED  BY <1>1, <2>1 DEF Halves
<1>e. ASSUME NEW lo \in 0 .. n, NEW hi \in 0 .. n, lo >= hi
      PROVE  f[<< lo, hi >>] = lo
  <2> HIDE DEF T
  <2>1. PICK mid : mid = lo + (hi - lo) \div 2
    OBVIOUS
  <2>2. f[<< lo, hi >>] = IF lo >= hi THEN lo
                          ELSE IF mid + 1 \in below THEN f[<< mid + 1, hi >>]
                          ELSE f[<< lo, mid >>]
    BY <1>1, <2>1
  <2> QED  BY <1>e, <2>2
<1>2. 0 \in T
  <2> SUFFICES ASSUME NEW lo \in 0 .. n, NEW hi \in 0 .. n, lo <= p, p <= hi, hi <= lo + 0
               PROVE  f[<< lo, hi >>] = p
    OBVIOUS
  <2>1. lo >= hi /\ lo = p
    OBVIOUS
  <2> QED  BY <1>e, <2>1
<1>3. ASSUME NEW d \in Nat, d \in T PROVE d + 1 \in T
  <2> SUFFICES ASSUME NEW lo \in 0 .. n, NEW hi \in 0 .. n, lo <= p, p <= hi,
                      hi <= lo + (d + 1)
               PROVE  f[<< lo, hi >>] = p
    BY <1>3
  <2>1. PICK mid : mid = lo + (hi - lo) \div 2
    OBVIOUS
  <2>2. CASE lo >= hi
    <3>1. f[<< lo, hi >>] = lo
      BY <1>e, <2>2
    <3>2. lo = p
      BY <2>2
    <3> QED  BY <3>1, <3>2
  <2>3. CASE lo < hi
    <3>1. mid \in 0 .. n /\ lo <= mid /\ mid < hi /\ mid + 1 \in 1 .. n
      BY <2>1, <2>3, Midway
    <3>2. PICK up \in 1 .. n : up = mid + 1
      BY <3>1
    <3>3. f[<< lo, hi >>] = IF up \in below THEN f[<< up, hi >>] ELSE f[<< lo, mid >>]
      BY <1>1, <2>1, <2>3, <3>2
    <3>4. \A l, h \in 0 .. n : l <= p /\ p <= h /\ h <= l + d => f[<< l, h >>] = p
      BY <1>3
    <3>5. CASE up \in below
      BY <3>1, <3>2, <3>3, <3>4, <3>5
    <3>6. CASE up \notin below
      BY <3>1, <3>2, <3>3, <3>4, <3>6
    <3> QED  BY <3>5, <3>6
  <2> QED  BY <2>2, <2>3
<1>4. n \in T
  BY <1>2, <1>3, SetInduction
<1> QED  BY <1>4

LEMMA SearchFinds ==
  ASSUME NEW n \in Nat, NEW p \in 0 .. n, NEW below,
         \A i \in 1 .. n : i \in below <=> i <= p
  PROVE  Search(n, below) = p
<1>1. \E f : Halves(n, below, f)
  BY HalvesSolvable
<1>2. Search(n, below) = (CHOOSE f : Halves(n, below, f))[<< 0, n >>]
  BY Zenon DEF Search, Halves
<1>3. Halves(n, below, CHOOSE f : Halves(n, below, f))
  BY <1>1, Zenon
<1> QED  BY <1>2, <1>3, HalvesFinds
-----------------------------------------------------------------------------
(* Vectors of ranges.                                                      *)

ClockRanges == [ clock_start : Nat, length : Nat \ {0} ]

Sorted(v) == \A i, j \in DOMAIN v : i < j => EndOf(v[i]) < v[j].clock_start

Holds(v, c) == \E i \in DOMAIN v : v[i].clock_start <= c /\ c < EndOf(v[i])

LEMMA RangeFields ==
  ASSUME NEW v \in Seq(ClockRanges), NEW i \in DOMAIN v
  PROVE  /\ v[i] \in ClockRanges
         /\ v[i].clock_start \in Nat /\ v[i].length \in Nat \ {0}
         /\ EndOf(v[i]) \in Nat /\ v[i].clock_start < EndOf(v[i])
<1>1. v[i] \in ClockRanges
  OBVIOUS
<1> QED  BY <1>1 DEF ClockRanges, EndOf

LEMMA RangeBuilt ==
  ASSUME NEW start \in Nat, NEW end \in Nat, start < end
  PROVE  /\ DeleteRange(start, end - start) \in ClockRanges
         /\ DeleteRange(start, end - start).clock_start = start
         /\ EndOf(DeleteRange(start, end - start)) = end
BY DEF ClockRanges, DeleteRange, EndOf

\* The elements of two sequences one behind the other.
LEMMA Joined ==
  ASSUME NEW S, NEW s \in Seq(S), NEW t \in Seq(S)
  PROVE  /\ s \o t \in Seq(S) /\ Len(s \o t) = Len(s) + Len(t)
         /\ \A i \in 1 .. Len(s) : (s \o t)[i] = s[i]
         /\ \A i \in 1 .. Len(t) : (s \o t)[Len(s) + i] = t[i]
OBVIOUS

\* One element x stands for those of s after a and up to b.
Splice(s, x, a, b) == SubSeq(s, 1, a) \o << x >> \o SubSeq(s, b + 1, Len(s))

Splices(r, s, x, a, b) ==
  /\ Len(r) = (a + 1) + (Len(s) - b)
  /\ \A i \in 1 .. a : r[i] = s[i]
  /\ r[a + 1] = x
  /\ \A i \in (b + 1) .. Len(s) : r[(i - b) + (a + 1)] = s[i]

LEMMA Spliced ==
  ASSUME NEW S, NEW s \in Seq(S), NEW x \in S,
         NEW a \in 0 .. Len(s), NEW b \in a .. Len(s)
  PROVE  Splice(s, x, a, b) \in Seq(S) /\ Splices(Splice(s, x, a, b), s, x, a, b)
<1>r. PICK r : r = Splice(s, x, a, b)
  OBVIOUS
<1>1. PICK front : front = SubSeq(s, 1, a)
  OBVIOUS
<1>2. PICK back : back = SubSeq(s, b + 1, Len(s))
  OBVIOUS
<1>3. PICK w : w = front \o << x >>
  OBVIOUS
<1>4. /\ front \in Seq(S) /\ Len(front) = a
      /\ \A i \in 1 .. a : front[i] = s[i]
  BY <1>1
<1>5. /\ back \in Seq(S) /\ Len(back) = Len(s) - b
      /\ \A i \in 1 .. (Len(s) - b) : back[i] = s[b + i]
  BY <1>2
<1>6. /\ w \in Seq(S) /\ Len(w) = a + 1 /\ w[a + 1] = x
      /\ \A i \in 1 .. a : w[i] = front[i]
  BY <1>3, <1>4
<1>7. r = w \o back
  BY <1>1, <1>2, <1>3, <1>r DEF Splice
<1>8. /\ r \in Seq(S) /\ Len(r) = Len(w) + Len(back)
      /\ \A i \in 1 .. Len(w) : r[i] = w[i]
      /\ \A i \in 1 .. Len(back) : r[Len(w) + i] = back[i]
  <2>1. /\ w \o back \in Seq(S) /\ Len(w \o back) = Len(w) + Len(back)
        /\ \A i \in 1 .. Len(w) : (w \o back)[i] = w[i]
        /\ \A i \in 1 .. Len(back) : (w \o back)[Len(w) + i] = back[i]
    <3>1. w \in Seq(S) /\ back \in Seq(S)
      BY <1>5, <1>6
    <3> QED  BY <3>1, Joined
  <2> QED  BY <1>7, <2>1
<1>9. Len(r) = (a + 1) + (Len(s) - b)
  BY <1>5, <1>6, <1>8
<1>10. ASSUME NEW i \in 1 .. a PROVE r[i] = s[i]
  <2>1. i \in 1 .. Len(w)
    BY <1>6
  <2> QED  BY <1>4, <1>6, <1>8, <2>1
<1>11. r[a + 1] = x
  <2>1. a + 1 \in 1 .. Len(w)
    BY <1>6
  <2> QED  BY <1>6, <1>8, <2>1
<1>12. ASSUME NEW i \in (b + 1) .. Len(s) PROVE r[(i - b) + (a + 1)] = s[i]
  <2>1. PICK k \in 1 .. Len(back) : k = i - b
    BY <1>5
  <2>2. i = b + k
    BY <2>1
  <2>3. back[k] = s[i]
    BY <1>5, <2>1, <2>2
  <2>4. r[Len(w) + k] = back[k]
    BY <1>8
  <2>5. Len(w) + k = (i - b) + (a + 1)
    BY <1>5, <1>6, <2>1
  <2> QED  BY <2>3, <2>4, <2>5
<1>13. Splices(r, s, x, a, b)
  BY <1>9, <1>10, <1>11, <1>12 DEF Splices
<1> QED  BY <1>8, <1>13, <1>r

LEMMA MaxIs ==
  ASSUME NEW T \in SUBSET Nat, NEW m \in T, \A k \in T : k <= m
  PROVE  Sets!Max(T) = m
<1>1. \A x \in T : (\A y \in T : x >= y) <=> x = m
  OBVIOUS
<1> QED  BY <1>1 DEF Sets!Max

LEMMA MinIs ==
  ASSUME NEW T \in SUBSET Nat, T # {}
  PROVE  Sets!Min(T) \in T /\ \A k \in T : Sets!Min(T) <= k
<1>1. \E m \in T : \A k \in T : m <= k
  BY NatLeast
<1> QED  BY <1>1, Zenon DEF Sets!Min

\* merge_forward, for a vector that is sorted but for what the range at pos
\* reaches: the result is sorted and holds the same clocks.
LEMMA MergeForwardIs ==
  ASSUME NEW v \in Seq(ClockRanges), NEW pos \in 1 .. Len(v),
         \A i, j \in 1 .. Len(v) : i < j /\ i # pos => EndOf(v[i]) < v[j].clock_start,
         \A j \in 1 .. Len(v) : pos < j => v[pos].clock_start <= v[j].clock_start
  PROVE  /\ MergeForward(v, pos) \in Seq(ClockRanges)
         /\ Sorted(MergeForward(v, pos))
         /\ \A c \in Nat : Holds(MergeForward(v, pos), c) <=> Holds(v, c)
<1> DEFINE L == Len(v)
           ends(k) == { EndOf(v[i]) : i \in pos .. (pos + k) }
           reach(k) == Sets!Max(ends(k))
           stops == { k \in 0 .. (L - pos) :
                        k < L - pos => reach(k) < v[pos + k + 1].clock_start }
           m == Sets!Min(stops)
           x == DeleteRange(v[pos].clock_start, reach(m) - v[pos].clock_start)
           r == MergeForward(v, pos)
<1>1. L \in Nat /\ DOMAIN v = 1 .. L
  OBVIOUS
<1>2. \A i \in 1 .. L : /\ v[i].clock_start \in Nat /\ EndOf(v[i]) \in Nat
                        /\ v[i].clock_start < EndOf(v[i])
  BY <1>1, RangeFields
<1>r. r = SubSeq(v, 1, pos - 1) \o << x >> \o SubSeq(v, pos + m + 1, L)
  BY DEF MergeForward
<1>s. \A k : k \in stops <=> k \in 0 .. (L - pos)
                             /\ (k < L - pos => reach(k) < v[pos + k + 1].clock_start)
  OBVIOUS
<1>3. ASSUME NEW k \in 0 .. (L - pos)
      PROVE  /\ reach(k) \in Nat
             /\ \A i \in pos .. (pos + k) : EndOf(v[i]) <= reach(k)
             /\ \E i \in pos .. (pos + k) : reach(k) = EndOf(v[i])
  <2>1. PICK last \in pos .. L : last = pos + k
    OBVIOUS
  <2>2. PICK top \in pos .. last : \A i \in pos .. last : EndOf(v[i]) <= EndOf(v[top])
    <3>1. PICK top \in {pos, last} : EndOf(v[pos]) <= EndOf(v[top])
                                     /\ EndOf(v[last]) <= EndOf(v[top])
      BY <1>2, <2>1
    <3>2. ASSUME NEW i \in pos .. last PROVE EndOf(v[i]) <= EndOf(v[top])
      <4>1. CASE i = pos \/ i = last
        BY <3>1, <4>1
      <4>2. CASE pos < i /\ i < last
        <5>1. i \in 1 .. L /\ last \in 1 .. L /\ top \in 1 .. L
          BY <2>1, <3>1
        <5>2. EndOf(v[i]) < v[last].clock_start
          BY <4>2, <5>1
        <5> QED  BY <1>2, <3>1, <5>1, <5>2
      <4> QED  BY <4>1, <4>2
    <3>3. top \in pos .. last
      BY <2>1, <3>1
    <3> QED  BY <3>2, <3>3
  <2>3. ends(k) = { EndOf(v[i]) : i \in pos .. last }
    BY <2>1
  <2>e. \A i \in pos .. last : EndOf(v[i]) \in Nat
    BY <1>1, <1>2, <2>1
  <2>4. /\ ends(k) \in SUBSET Nat /\ EndOf(v[top]) \in ends(k)
        /\ \A e \in ends(k) : e <= EndOf(v[top])
    <3> HIDE DEF ends
    <3> QED  BY <2>2, <2>3, <2>e
  <2> HIDE DEF ends
  <2>5. reach(k) = EndOf(v[top])
    BY <2>4, MaxIs
  <2> QED  BY <1>2, <2>1, <2>2, <2>5
<1> HIDE DEF reach, L
<1>4. m \in stops /\ \A k \in stops : m <= k
  <2>1. stops \in SUBSET Nat
    BY <1>1
  <2>2. L - pos \in stops
    BY <1>1, <1>s
  <2> HIDE DEF stops
  <2> QED  BY <2>1, <2>2, MinIs
<1> HIDE DEF stops, m, r
<1>5. m \in 0 .. (L - pos) /\ (m < L - pos => reach(m) < v[pos + m + 1].clock_start)
  BY <1>4, <1>s
<1>6. \A k \in 0 .. (L - pos) : k < m => v[pos + k + 1].clock_start <= reach(k)
  <2> SUFFICES ASSUME NEW k \in 0 .. (L - pos), k < m
               PROVE  v[pos + k + 1].clock_start <= reach(k)
    OBVIOUS
  <2>1. k \notin stops
    BY <1>4, <1>5
  <2>2. k < L - pos /\ ~(reach(k) < v[pos + k + 1].clock_start)
    BY <1>s, <2>1
  <2>3. pos + k + 1 \in 1 .. L
    BY <1>1, <2>2
  <2> QED  BY <1>2, <1>3, <2>2, <2>3
<1>7. PICK top \in pos .. (pos + m) : reach(m) = EndOf(v[top])
  BY <1>3, <1>5
<1>8. reach(m) \in Nat /\ \A i \in pos .. (pos + m) : EndOf(v[i]) <= reach(m)
  BY <1>3, <1>5
<1>9. v[pos].clock_start < reach(m)
  <2>1. EndOf(v[pos]) <= reach(m)
    BY <1>5, <1>8
  <2> QED  BY <1>1, <1>2, <1>8, <2>1
<1>10. x \in ClockRanges /\ x.clock_start = v[pos].clock_start /\ EndOf(x) = reach(m)
  <2>1. pos \in 1 .. L
    BY DEF L
  <2> QED  BY <1>2, <1>8, <1>9, <2>1, RangeBuilt
<1> HIDE DEF x
<1>b. PICK b \in pos .. L : b = pos + m
  BY <1>1, <1>5 DEF L
<1>11. /\ r \in Seq(ClockRanges) /\ Len(r) = pos + (L - b)
       /\ \A i \in 1 .. (pos - 1) : r[i] = v[i]
       /\ r[pos] = x
       /\ \A i \in (b + 1) .. L : r[(i - b) + pos] = v[i]
  <2>1. PICK a \in 0 .. L : a = pos - 1
    BY <1>1 DEF L
  <2>2. r = SubSeq(v, 1, a) \o << x >> \o SubSeq(v, b + 1, L)
    BY <1>r, <1>b, <2>1
  <2>3. b \in a .. L
    BY <1>b, <2>1
  <2>4. /\ r \in Seq(ClockRanges) /\ Len(r) = (a + 1) + (L - b)
        /\ \A i \in 1 .. a : r[i] = v[i]
        /\ r[a + 1] = x
        /\ \A i \in (b + 1) .. L : r[(i - b) + (a + 1)] = v[i]
    <3>1. a \in 0 .. Len(v) /\ b \in a .. Len(v) /\ r = Splice(v, x, a, b)
      BY <2>1, <2>2, <2>3 DEF L, Splice
    <3>2. r \in Seq(ClockRanges) /\ Splices(r, v, x, a, b)
      BY <1>10, <3>1, Spliced
    <3> QED  BY <3>2 DEF L, Splices
  <2>5. a + 1 = pos
    BY <2>1
  <2> QED  BY <2>1, <2>4, <2>5
<1>p. pos \in 1 .. L
  BY DEF L
<1>o. /\ \A i, j \in 1 .. L : i < j /\ i # pos => EndOf(v[i]) < v[j].clock_start
      /\ \A j \in 1 .. L : pos < j => v[pos].clock_start <= v[j].clock_start
  BY DEF L
<1>d. DOMAIN r = 1 .. (pos + (L - b))
  BY <1>11
<1>n. pos \in Nat /\ b \in Nat /\ b <= L /\ pos <= b
  BY <1>1, <1>b, <1>p
<1>t. \A i \in DOMAIN r : i \in Nat /\ 1 <= i /\ i <= pos + (L - b)
  BY <1>1, <1>d, <1>n
\* Where an element of the result comes from.
<1>12. ASSUME NEW j \in DOMAIN r
       PROVE  \/ j < pos /\ r[j] = v[j]
              \/ j = pos
              \/ pos < j /\ \E i \in (b + 1) .. L : j = (i - b) + pos /\ r[j] = v[i]
  <2>1. CASE pos < j
    <3>1. PICK i \in (b + 1) .. L : i = (j - pos) + b
      BY <1>1, <1>b, <1>d, <1>p, <2>1
    <3>2. j = (i - b) + pos
      BY <1>d, <3>1
    <3> QED  BY <1>11, <2>1, <3>1, <3>2
  <2> QED  BY <1>11, <1>d, <2>1
<1>13. Sorted(r)
  <2> SUFFICES ASSUME NEW i \in DOMAIN r, NEW j \in DOMAIN r, i < j
               PROVE  EndOf(r[i]) < r[j].clock_start
    BY DEF Sorted
  <2>1. CASE i < pos
    <3>1. r[i] = v[i] /\ i \in 1 .. L /\ i # pos
      <4>1. i \in Nat /\ i \in 1 .. (pos - 1) /\ i \in 1 .. L /\ i # pos
        BY <1>1, <1>n, <1>t, <2>1
      <4> QED  BY <1>11, <4>1
    <3>2. \A k \in 1 .. L : i < k => EndOf(v[i]) < v[k].clock_start
      BY <1>o, <3>1
    <3>3. CASE j < pos
      BY <1>11, <1>d, <1>p, <3>1, <3>2, <3>3
    <3>4. CASE j = pos
      BY <1>10, <1>11, <1>p, <2>1, <3>1, <3>2, <3>4
    <3>5. CASE pos < j
      <4>1. PICK k \in (b + 1) .. L : r[j] = v[k]
        BY <1>12, <1>n, <1>t, <3>5
      <4>2. k \in 1 .. L /\ i < k
        <5>1. b + 1 <= k /\ k <= L /\ k \in Nat
          BY <1>1, <1>n, <4>1
        <5> QED  BY <1>n, <1>t, <2>1, <5>1
      <4> QED  BY <3>1, <3>2, <4>1, <4>2
    <3> QED  BY <1>d, <1>p, <3>3, <3>4, <3>5
  <2>2. CASE i = pos
    <3>1. PICK k \in (b + 1) .. L : r[j] = v[k]
      BY <1>12, <2>2
    <3>2. m < L - pos /\ b + 1 \in 1 .. L /\ b + 1 = pos + m + 1
      <4>1. m \in Nat /\ pos \in Nat /\ L \in Nat /\ b = pos + m /\ b < L
        BY <1>1, <1>5, <1>b, <1>p, <3>1
      <4> QED  BY <4>1
    <3>3. reach(m) < v[b + 1].clock_start
      BY <1>5, <3>2
    <3>4. CASE k = b + 1
      BY <1>10, <1>11, <2>2, <3>1, <3>3, <3>4
    <3>5. CASE b + 1 < k
      <4>1. b + 1 # pos /\ k \in 1 .. L
        BY <1>b, <1>p, <3>1
      <4>2. PICK n \in 1 .. L : n = b + 1
        BY <3>2
      <4>3. EndOf(v[n]) < v[k].clock_start
        BY <1>o, <3>5, <4>1, <4>2
      <4>4. /\ reach(m) \in Nat /\ v[n].clock_start \in Nat /\ EndOf(v[n]) \in Nat
            /\ v[k].clock_start \in Nat /\ v[n].clock_start <= EndOf(v[n])
        BY <1>2, <1>8, <4>1, <4>2
      <4>5. reach(m) < v[k].clock_start
        BY <3>3, <4>2, <4>3, <4>4
      <4>6. EndOf(r[i]) = reach(m) /\ r[j] = v[k]
        BY <1>10, <1>11, <2>2, <3>1
      <4> QED  BY <4>5, <4>6
    <3> QED  BY <3>1, <3>4, <3>5
  <2>3. CASE pos < i
    <3>1. PICK k \in (b + 1) .. L : i = (k - b) + pos /\ r[i] = v[k]
      BY <1>12, <1>n, <1>t, <2>3
    <3>2. PICK n \in (b + 1) .. L : j = (n - b) + pos /\ r[j] = v[n]
      BY <1>12, <1>d, <1>p, <2>3
    <3>3. k < n /\ k \in 1 .. L /\ n \in 1 .. L /\ k # pos
      BY <1>b, <1>d, <1>p, <3>1, <3>2
    <3> QED  BY <1>o, <3>1, <3>2, <3>3
  <2> QED  BY <1>d, <1>p, <2>1, <2>2, <2>3
\* The new range holds what those that it stands for held: between the end of
\* one and the start of the next it closes no gap.
<1>14. ASSUME NEW c \in Nat, v[pos].clock_start <= c, c < reach(m)
       PROVE  Holds(v, c)
  <2> DEFINE K == { k \in 0 .. m : c < reach(k) }
  <2>1. K \in SUBSET Nat /\ m \in K
    BY <1>5, <1>14
  <2>2. PICK k \in K : \A n \in K : k <= n
    BY <2>1, NatLeast
  <2>3. k \in 0 .. m /\ k \in 0 .. (L - pos) /\ c < reach(k)
    BY <1>1, <1>5, <2>2
  <2>4. PICK i \in pos .. (pos + k) : reach(k) = EndOf(v[i])
    BY <1>3, <2>3
  <2>5. i \in 1 .. L
    BY <1>1, <1>p, <2>3
  <2>6. CASE k = 0
    BY <1>1, <1>14, <1>p, <2>3, <2>4, <2>6 DEF Holds
  <2>7. CASE k # 0
    <3> HIDE DEF K
    <3>1. PICK l \in 0 .. m : l = k - 1
      BY <1>1, <1>5, <1>p, <2>3, <2>7
    <3>2. l \in 0 .. (L - pos) /\ l < m /\ l \notin K
      <4>1. l < k /\ l < m /\ l \in 0 .. (L - pos)
        BY <1>1, <1>5, <1>p, <2>3, <2>7, <3>1
      <4>2. ~(k <= l)
        BY <1>1, <1>5, <1>p, <2>3, <4>1
      <4> QED  BY <2>2, <4>1, <4>2
    <3>3. reach(l) <= c
      BY <1>3, <3>1, <3>2 DEF K
    <3>4. pos + l + 1 = pos + k /\ pos + k \in 1 .. L
      BY <1>1, <1>p, <2>3, <3>1
    <3>5. v[pos + k].clock_start <= reach(l)
      BY <1>6, <3>2, <3>4
    <3>6. i = pos + k
      <4>1. CASE i \in pos .. (pos + l)
        <5>1. EndOf(v[i]) <= reach(l)
          BY <1>3, <3>2, <4>1
        <5> QED  BY <1>2, <1>3, <2>3, <2>4, <2>5, <3>2, <3>3, <5>1
      <4> QED  BY <2>4, <3>1, <3>4, <4>1
    <3>7. v[i].clock_start <= c
      BY <1>2, <1>3, <2>5, <3>2, <3>3, <3>5, <3>6
    <3> QED  BY <1>1, <2>3, <2>4, <2>5, <3>7 DEF Holds
  <2> QED  BY <2>6, <2>7
<1>15. ASSUME NEW c \in Nat PROVE Holds(r, c) <=> Holds(v, c)
  <2>1. ASSUME Holds(r, c) PROVE Holds(v, c)
    <3>1. PICK j \in DOMAIN r : r[j].clock_start <= c /\ c < EndOf(r[j])
      BY <2>1 DEF Holds
    <3>2. CASE j = pos
      BY <1>10, <1>11, <1>14, <3>1, <3>2
    <3>3. CASE j # pos
      <4>1. PICK i \in 1 .. L : r[j] = v[i]
        <5>1. CASE j < pos /\ r[j] = v[j]
          <6>1. j \in 1 .. L
            BY <1>1, <1>n, <1>t, <5>1
          <6> QED  BY <5>1, <6>1
        <5>2. ASSUME NEW i \in (b + 1) .. L, r[j] = v[i]
              PROVE  \E k \in 1 .. L : r[j] = v[k]
          <6>1. i \in 1 .. L
            BY <1>1, <1>n
          <6> QED  BY <5>2, <6>1
        <5> QED  BY <1>12, <3>3, <5>1, <5>2
      <4> QED  BY <1>1, <3>1, <4>1 DEF Holds
    <3> QED  BY <3>2, <3>3
  <2>2. ASSUME Holds(v, c) PROVE Holds(r, c)
    <3>1. PICK i \in 1 .. L : v[i].clock_start <= c /\ c < EndOf(v[i])
      BY <1>1, <2>2 DEF Holds
    <3>2. CASE i < pos
      <4>1. r[i] = v[i] /\ i \in DOMAIN r
        BY <1>1, <1>11, <1>b, <1>d, <1>p, <3>2
      <4> QED  BY <3>1, <4>1 DEF Holds
    <3>3. CASE pos <= i /\ i <= b
      <4>1. i \in pos .. (pos + m)
        BY <1>b, <3>3
      <4>2. EndOf(v[i]) <= reach(m) /\ v[pos].clock_start <= v[i].clock_start
        BY <1>2, <1>8, <1>o, <1>p, <3>3, <4>1
      <4>3. v[pos].clock_start <= c /\ c < reach(m) /\ pos \in DOMAIN r
        <5>1. /\ v[pos].clock_start \in Nat /\ v[i].clock_start \in Nat
              /\ EndOf(v[i]) \in Nat /\ reach(m) \in Nat
          BY <1>2, <1>8, <1>p
        <5>2. pos \in 1 .. (pos + (L - b))
          BY <1>1, <1>n, <1>p
        <5> QED  BY <1>d, <3>1, <4>2, <5>1, <5>2
      <4>4. r[pos].clock_start <= c /\ c < EndOf(r[pos])
        BY <1>10, <1>11, <4>3
      <4> QED  BY <4>3, <4>4 DEF Holds
    <3>4. CASE b < i
      <4>1. PICK j \in DOMAIN r : j = (i - b) + pos
        <5>1. (i - b) + pos \in 1 .. (pos + (L - b))
          BY <1>1, <1>n, <3>4
        <5> QED  BY <1>d, <5>1
      <4>2. r[j] = v[i]
        BY <1>11, <3>4, <4>1
      <4> QED  BY <3>1, <4>2 DEF Holds
    <3> QED  BY <1>b, <1>p, <3>2, <3>3, <3>4
  <2> QED  BY <2>1, <2>2
<1> QED  BY <1>11, <1>13, <1>15 DEF r

-----------------------------------------------------------------------------
(* The operations on the ranges.                                           *)

RangesInv == data \in Seq(ClockRanges) /\ Compact

LEMMA SearchIs ==
  ASSUME NEW n \in Nat, NEW below \in SUBSET (1 .. n),
         \A i, j \in 1 .. n : i < j /\ j \in below => i \in below
  PROVE  /\ Search(n, below) \in 0 .. n
         /\ \A i \in 1 .. n : i \in below <=> i <= Search(n, below)
<1> DEFINE out == { i \in 1 .. (n + 1) : i \notin below }
<1>1. out \in SUBSET Nat /\ n + 1 \in out
  OBVIOUS
<1>2. PICK q \in out : \A i \in out : q <= i
  BY <1>1, NatLeast
<1>3. PICK p \in 0 .. n : p = q - 1
  BY <1>2
<1>4. ASSUME NEW i \in 1 .. n PROVE i \in below <=> i <= p
  <2>1. ASSUME i \in below, ~(i <= p) PROVE FALSE
    <3>1. q # i /\ q < i /\ q \in 1 .. n
      BY <1>2, <1>3, <2>1
    <3> QED  BY <1>2, <2>1, <3>1
  <2>2. ASSUME i <= p, i \notin below PROVE FALSE
    <3>1. i \in out
      BY <2>2
    <3> QED  BY <1>2, <1>3, <2>2, <3>1
  <2> QED  BY <2>1, <2>2
<1>5. Search(n, below) = p
  BY <1>4, SearchFinds
<1> QED  BY <1>4, <1>5

LEMMA StartsAscend ==
  ASSUME RangesInv
  PROVE  /\ Len(data) \in Nat /\ DOMAIN data = 1 .. Len(data)
         /\ \A i \in 1 .. Len(data) :
              /\ data[i].clock_start \in Nat /\ EndOf(data[i]) \in Nat
              /\ data[i].clock_start < EndOf(data[i])
         /\ \A i, j \in 1 .. Len(data) : i < j =>
              /\ EndOf(data[i]) < data[j].clock_start
              /\ data[i].clock_start < data[j].clock_start
<1>1. Len(data) \in Nat /\ DOMAIN data = 1 .. Len(data)
  BY DEF RangesInv
<1>2. \A i \in 1 .. Len(data) :
        /\ data[i].clock_start \in Nat /\ EndOf(data[i]) \in Nat
        /\ data[i].clock_start < EndOf(data[i])
  BY <1>1, RangeFields DEF RangesInv
<1>3. \A i, j \in 1 .. Len(data) : i < j => EndOf(data[i]) < data[j].clock_start
  BY <1>1 DEF RangesInv, Compact
<1> QED  BY <1>1, <1>2, <1>3

LEMMA PlaceIs ==
  ASSUME RangesInv, NEW clock \in Nat
  PROVE  /\ Place(clock) \in 0 .. Len(data)
         /\ \A i \in 1 .. Len(data) : data[i].clock_start < clock <=> i <= Place(clock)
<1> DEFINE below == { i \in DOMAIN data : data[i].clock_start < clock }
<1>1. /\ Len(data) \in Nat /\ below \in SUBSET (1 .. Len(data))
      /\ \A i \in 1 .. Len(data) : i \in below <=> data[i].clock_start < clock
  BY StartsAscend
<1>2. \A i, j \in 1 .. Len(data) : i < j /\ j \in below => i \in below
  BY <1>1, StartsAscend
<1>3. Place(clock) = Search(Len(data), below)
  BY DEF Place
<1> HIDE DEF below
<1> QED  BY <1>1, <1>2, <1>3, SearchIs

LEMMA LastFromIs ==
  ASSUME RangesInv, NEW clock \in Nat
  PROVE  /\ LastFrom(clock) \in 0 .. Len(data)
         /\ \A i \in 1 .. Len(data) : data[i].clock_start <= clock <=> i <= LastFrom(clock)
<1> DEFINE below == { i \in DOMAIN data : data[i].clock_start <= clock }
<1>1. /\ Len(data) \in Nat /\ below \in SUBSET (1 .. Len(data))
      /\ \A i \in 1 .. Len(data) : i \in below <=> data[i].clock_start <= clock
  BY StartsAscend
<1>2. \A i, j \in 1 .. Len(data) : i < j /\ j \in below => i \in below
  BY <1>1, StartsAscend
<1>3. LastFrom(clock) = Search(Len(data), below)
  BY DEF LastFrom
<1> HIDE DEF below
<1> QED  BY <1>1, <1>2, <1>3, SearchIs

LEMMA CoveredIs ==
  ASSUME RangesInv, NEW c
  PROVE  c \in Covered <=> c \in Nat /\ Holds(data, c)
<1>1. ASSUME c \in Covered PROVE c \in Nat /\ Holds(data, c)
  <2>1. PICK i \in DOMAIN data : c \in data[i].clock_start .. (EndOf(data[i]) - 1)
    BY <1>1 DEF Covered
  <2> QED  BY <2>1, StartsAscend DEF Holds
<1>2. ASSUME c \in Nat, Holds(data, c) PROVE c \in Covered
  <2>1. PICK i \in DOMAIN data : data[i].clock_start <= c /\ c < EndOf(data[i])
    BY <1>2 DEF Holds
  <2>2. c \in data[i].clock_start .. (EndOf(data[i]) - 1)
    BY <1>2, <2>1, StartsAscend
  <2> QED  BY <2>2 DEF Covered
<1> QED  BY <1>1, <1>2

\* The lookup, for a sorted vector.
LEMMA InvContains == RangesInv => ContainsCovered
<1> SUFFICES ASSUME RangesInv, NEW c \in 0 .. MaxClock
             PROVE  Contains(c) <=> c \in Covered
  BY DEF ContainsCovered
<1>1. c \in Nat
  BY ClockBoundAssumption
<1>2. /\ LastFrom(c) \in 0 .. Len(data)
      /\ \A i \in 1 .. Len(data) : data[i].clock_start <= c <=> i <= LastFrom(c)
  BY <1>1, LastFromIs
<1>3. ASSUME Contains(c) PROVE Holds(data, c)
  BY <1>2, <1>3, StartsAscend DEF Contains, Holds
<1>4. ASSUME Holds(data, c) PROVE Contains(c)
  <2>1. PICK i \in 1 .. Len(data) : data[i].clock_start <= c /\ c < EndOf(data[i])
    BY <1>4, StartsAscend DEF Holds
  <2>2. i <= LastFrom(c) /\ LastFrom(c) \in 1 .. Len(data)
    BY <1>2, <2>1
  <2>3. data[LastFrom(c)].clock_start <= c
    BY <1>2, <2>2
  <2>4. ~(i < LastFrom(c))
    BY <1>1, <2>1, <2>2, <2>3, StartsAscend
  <2>5. i = LastFrom(c)
    BY <2>2, <2>4
  <2> QED  BY <2>1, <2>2, <2>5 DEF Contains
<1> QED  BY <1>1, <1>3, <1>4, CoveredIs

\* A range that the predecessor takes in.
LEMMA ExtendedIs ==
  ASSUME RangesInv, NEW clock \in Nat, NEW length \in Nat \ {0}, Touches(clock)
  PROVE  /\ Extended(clock, length) \in Seq(ClockRanges) /\ Sorted(Extended(clock, length))
         /\ \A c \in Nat : Holds(Extended(clock, length), c) <=>
                           Holds(data, c) \/ (clock <= c /\ c < clock + length)
<1>1. PICK pos \in 1 .. Len(data) : pos = Place(clock) /\ clock <= EndOf(data[pos])
  <2>1. PICK pos \in 0 .. Len(data) : pos = Place(clock)
    BY PlaceIs
  <2>2. pos > 0 /\ EndOf(data[pos]) >= clock
    BY <2>1 DEF Touches
  <2>3. pos \in 1 .. Len(data)
    BY <2>2, StartsAscend
  <2>4. EndOf(data[pos]) \in Nat
    BY <2>3, StartsAscend
  <2> QED  BY <2>1, <2>2, <2>3, <2>4
<1>2. data[pos].clock_start < clock
  BY <1>1, PlaceIs
<1> DEFINE new == Sets!Max({clock + length, EndOf(data[pos])})
           x == DeleteRange(data[pos].clock_start, new - data[pos].clock_start)
           v == [data EXCEPT ![pos].length = new - data[pos].clock_start]
<1>3. /\ new \in Nat /\ clock + length <= new /\ EndOf(data[pos]) <= new
      /\ new = clock + length \/ new = EndOf(data[pos])
  <2>1. clock + length \in Nat /\ EndOf(data[pos]) \in Nat
    BY StartsAscend
  <2>2. PICK top \in {clock + length, EndOf(data[pos])} :
          clock + length <= top /\ EndOf(data[pos]) <= top
    BY <2>1
  <2>3. Sets!Max({clock + length, EndOf(data[pos])}) = top
    BY <2>1, <2>2, MaxIs
  <2> QED  BY <2>1, <2>2, <2>3
<1> HIDE DEF new
<1>4. x \in ClockRanges /\ x.clock_start = data[pos].clock_start /\ EndOf(x) = new
  BY <1>1, <1>2, <1>3, StartsAscend, RangeBuilt
<1>5. v = [data EXCEPT ![pos] = x]
  <2>1. data[pos] \in ClockRanges
    BY DEF RangesInv
  <2>2. [data[pos] EXCEPT !.length = new - data[pos].clock_start] = x
    BY <2>1 DEF ClockRanges, DeleteRange
  <2> QED  BY <2>2
<1> HIDE DEF x
<1>6. /\ v \in Seq(ClockRanges) /\ Len(v) = Len(data) /\ DOMAIN v = 1 .. Len(data)
      /\ v[pos] = x /\ \A i \in 1 .. Len(data) : i # pos => v[i] = data[i]
  BY <1>4, <1>5 DEF RangesInv
<1>7. Extended(clock, length) = MergeForward(v, pos)
  BY <1>1 DEF Extended, new
<1> HIDE DEF v
<1>8. \A i \in 1 .. Len(data) : v[i].clock_start = data[i].clock_start
  BY <1>4, <1>6
<1>9. \A i, j \in 1 .. Len(v) : i < j /\ i # pos => EndOf(v[i]) < v[j].clock_start
  BY <1>6, <1>8, StartsAscend
<1>10. ASSUME NEW j \in 1 .. Len(v), pos < j
       PROVE  v[pos].clock_start <= v[j].clock_start
  <2>1. j \in 1 .. Len(data)
    BY <1>6
  <2>2. /\ data[pos].clock_start \in Nat /\ data[j].clock_start \in Nat
        /\ data[pos].clock_start < data[j].clock_start
    BY <1>10, <2>1, StartsAscend
  <2> QED  BY <1>8, <2>1, <2>2
<1>11. /\ MergeForward(v, pos) \in Seq(ClockRanges) /\ Sorted(MergeForward(v, pos))
       /\ \A c \in Nat : Holds(MergeForward(v, pos), c) <=> Holds(v, c)
  <2>1. pos \in 1 .. Len(v)
    BY <1>6
  <2> QED  BY <1>6, <1>9, <1>10, <2>1, MergeForwardIs
<1>12. ASSUME NEW c \in Nat
       PROVE  Holds(v, c) <=> Holds(data, c) \/ (clock <= c /\ c < clock + length)
  <2>1. data[pos].clock_start \in Nat /\ EndOf(data[pos]) \in Nat
    BY StartsAscend
  <2>2. (x.clock_start <= c /\ c < EndOf(x)) <=>
        \/ data[pos].clock_start <= c /\ c < EndOf(data[pos])
        \/ clock <= c /\ c < clock + length
    BY <1>1, <1>2, <1>3, <1>4, <2>1
  <2>3. ASSUME Holds(v, c)
        PROVE  Holds(data, c) \/ (clock <= c /\ c < clock + length)
    <3>1. PICK i \in 1 .. Len(data) : v[i].clock_start <= c /\ c < EndOf(v[i])
      BY <1>6, <2>3 DEF Holds
    <3>2. CASE i = pos
      BY <1>6, <2>2, <3>1, <3>2, StartsAscend DEF Holds
    <3>3. CASE i # pos
      BY <1>6, <3>1, <3>3, StartsAscend DEF Holds
    <3> QED  BY <3>2, <3>3
  <2>4. ASSUME Holds(data, c) PROVE Holds(v, c)
    <3>1. PICK i \in 1 .. Len(data) : data[i].clock_start <= c /\ c < EndOf(data[i])
      BY <2>4, StartsAscend DEF Holds
    <3>2. CASE i = pos
      BY <1>6, <2>2, <3>1, <3>2 DEF Holds
    <3>3. CASE i # pos
      BY <1>6, <3>1, <3>3 DEF Holds
    <3> QED  BY <3>2, <3>3
  <2>5. ASSUME clock <= c, c < clock + length PROVE Holds(v, c)
    BY <1>6, <2>2, <2>5 DEF Holds
  <2> QED  BY <2>3, <2>4, <2>5
<1> QED  BY <1>7, <1>11, <1>12

\* A range that gets a place of its own, and takes in what follows.
LEMMA InsertedIs ==
  ASSUME RangesInv, NEW clock \in Nat, NEW length \in Nat \ {0}, ~Touches(clock)
  PROVE  /\ Inserted(clock, length) \in Seq(ClockRanges) /\ Sorted(Inserted(clock, length))
         /\ \A c \in Nat : Holds(Inserted(clock, length), c) <=>
                           Holds(data, c) \/ (clock <= c /\ c < clock + length)
<1> DEFINE L == Len(data)
           x == DeleteRange(clock, length)
<1>1. PICK p \in 0 .. L : p = Place(clock)
  BY PlaceIs
<1>2. \A i \in 1 .. L : data[i].clock_start < clock <=> i <= p
  BY <1>1, PlaceIs
<1>3. \A i \in 1 .. L : i <= p => EndOf(data[i]) < clock
  <2> SUFFICES ASSUME NEW i \in 1 .. L, i <= p PROVE EndOf(data[i]) < clock
    OBVIOUS
  <2>1. p \in 1 .. L /\ EndOf(data[p]) < clock
    BY <1>1, StartsAscend DEF Touches
  <2>2. CASE i = p
    BY <2>1, <2>2
  <2>3. CASE i < p
    <3>1. EndOf(data[i]) < data[p].clock_start /\ data[p].clock_start < EndOf(data[p])
      BY <2>1, <2>3, StartsAscend
    <3> QED  BY <2>1, <3>1, StartsAscend
  <2> QED  BY <2>2, <2>3
<1>4. x \in ClockRanges /\ x.clock_start = clock /\ EndOf(x) = clock + length
  BY DEF ClockRanges, DeleteRange, EndOf
<1> DEFINE v == Seqs!InsertAt(data, p + 1, x)
<1>5. v = SubSeq(data, 1, p) \o << x >> \o SubSeq(data, p + 1, L)
  <2>1. (p + 1) - 1 = p
    BY <1>1, StartsAscend
  <2> QED  BY <2>1 DEF Seqs!InsertAt
<1>6. Inserted(clock, length) = MergeForward(v, p + 1)
  BY <1>1 DEF Inserted
<1> HIDE DEF v, x
<1>7. /\ v \in Seq(ClockRanges) /\ Len(v) = L + 1
      /\ \A i \in 1 .. p : v[i] = data[i]
      /\ v[p + 1] = x
      /\ \A i \in (p + 1) .. L : v[i + 1] = data[i]
  <2>1. p \in p .. L
    BY StartsAscend
  <2>2. /\ v \in Seq(ClockRanges) /\ Len(v) = (p + 1) + (L - p)
        /\ \A i \in 1 .. p : v[i] = data[i]
        /\ v[p + 1] = x
        /\ \A i \in (p + 1) .. L : v[(i - p) + (p + 1)] = data[i]
    <3>1. /\ data \in Seq(ClockRanges)
          /\ p \in 0 .. Len(data) /\ p \in p .. Len(data)
          /\ v = Splice(data, x, p, p)
      BY <1>1, <1>5, <2>1 DEF RangesInv, Splice
    <3>2. v \in Seq(ClockRanges) /\ Splices(v, data, x, p, p)
      BY <1>4, <3>1, Spliced
    <3> QED  BY <3>2 DEF Splices
  <2>3. L \in Nat /\ Len(v) = L + 1
    BY <1>1, <2>2, StartsAscend
  <2>4. ASSUME NEW i \in (p + 1) .. L PROVE v[i + 1] = data[i]
    <3>1. (i - p) + (p + 1) = i + 1
      BY <1>1, <2>3
    <3>2. v[(i - p) + (p + 1)] = data[i]
      BY <2>2
    <3> QED  BY <3>1, <3>2
  <2> QED  BY <2>2, <2>3, <2>4
<1>8. L \in Nat /\ DOMAIN v = 1 .. (L + 1)
  BY <1>7, StartsAscend
<1>9. PICK q \in 1 .. (L + 1) : q = p + 1
  BY <1>8
<1>10. ASSUME NEW j \in 1 .. (L + 1)
       PROVE  \/ j < q /\ j \in 1 .. L /\ j <= p /\ v[j] = data[j]
              \/ j = q /\ v[j] = x
              \/ q < j /\ \E i \in 1 .. L : i = j - 1 /\ p < i /\ v[j] = data[i]
  <2>1. CASE q < j
    <3>1. PICK i \in (p + 1) .. L : i = j - 1
      BY <1>8, <1>9, <2>1
    <3>2. j = i + 1 /\ i \in 1 .. L /\ p < i
      BY <1>8, <3>1
    <3> QED  BY <1>7, <2>1, <3>1, <3>2
  <2> QED  BY <1>7, <1>8, <1>9, <2>1
<1>11. ASSUME NEW i \in 1 .. (L + 1), NEW j \in 1 .. (L + 1), i < j, i # q
       PROVE  EndOf(v[i]) < v[j].clock_start
  <2>1. CASE i < q
    <3>1. i \in 1 .. L /\ v[i] = data[i] /\ EndOf(data[i]) < clock
      BY <1>3, <1>10, <2>1
    <3>2. CASE j < q
      <4>1. j \in 1 .. L /\ v[j] = data[j]
        BY <1>10, <3>2
      <4> QED  BY <1>11, <3>1, <4>1, StartsAscend
    <3>3. CASE j = q
      BY <1>4, <1>10, <3>1, <3>3
    <3>4. CASE q < j
      <4>1. PICK k \in 1 .. L : k = j - 1 /\ v[j] = data[k]
        BY <1>10, <3>4
      <4>2. i < k
        BY <2>1, <3>4, <4>1, <1>8
      <4> QED  BY <3>1, <4>1, <4>2, StartsAscend
    <3> QED  BY <1>8, <3>2, <3>3, <3>4
  <2>2. CASE q < i
    <3>1. PICK k \in 1 .. L : k = i - 1 /\ v[i] = data[k]
      BY <1>10, <2>2
    <3>2. PICK n \in 1 .. L : n = j - 1 /\ v[j] = data[n]
      BY <1>8, <1>10, <1>11, <2>2
    <3>3. k < n
      BY <1>8, <1>11, <3>1, <3>2
    <3> QED  BY <3>1, <3>2, <3>3, StartsAscend
  <2> QED  BY <1>8, <1>11, <2>1, <2>2
<1>12. ASSUME NEW j \in 1 .. (L + 1), q < j
       PROVE  v[q].clock_start <= v[j].clock_start
  <2>1. PICK k \in 1 .. L : p < k /\ v[j] = data[k]
    BY <1>10, <1>12
  <2>2. ~(data[k].clock_start < clock)
    BY <1>2, <2>1, <1>1, <1>8
  <2> QED  BY <1>4, <1>10, <2>1, <2>2, StartsAscend
<1>13. /\ MergeForward(v, q) \in Seq(ClockRanges) /\ Sorted(MergeForward(v, q))
       /\ \A c \in Nat : Holds(MergeForward(v, q), c) <=> Holds(v, c)
  <2>1. 1 .. Len(v) = 1 .. (L + 1)
    BY <1>7
  <2>2. q \in 1 .. Len(v)
    BY <2>1
  <2> QED  BY <1>7, <1>11, <1>12, <2>1, <2>2, MergeForwardIs
<1>14. ASSUME NEW c \in Nat
       PROVE  Holds(v, c) <=> Holds(data, c) \/ (clock <= c /\ c < clock + length)
  <2>1. ASSUME Holds(v, c)
        PROVE  Holds(data, c) \/ (clock <= c /\ c < clock + length)
    <3>1. PICK j \in 1 .. (L + 1) : v[j].clock_start <= c /\ c < EndOf(v[j])
      BY <1>8, <2>1 DEF Holds
    <3>2. CASE j = q
      BY <1>4, <1>10, <3>1, <3>2
    <3>3. CASE j # q
      <4>1. \E i \in 1 .. L : v[j] = data[i]
        BY <1>8, <1>10, <3>3
      <4> QED  BY <3>1, <4>1, StartsAscend DEF Holds
    <3> QED  BY <3>2, <3>3
  <2>2. ASSUME Holds(data, c) PROVE Holds(v, c)
    <3>1. PICK i \in 1 .. L : data[i].clock_start <= c /\ c < EndOf(data[i])
      BY <2>2, StartsAscend DEF Holds
    <3>2. CASE i <= p
      BY <1>1, <1>7, <1>8, <3>1, <3>2 DEF Holds
    <3>3. CASE p < i
      <4>1. PICK j \in 1 .. (L + 1) : j = i + 1
        BY <1>8
      <4>2. v[j] = data[i]
        BY <1>1, <1>7, <1>8, <3>3, <4>1
      <4> QED  BY <1>8, <3>1, <4>2 DEF Holds
    <3> QED  BY <1>1, <1>8, <3>2, <3>3
  <2>3. ASSUME clock <= c, c < clock + length PROVE Holds(v, c)
    <3>1. v[q] = x /\ q \in DOMAIN v
      BY <1>7, <1>8, <1>9
    <3> QED  BY <1>4, <2>3, <3>1 DEF Holds
  <2> QED  BY <2>1, <2>2, <2>3
<1> QED  BY <1>6, <1>9, <1>13, <1>14

\* DeleteSet::add: the ranges stay sorted, and cover the added clocks too or,
\* when it fails, what they covered before.
LEMMA AddRangeIs ==
  ASSUME RangesInv, NEW clock \in Nat, NEW length \in Nat \ {0}, NEW ok \in BOOLEAN,
         AddRange(clock, length, ok)
  PROVE  /\ RangesInv'
         /\ \/ Covered' = Covered
            \/ Covered' = Covered \cup (clock .. (clock + length - 1))
<1>1. \/ data' = data
      \/ Touches(clock) /\ data' = Extended(clock, length)
      \/ ~Touches(clock) /\ data' = Inserted(clock, length)
  BY DEF AddRange
<1>2. CASE data' = data
  BY <1>2 DEF RangesInv, Compact, Covered
<1>3. ASSUME data' \in Seq(ClockRanges), Sorted(data'),
             \A c \in Nat : Holds(data', c) <=>
                            Holds(data, c) \/ (clock <= c /\ c < clock + length)
      PROVE  RangesInv' /\ Covered' = Covered \cup (clock .. (clock + length - 1))
  <2>1. RangesInv'
    BY <1>3 DEF RangesInv, Compact, Sorted
  <2>2. ASSUME NEW c
        PROVE  c \in Covered' <=> c \in Nat /\ Holds(data', c)
    <3>1. ASSUME c \in Covered' PROVE c \in Nat /\ Holds(data', c)
      <4>1. PICK i \in DOMAIN data' :
              c \in data'[i].clock_start .. (EndOf(data'[i]) - 1)
        BY <3>1 DEF Covered, EndOf
      <4>2. data'[i].clock_start \in Nat /\ EndOf(data'[i]) \in Nat
        BY <1>3, RangeFields
      <4> QED  BY <4>1, <4>2 DEF Holds
    <3>2. ASSUME c \in Nat, Holds(data', c) PROVE c \in Covered'
      <4>1. PICK i \in DOMAIN data' : data'[i].clock_start <= c /\ c < EndOf(data'[i])
        BY <3>2 DEF Holds
      <4>2. data'[i].clock_start \in Nat /\ EndOf(data'[i]) \in Nat
        BY <1>3, RangeFields
      <4>3. c \in data'[i].clock_start .. (EndOf(data'[i]) - 1)
        BY <3>2, <4>1, <4>2
      <4> QED  BY <4>3 DEF Covered, EndOf
    <3> QED  BY <3>1, <3>2
  <2>3. ASSUME NEW c
        PROVE  c \in Covered' <=> c \in Covered \cup (clock .. (clock + length - 1))
    <3>1. c \in clock .. (clock + length - 1) <=>
            c \in Nat /\ clock <= c /\ c < clock + length
      OBVIOUS
    <3>2. c \in Covered <=> c \in Nat /\ Holds(data, c)
      BY CoveredIs
    <3> QED  BY <1>3, <2>2, <3>1, <3>2
  <2> QED  BY <2>1, <2>3
<1>4. CASE Touches(clock) /\ data' = Extended(clock, length)
  BY <1>3, <1>4, ExtendedIs
<1>5. CASE ~Touches(clock) /\ data' = Inserted(clock, length)
  BY <1>3, <1>5, InsertedIs
<1> QED  BY <1>1, <1>2, <1>4, <1>5

-----------------------------------------------------------------------------
(* The slots.                                                              *)

Address == Nat \X Nat
SlabBytes == SlabHeader + SlotBytes * SlabSlots

Members(s) == { s[i] : i \in DOMAIN s }
NoRepeats(s) == \A i, j \in DOMAIN s : s[i] = s[j] => i = j

SlotsOf(slabs) ==
  UNION { { Slots(slabs[i])[j] : j \in 1 .. SlabSlots } : i \in DOMAIN slabs }

\* Every slab is an allocation: that is why slabs do not overlap.
SlabsGiven(a, slabs) ==
  \A i \in DOMAIN slabs : \E g \in DOMAIN a.given :
    /\ a.given[g].block = slabs[i][1] /\ a.given[g].from = slabs[i][2]
    /\ a.given[g].n = SlabBytes

\* A pool of whose slots those of used are in use.
PoolOK(a, p, used) ==
  /\ p \in [ slabs : Seq(Address), free : Seq(Address), live : Nat ]
  /\ NoRepeats(p.free)
  /\ Members(p.free) \cap used = {}
  /\ Members(p.free) \cup used = SlotsOf(p.slabs)
  /\ SlabsGiven(a, p.slabs)

SlotInv ==
  /\ items \in Seq(Address) /\ NoRepeats(items)
  /\ PoolOK(arena, pool, Members(items))
  /\ pool.live = Len(items)

\* What an arena has handed out stays handed out.
Keeps(a, b) ==
  \A g \in DOMAIN a.given : g \in DOMAIN b.given /\ b.given[g] = a.given[g]

LEMMA KeepsPool ==
  ASSUME NEW a, NEW b, Keeps(a, b), NEW p, NEW used, PoolOK(a, p, used)
  PROVE  PoolOK(b, p, used)
<1>1. SlabsGiven(b, p.slabs)
  BY DEF Keeps, PoolOK, SlabsGiven
<1> QED  BY <1>1 DEF PoolOK

LEMMA KeepsOn ==
  ASSUME NEW a, NEW b, NEW c, Keeps(a, b), Keeps(b, c)
  PROVE  Keeps(a, c)
BY DEF Keeps

\* An allocation lies behind all earlier ones of its block.
LEMMA AllocGives ==
  ASSUME NEW a, ArenaOK(a), NEW n \in Nat, NEW align \in Nat \ {0},
         NEW r \in Alloc(a, n, align)
  PROVE  /\ Keeps(a, r.arena)
         /\ r.at # Null =>
              /\ r.at \in Address
              /\ \E g \in DOMAIN r.arena.given :
                   /\ r.arena.given[g].block = r.at[1]
                   /\ r.arena.given[g].from = r.at[2]
                   /\ r.arena.given[g].n = n
              /\ \A g \in DOMAIN a.given :
                   a.given[g].block = r.at[1] => a.given[g].from + a.given[g].n <= r.at[2]
<1>1. a.given \in Seq(Allocations) /\ a.blocks \in Seq(Blocks)
  BY DEF ArenaOK
<1>2. CASE r = Failed(a)
  BY <1>2 DEF Failed, Keeps
<1>3. ASSUME NEW b, b.given = a.given, NEW k, r = Bumped(b, k, n, align)
      PROVE  /\ r.arena.given = Append(a.given, [ block |-> r.at[1], from |-> r.at[2],
                                                  n |-> n, align |-> align ])
  BY <1>3 DEF Bumped
<1>4. \/ r = Failed(a)
      \/ \E b, k : b.given = a.given /\ r = Bumped(b, k, n, align)
  <2>1. \A cap : AtHead(a, cap).given = a.given /\ BehindHead(a, cap).given = a.given
    BY DEF AtHead, BehindHead, ArenaOK
  <2>2. \/ r = Failed(a)
        \/ r = Bumped(a, 1, n, align)
        \/ \E cap : r = Bumped(AtHead(a, cap), 1, n, align)
        \/ \E cap : r = Bumped(BehindHead(a, cap), 2, n, align)
    BY DEF Alloc, AllocOversize
  <2> QED  BY <2>1, <2>2
<1>5. CASE r # Failed(a)
  <2> DEFINE g == [ block |-> r.at[1], from |-> r.at[2], n |-> n, align |-> align ]
             all == r.arena.given
             last == Len(a.given) + 1
  <2>1. all = Append(a.given, g)
    BY <1>3, <1>4, <1>5
  <2>2. ArenaOK(r.arena)
    BY AllocOK
  <2>3. all \in Seq(Allocations) /\ Layout(r.arena.blocks, all)
    BY <2>2 DEF ArenaOK
  <2> HIDE DEF g
  <2>4. /\ Len(a.given) \in Nat /\ DOMAIN a.given = 1 .. Len(a.given)
        /\ DOMAIN all = 1 .. last /\ all[last] = g
        /\ \A i \in 1 .. Len(a.given) : all[i] = a.given[i]
    BY <1>1, <2>1
  <2> HIDE DEF all
  <2>5. Keeps(a, r.arena)
    BY <2>4 DEF Keeps, all
  <2>6. last \in DOMAIN all /\ g \in Allocations
    BY <2>3, <2>4
  <2>7. r.at \in Address
    <3>1. g.block \in Nat /\ g.from \in Nat
      BY <2>6 DEF Allocations
    <3>2. \E x, y : r.at = << x, y >>
      <4>1. \A b, k : \E x, y : Bumped(b, k, n, align).at = << x, y >>
        BY DEF Bumped
      <4> QED  BY <1>4, <1>5, <4>1
    <3> QED  BY <3>1, <3>2 DEF g, Address
  <2>8. g.block = r.at[1] /\ g.from = r.at[2] /\ g.n = n
    BY DEF g
  <2>9. ASSUME NEW i \in DOMAIN a.given, a.given[i].block = r.at[1]
        PROVE  a.given[i].from + a.given[i].n <= r.at[2]
    <3>1. i \in DOMAIN all /\ i < last /\ all[i] = a.given[i]
      BY <2>4
    <3>2. all[i].from + all[i].n <= all[last].from
      BY <2>3, <2>4, <2>6, <2>8, <2>9, <3>1 DEF Layout
    <3> QED  BY <2>4, <2>8, <3>1, <3>2
  <2>10. \E k \in DOMAIN r.arena.given :
           /\ r.arena.given[k].block = r.at[1] /\ r.arena.given[k].from = r.at[2]
           /\ r.arena.given[k].n = n
    BY <2>4, <2>6, <2>8 DEF all
  <2> QED  BY <2>5, <2>7, <2>9, <2>10
<1> QED  BY <1>2, <1>5

\* The slots in use and one more (an operator of its own, so that the provers
\* meet a name and not a union).
WithSlot(used, slot) == used \cup {slot}

\* A slot taken back.
LEMMA ReleaseOK ==
  ASSUME NEW a, NEW p, NEW used, NEW slot \in Address, slot \notin used,
         PoolOK(a, p, WithSlot(used, slot)), NEW n \in Nat, p.live = n + 1
  PROVE  PoolOK(a, Release(p, slot), used) /\ Release(p, slot).live = n
<1> DEFINE q == Release(p, slot)
<1>1. /\ p.free \in Seq(Address) /\ p.slabs \in Seq(Address) /\ p.live - 1 = n
      /\ NoRepeats(p.free) /\ slot \notin Members(p.free)
  BY DEF PoolOK, WithSlot
<1>2. q \in [ slabs : {p.slabs}, free : {<< slot >> \o p.free}, live : {n} ]
  BY <1>1 DEF Release, PoolOK
<1>3. /\ << slot >> \o p.free \in Seq(Address)
      /\ Len(<< slot >> \o p.free) = Len(p.free) + 1
      /\ (<< slot >> \o p.free)[1] = slot
      /\ \A i \in 1 .. Len(p.free) : (<< slot >> \o p.free)[i + 1] = p.free[i]
  BY <1>1
<1>4. PICK f : f = << slot >> \o p.free
  OBVIOUS
<1>5. /\ f \in Seq(Address) /\ DOMAIN f = 1 .. (Len(p.free) + 1) /\ f[1] = slot
      /\ \A i \in 1 .. Len(p.free) : f[i + 1] = p.free[i]
      /\ Len(p.free) \in Nat /\ DOMAIN p.free = 1 .. Len(p.free)
  BY <1>1, <1>3, <1>4
<1>6. \A i \in DOMAIN f : i = 1 \/ \E k \in DOMAIN p.free : i = k + 1 /\ f[i] = p.free[k]
  <2> SUFFICES ASSUME NEW i \in DOMAIN f, i # 1
               PROVE  \E k \in DOMAIN p.free : i = k + 1 /\ f[i] = p.free[k]
    OBVIOUS
  <2>1. PICK k \in DOMAIN p.free : k = i - 1
    BY <1>5
  <2>2. i = k + 1
    BY <1>5, <2>1
  <2> QED  BY <1>5, <2>1, <2>2
<1>7. Members(f) = {slot} \cup Members(p.free)
  <2>1. \A k \in DOMAIN p.free : k + 1 \in DOMAIN f /\ f[k + 1] = p.free[k]
    BY <1>5
  <2>2. 1 \in DOMAIN f
    BY <1>5
  <2>3. \A i \in DOMAIN f : f[i] \in {slot} \cup Members(p.free)
    BY <1>5, <1>6 DEF Members
  <2>4. slot \in Members(f)
    BY <1>5, <2>2 DEF Members
  <2>5. \A k \in DOMAIN p.free : p.free[k] \in Members(f)
    BY <2>1 DEF Members
  <2> QED  BY <2>3, <2>4, <2>5 DEF Members
<1>8. NoRepeats(f)
  <2> SUFFICES ASSUME NEW i \in DOMAIN f, NEW j \in DOMAIN f, f[i] = f[j] PROVE i = j
    BY DEF NoRepeats
  <2>1. \A k \in DOMAIN p.free : p.free[k] # slot
    BY <1>1 DEF Members
  <2>2. CASE i = 1
    <3>1. f[j] = slot
      BY <1>5, <2>2
    <3> QED  BY <1>6, <2>1, <2>2, <3>1
  <2>3. CASE i # 1
    <3>1. PICK k \in DOMAIN p.free : i = k + 1 /\ f[i] = p.free[k]
      BY <1>6, <2>3
    <3>2. j # 1
      BY <1>5, <2>1, <3>1
    <3>3. PICK l \in DOMAIN p.free : j = l + 1 /\ f[j] = p.free[l]
      BY <1>6, <3>2
    <3>4. k = l
      BY <1>1, <3>1, <3>3 DEF NoRepeats
    <3> QED  BY <3>1, <3>3, <3>4
  <2> QED  BY <2>2, <2>3
<1>9. Members(f) \cap used = {}
  BY <1>7 DEF PoolOK, WithSlot
<1>10. Members(f) \cup used = SlotsOf(p.slabs) /\ SlabsGiven(a, p.slabs)
  BY <1>7 DEF PoolOK, WithSlot
<1>11. q.slabs = p.slabs /\ q.free = f /\ q.live = n
  BY <1>2, <1>4
<1>12. q \in [ slabs : Seq(Address), free : Seq(Address), live : Nat ]
  <2>1. p.slabs \in Seq(Address) /\ f \in Seq(Address)
    BY <1>1, <1>5
  <2>2. q \in [ slabs : {p.slabs}, free : {f}, live : {n} ]
    BY <1>2, <1>4
  <2> HIDE DEF q
  <2> QED  BY <2>1, <2>2
<1> HIDE DEF q
<1>13. PoolOK(a, q, used)
  BY <1>8, <1>9, <1>10, <1>11, <1>12 DEF PoolOK
<1> QED  BY <1>11, <1>13 DEF q

LEMMA SlabFacts ==
  /\ SlabHeader \in Nat /\ SlotBytes \in Nat \ {0} /\ SlabSlots \in Nat \ {0}
  /\ SlotAlign \in Nat \ {0} /\ SlabBytes \in Nat
  /\ \A j \in 1 .. SlabSlots :
       /\ (j - 1) * SlotBytes \in Nat
       /\ SlabHeader + (j - 1) * SlotBytes < SlabBytes
  /\ \A j, k \in 1 .. SlabSlots : (j - 1) * SlotBytes = (k - 1) * SlotBytes => j = k
<1>1. SlabHeader \in Nat /\ SlotBytes \in Nat \ {0} /\ SlabSlots \in Nat \ {0}
      /\ SlotAlign \in Nat \ {0}
  BY PoolAssumption
<1>2. SlabBytes \in Nat
  BY <1>1 DEF SlabBytes
<1>3. ASSUME NEW j \in 1 .. SlabSlots
      PROVE  (j - 1) * SlotBytes \in Nat /\ SlabHeader + (j - 1) * SlotBytes < SlabBytes
  <2>1. PICK d \in Nat : SlabSlots = (j - 1) + (d + 1)
    <3>1. PICK d \in Nat : d = SlabSlots - j
      BY <1>1
    <3> QED  BY <1>1, <3>1
  <2>2. (j - 1) * SlotBytes \in Nat /\ d * SlotBytes \in Nat
    BY <1>1
  <2>3. SlotBytes * SlabSlots = (j - 1) * SlotBytes + (d * SlotBytes + SlotBytes)
    BY <1>1, <2>1
  <2> QED  BY <1>1, <2>2, <2>3 DEF SlabBytes
<1>4. ASSUME NEW j \in 1 .. SlabSlots, NEW k \in 1 .. SlabSlots, j < k
      PROVE  (j - 1) * SlotBytes # (k - 1) * SlotBytes
  <2>1. PICK d \in Nat : k - 1 = (j - 1) + (d + 1)
    <3>1. PICK d \in Nat : d = (k - j) - 1
      BY <1>1, <1>4
    <3> QED  BY <1>1, <3>1
  <2>2. (k - 1) * SlotBytes = (j - 1) * SlotBytes + (d * SlotBytes + SlotBytes)
    BY <1>1, <2>1
  <2>3. (j - 1) * SlotBytes \in Nat /\ d * SlotBytes \in Nat
    BY <1>1
  <2> QED  BY <1>1, <2>2, <2>3
<1>5. ASSUME NEW j \in 1 .. SlabSlots, NEW k \in 1 .. SlabSlots,
             (j - 1) * SlotBytes = (k - 1) * SlotBytes
      PROVE  j = k
  <2>1. ~(j < k) /\ ~(k < j)
    BY <1>4, <1>5
  <2> QED  BY <1>1, <2>1
<1> QED  BY <1>1, <1>2, <1>3, <1>5

LEMMA SlotsAre ==
  ASSUME NEW p \in Address
  PROVE  /\ Slots(p) \in Seq(Address) /\ Len(Slots(p)) = SlabSlots
         /\ DOMAIN Slots(p) = 1 .. SlabSlots
         /\ NoRepeats(Slots(p))
         /\ \A j \in 1 .. SlabSlots :
              /\ Slots(p)[j][1] = p[1]
              /\ p[2] <= Slots(p)[j][2] /\ Slots(p)[j][2] < p[2] + SlabBytes
<1> DEFINE at(j) == p[2] + SlabHeader + (j - 1) * SlotBytes
<1>1. p[1] \in Nat /\ p[2] \in Nat
  BY DEF Address
<1>2. Slots(p) = [ j \in 1 .. SlabSlots |-> << p[1], at(j) >> ]
  BY DEF Slots
<1>3. ASSUME NEW j \in 1 .. SlabSlots
      PROVE  at(j) \in Nat /\ p[2] <= at(j) /\ at(j) < p[2] + SlabBytes
  <2>1. PICK o \in Nat : o = (j - 1) * SlotBytes
    BY SlabFacts
  <2>2. SlabHeader + o < SlabBytes /\ SlabHeader \in Nat /\ SlabBytes \in Nat
    BY <2>1, SlabFacts
  <2>3. at(j) = p[2] + SlabHeader + o
    BY <2>1
  <2> HIDE DEF at
  <2> QED  BY <1>1, <2>2, <2>3
<1>4. ASSUME NEW j \in 1 .. SlabSlots, NEW k \in 1 .. SlabSlots, at(j) = at(k)
      PROVE  j = k
  <2>1. PICK o \in Nat : o = (j - 1) * SlotBytes
    BY SlabFacts
  <2>2. PICK u \in Nat : u = (k - 1) * SlotBytes
    BY SlabFacts
  <2>3. p[2] + SlabHeader + o = p[2] + SlabHeader + u
    BY <1>4, <2>1, <2>2
  <2>4. o = u
    BY <1>1, <2>3, SlabFacts
  <2> QED  BY <2>1, <2>2, <2>4, SlabFacts
<1> HIDE DEF at
<1>5. \A j \in 1 .. SlabSlots : << p[1], at(j) >> \in Address
  BY <1>1, <1>3 DEF Address
<1>6. SlabSlots \in Nat
  BY SlabFacts
<1>7. Slots(p) \in Seq(Address) /\ Len(Slots(p)) = SlabSlots
      /\ DOMAIN Slots(p) = 1 .. SlabSlots
  BY <1>2, <1>5, <1>6
<1>8. NoRepeats(Slots(p))
  BY <1>2, <1>4, <1>7 DEF NoRepeats
<1>9. ASSUME NEW j \in 1 .. SlabSlots
      PROVE  /\ Slots(p)[j][1] = p[1]
             /\ p[2] <= Slots(p)[j][2] /\ Slots(p)[j][2] < p[2] + SlabBytes
  <2>1. Slots(p)[j] = << p[1], at(j) >>
    BY <1>2
  <2>2. Slots(p)[j][1] = p[1] /\ Slots(p)[j][2] = at(j)
    BY <2>1
  <2> QED  BY <1>3, <2>2
<1> QED  BY <1>7, <1>8, <1>9

\* A slab in front of others adds its slots.
LEMMA SlotsGrow ==
  ASSUME NEW slabs \in Seq(Address), NEW p \in Address
  PROVE  /\ << p >> \o slabs \in Seq(Address)
         /\ SlotsOf(<< p >> \o slabs) = Members(Slots(p)) \cup SlotsOf(slabs)
         /\ \A i \in DOMAIN (<< p >> \o slabs) :
              \/ (<< p >> \o slabs)[i] = p
              \/ \E k \in DOMAIN slabs : (<< p >> \o slabs)[i] = slabs[k]
<1>1. PICK s : s = << p >> \o slabs
  OBVIOUS
<1>2. /\ s \in Seq(Address) /\ DOMAIN s = 1 .. (Len(slabs) + 1) /\ s[1] = p
      /\ \A k \in 1 .. Len(slabs) : s[k + 1] = slabs[k]
      /\ Len(slabs) \in Nat /\ DOMAIN slabs = 1 .. Len(slabs)
  BY <1>1
<1>3. ASSUME NEW i \in DOMAIN s, i # 1
      PROVE  \E k \in DOMAIN slabs : s[i] = slabs[k]
  <2>1. PICK k \in DOMAIN slabs : k = i - 1
    BY <1>2, <1>3
  <2>2. i = k + 1
    BY <1>2, <2>1
  <2> QED  BY <1>2, <2>1, <2>2
<1>4. \A k \in DOMAIN slabs : \E i \in DOMAIN s : s[i] = slabs[k]
  <2> SUFFICES ASSUME NEW k \in DOMAIN slabs PROVE \E i \in DOMAIN s : s[i] = slabs[k]
    OBVIOUS
  <2>1. k + 1 \in DOMAIN s /\ s[k + 1] = slabs[k]
    BY <1>2
  <2> QED  BY <2>1
<1>5. Members(Slots(p)) = { Slots(p)[j] : j \in 1 .. SlabSlots }
  BY SlotsAre DEF Members
<1>6. ASSUME NEW x
      PROVE  x \in SlotsOf(s) <=> x \in Members(Slots(p)) \/ x \in SlotsOf(slabs)
  <2> DEFINE T(q) == { Slots(q)[j] : j \in 1 .. SlabSlots }
  <2>1. /\ x \in SlotsOf(s) <=> \E i \in DOMAIN s : x \in T(s[i])
        /\ x \in SlotsOf(slabs) <=> \E k \in DOMAIN slabs : x \in T(slabs[k])
        /\ x \in Members(Slots(p)) <=> x \in T(p)
    BY <1>5 DEF SlotsOf
  <2>2. 1 \in DOMAIN s
    BY <1>2
  <2> HIDE DEF T
  <2> QED  BY <1>2, <1>3, <1>4, <2>1, <2>2
<1>7. SlotsOf(s) = Members(Slots(p)) \cup SlotsOf(slabs)
  BY <1>6
<1> QED  BY <1>1, <1>2, <1>3, <1>7

\* The tail of a sequence without repetitions is the sequence without its head.
LEMMA TailOf ==
  ASSUME NEW s \in Seq(Address), s # << >>, NoRepeats(s)
  PROVE  /\ Tail(s) \in Seq(Address) /\ NoRepeats(Tail(s))
         /\ Head(s) \in Address /\ Head(s) = s[1]
         /\ Members(s) = Members(Tail(s)) \cup {Head(s)}
         /\ Head(s) \notin Members(Tail(s))
<1>1. PICK t : t = Tail(s)
  OBVIOUS
<1>2. /\ Len(s) \in Nat \ {0} /\ DOMAIN s = 1 .. Len(s)
      /\ t \in Seq(Address) /\ DOMAIN t = 1 .. (Len(s) - 1)
      /\ \A i \in 1 .. (Len(s) - 1) : t[i] = s[i + 1]
      /\ Head(s) = s[1] /\ Head(s) \in Address
  BY <1>1
<1>3. \A i \in DOMAIN t : i + 1 \in DOMAIN s /\ t[i] = s[i + 1] /\ i + 1 # 1
  BY <1>2
<1>4. \A k \in DOMAIN s : k = 1 \/ \E i \in DOMAIN t : k = i + 1 /\ t[i] = s[k]
  <2> SUFFICES ASSUME NEW k \in DOMAIN s, k # 1
               PROVE  \E i \in DOMAIN t : k = i + 1 /\ t[i] = s[k]
    OBVIOUS
  <2>1. PICK i \in DOMAIN t : i = k - 1
    BY <1>2
  <2>2. k = i + 1
    BY <1>2, <2>1
  <2> QED  BY <1>3, <2>1, <2>2
<1>5. NoRepeats(t)
  <2> SUFFICES ASSUME NEW i \in DOMAIN t, NEW j \in DOMAIN t, t[i] = t[j] PROVE i = j
    BY DEF NoRepeats
  <2>1. i + 1 = j + 1
    BY <1>3 DEF NoRepeats
  <2> QED  BY <1>2, <2>1
<1>6. 1 \in DOMAIN s
  BY <1>2
<1>7. Members(s) = Members(t) \cup {Head(s)}
  <2>1. \A i \in DOMAIN t : t[i] \in Members(s)
    BY <1>3 DEF Members
  <2>2. s[1] \in Members(s)
    BY <1>6 DEF Members
  <2>3. \A k \in DOMAIN s : k = 1 \/ s[k] \in Members(t)
    BY <1>4 DEF Members
  <2>4. s[1] = Head(s)
    BY <1>2
  <2> QED  BY <2>1, <2>2, <2>3, <2>4 DEF Members
<1>8. Head(s) \notin Members(t)
  <2> SUFFICES ASSUME NEW i \in DOMAIN t, t[i] = Head(s) PROVE FALSE
    BY DEF Members
  <2>1. i + 1 \in DOMAIN s /\ s[i + 1] = s[1] /\ i + 1 # 1
    BY <1>2, <1>3
  <2> QED  BY <1>6, <2>1 DEF NoRepeats
<1> QED  BY <1>1, <1>2, <1>5, <1>7, <1>8

\* acquire: no slot and nothing changed, or a slot that was not in use.
LEMMA AcquireGives ==
  ASSUME NEW a, ArenaOK(a), NEW p, NEW used, PoolOK(a, p, used), NEW t \in Acquire(a, p)
  PROVE  /\ Keeps(a, t.arena)
         /\ \/ t.slot = Null /\ t.pool = p
            \/ /\ t.slot \in Address /\ t.slot \notin used
               /\ PoolOK(t.arena, t.pool, used \cup {t.slot})
               /\ t.pool.live = p.live + 1
<1>1. /\ p \in [ slabs : Seq(Address), free : Seq(Address), live : Nat ]
      /\ p.free \in Seq(Address) /\ p.slabs \in Seq(Address) /\ p.live \in Nat
      /\ NoRepeats(p.free) /\ Members(p.free) \cap used = {}
      /\ Members(p.free) \cup used = SlotsOf(p.slabs) /\ SlabsGiven(a, p.slabs)
  BY DEF PoolOK
<1>2. Keeps(a, a)
  BY DEF Keeps
<1>3. CASE p.free # << >>
  <2> DEFINE q == t.pool
             slot == Head(p.free)
  <2>1. /\ t.arena = a /\ t.slot = slot
        /\ q \in [ slabs : {p.slabs}, free : {Tail(p.free)}, live : {p.live + 1} ]
    <3>1. t = Took(a, [p EXCEPT !.free = Tail(p.free)], slot)
      BY <1>3 DEF Acquire
    <3>2. PICK o : o = [p EXCEPT !.free = Tail(p.free)]
      OBVIOUS
    <3>3. o \in [ slabs : {p.slabs}, free : {Tail(p.free)}, live : {p.live} ]
      BY <1>1, <3>2
    <3>4. [o EXCEPT !.live = @ + 1]
            \in [ slabs : {p.slabs}, free : {Tail(p.free)}, live : {p.live + 1} ]
      BY <3>3
    <3>5. t.arena = a /\ t.slot = slot /\ q = [o EXCEPT !.live = @ + 1]
      BY <3>1, <3>2 DEF Took
    <3> QED  BY <3>4, <3>5
  <2>2. /\ Tail(p.free) \in Seq(Address) /\ NoRepeats(Tail(p.free)) /\ slot \in Address
        /\ Members(p.free) = Members(Tail(p.free)) \cup {slot}
        /\ slot \notin Members(Tail(p.free))
    BY <1>1, <1>3, TailOf
  <2>3. q.slabs = p.slabs /\ q.free = Tail(p.free) /\ q.live = p.live + 1
    BY <2>1
  <2>4. q \in [ slabs : Seq(Address), free : Seq(Address), live : Nat ]
    <3> HIDE DEF q
    <3>1. /\ p.slabs \in Seq(Address) /\ Tail(p.free) \in Seq(Address)
          /\ p.live + 1 \in Nat
      BY <1>1, <2>2
    <3> QED  BY <2>1, <3>1
  <2> HIDE DEF q, slot
  <2>5. PoolOK(a, q, used \cup {slot})
    BY <1>1, <2>2, <2>3, <2>4 DEF PoolOK
  <2>6. slot \notin used
    BY <1>1, <2>2
  <2>7. PoolOK(t.arena, t.pool, used \cup {t.slot}) /\ t.pool.live = p.live + 1
    BY <2>1, <2>3, <2>5 DEF q
  <2> QED  BY <1>2, <2>1, <2>2, <2>6, <2>7
<1>4. CASE p.free = << >> /\ t = NoSlot(a, p)
  BY <1>2, <1>4 DEF NoSlot
<1>5. CASE p.free = << >> /\ t # NoSlot(a, p)
  <2>1. t \in Grown(a, p)
    BY <1>5 DEF Acquire
  <2>2. PICK r \in Alloc(a, SlabBytes, SlotAlign) :
          /\ r.at # Null
          /\ t = Took(r.arena, [p EXCEPT !.slabs = << r.at >> \o @,
                                         !.free = Tail(Slots(r.at)) \o @], Slots(r.at)[1])
    BY <1>5, <2>1 DEF Grown, SlabBytes
  <2> DEFINE slots == Slots(r.at)
             slabs == << r.at >> \o p.slabs
             slot == slots[1]
             q == [ slabs |-> slabs, free |-> Tail(slots) \o << >>, live |-> p.live + 1 ]
  <2>3. t.arena = r.arena /\ t.pool = q /\ t.slot = slot
    BY <1>1, <1>5, <2>2 DEF Took
  <2>4. /\ Keeps(a, r.arena) /\ r.at \in Address
        /\ \E g \in DOMAIN r.arena.given :
             /\ r.arena.given[g].block = r.at[1] /\ r.arena.given[g].from = r.at[2]
             /\ r.arena.given[g].n = SlabBytes
        /\ \A g \in DOMAIN a.given :
             a.given[g].block = r.at[1] => a.given[g].from + a.given[g].n <= r.at[2]
    BY <2>2, SlabFacts, AllocGives
  <2>5. /\ slots \in Seq(Address) /\ Len(slots) = SlabSlots /\ NoRepeats(slots)
        /\ DOMAIN slots = 1 .. SlabSlots
        /\ \A j \in 1 .. SlabSlots :
             /\ slots[j][1] = r.at[1]
             /\ r.at[2] <= slots[j][2] /\ slots[j][2] < r.at[2] + SlabBytes
    BY <2>4, SlotsAre
  <2>6. slots # << >>
    BY <2>5, SlabFacts
  <2>7. /\ slabs \in Seq(Address)
        /\ SlotsOf(slabs) = Members(slots) \cup SlotsOf(p.slabs)
        /\ \A i \in DOMAIN slabs :
             slabs[i] = r.at \/ \E k \in DOMAIN p.slabs : slabs[i] = p.slabs[k]
    BY <1>1, <2>4, SlotsGrow
  \* Slots of the old slabs and of the new one lie in different allocations.
  <2>8. Members(slots) \cap SlotsOf(p.slabs) = {}
    <3> SUFFICES ASSUME NEW x \in Members(slots), x \in SlotsOf(p.slabs) PROVE FALSE
      OBVIOUS
    <3>1. PICK j \in 1 .. SlabSlots : x = slots[j]
      BY <2>5 DEF Members
    <3>2. PICK i \in DOMAIN p.slabs, k \in 1 .. SlabSlots : x = Slots(p.slabs[i])[k]
      BY DEF SlotsOf
    <3>3. p.slabs[i] \in Address
      BY <1>1
    <3>4. /\ x[1] = p.slabs[i][1] /\ x[2] < p.slabs[i][2] + SlabBytes
          /\ p.slabs[i][2] <= x[2]
      BY <3>2, <3>3, SlotsAre
    <3>5. x[1] = r.at[1] /\ r.at[2] <= x[2]
      BY <2>5, <3>1
    <3>6. PICK g \in DOMAIN a.given :
            /\ a.given[g].block = p.slabs[i][1] /\ a.given[g].from = p.slabs[i][2]
            /\ a.given[g].n = SlabBytes
      BY <1>1 DEF SlabsGiven
    <3>7. p.slabs[i][2] + SlabBytes <= r.at[2]
      BY <2>4, <3>4, <3>5, <3>6
    <3>8. r.at[2] \in Nat /\ p.slabs[i][2] \in Nat /\ x[2] \in Nat /\ SlabBytes \in Nat
      <4>1. x \in Address
        BY <2>5, <3>1
      <4> QED  BY <2>4, <3>3, <4>1, SlabFacts DEF Address
    <3> QED  BY <3>4, <3>5, <3>7, <3>8
  <2> HIDE DEF slots, slabs
  <2>9. /\ Tail(slots) \in Seq(Address) /\ NoRepeats(Tail(slots)) /\ slot \in Address
        /\ Members(slots) = Members(Tail(slots)) \cup {slot}
        /\ slot \notin Members(Tail(slots))
    BY <2>5, <2>6, TailOf
  <2>10. Tail(slots) \o << >> = Tail(slots)
    BY <2>9
  <2>11. q.slabs = slabs /\ q.free = Tail(slots) /\ q.live = p.live + 1
    BY <2>10
  <2>12. q \in [ slabs : Seq(Address), free : Seq(Address), live : Nat ]
    BY <1>1, <2>7, <2>9, <2>10
  <2> HIDE DEF q, slot
  <2>13. SlabsGiven(r.arena, slabs)
    <3> SUFFICES ASSUME NEW i \in DOMAIN slabs
                 PROVE  \E g \in DOMAIN r.arena.given :
                          /\ r.arena.given[g].block = slabs[i][1]
                          /\ r.arena.given[g].from = slabs[i][2]
                          /\ r.arena.given[g].n = SlabBytes
      BY DEF SlabsGiven
    <3>1. CASE slabs[i] = r.at
      BY <2>4, <3>1
    <3>2. CASE \E k \in DOMAIN p.slabs : slabs[i] = p.slabs[k]
      <4>1. PICK k \in DOMAIN p.slabs : slabs[i] = p.slabs[k]
        BY <3>2
      <4>2. PICK g \in DOMAIN a.given :
              /\ a.given[g].block = p.slabs[k][1] /\ a.given[g].from = p.slabs[k][2]
              /\ a.given[g].n = SlabBytes
        BY <1>1 DEF SlabsGiven
      <4>3. g \in DOMAIN r.arena.given /\ r.arena.given[g] = a.given[g]
        BY <2>4 DEF Keeps
      <4> QED  BY <4>1, <4>2, <4>3
    <3> QED  BY <2>7, <3>1, <3>2
  <2>14. Members(p.free) = {}
    BY <1>5 DEF Members
  <2>15. used = SlotsOf(p.slabs)
    BY <1>1, <2>14
  <2>16. PoolOK(r.arena, q, used \cup {slot})
    BY <2>7, <2>8, <2>9, <2>11, <2>12, <2>13, <2>15 DEF PoolOK
  <2>17. slot \notin used
    BY <2>8, <2>9, <2>15
  <2> QED  BY <2>3, <2>4, <2>9, <2>11, <2>16, <2>17
<1> QED  BY <1>3, <1>4, <1>5

\* A new item: either there is none, and what was acquired has gone back, or
\* its slot was not in use.
LEMMA NewItemGives ==
  ASSUME ArenaOK(arena), NEW used, PoolOK(arena, pool, used),
         NEW n \in ValueBytes, NEW new \in NewItem(n)
  PROVE  \/ /\ new.slot = Null
            /\ PoolOK(new.arena, new.pool, used) /\ new.pool.live = pool.live
         \/ /\ new.slot \in Address /\ new.slot # Null /\ new.slot \notin used
            /\ PoolOK(new.arena, new.pool, used \cup {new.slot})
            /\ new.pool.live = pool.live + 1
<1>1. n \in Nat /\ NameBytes \in Nat /\ 1 \in Nat \ {0}
  BY BytesAssumption
<1>2. PICK t \in Acquire(arena, pool) :
        \/ t.slot = Null /\ new = t
        \/ /\ t.slot # Null
           /\ \E c \in Alloc(t.arena, NameBytes, 1) : \E v \in Alloc(c.arena, n, 1) :
                new = IF c.at = Null \/ v.at = Null
                      THEN NoSlot(v.arena, Release(t.pool, t.slot))
                      ELSE [ arena |-> v.arena, pool |-> t.pool, slot |-> t.slot ]
  BY DEF NewItem
<1>3. /\ ArenaOK(t.arena) /\ Keeps(arena, t.arena)
      /\ \/ t.slot = Null /\ t.pool = pool
         \/ /\ t.slot \in Address /\ t.slot \notin used
            /\ PoolOK(t.arena, t.pool, used \cup {t.slot})
            /\ t.pool.live = pool.live + 1
  BY AcquireOK, AcquireGives
<1>4. \A x \in Address : x # Null
  BY NullAssumption DEF Address
<1>5. CASE t.slot = Null
  <2>1. new = t /\ t.pool = pool
    BY <1>2, <1>3, <1>4, <1>5
  <2>2. PoolOK(t.arena, pool, used)
    BY <1>3, KeepsPool
  <2> QED  BY <1>5, <2>1, <2>2
<1>6. CASE t.slot # Null
  <2>c. PICK c \in Alloc(t.arena, NameBytes, 1) : \E v \in Alloc(c.arena, n, 1) :
          new = IF c.at = Null \/ v.at = Null
                THEN NoSlot(v.arena, Release(t.pool, t.slot))
                ELSE [ arena |-> v.arena, pool |-> t.pool, slot |-> t.slot ]
    BY <1>2, <1>6
  <2>1. PICK v \in Alloc(c.arena, n, 1) :
          new = IF c.at = Null \/ v.at = Null
                THEN NoSlot(v.arena, Release(t.pool, t.slot))
                ELSE [ arena |-> v.arena, pool |-> t.pool, slot |-> t.slot ]
    BY <2>c
  <2>2. ArenaOK(c.arena) /\ Keeps(t.arena, c.arena)
    BY <1>1, <1>3, AllocOK, AllocGives
  <2>3. Keeps(c.arena, v.arena)
    BY <1>1, <2>2, AllocGives
  <2>4. Keeps(t.arena, v.arena)
    BY <2>2, <2>3, KeepsOn
  <2>5. /\ t.slot \in Address /\ t.slot \notin used /\ t.pool.live = pool.live + 1
        /\ PoolOK(v.arena, t.pool, used \cup {t.slot})
    BY <1>3, <1>6, <2>4, KeepsPool
  <2>6. pool.live \in Nat
    BY DEF PoolOK
  <2>7. CASE c.at = Null \/ v.at = Null
    <3>1. /\ new.arena = v.arena /\ new.pool = Release(t.pool, t.slot)
          /\ new.slot = Null
      BY <2>1, <2>7 DEF NoSlot
    <3>2. PoolOK(v.arena, t.pool, WithSlot(used, t.slot))
      BY <2>5 DEF WithSlot
    <3>3. /\ PoolOK(v.arena, Release(t.pool, t.slot), used)
          /\ Release(t.pool, t.slot).live = pool.live
      BY <2>5, <2>6, <3>2, ReleaseOK
    <3>4. PoolOK(new.arena, new.pool, used) /\ new.pool.live = pool.live
      BY <3>1, <3>3
    <3> QED  BY <3>1, <3>4
  <2>8. CASE ~(c.at = Null \/ v.at = Null)
    <3>1. new.arena = v.arena /\ new.pool = t.pool /\ new.slot = t.slot
      BY <2>1, <2>8
    <3> QED  BY <1>6, <2>5, <3>1
  <2> QED  BY <2>7, <2>8
<1> QED  BY <1>5, <1>6

LEMMA EnsureCapKeeps ==
  ASSUME NEW a, ArenaOK(a), NEW cap \in Nat, NEW need, NEW initial \in Nat \ {0},
         NEW max \in Nat \ {0}, NEW size \in Nat \ {0}, NEW align \in Nat \ {0},
         NEW vec \in EnsureCap(a, cap, need, initial, max, size, align)
  PROVE  Keeps(a, vec.arena)
<1> DEFINE wanted == IF cap = 0 THEN initial ELSE 2 * cap
           fresh == IF wanted > max THEN max ELSE wanted
<1>1. size * fresh \in Nat
  OBVIOUS
<1>2. \/ vec.arena = a
      \/ \E r \in Alloc(a, size * fresh, align) : vec.arena = r.arena
  BY DEF EnsureCap
<1> HIDE DEF fresh
<1>3. CASE vec.arena = a
  BY <1>3 DEF Keeps
<1>4. CASE \E r \in Alloc(a, size * fresh, align) : vec.arena = r.arena
  BY <1>1, <1>4, AllocGives
<1> QED  BY <1>2, <1>3, <1>4

\* A vector with one more element, of those that are not in it.
LEMMA OneMore ==
  ASSUME NEW s \in Seq(Address), NoRepeats(s), NEW x \in Address, x \notin Members(s)
  PROVE  /\ Append(s, x) \in Seq(Address) /\ NoRepeats(Append(s, x))
         /\ Members(Append(s, x)) = Members(s) \cup {x}
         /\ Len(Append(s, x)) = Len(s) + 1
<1>1. PICK t : t = Append(s, x)
  OBVIOUS
<1>2. /\ t \in Seq(Address) /\ Len(t) = Len(s) + 1 /\ DOMAIN t = 1 .. (Len(s) + 1)
      /\ t[Len(s) + 1] = x /\ \A i \in 1 .. Len(s) : t[i] = s[i]
      /\ Len(s) \in Nat /\ DOMAIN s = 1 .. Len(s)
  BY <1>1
<1>3. PICK last \in DOMAIN t : last = Len(s) + 1
  BY <1>2
<1>4. DOMAIN t = DOMAIN s \cup {last} /\ t[last] = x /\ last \notin DOMAIN s
      /\ \A i \in DOMAIN s : t[i] = s[i]
  BY <1>2, <1>3
<1>5. NoRepeats(t)
  <2>1. \A i \in DOMAIN s : s[i] # x
    BY DEF Members
  <2> QED  BY <1>4, <2>1 DEF NoRepeats
<1>6. Members(t) = Members(s) \cup {x}
  BY <1>4 DEF Members
<1> QED  BY <1>1, <1>2, <1>5, <1>6

LEMMA AddRangeKeeps ==
  ASSUME MemoryInv, NEW clock, NEW length, NEW ok, AddRange(clock, length, ok)
  PROVE  Keeps(arena, arena')
<1>1. CASE UNCHANGED arena
  BY <1>1 DEF Keeps
<1>2. CASE \E vec \in EnsureCap(arena, width, Len(data) + 1, InitialRanges, MaxRanges,
                                RangeBytes, RangeAlign) : arena' = vec.arena
  BY <1>2, EnsureCapKeeps, BytesAssumption, VectorAssumption DEF MemoryInv
<1> QED  BY <1>1, <1>2 DEF AddRange

\* A step that takes no slot.
LEMMA SlotInvKept ==
  ASSUME SlotInv, Keeps(arena, arena'), UNCHANGED << pool, items >>
  PROVE  SlotInv'
<1>1. PoolOK(arena', pool, Members(items))
  BY KeepsPool DEF SlotInv
<1>2. pool' = pool /\ items' = items
  OBVIOUS
<1>3. PoolOK(arena', pool', Members(items'))
  BY <1>1, <1>2
<1> QED  BY <1>2, <1>3 DEF SlotInv

LEMMA AddItemSlots ==
  ASSUME MemoryInv, SlotInv, NEW n \in ValueBytes, AddItem(n)
  PROVE  SlotInv'
<1> DEFINE used == Members(items)
<1>1. /\ ArenaOK(arena) /\ PoolOK(arena, pool, used) /\ room \in Nat
      /\ items \in Seq(Address) /\ NoRepeats(items) /\ pool.live = Len(items)
  BY DEF MemoryInv, SlotInv
<1> HIDE DEF used
<1>2. PICK new \in NewItem(n) :
        \/ /\ new.slot = Null
           /\ arena' = new.arena /\ pool' = new.pool /\ items' = items
        \/ /\ new.slot # Null
           /\ \E vec \in EnsureCap(new.arena, room, Len(items) + 1, InitialItems, MaxItems,
                                   PtrBytes, PtrBytes) :
                /\ arena' = vec.arena
                /\ \/ items' = Append(items, new.slot) /\ pool' = new.pool
                   \/ items' = items /\ pool' = Release(new.pool, new.slot)
  BY DEF AddItem
<1>3. \/ /\ new.slot = Null
         /\ PoolOK(new.arena, new.pool, used) /\ new.pool.live = pool.live
      \/ /\ new.slot \in Address /\ new.slot # Null /\ new.slot \notin used
         /\ PoolOK(new.arena, new.pool, used \cup {new.slot})
         /\ new.pool.live = pool.live + 1
  BY <1>1, NewItemGives
<1>4. ArenaOK(new.arena)
  BY <1>1, NewItemOK
<1>5. CASE new.slot = Null
  BY <1>1, <1>2, <1>3, <1>5 DEF SlotInv, used
<1>6. CASE new.slot # Null
  <2>1. PICK vec \in EnsureCap(new.arena, room, Len(items) + 1, InitialItems, MaxItems,
                               PtrBytes, PtrBytes) :
          /\ arena' = vec.arena
          /\ \/ items' = Append(items, new.slot) /\ pool' = new.pool
             \/ items' = items /\ pool' = Release(new.pool, new.slot)
    BY <1>2, <1>6
  <2>2. {InitialItems, MaxItems, PtrBytes} \subseteq Nat \ {0}
    BY BytesAssumption, VectorAssumption
  <2>3. Keeps(new.arena, arena')
    BY <1>1, <1>4, <2>1, <2>2, EnsureCapKeeps
  <2>4. /\ new.slot \in Address /\ new.slot \notin used
        /\ PoolOK(arena', new.pool, used \cup {new.slot})
        /\ new.pool.live = Len(items) + 1 /\ Len(items) \in Nat
    BY <1>1, <1>3, <1>6, <2>3, KeepsPool
  <2>5. CASE items' = Append(items, new.slot) /\ pool' = new.pool
    <3>1. /\ items' \in Seq(Address) /\ NoRepeats(items')
          /\ Members(items') = used \cup {new.slot} /\ Len(items') = Len(items) + 1
      BY <1>1, <2>4, <2>5, OneMore DEF used
    <3> QED  BY <2>4, <2>5, <3>1 DEF SlotInv
  <2>6. CASE items' = items /\ pool' = Release(new.pool, new.slot)
    <3>1. PoolOK(arena', new.pool, WithSlot(used, new.slot))
      BY <2>4 DEF WithSlot
    <3>2. /\ PoolOK(arena', Release(new.pool, new.slot), used)
          /\ Release(new.pool, new.slot).live = Len(items)
      BY <2>4, <3>1, ReleaseOK
    <3>3. PoolOK(arena', pool', used) /\ pool'.live = Len(items)
      BY <2>6, <3>2
    <3>4. PoolOK(arena', pool', Members(items')) /\ pool'.live = Len(items')
      BY <2>6, <3>3 DEF used
    <3> QED  BY <1>1, <2>6, <3>4 DEF SlotInv
  <2> QED  BY <2>1, <2>5, <2>6
<1> QED  BY <1>5, <1>6

LEMMA RejectItemSlots ==
  ASSUME MemoryInv, SlotInv, NEW n \in ValueBytes, RejectItem(n)
  PROVE  SlotInv'
<1> DEFINE used == Members(items)
<1>1. /\ ArenaOK(arena) /\ PoolOK(arena, pool, used)
      /\ items \in Seq(Address) /\ NoRepeats(items) /\ pool.live = Len(items)
  BY DEF MemoryInv, SlotInv
<1> HIDE DEF used
<1>2. PICK new \in NewItem(n) :
        /\ arena' = new.arena /\ items' = items
        /\ pool' = IF new.slot = Null THEN new.pool ELSE Release(new.pool, new.slot)
  BY DEF RejectItem
<1>3. \/ /\ new.slot = Null
         /\ PoolOK(new.arena, new.pool, used) /\ new.pool.live = pool.live
      \/ /\ new.slot \in Address /\ new.slot # Null /\ new.slot \notin used
         /\ PoolOK(new.arena, new.pool, used \cup {new.slot})
         /\ new.pool.live = pool.live + 1
  BY <1>1, NewItemGives
<1>4. CASE new.slot = Null
  BY <1>1, <1>2, <1>3, <1>4 DEF SlotInv, used
<1>5. CASE new.slot # Null
  <2>1. pool.live \in Nat
    BY <1>1
  <2>2. /\ PoolOK(new.arena, new.pool, WithSlot(used, new.slot))
        /\ new.slot \in Address /\ new.slot \notin used
        /\ new.pool.live = pool.live + 1
    BY <1>3, <1>5 DEF WithSlot
  <2>3. /\ PoolOK(new.arena, Release(new.pool, new.slot), used)
        /\ Release(new.pool, new.slot).live = pool.live
    BY <2>1, <2>2, ReleaseOK
  <2> QED  BY <1>1, <1>2, <1>5, <2>3 DEF SlotInv, used
<1> QED  BY <1>4, <1>5

-----------------------------------------------------------------------------
(* The whole document.                                                     *)

\* The inductive invariant: the arena's layout, the sorted ranges, the slots
\* in use and free, and no more items than clocks.
DocumentInv == MemoryInv /\ RangesInv /\ SlotInv /\ Len(items) <= MaxClock

LEMMA InitDocument == Init => DocumentInv
<1> SUFFICES ASSUME Init PROVE DocumentInv
  OBVIOUS
<1>1. /\ arena = NewArena /\ pool = NewPool /\ items = << >> /\ room = 0
      /\ data = << >> /\ width = 0
  BY DEF Init
<1>2. MemoryInv
  BY <1>1 DEF MemoryInv, ArenaOK, Layout, NewArena
<1>3. RangesInv
  BY <1>1 DEF RangesInv, Compact
<1>4. SlotInv
  <2>1. /\ items \in Seq(Address) /\ NoRepeats(items) /\ Members(items) = {}
        /\ Len(items) = 0
    BY <1>1 DEF NoRepeats, Members
  <2>2. /\ pool \in [ slabs : Seq(Address), free : Seq(Address), live : Nat ]
        /\ pool.free = << >> /\ pool.slabs = << >> /\ pool.live = 0
    BY <1>1 DEF NewPool
  <2>3. NoRepeats(pool.free) /\ Members(pool.free) = {}
    BY <2>2 DEF NoRepeats, Members
  <2>4. SlotsOf(pool.slabs) = {} /\ SlabsGiven(arena, pool.slabs)
    BY <2>2 DEF SlotsOf, SlabsGiven
  <2>5. PoolOK(arena, pool, {})
    BY <2>2, <2>3, <2>4 DEF PoolOK
  <2> QED  BY <2>1, <2>2, <2>5 DEF SlotInv
<1>5. Len(items) <= MaxClock
  BY <1>1, ClockBoundAssumption
<1> QED  BY <1>2, <1>3, <1>4, <1>5 DEF DocumentInv

\* A step of the document: the ranges cover what they did, or also a range
\* that may be added.
Adds ==
  \/ Covered' = Covered
  \/ \E r \in Ranges : Covered' = Covered \cup (r[1] .. (r[1] + r[2] - 1))

LEMMA RangesAre ==
  \A r \in Ranges : r[1] \in Nat /\ r[2] \in Nat \ {0}
BY ClockBoundAssumption DEF Ranges

LEMMA NextDocument == DocumentInv /\ [Next]_vars => DocumentInv' /\ Adds
<1> SUFFICES ASSUME DocumentInv, [Next]_vars PROVE DocumentInv' /\ Adds
  OBVIOUS
<1>1. MemoryInv /\ RangesInv /\ SlotInv /\ Len(items) <= MaxClock
  BY DEF DocumentInv
<1>2. MemoryInv'
  BY <1>1, NextMemory
<1>3. items \in Seq(Address) /\ Len(items) \in Nat
  BY <1>1 DEF SlotInv
<1>4. ASSUME UNCHANGED data PROVE RangesInv' /\ Adds
  BY <1>1, <1>4 DEF RangesInv, Compact, Adds, Covered
<1>5. ASSUME NEW n \in ValueBytes, AddItem(n) PROVE DocumentInv' /\ Adds
  <2>1. RangesInv' /\ Adds
    BY <1>4, <1>5 DEF AddItem
  <2>2. SlotInv'
    BY <1>1, <1>5, AddItemSlots
  <2>3. Len(items') <= MaxClock
    <3>1. Len(items) < MaxClock /\ (items' = items \/ \E x : items' = Append(items, x))
      BY <1>5 DEF AddItem
    <3>2. CASE items' = items
      BY <1>1, <3>2
    <3>3. CASE \E x : items' = Append(items, x)
      BY <1>3, <3>1, <3>3, ClockBoundAssumption
    <3> QED  BY <3>1, <3>2, <3>3
  <2> QED  BY <1>2, <2>1, <2>2, <2>3 DEF DocumentInv
<1>6. ASSUME NEW n \in ValueBytes, RejectItem(n) PROVE DocumentInv' /\ Adds
  <2>1. RangesInv' /\ Adds /\ items' = items
    BY <1>4, <1>6 DEF RejectItem
  <2>2. SlotInv'
    BY <1>1, <1>6, RejectItemSlots
  <2> QED  BY <1>1, <1>2, <2>1, <2>2 DEF DocumentInv
<1>7. ASSUME NEW r \in Ranges, NEW ok \in BOOLEAN, AddRange(r[1], r[2], ok),
             UNCHANGED << pool, items >>
      PROVE  DocumentInv' /\ Adds
  <2>1. r[1] \in Nat /\ r[2] \in Nat \ {0}
    BY RangesAre
  <2>2. PICK clock \in Nat, length \in Nat \ {0} : clock = r[1] /\ length = r[2]
    BY <2>1
  <2>3. AddRange(clock, length, ok)
    BY <1>7, <2>2
  <2>4. /\ RangesInv'
        /\ \/ Covered' = Covered
           \/ Covered' = Covered \cup (clock .. (clock + length - 1))
    BY <1>1, <2>3, AddRangeIs
  <2>5. Adds
    BY <2>2, <2>4 DEF Adds
  <2>6. Keeps(arena, arena')
    BY <1>1, <2>3, AddRangeKeeps
  <2>7. SlotInv'
    BY <1>1, <1>7, <2>6, SlotInvKept
  <2> QED  BY <1>1, <1>2, <1>7, <2>4, <2>5, <2>7 DEF DocumentInv
<1>8. ASSUME NEW c \in 0 .. MaxClock, DeleteItem(c) PROVE DocumentInv' /\ Adds
  <2>1. PICK ok \in BOOLEAN : AddRange(c, 1, ok)
    BY <1>8 DEF DeleteItem
  <2>2. c < Len(items) /\ UNCHANGED << pool, items >>
    BY <1>8 DEF DeleteItem
  <2>3. << c, 1 >> \in Ranges
    <3>1. MaxClock \in Nat /\ c + 1 <= MaxClock /\ 1 \in 1 .. MaxClock
      BY <1>1, <1>3, <2>2, ClockBoundAssumption
    <3> QED  BY <3>1 DEF Ranges
  <2>4. PICK r \in Ranges : r = << c, 1 >>
    BY <2>3
  <2>5. r[1] = c /\ r[2] = 1
    BY <2>4
  <2> QED  BY <1>7, <2>1, <2>2, <2>5
<1>9. ASSUME NEW r \in Ranges, LearnRange(r[1], r[2]) PROVE DocumentInv' /\ Adds
  <2>1. \E ok \in BOOLEAN : AddRange(r[1], r[2], ok)
    BY <1>9 DEF LearnRange
  <2>2. UNCHANGED << pool, items >>
    BY <1>9 DEF LearnRange
  <2> QED  BY <1>7, <2>1, <2>2
<1>10. CASE UNCHANGED vars
  <2>1. UNCHANGED << arena, pool, items, data >>
    BY <1>10 DEF vars
  <2>2. RangesInv' /\ Adds
    BY <1>4, <2>1
  <2>3. SlotInv'
    BY <1>1, <2>1, SlotInvKept DEF Keeps
  <2> QED  BY <1>1, <1>2, <2>1, <2>2, <2>3 DEF DocumentInv
<1> QED  BY <1>5, <1>6, <1>8, <1>9, <1>10 DEF Next

\* The invariant says what SlotOnce says.
LEMMA InvSlotOnce == SlotInv => SlotOnce
<1> SUFFICES ASSUME SlotInv PROVE SlotOnce
  OBVIOUS
<1> DEFINE slots == SlotsOf(pool.slabs)
<1>1. /\ items \in Seq(Address) /\ NoRepeats(items) /\ pool.live = Len(items)
      /\ pool.free \in Seq(Address) /\ NoRepeats(pool.free)
      /\ Members(pool.free) \cap Members(items) = {}
      /\ Members(pool.free) \cup Members(items) = slots
  BY DEF SlotInv, PoolOK
<1> HIDE DEF slots
<1>2. PICK known : known = items \o pool.free
  OBVIOUS
<1>3. /\ Len(items) \in Nat /\ Len(pool.free) \in Nat
      /\ DOMAIN items = 1 .. Len(items) /\ DOMAIN pool.free = 1 .. Len(pool.free)
      /\ known \in Seq(Address) /\ Len(known) = Len(items) + Len(pool.free)
      /\ DOMAIN known = 1 .. Len(known)
      /\ \A i \in 1 .. Len(items) : known[i] = items[i]
      /\ \A i \in 1 .. Len(pool.free) : known[i + Len(items)] = pool.free[i]
  BY <1>1, <1>2
<1>4. \A i \in DOMAIN known :
        \/ i \in DOMAIN items /\ known[i] = items[i]
        \/ \E k \in DOMAIN pool.free : i = k + Len(items) /\ known[i] = pool.free[k]
  <2> SUFFICES ASSUME NEW i \in DOMAIN known, i \notin DOMAIN items
               PROVE  \E k \in DOMAIN pool.free :
                        i = k + Len(items) /\ known[i] = pool.free[k]
    BY <1>3
  <2>1. PICK k \in DOMAIN pool.free : k = i - Len(items)
    BY <1>3
  <2>2. i = k + Len(items)
    BY <1>3, <2>1
  <2> QED  BY <1>3, <2>1, <2>2
<1>5. \A i \in DOMAIN items : i \in DOMAIN known
  BY <1>3
<1>6. \A k \in DOMAIN pool.free : k + Len(items) \in DOMAIN known
  BY <1>3
<1>7. Members(known) = slots
  <2>1. Members(known) \subseteq Members(items) \cup Members(pool.free)
    BY <1>4 DEF Members
  <2>2. Members(items) \subseteq Members(known)
    BY <1>3, <1>5 DEF Members
  <2>3. Members(pool.free) \subseteq Members(known)
    BY <1>3, <1>6 DEF Members
  <2> QED  BY <1>1, <2>1, <2>2, <2>3
<1>8. NoRepeats(known)
  <2> SUFFICES ASSUME NEW i \in DOMAIN known, NEW j \in DOMAIN known, known[i] = known[j]
               PROVE  i = j
    BY DEF NoRepeats
  <2>1. \A k \in DOMAIN items, l \in DOMAIN pool.free : items[k] # pool.free[l]
    BY <1>1 DEF Members
  <2> QED  BY <1>1, <1>4, <2>1 DEF NoRepeats
<1>9. Cardinality(slots) = Len(known)
  <2> DEFINE n == Len(known)
  <2>1. n \in Nat /\ IsFiniteSet(1 .. n) /\ Cardinality(1 .. n) = n
    <3>1. n \in Nat /\ n \in Int /\ 1 \in Int
      BY <1>3
    <3> HIDE DEF n
    <3>2. IsFiniteSet(1 .. n) /\ Cardinality(1 .. n) = IF 1 > n THEN 0 ELSE n - 1 + 1
      BY <3>1, FS_Interval
    <3> QED  BY <3>1, <3>2
  <2>2. known \in [ 1 .. n -> slots ]
    BY <1>3, <1>7 DEF Members
  <2>3. known \in Surjection(1 .. n, slots)
    BY <1>3, <1>7, <2>2 DEF Surjection, Members
  <2>4. known \in Injection(1 .. n, slots)
    BY <1>3, <1>8, <2>2 DEF Injection, IsInjective, NoRepeats
  <2> QED  BY <2>1, <2>3, <2>4, FS_Surjection
<1>10. { known[i] : i \in DOMAIN known } = slots
  BY <1>7 DEF Members
<1> QED  BY <1>1, <1>2, <1>9, <1>10 DEF SlotOnce, slots, SlotsOf

\* The invariant behind the theorems below.
THEOREM DocumentInvariance == Spec => []DocumentInv
<1>1. DocumentInv /\ [Next]_vars => DocumentInv'
  BY NextDocument
<1> QED  BY InitDocument, <1>1, PTL DEF Spec

\* The ranges of a delete set stay sorted and apart, whatever is added in
\* whatever order and whichever allocation fails (Compact).
THEOREM RangesStayCompact == Spec => []Compact
<1>1. DocumentInv => Compact
  BY DEF DocumentInv, RangesInv
<1> QED  BY DocumentInvariance, <1>1, PTL

\* The binary search of contains finds a clock exactly if a range holds it
\* (ContainsCovered).
THEOREM LookupIsExact == Spec => []ContainsCovered
<1>1. DocumentInv => ContainsCovered
  BY InvContains DEF DocumentInv
<1> QED  BY DocumentInvariance, <1>1, PTL

\* A slot is free once or in the store once, and none is lost, through failed
\* clones, rejected structs and full vectors (SlotOnce).
THEOREM SlotsAreKept == Spec => []SlotOnce
<1>1. DocumentInv => SlotOnce
  BY InvSlotOnce DEF DocumentInv
<1> QED  BY DocumentInvariance, <1>1, PTL

\* The ranges implement the set of the clocks that were added (Implements).
THEOREM RangesAreClockSet == Spec => Implements
<1>1. Init => Clocks!Init
  BY DEF Init, Clocks!Init, Covered
<1>2. Adds => [Clocks!Next]_Covered
  BY DEF Adds, Clocks!Next, Clocks!Add
<1>3. DocumentInv /\ [Next]_vars => [Clocks!Next]_Covered
  BY NextDocument, <1>2
<1> QED  BY DocumentInvariance, <1>1, <1>3, PTL DEF Spec, Implements, Clocks!Spec

=============================================================================
