--------------------------- MODULE HashMapProofs ----------------------------
(***************************************************************************)
(* Theorems about the hash table (HashMap): find reaches every key there   *)
(* is, a walk always ends, and the table implements a finite map.          *)
(*                                                                         *)
(* The argument: a key is put at the first free step of a walk that has    *)
(* met neither the key nor an empty slot, and a slot once taken never      *)
(* becomes empty again, erase leaves a tombstone; so the walk to a live    *)
(* entry never meets an empty slot (Reached).  The bound on the slots that *)
(* are not empty keeps one free (Counted).  Growth builds a fresh table by *)
(* insertions alone, which is shown by induction over the old slots.       *)
(***************************************************************************)
EXTENDS HashMap, FiniteSetTheorems, WellFoundedInduction, TLAPS

-----------------------------------------------------------------------------
(* The invariant of a table t of c slots.                                  *)

LiveIn(t, i) == t.ctrl[i] \notin {Empty, Tombstone}
Lives(t, c) == { i \in 0 .. (c - 1) : LiveIn(t, i) }
Tombs(t, c) == { i \in 0 .. (c - 1) : t.ctrl[i] = Tombstone }

Shaped(t, c) ==
  /\ DOMAIN t.ctrl = 0 .. (c - 1)
  /\ DOMAIN t.entries = 0 .. (c - 1)
  /\ \A i \in Lives(t, c) :
       /\ t.entries[i] \in Entry
       /\ t.ctrl[i] = Tag[t.entries[i].key]

Once(t, c) ==
  \A i, j \in Lives(t, c) : t.entries[i].key = t.entries[j].key => i = j

\* The walk to a live entry meets no empty slot.
Reached(t, c) ==
  \A i \in Lives(t, c) : \A n \in 0 .. (c - 1) :
    At(t.entries[i].key, n, c) = i =>
      \A m \in 0 .. (c - 1) :
        m < n => t.ctrl[At(t.entries[i].key, m, c)] # Empty

\* One more than needs_grow lets pass.
Counted(t, c) ==
  /\ t.size = Cardinality(Lives(t, c))
  /\ t.tombstones = Cardinality(Tombs(t, c))
  /\ 4 * (t.size + t.tombstones) <= 3 * c + 4

TableOK(t, c) == Shaped(t, c) /\ Once(t, c) /\ Reached(t, c) /\ Counted(t, c)

Base == [ ctrl |-> ctrl, entries |-> entries, size |-> size, tombstones |-> tombstones ]

HInv ==
  /\ cap \in Nat /\ (cap = 0 \/ cap >= 5)
  /\ TableOK(Base, cap)

\* The entries a table holds.
Pairs(t, c) == { t.entries[i] : i \in Lives(t, c) }

-----------------------------------------------------------------------------
(* Least elements and induction, from the library's well-founded order.    *)

Less == { ss \in Nat \X Nat : ss[1] < ss[2] }

LEMMA LessWF == IsWellFoundedOn(Less, Nat)
BY NatLessThanWellFounded DEF OpToRel, Less

LEMMA NatLeast ==
  ASSUME NEW T \in SUBSET Nat, T # {}
  PROVE  \E m \in T : \A k \in T : m <= k
<1>1. PICK m \in T : \A k \in T : << k, m >> \notin Less
  BY LessWF, WFMin
<1>2. \A k \in T : ~(k < m)
  BY <1>1 DEF Less
<1> QED
  BY <1>2

LEMMA SetInduction ==
  ASSUME NEW T, 0 \in T, \A n \in Nat : n \in T => n + 1 \in T
  PROVE  Nat \subseteq T
<1> SUFFICES ASSUME Nat \ T # {} PROVE FALSE
  OBVIOUS
<1>1. PICK m \in Nat \ T : \A k \in Nat \ T : m <= k
  BY NatLeast
<1>2. m - 1 \in Nat /\ m - 1 \in T
  BY <1>1
<1> QED
  BY <1>1, <1>2

LEMMA LeastIs ==
  ASSUME NEW T \in SUBSET Nat, T # {}
  PROVE  Least(T) \in T /\ \A k \in T : Least(T) <= k
<1>1. \E m \in T : \A k \in T : m <= k
  BY NatLeast
<1> QED
  BY <1>1, Zenon DEF Least

-----------------------------------------------------------------------------
(* Walks.                                                                  *)

\* The home slot, and what is left after one turn at most.
LEMMA Division ==
  ASSUME NEW c \in Nat, c > 0, NEW h \in Nat
  PROVE  \E q \in Nat : \E r \in 0 .. (c - 1) : h = q * c + r
<1>1. h % c \in 0 .. (c - 1) /\ h = c * (h \div c) + (h % c)
  BY SMT
<1>2. h \div c \in Nat
  BY SMT
<1>3. c * (h \div c) = (h \div c) * c
  BY <1>2
<1> QED
  BY <1>1, <1>2, <1>3

LEMMA Remainder ==
  ASSUME NEW c \in Nat, c > 0, NEW q \in Nat, NEW r \in 0 .. (c - 1)
  PROVE  (q * c + r) % c = r
BY SMT

LEMMA Walk ==
  ASSUME NEW c \in Nat, c > 0, NEW k \in Keys
  PROVE  \E r \in 0 .. (c - 1) : \A n \in 0 .. (c - 1) :
           At(k, n, c) = IF r + n < c THEN r + n ELSE (r + n) - c
<1>1. Hash[k] \in Nat
  BY HashAssumption
<1>2. PICK q \in Nat : \E r \in 0 .. (c - 1) : Hash[k] = q * c + r
  BY <1>1, Division
<1>3. PICK r \in 0 .. (c - 1) : Hash[k] = q * c + r
  BY <1>2
<1>4. ASSUME NEW n \in 0 .. (c - 1)
      PROVE  At(k, n, c) = IF r + n < c THEN r + n ELSE (r + n) - c
  <2>1. CASE r + n < c
    <3>1. PICK s \in 0 .. (c - 1) : s = r + n
      BY <2>1
    <3>2. Hash[k] + n = q * c + s
      <4>1. PICK p \in Nat : p = q * c
        OBVIOUS
      <4> QED
        BY <1>3, <3>1, <4>1
    <3>3. (q * c + s) % c = s
      BY Remainder
    <3> QED
      BY <2>1, <3>1, <3>2, <3>3 DEF At
  <2>2. CASE ~(r + n < c)
    <3>1. PICK s \in 0 .. (c - 1) : s = (r + n) - c
      BY <2>2
    <3>2. PICK w \in Nat : w = q + 1
      OBVIOUS
    <3>3. Hash[k] + n = w * c + s
      <4>1. PICK p \in Nat : p = q * c
        OBVIOUS
      <4>2. w * c = p + c
        BY <3>2, <4>1
      <4> QED
        BY <1>3, <3>1, <4>1, <4>2
    <3>4. (w * c + s) % c = s
      BY Remainder
    <3> QED
      BY <2>2, <3>1, <3>3, <3>4 DEF At
  <2> QED
    BY <2>1, <2>2
<1> QED
  BY <1>4

\* A walk of c steps visits every slot once.
LEMMA WalkVisits ==
  ASSUME NEW c \in Nat, c > 0, NEW k \in Keys
  PROVE  /\ \A n \in 0 .. (c - 1) : At(k, n, c) \in 0 .. (c - 1)
         /\ \A i \in 0 .. (c - 1) : \E n \in 0 .. (c - 1) : At(k, n, c) = i
         /\ \A n, m \in 0 .. (c - 1) : At(k, n, c) = At(k, m, c) => n = m
<1>1. PICK r \in 0 .. (c - 1) : \A n \in 0 .. (c - 1) :
        At(k, n, c) = IF r + n < c THEN r + n ELSE (r + n) - c
  BY Walk
<1>2. ASSUME NEW n \in 0 .. (c - 1) PROVE At(k, n, c) \in 0 .. (c - 1)
  BY <1>1
<1>3. ASSUME NEW i \in 0 .. (c - 1) PROVE \E n \in 0 .. (c - 1) : At(k, n, c) = i
  <2>1. PICK n \in 0 .. (c - 1) : n = IF r <= i THEN i - r ELSE (i - r) + c
    OBVIOUS
  <2>2. At(k, n, c) = i
    BY <1>1, <2>1
  <2> QED
    BY <2>2
<1>4. ASSUME NEW n \in 0 .. (c - 1), NEW m \in 0 .. (c - 1), At(k, n, c) = At(k, m, c)
      PROVE  n = m
  BY <1>1, <1>4
<1> QED
  BY <1>2, <1>3, <1>4

LEMMA WalkStays ==
  ASSUME NEW c \in Nat, c > 0
  PROVE  \A k \in Keys : \A n \in 0 .. (c - 1) : At(k, n, c) \in 0 .. (c - 1)
BY WalkVisits

-----------------------------------------------------------------------------
(* Counting.                                                               *)

LEMMA CountsAreNat ==
  ASSUME NEW c \in Nat, NEW t
  PROVE  /\ IsFiniteSet(Lives(t, c)) /\ Cardinality(Lives(t, c)) \in Nat
         /\ IsFiniteSet(Tombs(t, c)) /\ Cardinality(Tombs(t, c)) \in Nat
<1>1. IsFiniteSet(0 .. (c - 1))
  BY FS_Interval
<1>2. Lives(t, c) \in SUBSET (0 .. (c - 1)) /\ Tombs(t, c) \in SUBSET (0 .. (c - 1))
  BY DEF Lives, Tombs
<1> QED
  BY <1>1, <1>2, FS_Subset, FS_CardinalityType

\* A table with the counts within bounds has an empty slot.
LEMMA EmptyLeft ==
  ASSUME NEW c \in Nat, NEW t, c >= 5, Counted(t, c)
  PROVE  \E i \in 0 .. (c - 1) : t.ctrl[i] = Empty
<1> SUFFICES ASSUME \A i \in 0 .. (c - 1) : t.ctrl[i] # Empty PROVE FALSE
  OBVIOUS
<1> DEFINE L == Lives(t, c)
           D == Tombs(t, c)
<1>1. L \cup D = 0 .. (c - 1) /\ L \cap D = {}
  BY CtrlAssumption DEF Lives, Tombs, LiveIn
<1>2. /\ IsFiniteSet(L) /\ Cardinality(L) \in Nat
      /\ IsFiniteSet(D) /\ Cardinality(D) \in Nat
  BY CountsAreNat
<1>3. 4 * (Cardinality(L) + Cardinality(D)) <= 3 * c + 4
  BY DEF Counted
<1> HIDE DEF L, D
<1>4. Cardinality(L \cup D) = Cardinality(L) + Cardinality(D) - Cardinality(L \cap D)
  BY <1>2, FS_Union
<1>5. Cardinality(L \cap D) = 0
  BY <1>1, FS_EmptySet
<1>6. Cardinality(L \cup D) = c
  <2>1. Cardinality(0 .. (c - 1)) = c
    BY FS_Interval
  <2> QED
    BY <1>1, <2>1
<1>7. Cardinality(L) + Cardinality(D) = c
  BY <1>2, <1>4, <1>5, <1>6
<1> QED
  BY <1>3, <1>7

\* One slot changes hands.
LEMMA SlotCounted ==
  ASSUME NEW c \in Nat, NEW t, NEW u, NEW s \in 0 .. (c - 1),
         \A i \in 0 .. (c - 1) : i # s => u.ctrl[i] = t.ctrl[i]
  PROVE  /\ LiveIn(u, s) /\ ~LiveIn(t, s) =>
              /\ Lives(u, c) = Lives(t, c) \cup {s}
              /\ Cardinality(Lives(u, c)) = Cardinality(Lives(t, c)) + 1
         /\ ~LiveIn(u, s) /\ LiveIn(t, s) =>
              /\ Lives(u, c) = Lives(t, c) \ {s}
              /\ Cardinality(Lives(u, c)) = Cardinality(Lives(t, c)) - 1
         /\ u.ctrl[s] = Tombstone /\ t.ctrl[s] # Tombstone =>
              Cardinality(Tombs(u, c)) = Cardinality(Tombs(t, c)) + 1
         /\ u.ctrl[s] # Tombstone /\ t.ctrl[s] = Tombstone =>
              Cardinality(Tombs(u, c)) = Cardinality(Tombs(t, c)) - 1
         /\ u.ctrl[s] # Tombstone /\ t.ctrl[s] # Tombstone =>
              Cardinality(Tombs(u, c)) = Cardinality(Tombs(t, c))
<1>1. IsFiniteSet(Lives(t, c)) /\ IsFiniteSet(Tombs(t, c))
  BY CountsAreNat
<1>2. LiveIn(u, s) /\ ~LiveIn(t, s) => s \notin Lives(t, c) /\ Lives(u, c) = Lives(t, c) \cup {s}
  BY DEF Lives, LiveIn
<1>3. ~LiveIn(u, s) /\ LiveIn(t, s) => s \in Lives(t, c) /\ Lives(u, c) = Lives(t, c) \ {s}
  BY DEF Lives, LiveIn
<1>4. u.ctrl[s] = Tombstone /\ t.ctrl[s] # Tombstone =>
        s \notin Tombs(t, c) /\ Tombs(u, c) = Tombs(t, c) \cup {s}
  BY DEF Tombs
<1>5. u.ctrl[s] # Tombstone /\ t.ctrl[s] = Tombstone =>
        s \in Tombs(t, c) /\ Tombs(u, c) = Tombs(t, c) \ {s}
  BY DEF Tombs
<1>6. u.ctrl[s] # Tombstone /\ t.ctrl[s] # Tombstone => Tombs(u, c) = Tombs(t, c)
  BY DEF Tombs
<1>7. /\ Cardinality(Lives(t, c) \cup {s}) =
           IF s \in Lives(t, c) THEN Cardinality(Lives(t, c)) ELSE Cardinality(Lives(t, c)) + 1
      /\ Cardinality(Lives(t, c) \ {s}) =
           IF s \in Lives(t, c) THEN Cardinality(Lives(t, c)) - 1 ELSE Cardinality(Lives(t, c))
      /\ Cardinality(Tombs(t, c) \cup {s}) =
           IF s \in Tombs(t, c) THEN Cardinality(Tombs(t, c)) ELSE Cardinality(Tombs(t, c)) + 1
      /\ Cardinality(Tombs(t, c) \ {s}) =
           IF s \in Tombs(t, c) THEN Cardinality(Tombs(t, c)) - 1 ELSE Cardinality(Tombs(t, c))
  BY <1>1, FS_AddElement, FS_RemoveElement
<1>8. LiveIn(u, s) /\ ~LiveIn(t, s) =>
        /\ Lives(u, c) = Lives(t, c) \cup {s}
        /\ Cardinality(Lives(u, c)) = Cardinality(Lives(t, c)) + 1
  BY <1>2, <1>7
<1>9. ~LiveIn(u, s) /\ LiveIn(t, s) =>
        /\ Lives(u, c) = Lives(t, c) \ {s}
        /\ Cardinality(Lives(u, c)) = Cardinality(Lives(t, c)) - 1
  BY <1>3, <1>7
<1>10. u.ctrl[s] = Tombstone /\ t.ctrl[s] # Tombstone =>
         Cardinality(Tombs(u, c)) = Cardinality(Tombs(t, c)) + 1
  BY <1>4, <1>7
<1>11. u.ctrl[s] # Tombstone /\ t.ctrl[s] = Tombstone =>
         Cardinality(Tombs(u, c)) = Cardinality(Tombs(t, c)) - 1
  BY <1>5, <1>7
<1>12. u.ctrl[s] # Tombstone /\ t.ctrl[s] # Tombstone =>
         Cardinality(Tombs(u, c)) = Cardinality(Tombs(t, c))
  BY <1>6
<1> QED
  BY <1>8, <1>9, <1>10, <1>11, <1>12

-----------------------------------------------------------------------------
(* The walks of find and insert.                                           *)

Ends(t, c, k) ==
  { n \in 0 .. (c - 1) : \/ t.ctrl[At(k, n, c)] = Empty
                         \/ Matches(t.ctrl, t.entries, At(k, n, c), k) }
Last(t, c, k) == Least(Ends(t, c, k))

Held(t, c, k) == \E i \in Lives(t, c) : t.entries[i].key = k

\* The walk ends; where it ends is the entry of k if there is one, and an
\* empty slot if there is none.
LEMMA WalkEnds ==
  ASSUME NEW c \in Nat, c >= 5, NEW t, TableOK(t, c), NEW k \in Keys
  PROVE  LET last == Last(t, c, k)
             slot == At(k, last, c)
         IN  /\ last \in 0 .. (c - 1) /\ slot \in 0 .. (c - 1)
             /\ Ends(t, c, k) # {}
             /\ \A m \in 0 .. (c - 1) : m < last => m \notin Ends(t, c, k)
             /\ t.ctrl[slot] = Empty => ~Held(t, c, k)
             /\ t.ctrl[slot] # Empty =>
                  slot \in Lives(t, c) /\ t.entries[slot].key = k
<1> DEFINE ends == Ends(t, c, k)
           last == Last(t, c, k)
           slot == At(k, last, c)
<1>1. ends \in SUBSET Nat /\ ends \subseteq 0 .. (c - 1)
  BY DEF Ends
<1>2. ends # {}
  <2>1. PICK i \in 0 .. (c - 1) : t.ctrl[i] = Empty
    BY EmptyLeft DEF TableOK
  <2>2. PICK n \in 0 .. (c - 1) : At(k, n, c) = i
    BY WalkVisits
  <2> QED
    BY <2>1, <2>2 DEF Ends
<1>3. last \in ends /\ \A n \in ends : last <= n
  BY <1>1, <1>2, LeastIs DEF Last
<1>4. last \in 0 .. (c - 1) /\ slot \in 0 .. (c - 1)
  BY <1>1, <1>3, WalkVisits
<1>5. \A m \in 0 .. (c - 1) : m < last => m \notin ends
  BY <1>1, <1>3, <1>4
<1>6. ASSUME t.ctrl[slot] = Empty, NEW i \in Lives(t, c), t.entries[i].key = k
      PROVE  FALSE
  <2>1. i \in 0 .. (c - 1) /\ t.ctrl[i] # Empty /\ t.ctrl[i] = Tag[k]
    BY <1>6 DEF Lives, LiveIn, TableOK, Shaped
  <2>2. PICK n \in 0 .. (c - 1) : At(k, n, c) = i
    BY <2>1, WalkVisits
  <2>3. n \in ends
    BY <1>6, <2>1, <2>2 DEF Ends, Matches
  <2>4. last <= n /\ last # n
    BY <1>3, <1>6, <2>1, <2>2, <2>3
  <2>5. last < n
    BY <1>4, <2>4
  <2> HIDE DEF last
  <2> QED
    BY <1>4, <1>6, <2>2, <2>5 DEF TableOK, Reached
<1>7. ASSUME t.ctrl[slot] # Empty
      PROVE  slot \in Lives(t, c) /\ t.entries[slot].key = k
  <2>1. t.ctrl[slot] = Tag[k] /\ t.entries[slot].key = k
    BY <1>3, <1>7 DEF Ends, Matches
  <2>2. LiveIn(t, slot)
    BY <2>1, TagAssumption DEF LiveIn
  <2> QED
    BY <1>4, <2>1, <2>2 DEF Lives
<1> QED
  BY <1>2, <1>4, <1>5, <1>6, <1>7 DEF Held

\* Where insert puts a key it has not met.
Gaps(t, c, k) == { n \in 0 .. Last(t, c, k) : t.ctrl[At(k, n, c)] = Tombstone }
Step(t, c, k) == IF Gaps(t, c, k) = {} THEN Last(t, c, k) ELSE Least(Gaps(t, c, k))

Put(t, s, k, v, gap) ==
  [ ctrl |-> [t.ctrl EXCEPT ![s] = Tag[k]],
    entries |-> [t.entries EXCEPT ![s] = [key |-> k, value |-> v]],
    size |-> t.size + 1,
    tombstones |-> t.tombstones - gap ]

LEMMA InsertedIs ==
  ASSUME NEW c, NEW t, NEW k, NEW v
  PROVE  Inserted(t, c, k, v) =
           IF t.ctrl[At(k, Last(t, c, k), c)] # Empty THEN t
           ELSE Put(t, At(k, Step(t, c, k), c), k, v, IF Gaps(t, c, k) = {} THEN 0 ELSE 1)
BY Zenon DEF Inserted, Put, Step, Gaps, Last, Ends

\* Putting a key where its walk has met no empty slot before.
LEMMA PutOK ==
  ASSUME NEW c \in Nat, c >= 5, NEW t, TableOK(t, c), NEW k \in Keys, NEW v \in Values,
         ~Held(t, c, k), NEW n \in 0 .. (c - 1), NEW gap \in {0, 1},
         t.ctrl[At(k, n, c)] = IF gap = 0 THEN Empty ELSE Tombstone,
         \A m \in 0 .. (c - 1) : m < n => t.ctrl[At(k, m, c)] # Empty,
         4 * (t.size + t.tombstones) <= 3 * c
  PROVE  LET u == Put(t, At(k, n, c), k, v, gap)
         IN  /\ TableOK(u, c)
             /\ Pairs(u, c) = Pairs(t, c) \cup {[key |-> k, value |-> v]}
             /\ u.size = t.size + 1 /\ u.tombstones = t.tombstones - gap
<1> DEFINE s == At(k, n, c)
           e == [key |-> k, value |-> v]
           u == Put(t, s, k, v, gap)
<1>w. \A w \in Keys : \A m \in 0 .. (c - 1) : At(w, m, c) \in 0 .. (c - 1)
  <2>1. c > 0
    OBVIOUS
  <2> QED
    BY <2>1, WalkStays, Zenon
<1>1. s \in 0 .. (c - 1)
  BY <1>w, Zenon
<1>2. /\ u.ctrl = [t.ctrl EXCEPT ![s] = Tag[k]]
      /\ u.entries = [t.entries EXCEPT ![s] = e]
      /\ u.size = t.size + 1 /\ u.tombstones = t.tombstones - gap
  BY DEF Put
<1>3. /\ DOMAIN u.ctrl = 0 .. (c - 1) /\ DOMAIN u.entries = 0 .. (c - 1)
      /\ u.ctrl[s] = Tag[k] /\ u.entries[s] = e
      /\ \A i \in 0 .. (c - 1) : i # s => u.ctrl[i] = t.ctrl[i] /\ u.entries[i] = t.entries[i]
  BY <1>1, <1>2 DEF TableOK, Shaped
<1>4. e \in Entry /\ e.key = k
  BY DEF Entry
<1>5. ~LiveIn(t, s) /\ LiveIn(u, s) /\ u.ctrl[s] # Tombstone /\ u.ctrl[s] # Empty
  BY <1>3, TagAssumption DEF LiveIn
<1> HIDE DEF u, e, s
<1>c. /\ Lives(u, c) = Lives(t, c) \cup {s}
      /\ Cardinality(Lives(u, c)) = Cardinality(Lives(t, c)) + 1
      /\ t.ctrl[s] = Tombstone => Cardinality(Tombs(u, c)) = Cardinality(Tombs(t, c)) - 1
      /\ t.ctrl[s] # Tombstone => Cardinality(Tombs(u, c)) = Cardinality(Tombs(t, c))
  <2>1. \A i \in 0 .. (c - 1) : i # s => u.ctrl[i] = t.ctrl[i]
    BY <1>3
  <2> QED
    BY <1>1, <1>5, <2>1, SlotCounted
<1>6. /\ Lives(u, c) = Lives(t, c) \cup {s} /\ s \notin Lives(t, c)
      /\ Cardinality(Lives(u, c)) = Cardinality(Lives(t, c)) + 1
  BY <1>5, <1>c DEF Lives
<1>7. \A i \in Lives(t, c) : u.entries[i] = t.entries[i] /\ u.ctrl[i] = t.ctrl[i]
  BY <1>3, <1>6 DEF Lives
<1>8. Shaped(u, c)
  BY <1>3, <1>4, <1>6, <1>7 DEF TableOK, Shaped
<1>9. Once(u, c)
  BY <1>3, <1>4, <1>6, <1>7 DEF TableOK, Once, Held
<1>10. Reached(u, c)
  <2> SUFFICES ASSUME NEW i \in Lives(u, c), NEW a \in 0 .. (c - 1),
                      At(u.entries[i].key, a, c) = i,
                      NEW m \in 0 .. (c - 1), m < a
               PROVE  u.ctrl[At(u.entries[i].key, m, c)] # Empty
    BY DEF Reached
  <2> DEFINE j == At(u.entries[i].key, m, c)
  <2>1. PICK w \in Keys : w = u.entries[i].key
    BY <1>8 DEF Shaped, Entry
  <2>2. j \in 0 .. (c - 1)
    <3>1. At(w, m, c) \in 0 .. (c - 1)
      BY <1>w
    <3> QED
      BY <2>1, <3>1, Zenon
  <2>3. t.ctrl[j] # Empty => u.ctrl[j] # Empty
    BY <1>3, <1>5, <2>2
  <2>4. CASE i = s
    <3>1. u.entries[i].key = k
      BY <1>3, <1>4, <2>4
    <3>2. a = n
      BY <2>4, <3>1, WalkVisits DEF s
    <3> QED
      BY <2>3, <3>1, <3>2
  <2>5. CASE i # s
    <3>1. i \in Lives(t, c) /\ u.entries[i] = t.entries[i]
      BY <1>6, <1>7, <2>5
    <3>2. t.ctrl[j] # Empty
      BY <3>1 DEF TableOK, Reached
    <3> QED
      BY <2>3, <3>2
  <2> QED
    BY <2>4, <2>5
<1>11. Counted(u, c)
  <2>1. t.size = Cardinality(Lives(t, c)) /\ t.tombstones = Cardinality(Tombs(t, c))
        /\ t.size \in Nat /\ t.tombstones \in Nat
    BY CountsAreNat DEF TableOK, Counted
  <2>2. u.size = Cardinality(Lives(u, c))
    BY <1>2, <1>6, <2>1
  <2>3. u.tombstones = Cardinality(Tombs(u, c))
    <3>1. CASE gap = 0
      <4>1. t.ctrl[s] # Tombstone
        BY <3>1, CtrlAssumption DEF s
      <4>2. Cardinality(Tombs(u, c)) = Cardinality(Tombs(t, c))
        BY <1>c, <4>1
      <4> QED
        BY <1>2, <2>1, <3>1, <4>2
    <3>2. CASE gap = 1
      <4>1. t.ctrl[s] = Tombstone
        BY <3>2 DEF s
      <4>2. Cardinality(Tombs(u, c)) = Cardinality(Tombs(t, c)) - 1
        BY <1>c, <4>1
      <4> QED
        BY <1>2, <2>1, <3>2, <4>2
    <3> QED
      BY <3>1, <3>2
  <2>4. 4 * (u.size + u.tombstones) <= 3 * c + 4
    BY <1>2, <2>1
  <2> QED
    BY <2>2, <2>3, <2>4 DEF Counted
<1>12. Pairs(u, c) = Pairs(t, c) \cup {e}
  BY <1>3, <1>6, <1>7 DEF Pairs
<1> QED
  BY <1>2, <1>8, <1>9, <1>10, <1>11, <1>12 DEF TableOK, u, e, s

\* insert_unchecked: nothing changes for a key that is there; any other key
\* is added, and the table stays a table.
LEMMA InsertedOK ==
  ASSUME NEW c \in Nat, c >= 5, NEW t, TableOK(t, c), NEW k \in Keys, NEW v \in Values,
         4 * (t.size + t.tombstones) <= 3 * c
  PROVE  LET u == Inserted(t, c, k, v)
         IN  /\ TableOK(u, c)
             /\ Held(t, c, k) => u = t
             /\ ~Held(t, c, k) =>
                  /\ Pairs(u, c) = Pairs(t, c) \cup {[key |-> k, value |-> v]}
                  /\ u.size = t.size + 1
                  /\ u.tombstones = t.tombstones \/ u.tombstones = t.tombstones - 1
<1> DEFINE last == Last(t, c, k)
           gaps == Gaps(t, c, k)
           n == Step(t, c, k)
           gap == IF gaps = {} THEN 0 ELSE 1
           u == Inserted(t, c, k, v)
<1>1. /\ last \in 0 .. (c - 1)
      /\ \A m \in 0 .. (c - 1) : m < last => m \notin Ends(t, c, k)
      /\ t.ctrl[At(k, last, c)] = Empty => ~Held(t, c, k)
      /\ t.ctrl[At(k, last, c)] # Empty => Held(t, c, k)
  <2>1. /\ last \in 0 .. (c - 1)
        /\ \A m \in 0 .. (c - 1) : m < last => m \notin Ends(t, c, k)
        /\ t.ctrl[At(k, last, c)] = Empty => ~Held(t, c, k)
        /\ t.ctrl[At(k, last, c)] # Empty =>
             At(k, last, c) \in Lives(t, c) /\ t.entries[At(k, last, c)].key = k
    BY WalkEnds
  <2> QED
    BY <2>1 DEF Held
<1>2. u = IF t.ctrl[At(k, last, c)] # Empty THEN t ELSE Put(t, At(k, n, c), k, v, gap)
  BY InsertedIs
<1>3. CASE t.ctrl[At(k, last, c)] # Empty
  BY <1>1, <1>2, <1>3
<1>4. CASE t.ctrl[At(k, last, c)] = Empty
  <2>1. gaps \in SUBSET Nat /\ gaps \subseteq 0 .. last
    BY <1>1 DEF Gaps
  <2>2. gaps # {} => n \in gaps
    BY <2>1, LeastIs DEF Step
  <2>3. gaps = {} => n = last
    BY DEF Step
  <2>4. n \in 0 .. (c - 1) /\ n <= last
    BY <1>1, <2>1, <2>2, <2>3
  <2>5. t.ctrl[At(k, n, c)] = IF gap = 0 THEN Empty ELSE Tombstone
    <3>1. CASE gaps = {}
      BY <1>4, <2>3, <3>1
    <3>2. CASE gaps # {}
      BY <2>2, <3>2 DEF Gaps
    <3> QED
      BY <3>1, <3>2
  <2>6. \A m \in 0 .. (c - 1) : m < n => t.ctrl[At(k, m, c)] # Empty
    <3> SUFFICES ASSUME NEW m \in 0 .. (c - 1), m < n
                 PROVE  t.ctrl[At(k, m, c)] # Empty
      OBVIOUS
    <3>1. m < last
      BY <1>1, <2>4
    <3> QED
      BY <1>1, <3>1 DEF Ends
  <2>7. ~Held(t, c, k)
    BY <1>1, <1>4
  <2>8. gap \in {0, 1}
    OBVIOUS
  <2>9. u = Put(t, At(k, n, c), k, v, gap)
    BY <1>2, <1>4
  <2> HIDE DEF n, gap, u
  <2>10. /\ TableOK(u, c)
         /\ Pairs(u, c) = Pairs(t, c) \cup {[key |-> k, value |-> v]}
         /\ u.size = t.size + 1 /\ u.tombstones = t.tombstones - gap
    BY <2>4, <2>5, <2>6, <2>7, <2>8, <2>9, PutOK
  <2>11. t.tombstones \in Nat
    BY CountsAreNat DEF TableOK, Counted
  <2> QED
    BY <2>7, <2>8, <2>10, <2>11 DEF u
<1> QED
  BY <1>3, <1>4

-----------------------------------------------------------------------------
(* Growth.                                                                 *)

Fresh(c) ==
  [ ctrl |-> [j \in 0 .. (c - 1) |-> Empty],
    entries |-> [j \in 0 .. (c - 1) |-> NoEntry],
    size |-> 0, tombstones |-> 0 ]

\* One turn of the loop of rehash_to, after slot i - 1 of the old table.
Turn(f, i, c) ==
  IF i = 0 THEN Fresh(c)
  ELSE IF Live(i - 1) THEN Inserted(f[i - 1], c, entries[i - 1].key, entries[i - 1].value)
  ELSE f[i - 1]

Run(f, n, c) == f = [i \in 0 .. n |-> Turn(f, i, c)]

LEMMA RunOne ==
  ASSUME NEW c, NEW n \in Nat, NEW f, Run(f, n, c)
  PROVE  \E g : Run(g, n + 1, c)
<1> DEFINE g == [i \in 0 .. n + 1 |-> IF i = n + 1 THEN Turn(f, n + 1, c) ELSE f[i]]
<1>1. \A i \in 0 .. n + 1 : g[i] = IF i = n + 1 THEN Turn(f, n + 1, c) ELSE f[i]
  OBVIOUS
<1>2. \A i \in 0 .. n : f[i] = Turn(f, i, c)
  <2> DEFINE h == [i \in 0 .. n |-> Turn(f, i, c)]
  <2>1. \A i \in 0 .. n : h[i] = Turn(f, i, c)
    OBVIOUS
  <2>2. f = h
    BY DEF Run
  <2> HIDE DEF h
  <2> QED
    BY <2>1, <2>2
<1>3. \A i \in 1 .. n + 1 : g[i - 1] = f[i - 1]
  BY <1>1
<1>4. ASSUME NEW i \in 0 .. n + 1 PROVE Turn(g, i, c) = Turn(f, i, c)
  <2>1. CASE i = 0
    BY <2>1 DEF Turn
  <2>2. CASE i # 0
    <3>1. g[i - 1] = f[i - 1]
      BY <1>3, <2>2
    <3> HIDE DEF g
    <3>2. PICK x : x = f[i - 1]
      OBVIOUS
    <3>3. g[i - 1] = x /\ f[i - 1] = x
      BY <3>1, <3>2
    <3>4. /\ Turn(g, i, c) = IF Live(i - 1)
                              THEN Inserted(x, c, entries[i - 1].key, entries[i - 1].value)
                              ELSE x
          /\ Turn(f, i, c) = IF Live(i - 1)
                              THEN Inserted(x, c, entries[i - 1].key, entries[i - 1].value)
                              ELSE x
      BY <2>2, <3>3, Zenon DEF Turn
    <3> QED
      BY <3>4
  <2> QED
    BY <2>1, <2>2
<1>5. \A i \in 0 .. n + 1 : g[i] = Turn(g, i, c)
  <2> HIDE DEF g
  <2> QED
    BY <1>1, <1>2, <1>4
<1>6. g = [i \in 0 .. n + 1 |-> g[i]]
  OBVIOUS
<1>7. g = [i \in 0 .. n + 1 |-> Turn(g, i, c)]
  <2> HIDE DEF g
  <2> QED
    BY <1>5, <1>6
<1> HIDE DEF g
<1> QED
  BY <1>7 DEF Run

\* The loop can be run for any number of slots.
LEMMA Runs ==
  ASSUME NEW c, NEW n \in Nat
  PROVE  \E f : Run(f, n, c)
<1> DEFINE T == { m \in Nat : \E f : Run(f, m, c) }
<1>1. 0 \in T
  <2> DEFINE f == [i \in 0 .. 0 |-> Fresh(c)]
  <2>1. f = [i \in 0 .. 0 |-> Turn(f, i, c)]
    <3>1. \A i \in 0 .. 0 : Turn(f, i, c) = Fresh(c)
      <4>1. \A i \in 0 .. 0 : i = 0
        OBVIOUS
      <4> QED
        BY <4>1, Zenon DEF Turn
    <3> HIDE DEF f
    <3>2. f = [i \in 0 .. 0 |-> Fresh(c)]
      BY Zenon DEF f
    <3> QED
      BY <3>1, <3>2
  <2> HIDE DEF f
  <2> QED
    BY <2>1 DEF Run
<1>2. \A m \in Nat : m \in T => m + 1 \in T
  BY RunOne
<1> HIDE DEF T
<1>3. Nat \subseteq T
  BY <1>1, <1>2, SetInduction
<1>4. n \in T
  BY <1>3
<1> QED
  BY <1>4 DEF T

\* rehash_to is such a run over all the slots.
LEMMA RehashedIs ==
  ASSUME NEW c, cap \in Nat
  PROVE  \E f : Run(f, cap, c) /\ Rehashed(c) = f[cap]
<1> DEFINE after[i \in 0 .. cap] ==
        IF i = 0
        THEN [ ctrl |-> [j \in 0 .. (c - 1) |-> Empty],
               entries |-> [j \in 0 .. (c - 1) |-> NoEntry],
               size |-> 0, tombstones |-> 0 ]
        ELSE IF Live(i - 1)
        THEN Inserted(after[i - 1], c, entries[i - 1].key, entries[i - 1].value)
        ELSE after[i - 1]
<1>1. Rehashed(c) = after[cap]
  BY Zenon DEF Rehashed
<1>2. \E f : Run(f, cap, c)
  BY Runs
<1>3. Run(after, cap, c)
  BY <1>2, Zenon DEF Run, Turn, Fresh
<1> HIDE DEF after
<1> QED
  BY <1>1, <1>3

LEMMA RunIs ==
  ASSUME NEW c, NEW n \in Nat, NEW f, Run(f, n, c)
  PROVE  /\ f[0] = Fresh(c)
         /\ \A i \in 0 .. (n - 1) :
              f[i + 1] = IF Live(i) THEN Inserted(f[i], c, entries[i].key, entries[i].value)
                         ELSE f[i]
<1> DEFINE h == [i \in 0 .. n |-> Turn(f, i, c)]
<1>1. \A i \in 0 .. n : h[i] = Turn(f, i, c)
  OBVIOUS
<1>2. f = h
  BY DEF Run
<1> HIDE DEF h
<1>3. \A i \in 0 .. n : f[i] = Turn(f, i, c)
  BY <1>1, <1>2
<1>4. f[0] = Fresh(c)
  BY <1>3 DEF Turn
<1>5. ASSUME NEW i \in 0 .. (n - 1)
      PROVE  f[i + 1] = IF Live(i) THEN Inserted(f[i], c, entries[i].key, entries[i].value)
                        ELSE f[i]
  <2>1. PICK j \in 0 .. n : j = i + 1 /\ j # 0 /\ j - 1 = i
    OBVIOUS
  <2>2. f[j] = Turn(f, j, c)
    BY <1>3
  <2>3. Turn(f, j, c) = IF Live(i) THEN Inserted(f[i], c, entries[i].key, entries[i].value)
                        ELSE f[i]
    BY <2>1, Zenon DEF Turn
  <2> QED
    BY <2>1, <2>2, <2>3
<1> QED
  BY <1>4, <1>5

\* The live slots the loop has passed, and what the new table then holds.
Passed(i) == { j \in Lives(Base, cap) : j < i }

Moved(t, i, c) ==
  /\ TableOK(t, c)
  /\ t.tombstones = 0 /\ t.size = Cardinality(Passed(i))
  /\ Pairs(t, c) = { entries[j] : j \in Passed(i) }

LEMMA FreshOK ==
  ASSUME NEW c \in Nat, c >= 5
  PROVE  TableOK(Fresh(c), c) /\ Moved(Fresh(c), 0, c)
<1> DEFINE t == Fresh(c)
<1>1. /\ t.size = 0 /\ t.tombstones = 0
      /\ DOMAIN t.ctrl = 0 .. (c - 1) /\ DOMAIN t.entries = 0 .. (c - 1)
      /\ \A i \in 0 .. (c - 1) : t.ctrl[i] = Empty
  BY DEF Fresh
<1> HIDE DEF t
<1>2. Lives(t, c) = {} /\ Tombs(t, c) = {}
  BY <1>1, CtrlAssumption DEF Lives, Tombs, LiveIn
<1>3. Cardinality({}) = 0
  BY FS_EmptySet
<1>4. TableOK(t, c)
  BY <1>1, <1>2, <1>3 DEF TableOK, Shaped, Once, Reached, Counted
<1>5. Passed(0) = {}
  BY DEF Passed, Lives
<1>6. Pairs(t, c) = {}
  BY <1>2 DEF Pairs
<1> QED
  BY <1>1, <1>3, <1>4, <1>5, <1>6 DEF Moved, t

LEMMA MovedOn ==
  ASSUME HInv, NEW c \in Nat, c >= 5, c > cap, NEW i \in 0 .. (cap - 1),
         NEW t, Moved(t, i, c)
  PROVE  /\ Live(i) =>
              Moved(Inserted(t, c, entries[i].key, entries[i].value), i + 1, c)
         /\ ~Live(i) => Moved(t, i + 1, c)
<1> DEFINE L == Lives(Base, cap)
           k == entries[i].key
           v == entries[i].value
           u == Inserted(t, c, k, v)
<1>1. /\ Base.ctrl = ctrl /\ Base.entries = entries
      /\ Base.size = size /\ Base.tombstones = tombstones
  BY DEF Base
<1>2. /\ cap \in Nat /\ TableOK(Base, cap) /\ L \subseteq 0 .. (cap - 1)
      /\ IsFiniteSet(L) /\ Cardinality(L) \in Nat
      /\ IsFiniteSet(Tombs(Base, cap)) /\ Cardinality(Tombs(Base, cap)) \in Nat
  <2>1. cap \in Nat /\ TableOK(Base, cap)
    BY DEF HInv
  <2> QED
    BY <2>1, CountsAreNat DEF Lives
<1>3. Live(i) <=> i \in L
  BY <1>1 DEF Live, Lives, LiveIn
<1>4. /\ Passed(i) \in SUBSET L /\ i \notin Passed(i)
      /\ Passed(i + 1) = IF i \in L THEN Passed(i) \cup {i} ELSE Passed(i)
  BY <1>2 DEF Passed
<1>5. IsFiniteSet(Passed(i)) /\ Cardinality(Passed(i)) \in Nat
  BY <1>2, <1>4, FS_Subset, FS_CardinalityType
<1>6. ASSUME ~Live(i) PROVE Moved(t, i + 1, c)
  BY <1>3, <1>4, <1>6 DEF Moved
<1>7. ASSUME Live(i) PROVE Moved(u, i + 1, c)
  <2>1. i \in L /\ Passed(i + 1) = Passed(i) \cup {i}
    BY <1>3, <1>4, <1>7
  <2>2. Cardinality(Passed(i + 1)) = Cardinality(Passed(i)) + 1
    BY <1>4, <1>5, <2>1, FS_AddElement
  <2>3. Cardinality(Passed(i + 1)) <= Cardinality(L)
    BY <1>2, <1>4, <2>1, FS_Subset
  <2>4. entries[i] \in Entry
    BY <1>1, <1>2, <2>1 DEF TableOK, Shaped
  <2>5. k \in Keys /\ v \in Values /\ entries[i] = [key |-> k, value |-> v]
    BY <2>4 DEF Entry
  <2>6. 4 * (t.size + t.tombstones) <= 3 * c
    <3>1. Cardinality(L) = size
      BY <1>1, <1>2 DEF TableOK, Counted
    <3>2. /\ 4 * (size + tombstones) <= 3 * cap + 4 
          /\ tombstones = Cardinality(Tombs(Base, cap))
      BY <1>1, <1>2 DEF TableOK, Counted
    <3>3. t.size = Cardinality(Passed(i)) /\ t.tombstones = 0
      BY DEF Moved
    <3>4. t.size + 1 <= size /\ size \in Nat /\ tombstones \in Nat /\ t.size \in Nat
      BY <1>2, <1>5, <2>2, <2>3, <3>1, <3>2, <3>3
    <3> QED
      BY <1>2, <3>2, <3>3, <3>4
  <2>7. ~Held(t, c, k)
    <3> SUFFICES ASSUME NEW j \in Lives(t, c), t.entries[j].key = k PROVE FALSE
      BY DEF Held
    <3>1. t.entries[j] \in Pairs(t, c)
      BY DEF Pairs
    <3>2. PICK m \in Passed(i) : t.entries[j] = entries[m]
      BY <3>1 DEF Moved
    <3>3. m \in L /\ m # i /\ entries[m].key = k
      BY <1>4, <3>2
    <3> QED
      BY <1>1, <1>2, <2>1, <3>3 DEF TableOK, Once
  <2> HIDE DEF L, k, v
  <2>8. /\ TableOK(u, c)
        /\ Pairs(u, c) = Pairs(t, c) \cup {[key |-> k, value |-> v]}
        /\ u.size = t.size + 1
        /\ u.tombstones = t.tombstones \/ u.tombstones = t.tombstones - 1
    BY <2>5, <2>6, <2>7, InsertedOK DEF Moved
  <2> HIDE DEF u
  <2>9. u.tombstones = 0
    <3>1. u.tombstones \in Nat
      BY <2>8, CountsAreNat DEF TableOK, Counted
    <3> QED
      BY <2>8, <3>1 DEF Moved
  <2>10. u.size = Cardinality(Passed(i + 1))
    BY <2>2, <2>8 DEF Moved
  <2>11. Pairs(u, c) = { entries[j] : j \in Passed(i + 1) }
    BY <2>1, <2>5, <2>8 DEF Moved
  <2> QED
    BY <2>8, <2>9, <2>10, <2>11 DEF Moved
<1> QED
  BY <1>6, <1>7

\* Growth leaves no tombstone and moves every entry.
LEMMA RehashedOK ==
  ASSUME HInv, NEW c \in Nat, c >= 5, c > cap
  PROVE  /\ TableOK(Rehashed(c), c)
         /\ Rehashed(c).tombstones = 0 /\ Rehashed(c).size = size
         /\ Pairs(Rehashed(c), c) = Pairs(Base, cap)
<1>1. cap \in Nat
  BY DEF HInv
<1>2. PICK f : Run(f, cap, c) /\ Rehashed(c) = f[cap]
  BY <1>1, RehashedIs
<1>3. /\ f[0] = Fresh(c)
      /\ \A i \in 0 .. (cap - 1) :
           f[i + 1] = IF Live(i) THEN Inserted(f[i], c, entries[i].key, entries[i].value)
                      ELSE f[i]
  BY <1>1, <1>2, RunIs
<1> DEFINE T == { m \in Nat : m <= cap => Moved(f[m], m, c) }
<1>4. 0 \in T
  BY <1>3, FreshOK
<1>5. ASSUME NEW m \in Nat, m \in T PROVE m + 1 \in T
  <2> SUFFICES ASSUME m + 1 <= cap PROVE Moved(f[m + 1], m + 1, c)
    OBVIOUS
  <2>1. m \in 0 .. (cap - 1) /\ Moved(f[m], m, c)
    BY <1>1, <1>5
  <2>2. f[m + 1] = IF Live(m) THEN Inserted(f[m], c, entries[m].key, entries[m].value)
                   ELSE f[m]
    BY <1>3, <2>1
  <2>3. /\ Live(m) => Moved(Inserted(f[m], c, entries[m].key, entries[m].value), m + 1, c)
        /\ ~Live(m) => Moved(f[m], m + 1, c)
    BY <2>1, MovedOn
  <2> QED
    BY <2>2, <2>3, Zenon
<1>6. Nat \subseteq T
  <2> HIDE DEF T
  <2> QED
    BY <1>4, <1>5, SetInduction
<1>7. Moved(f[cap], cap, c)
  BY <1>1, <1>6
<1>8. Passed(cap) = Lives(Base, cap)
  BY <1>1 DEF Passed, Lives
<1>9. size = Cardinality(Lives(Base, cap)) /\ Base.entries = entries
  BY DEF HInv, TableOK, Counted, Base
<1> HIDE DEF T
<1> QED
  BY <1>2, <1>7, <1>8, <1>9 DEF Moved, Pairs

-----------------------------------------------------------------------------
(* The operations keep the invariant.                                      *)

Stored == Pairs(Base, cap)

LEMMA BaseIs ==
  /\ Base.ctrl = ctrl /\ Base.entries = entries
  /\ Base.size = size /\ Base.tombstones = tombstones
BY DEF Base

LEMMA SameTable ==
  ASSUME NEW t, NEW u, NEW c, TableOK(t, c),
         u.ctrl = t.ctrl, u.entries = t.entries, u.size = t.size,
         u.tombstones = t.tombstones
  PROVE  TableOK(u, c) /\ Pairs(u, c) = Pairs(t, c)
<1>1. Lives(u, c) = Lives(t, c) /\ Tombs(u, c) = Tombs(t, c)
  BY DEF Lives, Tombs, LiveIn
<1> QED
  BY <1>1 DEF TableOK, Shaped, Once, Reached, Counted, Pairs

\* The variables take the fields of a table.
LEMMA BecomesOK ==
  ASSUME NEW t, NEW c \in Nat, c = 0 \/ c >= 5, TableOK(t, c), cap' = c, Becomes(t)
  PROVE  HInv' /\ Stored' = Pairs(t, c)
<1> DEFINE u == [ ctrl |-> ctrl', entries |-> entries', size |-> size',
                  tombstones |-> tombstones' ]
<1>1. /\ u.ctrl = t.ctrl /\ u.entries = t.entries
      /\ u.size = t.size /\ u.tombstones = t.tombstones
  BY DEF Becomes
<1>2. Base' = u
  BY DEF Base
<1> HIDE DEF u
<1>3. TableOK(u, c) /\ Pairs(u, c) = Pairs(t, c)
  BY <1>1, SameTable
<1>4. TableOK(Base', cap') /\ Pairs(Base', cap') = Pairs(t, c)
  BY <1>2, <1>3
<1>5. TableOK(Base, cap)' /\ Pairs(Base, cap)' = Pairs(t, c)
  BY <1>4 DEF TableOK, Shaped, Once, Reached, Counted, Lives, Tombs, LiveIn, Pairs,
              At, Entry
<1> QED
  BY <1>5 DEF HInv, Stored

LEMMA InitTable == Init => HInv /\ Stored = {}
<1> SUFFICES ASSUME Init PROVE HInv /\ Stored = {}
  OBVIOUS
<1>1. cap = 0 /\ DOMAIN ctrl = {} /\ DOMAIN entries = {} /\ size = 0 /\ tombstones = 0
  BY DEF Init
<1>2. 0 .. (cap - 1) = {}
  BY <1>1
<1>3. Lives(Base, cap) = {} /\ Tombs(Base, cap) = {}
  BY <1>2 DEF Lives, Tombs
<1>4. Cardinality({}) = 0
  BY FS_EmptySet
<1>5. Shaped(Base, cap) /\ Once(Base, cap) /\ Reached(Base, cap)
  BY <1>1, <1>2, <1>3, BaseIs DEF Shaped, Once, Reached
<1>6. Counted(Base, cap)
  <2>1. Base.size = 0 /\ Base.tombstones = 0
    BY <1>1, BaseIs
  <2>2. 4 * (Base.size + Base.tombstones) <= 3 * cap + 4
    BY <1>1, <2>1
  <2> QED
    BY <1>3, <1>4, <2>1, <2>2 DEF Counted
<1> QED
  BY <1>1, <1>3, <1>5, <1>6 DEF HInv, TableOK, Stored, Pairs

LEMMA SizesAreNat ==
  ASSUME HInv
  PROVE  /\ cap \in Nat /\ size \in Nat /\ tombstones \in Nat
         /\ 4 * (size + tombstones) <= 3 * cap + 4
         /\ cap = 0 => size = 0
<1>1. cap \in Nat
  BY DEF HInv
<1>2. /\ size = Cardinality(Lives(Base, cap))
      /\ tombstones = Cardinality(Tombs(Base, cap))
      /\ 4 * (size + tombstones) <= 3 * cap + 4
  BY BaseIs DEF HInv, TableOK, Counted
<1>3. cap = 0 => Lives(Base, cap) = {}
  BY DEF Lives
<1> QED
  BY <1>1, <1>2, <1>3, CountsAreNat, FS_EmptySet

\* insert: the table holds what it held, and k if it was not there.
LEMMA InsertStep ==
  ASSUME HInv, NEW k \in Keys, NEW v \in Values, Insert(k, v)
  PROVE  /\ HInv'
         /\ Stored' = IF \E e \in Stored : e.key = k THEN Stored
                      ELSE Stored \cup {[key |-> k, value |-> v]}
<1> DEFINE c == IF cap = 0 THEN MinCap ELSE IF NeedsGrow THEN 2 * cap ELSE cap
           t == IF c = cap THEN Base ELSE Rehashed(c)
           u == Inserted(t, c, k, v)
<1>1. cap' = c /\ Becomes(u)
  BY DEF Insert, Base
<1>2. /\ cap \in Nat /\ size \in Nat /\ tombstones \in Nat
      /\ 4 * (size + tombstones) <= 3 * cap + 4
      /\ cap = 0 => size = 0
      /\ cap = 0 \/ cap >= 5
  BY SizesAreNat DEF HInv
<1>3. c \in Nat /\ c >= 5 /\ (c = cap \/ c > cap)
  BY <1>2, CapAssumption
<1>4. /\ TableOK(t, c) /\ 4 * (t.size + t.tombstones) <= 3 * c
      /\ Pairs(t, c) = Stored
  <2>1. CASE c = cap
    <3>1. 4 * (size + tombstones) <= 3 * cap
      BY <1>2, <1>3, <2>1, CapAssumption DEF NeedsGrow
    <3>2. TableOK(Base, c) /\ t = Base
      BY <2>1 DEF HInv
    <3> HIDE DEF c, t
    <3> QED
      BY <2>1, <3>1, <3>2, BaseIs DEF Stored
  <2>2. CASE c # cap
    <3>1. /\ TableOK(Rehashed(c), c) /\ Pairs(Rehashed(c), c) = Stored
          /\ Rehashed(c).size = size /\ Rehashed(c).tombstones = 0
      <4> HIDE DEF c
      <4> QED
        BY <1>3, <2>2, RehashedOK DEF Stored
    <3>2. 4 * size <= 3 * c
      BY <1>2, <1>3, <2>2
    <3>3. t = Rehashed(c)
      BY <2>2
    <3> HIDE DEF c, t
    <3> QED
      BY <1>2, <1>3, <3>1, <3>2, <3>3
  <2> QED
    BY <2>1, <2>2
<1> HIDE DEF c, t
<1>5. /\ TableOK(u, c)
      /\ Held(t, c, k) => u = t
      /\ ~Held(t, c, k) => Pairs(u, c) = Pairs(t, c) \cup {[key |-> k, value |-> v]}
  BY <1>3, <1>4, InsertedOK
<1> HIDE DEF u
<1>6. HInv' /\ Stored' = Pairs(u, c)
  BY <1>1, <1>3, <1>5, BecomesOK
<1>7. Held(t, c, k) <=> \E e \in Stored : e.key = k
  BY <1>4 DEF Held, Pairs
<1> QED
  BY <1>4, <1>5, <1>6, <1>7

LEMMA ReserveStep ==
  ASSUME HInv, NEW c \in Capacities, Reserve(c)
  PROVE  HInv' /\ Stored' = Stored
<1>1. c \in Nat /\ c >= 5
  BY CapAssumption DEF Capacities
<1>2. c > cap /\ cap' = c /\ Becomes(Rehashed(c))
  BY DEF Reserve
<1>3. TableOK(Rehashed(c), c) /\ Pairs(Rehashed(c), c) = Stored
  BY <1>1, <1>2, RehashedOK DEF Stored
<1> QED
  BY <1>1, <1>2, <1>3, BecomesOK

\* find: the slot that holds k, or cap.
LEMMA FindSlotIs ==
  ASSUME HInv, cap # 0, NEW k \in Keys
  PROVE  /\ ~Held(Base, cap, k) => FindSlot(k) = cap
         /\ Held(Base, cap, k) =>
              FindSlot(k) \in Lives(Base, cap) /\ entries[FindSlot(k)].key = k
<1> DEFINE last == Last(Base, cap, k)
           slot == At(k, last, cap)
<1>1. cap \in Nat /\ cap >= 5 /\ TableOK(Base, cap)
  BY DEF HInv
<1>2. /\ Ends(Base, cap, k) # {}
      /\ Base.ctrl[slot] = Empty => ~Held(Base, cap, k)
      /\ Base.ctrl[slot] # Empty => slot \in Lives(Base, cap) /\ Base.entries[slot].key = k
  BY <1>1, WalkEnds
<1>3. Ends(Base, cap, k) =
        { n \in 0 .. (cap - 1) :
            ctrl[At(k, n, cap)] = Empty \/ Matches(ctrl, entries, At(k, n, cap), k) }
  BY BaseIs DEF Ends
<1>4. FindSlot(k) = IF Ends(Base, cap, k) = {} \/ ctrl[slot] = Empty THEN cap ELSE slot
  <2>1. FindSlot(k) =
          LET ends == Ends(Base, cap, k)
              s == At(k, Least(ends), cap)
          IN  IF ends = {} \/ ctrl[s] = Empty THEN cap ELSE s
    BY <1>3, Zenon DEF FindSlot
  <2> QED
    BY <2>1, Zenon DEF Last
<1> HIDE DEF slot
<1>5. CASE ctrl[slot] = Empty
  BY <1>2, <1>4, <1>5, BaseIs
<1>6. CASE ctrl[slot] # Empty
  <2>1. slot \in Lives(Base, cap) /\ entries[slot].key = k /\ FindSlot(k) = slot
    BY <1>2, <1>4, <1>6, BaseIs
  <2>2. Held(Base, cap, k)
    BY <2>1, BaseIs DEF Held
  <2> QED
    BY <2>1, <2>2
<1> QED
  BY <1>5, <1>6

\* erase: the entry of k is gone, its slot is not empty.
LEMMA EraseStep ==
  ASSUME HInv, NEW k \in Keys, Erase(k)
  PROVE  /\ HInv'
         /\ \E e \in Stored : e.key = k /\ Stored' = Stored \ {e}
<1> DEFINE s == FindSlot(k)
           e == entries[s]
           t == Base
           u == [ ctrl |-> [ctrl EXCEPT ![s] = Tombstone],
                  entries |-> [entries EXCEPT ![s] = NoEntry],
                  size |-> size - 1, tombstones |-> tombstones + 1 ]
<1>1. cap \in Nat /\ cap # 0 /\ cap >= 5 /\ TableOK(t, cap)
  BY DEF HInv, Erase
<1>2. s \in Lives(t, cap) /\ e.key = k
  BY <1>1, FindSlotIs DEF Erase
<1>3. cap' = cap /\ Becomes(u)
  BY DEF Erase, Becomes
<1>4. s \in 0 .. (cap - 1) /\ t.ctrl[s] # Empty /\ t.ctrl[s] # Tombstone /\ LiveIn(t, s)
  BY <1>2 DEF Lives, LiveIn
<1>5. /\ DOMAIN ctrl = 0 .. (cap - 1) /\ DOMAIN entries = 0 .. (cap - 1)
      /\ t.ctrl = ctrl /\ t.entries = entries /\ t.size = size /\ t.tombstones = tombstones
  BY <1>1, BaseIs DEF TableOK, Shaped
<1> HIDE DEF s, t
<1>6. /\ DOMAIN u.ctrl = 0 .. (cap - 1) /\ DOMAIN u.entries = 0 .. (cap - 1)
      /\ u.ctrl[s] = Tombstone
      /\ \A i \in 0 .. (cap - 1) : i # s => u.ctrl[i] = t.ctrl[i] /\ u.entries[i] = t.entries[i]
      /\ u.size = t.size - 1 /\ u.tombstones = t.tombstones + 1
  BY <1>4, <1>5
<1> HIDE DEF u
<1>7. /\ Lives(u, cap) = Lives(t, cap) \ {s}
      /\ Cardinality(Lives(u, cap)) = Cardinality(Lives(t, cap)) - 1
      /\ Cardinality(Tombs(u, cap)) = Cardinality(Tombs(t, cap)) + 1
  <2>1. \A i \in 0 .. (cap - 1) : i # s => u.ctrl[i] = t.ctrl[i]
    BY <1>6
  <2>2. ~LiveIn(u, s)
    BY <1>6 DEF LiveIn
  <2> QED
    BY <1>1, <1>4, <1>6, <2>1, <2>2, SlotCounted
<1>8. \A i \in Lives(u, cap) : /\ i \in Lives(t, cap) /\ i # s
                               /\ u.entries[i] = t.entries[i] /\ u.ctrl[i] = t.ctrl[i]
  BY <1>6, <1>7 DEF Lives
<1>9. Shaped(u, cap) /\ Once(u, cap)
  BY <1>1, <1>6, <1>8 DEF TableOK, Shaped, Once
<1>10. Reached(u, cap)
  <2> SUFFICES ASSUME NEW i \in Lives(u, cap), NEW a \in 0 .. (cap - 1),
                      At(u.entries[i].key, a, cap) = i,
                      NEW m \in 0 .. (cap - 1), m < a
               PROVE  u.ctrl[At(u.entries[i].key, m, cap)] # Empty
    BY DEF Reached
  <2>1. PICK w \in Keys : w = u.entries[i].key
    BY <1>9 DEF Shaped, Entry
  <2>2. At(w, m, cap) \in 0 .. (cap - 1)
    BY <1>1, WalkStays
  <2>3. i \in Lives(t, cap) /\ t.entries[i].key = w
    BY <1>8, <2>1
  <2>4. t.ctrl[At(w, m, cap)] # Empty
    BY <1>1, <2>1, <2>3 DEF TableOK, Reached
  <2>5. u.ctrl[At(w, m, cap)] # Empty
    BY <1>6, <2>2, <2>4, CtrlAssumption
  <2> QED
    BY <2>1, <2>5, Zenon
<1>11. Counted(u, cap)
  <2>1. /\ t.size = Cardinality(Lives(t, cap)) /\ t.tombstones = Cardinality(Tombs(t, cap))
        /\ t.size \in Nat /\ t.tombstones \in Nat
        /\ 4 * (t.size + t.tombstones) <= 3 * cap + 4
    BY <1>1, CountsAreNat DEF TableOK, Counted
  <2>2. u.size + u.tombstones = t.size + t.tombstones
    BY <1>6, <2>1
  <2> QED
    BY <1>6, <1>7, <2>1, <2>2 DEF Counted
<1>12. HInv' /\ Stored' = Pairs(u, cap)
  BY <1>1, <1>3, <1>9, <1>10, <1>11, BecomesOK DEF TableOK
<1>13. Pairs(u, cap) = Pairs(t, cap) \ {e}
  <2>1. \A i \in Lives(t, cap) : t.entries[i] = e => i = s
    BY <1>1, <1>2, <1>5 DEF TableOK, Once
  <2> QED
    BY <1>5, <1>6, <1>7, <1>8, <2>1 DEF Pairs
<1>14. e \in Pairs(t, cap)
  BY <1>2, <1>5 DEF Pairs
<1> QED
  BY <1>2, <1>12, <1>13, <1>14 DEF Stored, t

LEMMA HashInvariant == HInv /\ [Next]_vars => HInv'
<1> SUFFICES ASSUME HInv, [Next]_vars PROVE HInv'
  OBVIOUS
<1>1. CASE UNCHANGED vars
  <2>1. TableOK(Base, cap) /\ cap \in Nat /\ (cap = 0 \/ cap >= 5)
    BY DEF HInv
  <2>2. cap' = cap /\ Becomes(Base)
    BY <1>1, BaseIs DEF vars, table, Becomes
  <2> QED
    BY <2>1, <2>2, BecomesOK
<1>2. CASE Next
  BY <1>2, InsertStep, EraseStep, ReserveStep DEF Next
<1> QED
  BY <1>1, <1>2

\* The inductive invariant: live entries are where their walks find them,
\* once, and the counters count.
THEOREM TableInvariance == Spec => []HInv
BY InitTable, HashInvariant, PTL DEF Spec

\* A walk always comes to an empty slot (the assertion of insert_unchecked).
THEOREM WalksEnd == Spec => []SomeEmpty
<1>1. ASSUME HInv PROVE SomeEmpty
  <2> SUFFICES ASSUME cap # 0 PROVE \E i \in DOMAIN ctrl : ctrl[i] = Empty
    BY DEF SomeEmpty
  <2>1. cap \in Nat /\ cap >= 5 /\ TableOK(Base, cap)
    BY <1>1 DEF HInv
  <2>2. \E i \in 0 .. (cap - 1) : Base.ctrl[i] = Empty
    BY <2>1, EmptyLeft DEF TableOK
  <2> QED
    BY <2>1, <2>2, BaseIs DEF TableOK, Shaped
<1> QED
  BY TableInvariance, <1>1, PTL

LEMMA HoldingIs ==
  ASSUME HInv, NEW k \in Keys
  PROVE  Holding(k) = { i \in Lives(Base, cap) : entries[i].key = k }
<1>1. DOMAIN ctrl = 0 .. (cap - 1)
  BY BaseIs DEF HInv, TableOK, Shaped
<1> QED
  BY <1>1, BaseIs DEF Holding, Live, Lives, LiveIn

\* find reaches every key that is in the table, and a key is in one slot
\* only, whatever was inserted, erased and moved (find, insert, rehash_to).
THEOREM FindReachesAll == Spec => []FindsAll
<1>1. ASSUME HInv PROVE FindsAll
  <2> SUFFICES ASSUME NEW k \in Keys
               PROVE  Holding(k) = IF cap = 0 \/ FindSlot(k) = cap THEN {} ELSE {FindSlot(k)}
    BY DEF FindsAll
  <2>0. cap \in Nat /\ Lives(Base, cap) \subseteq 0 .. (cap - 1)
    BY <1>1 DEF HInv, Lives
  <2>1. CASE cap = 0
    <3>1. Lives(Base, cap) = {}
      BY <2>0, <2>1
    <3> QED
      BY <1>1, <2>1, <3>1, HoldingIs
  <2>2. CASE cap # 0 /\ ~Held(Base, cap, k)
    BY <1>1, <2>2, HoldingIs, FindSlotIs, BaseIs DEF Held
  <2>3. CASE cap # 0 /\ Held(Base, cap, k)
    <3>1. FindSlot(k) \in Lives(Base, cap) /\ entries[FindSlot(k)].key = k
      BY <1>1, <2>3, FindSlotIs
    <3>2. FindSlot(k) # cap
      BY <2>0, <3>1
    <3>3. \A i \in Lives(Base, cap) : entries[i].key = k => i = FindSlot(k)
      BY <1>1, <3>1, BaseIs DEF HInv, TableOK, Once
    <3> QED
      BY <1>1, <2>3, <3>1, <3>2, <3>3, HoldingIs
  <2> QED
    BY <2>1, <2>2, <2>3
<1> QED
  BY TableInvariance, <1>1, PTL

-----------------------------------------------------------------------------
(* The table is a finite map.                                              *)

ContentsOK ==
  /\ Stored \subseteq Entry
  /\ \A e, f \in Stored : e.key = f.key => e = f
  /\ DOMAIN Contents = { e.key : e \in Stored }
  /\ \A e \in Stored : Contents[e.key] = e.value
  /\ Contents = [j \in DOMAIN Contents |-> Contents[j]]

LEMMA ContentsAreStored == HInv => ContentsOK
<1> SUFFICES ASSUME HInv PROVE ContentsOK
  OBVIOUS
<1> DEFINE L == Lives(Base, cap)
<1>1. /\ \A i \in L : entries[i] \in Entry
      /\ \A i, j \in L : entries[i].key = entries[j].key => i = j
      /\ Stored = { entries[i] : i \in L }
  BY BaseIs DEF HInv, TableOK, Shaped, Once, Stored, Pairs
<1>2. \A k \in Keys : Holding(k) = { i \in L : entries[i].key = k }
  BY HoldingIs
<1> HIDE DEF L
<1>3. Stored \subseteq Entry /\ \A e, f \in Stored : e.key = f.key => e = f
  BY <1>1
<1> DEFINE D == { j \in Keys : Holding(j) # {} }
<1>4. Contents = [k \in D |-> entries[CHOOSE i \in Holding(k) : TRUE].value]
  BY DEF Contents
<1>5. D = { e.key : e \in Stored }
  BY <1>1, <1>2 DEF Entry
<1> HIDE DEF D
<1>6. DOMAIN Contents = D
      /\ \A k \in D : Contents[k] = entries[CHOOSE i \in Holding(k) : TRUE].value
  BY <1>4
<1>7. ASSUME NEW e \in Stored PROVE Contents[e.key] = e.value
  <2>1. PICK i \in L : entries[i] = e
    BY <1>1
  <2>2. e.key \in Keys /\ e.key \in D
    BY <1>3, <1>5 DEF Entry
  <2>3. Holding(e.key) = {i}
    BY <1>1, <1>2, <2>1, <2>2
  <2>4. (CHOOSE j \in Holding(e.key) : TRUE) = i
    BY <2>3
  <2> QED
    BY <1>6, <2>1, <2>2, <2>4
<1>8. Contents = [j \in DOMAIN Contents |-> Contents[j]]
  BY <1>4, <1>6
<1> QED
  BY <1>3, <1>5, <1>6, <1>7, <1>8 DEF ContentsOK

LEMMA SameContents ==
  ASSUME ContentsOK, ContentsOK', Stored' = Stored
  PROVE  Contents' = Contents
<1>1. DOMAIN Contents' = DOMAIN Contents
  BY DEF ContentsOK
<1>2. \A j \in DOMAIN Contents : Contents'[j] = Contents[j]
  BY DEF ContentsOK
<1>3. /\ Contents = [j \in DOMAIN Contents |-> Contents[j]]
      /\ Contents' = [j \in DOMAIN Contents' |-> Contents'[j]]
  BY DEF ContentsOK
<1> QED
  BY <1>1, <1>2, <1>3, Zenon

LEMMA ContentsInserted ==
  ASSUME ContentsOK, ContentsOK', NEW k \in Keys, NEW v \in Values,
         ~\E e \in Stored : e.key = k,
         Stored' = Stored \cup {[key |-> k, value |-> v]}
  PROVE  Map!Insert(k, v)
<1> DEFINE n == [key |-> k, value |-> v]
<1>n. n.key = k /\ n.value = v
  OBVIOUS
<1> HIDE DEF n
<1>s. Stored' = Stored \cup {n}
  BY DEF n
<1>1. k \notin DOMAIN Contents /\ DOMAIN Contents' = DOMAIN Contents \cup {k}
  <2>1. DOMAIN Contents = { e.key : e \in Stored }
    BY DEF ContentsOK
  <2>2. DOMAIN Contents' = { e.key : e \in Stored' }
    BY DEF ContentsOK
  <2>3. { e.key : e \in Stored' } = { e.key : e \in Stored } \cup {k}
    BY <1>n, <1>s
  <2> QED
    BY <2>1, <2>2, <2>3
<1>2. Contents'[k] = v
  BY <1>n, <1>s DEF ContentsOK
<1>3. \A j \in DOMAIN Contents : Contents'[j] = Contents[j]
  BY <1>s DEF ContentsOK
<1>4. Contents' = [j \in DOMAIN Contents' |-> Contents'[j]]
  BY DEF ContentsOK
<1>5. Contents' = [j \in DOMAIN Contents \cup {k} |-> IF j = k THEN v ELSE Contents[j]]
  BY <1>1, <1>2, <1>3, <1>4, Zenon
<1> QED
  BY <1>1, <1>5 DEF Map!Insert

LEMMA ContentsErased ==
  ASSUME ContentsOK, ContentsOK', NEW e \in Stored, Stored' = Stored \ {e}
  PROVE  Map!Erase(e.key)
<1>1. e.key \in DOMAIN Contents /\ DOMAIN Contents' = DOMAIN Contents \ {e.key}
  BY DEF ContentsOK
<1>2. \A j \in DOMAIN Contents' : Contents'[j] = Contents[j]
  BY DEF ContentsOK
<1>3. Contents' = [j \in DOMAIN Contents' |-> Contents'[j]]
  BY DEF ContentsOK
<1>4. Contents' = [j \in DOMAIN Contents \ {e.key} |-> Contents[j]]
  BY <1>1, <1>2, <1>3, Zenon
<1> QED
  BY <1>1, <1>4 DEF Map!Erase

\* Every operation of the table, growth and failed inserts included, is an
\* operation of the finite map or leaves it alone (insert, erase, reserve).
THEOREM TableIsMap == Spec => Implements
<1>1. ASSUME Init PROVE Map!Init
  <2>1. ContentsOK /\ Stored = {}
    BY <1>1, InitTable, ContentsAreStored
  <2>2. DOMAIN Contents = {}
    BY <2>1 DEF ContentsOK
  <2>3. Contents = [j \in DOMAIN Contents |-> Contents[j]]
    BY <2>1 DEF ContentsOK
  <2>4. Contents = [j \in {} |-> j]
    BY <2>2, <2>3
  <2> QED
    BY <2>4 DEF Map!Init
<1>2. ASSUME HInv, HInv', [Next]_vars PROVE [Map!Next]_Contents
  <2>1. ContentsOK /\ ContentsOK'
    BY <1>2, ContentsAreStored, PTL
  <2>2. CASE UNCHANGED vars
    <3>1. Stored' = Stored
      BY <2>2 DEF vars, table, Stored, Pairs, Lives, LiveIn, Base
    <3> QED
      BY <2>1, <3>1, SameContents
  <2>3. ASSUME NEW k \in Keys, NEW v \in Values, Insert(k, v)
        PROVE  [Map!Next]_Contents
    <3>1. CASE \E e \in Stored : e.key = k
      <4>1. Stored' = Stored
        BY <1>2, <2>3, <3>1, InsertStep
      <4> QED
        BY <2>1, <4>1, SameContents
    <3>2. CASE ~\E e \in Stored : e.key = k
      <4>1. Stored' = Stored \cup {[key |-> k, value |-> v]}
        BY <1>2, <2>3, <3>2, InsertStep
      <4>2. Map!Insert(k, v)
        BY <2>1, <3>2, <4>1, ContentsInserted
      <4> QED
        BY <4>2 DEF Map!Next
    <3> QED
      BY <3>1, <3>2
  <2>4. ASSUME NEW k \in Keys, Erase(k) PROVE [Map!Next]_Contents
    <3>1. PICK e \in Stored : e.key = k /\ Stored' = Stored \ {e}
      BY <1>2, <2>4, EraseStep
    <3>2. Map!Erase(k)
      BY <2>1, <3>1, ContentsErased
    <3> QED
      BY <3>2 DEF Map!Next
  <2>5. ASSUME NEW c \in Capacities, Reserve(c) PROVE [Map!Next]_Contents
    <3>1. Stored' = Stored
      BY <1>2, <2>5, ReserveStep
    <3> QED
      BY <2>1, <3>1, SameContents
  <2> QED
    BY <1>2, <2>2, <2>3, <2>4, <2>5 DEF Next
<1> QED
  BY TableInvariance, <1>1, <1>2, PTL DEF Spec, Implements, Map!Spec
=============================================================================
