----------------------------- MODULE KeyProofs ------------------------------
(***************************************************************************)
(* The items of one key of a map: the lines of their left origins, the     *)
(* order in which sorts_right_of puts them, that the head of a key is the  *)
(* rightmost of them, that an item stays under the root it was made for;   *)
(* that no call gives up where documents ask each other; that each key     *)
(* shows one value, and the same one in documents with the same items,     *)
(* compaction included.                                                    *)
(*                                                                         *)
(* The elements of one list: that none leaves, moves or comes twice, that  *)
(* each stands behind its left origin and in its author's list in front of *)
(* its right one, that a local edit shows its element where it was asked;  *)
(* that all elements of a list have one order, in which the walk of        *)
(* integrate puts them in every document; what documents with the same     *)
(* items show.                                                             *)
(***************************************************************************)
EXTENDS DocProofs, FiniteSetTheorems, WellFoundedInduction

-----------------------------------------------------------------------------
(* Lines of origins.                                                       *)

Less == { ss \in Nat \X Nat : ss[1] < ss[2] }

LEMMA NatLeast ==
  ASSUME NEW T \in SUBSET Nat, T # {}
  PROVE  \E m \in T : \A k \in T : m <= k
<1>1. IsWellFoundedOn(Less, Nat)
  BY NatLessThanWellFounded DEF OpToRel, Less
<1>2. PICK m \in T : \A k \in T : << k, m >> \notin Less
  BY <1>1, WFMin
<1>3. \A k \in T : ~(k < m)
  BY <1>2 DEF Less
<1> QED
  BY <1>3

LEMMA SetInduction ==
  ASSUME NEW T, 0 \in T, \A n \in Nat : n \in T => n + 1 \in T
  PROVE  Nat \subseteq T
<1> SUFFICES ASSUME Nat \ T # {} PROVE FALSE
  OBVIOUS
<1>1. PICK m \in Nat \ T : \A k \in Nat \ T : m <= k
  BY NatLeast
<1>2. m - 1 \in Nat /\ m - 1 \in T
  BY <1>1
<1> QED
  BY <1>1, <1>2

\* The equation that the function of Chain solves.
Ups(st, x, m, f) ==
  f = [ n \in 1 .. m |-> IF n = 1 THEN x
                         ELSE IF f[n - 1] = NoId THEN NoId
                         ELSE OriginOf(st, f[n - 1]) ]

LEMMA UpsSolvable ==
  ASSUME NEW st, NEW x, NEW m \in Nat
  PROVE  \E f : Ups(st, x, m, f)
<1> DEFINE T == { n \in Nat : \E f : Ups(st, x, n, f) }
<1>1. 0 \in T
  <2> DEFINE f == [ n \in 1 .. 0 |-> x ]
  <2>1. Ups(st, x, 0, f)
    BY DEF Ups
  <2> QED
    BY <2>1
<1>2. ASSUME NEW n \in Nat, n \in T PROVE n + 1 \in T
  <2>1. PICK f : Ups(st, x, n, f)
    BY <1>2
  <2> DEFINE last == IF n = 0 THEN x ELSE IF f[n] = NoId THEN NoId ELSE OriginOf(st, f[n])
             g == [ i \in 1 .. (n + 1) |-> IF i = n + 1 THEN last ELSE f[i] ]
  <2>2. \A i \in 1 .. n : f[i] = IF i = 1 THEN x ELSE IF f[i - 1] = NoId THEN NoId
                                 ELSE OriginOf(st, f[i - 1])
    BY <2>1 DEF Ups
  <2>3. /\ g[n + 1] = last /\ \A i \in 1 .. n : g[i] = f[i]
        /\ g = [ i \in 1 .. (n + 1) |-> g[i] ]
    OBVIOUS
  <2>l. last = IF n = 0 THEN x ELSE IF f[n] = NoId THEN NoId ELSE OriginOf(st, f[n])
    OBVIOUS
  <2> HIDE DEF g, last
  <2>4. ASSUME NEW i \in 1 .. (n + 1)
        PROVE  g[i] = IF i = 1 THEN x ELSE IF g[i - 1] = NoId THEN NoId
                      ELSE OriginOf(st, g[i - 1])
    <3>1. CASE i = n + 1
      <4>1. CASE n = 0
        BY <2>3, <2>l, <3>1, <4>1
      <4>2. CASE n # 0
        <5>1. n \in 1 .. n /\ i - 1 = n /\ i # 1
          BY <3>1, <4>2
        <5> QED
          BY <2>3, <2>l, <3>1, <4>2, <5>1
      <4> QED
        BY <4>1, <4>2
    <3>2. CASE i # n + 1
      <4>1. i \in 1 .. n /\ (i # 1 => i - 1 \in 1 .. n)
        BY <3>2
      <4> QED
        BY <2>2, <2>3, <4>1
    <3> QED
      BY <3>1, <3>2
  <2>5. Ups(st, x, n + 1, g)
    BY <2>3, <2>4 DEF Ups
  <2> QED
    BY <2>5
<1>3. m \in T
  <2> HIDE DEF T
  <2> QED
    BY <1>1, <1>2, SetInduction
<1> QED
  BY <1>3

\* f climbs from x by origins, and the chain is f up to where it ends.
ChainOf(st, x, f) ==
  /\ f[1] = x
  /\ \A n \in 1 .. (MaxOriginChain - 1) :
       f[n + 1] = IF f[n] = NoId THEN NoId ELSE OriginOf(st, f[n])
  /\ Chain(st, x) = [ n \in { m \in 1 .. MaxOriginChain : f[m] # NoId } |-> f[n] ]

LEMMA ChainIs ==
  ASSUME NEW st, NEW x
  PROVE  \E f : ChainOf(st, x, f)
<1> DEFINE f == CHOOSE g : Ups(st, x, MaxOriginChain, g)
<1>1. MaxOriginChain \in Nat /\ MaxOriginChain >= 1
  BY MaxOriginChainAssumption
<1>2. Ups(st, x, MaxOriginChain, f)
  BY <1>1, UpsSolvable
<1>3. Chain(st, x) = [ n \in { m \in 1 .. MaxOriginChain : f[m] # NoId } |-> f[n] ]
  BY Zenon DEF Chain, Ups
<1> HIDE DEF f
<1>4. \A n \in 1 .. MaxOriginChain :
        f[n] = IF n = 1 THEN x ELSE IF f[n - 1] = NoId THEN NoId ELSE OriginOf(st, f[n - 1])
  BY <1>2 DEF Ups
<1>5. ASSUME NEW n \in 1 .. (MaxOriginChain - 1)
      PROVE  f[n + 1] = IF f[n] = NoId THEN NoId ELSE OriginOf(st, f[n])
  <2>1. PICK m \in 1 .. MaxOriginChain : m = n + 1
    BY <1>1
  <2>2. m # 1 /\ m - 1 = n
    BY <2>1
  <2> QED
    BY <1>4, <2>1, <2>2
<1>6. f[1] = x
  BY <1>1, <1>4
<1> QED
  BY <1>3, <1>5, <1>6 DEF ChainOf

\* c goes from x to its origin, the origin of that, and so on for k items.
Climbs(st, x, c, k) ==
  /\ DOMAIN c = 1 .. k /\ c[1] = x
  /\ \A i \in 1 .. k : c[i] # NoId
  /\ \A i \in 1 .. (k - 1) : c[i + 1] = OriginOf(st, c[i])

LEMMA ChainClimbs ==
  ASSUME NEW st, NEW x, x # NoId
  PROVE  \E k \in 1 .. MaxOriginChain :
           /\ Climbs(st, x, Chain(st, x), k) /\ Len(Chain(st, x)) = k
           /\ k < MaxOriginChain => OriginOf(st, Chain(st, x)[k]) = NoId
           /\ Chain(st, x) = [ i \in 1 .. k |-> Chain(st, x)[i] ]
<1>1. MaxOriginChain \in Nat /\ MaxOriginChain >= 1
  BY MaxOriginChainAssumption
<1>p. PICK f : ChainOf(st, x, f)
  BY ChainIs
<1>2. /\ f[1] = x
      /\ \A n \in 1 .. (MaxOriginChain - 1) :
           f[n + 1] = IF f[n] = NoId THEN NoId ELSE OriginOf(st, f[n])
      /\ Chain(st, x) = [ n \in { m \in 1 .. MaxOriginChain : f[m] # NoId } |-> f[n] ]
  BY <1>p, Zenon DEF ChainOf
<1> DEFINE c == Chain(st, x)
           Ends == { n \in Nat \ {0} : n = MaxOriginChain + 1 \/ f[n] = NoId }
<1>3. PICK e \in Ends : \A n \in Ends : e <= n
  <2>1. MaxOriginChain + 1 \in Ends
    BY <1>1
  <2> QED
    BY <2>1, NatLeast
<1>4. PICK k \in Nat : k = e - 1
  BY <1>3
<1>5. k \in 1 .. MaxOriginChain
  <2>1. e <= MaxOriginChain + 1
    BY <1>1, <1>3
  <2>2. e # 1
    BY <1>1, <1>2, <1>3
  <2> QED
    BY <1>1, <1>3, <1>4, <2>1, <2>2
<1>6. \A n \in 1 .. k : f[n] # NoId
  BY <1>3, <1>4
<1>7. k < MaxOriginChain => f[k + 1] = NoId
  BY <1>1, <1>3, <1>4
<1>8. ASSUME NEW n \in (k + 1) .. MaxOriginChain PROVE f[n] = NoId
  <2> DEFINE Bad == { m \in Nat : m \in (k + 1) .. MaxOriginChain /\ f[m] # NoId }
  <2> SUFFICES ASSUME Bad # {} PROVE FALSE
    BY <1>1, <1>5
  <2>1. PICK m \in Bad : \A i \in Bad : m <= i
    BY NatLeast
  <2>2. m # k + 1
    BY <1>1, <1>5, <1>7, <2>1
  <2>3. PICK i \in Nat : i = m - 1
    BY <1>5, <2>1
  <2>4. i \in (k + 1) .. MaxOriginChain /\ i \in 1 .. (MaxOriginChain - 1) /\ m = i + 1 /\ i \notin Bad
    BY <1>1, <1>5, <2>1, <2>2, <2>3
  <2>5. f[i] = NoId
    BY <2>4
  <2>6. f[i + 1] = NoId
    BY <1>2, <2>4, <2>5
  <2> QED
    BY <2>1, <2>4, <2>6
<1>9. { m \in 1 .. MaxOriginChain : f[m] # NoId } = 1 .. k
  <2>1. ASSUME NEW m \in 1 .. MaxOriginChain PROVE f[m] # NoId <=> m \in 1 .. k
    <3>1. CASE m \in 1 .. k
      BY <1>6, <3>1
    <3>2. CASE m \notin 1 .. k
      <4>1. m \in (k + 1) .. MaxOriginChain
        BY <1>1, <1>5, <3>2
      <4> QED
        BY <1>8, <3>2, <4>1
    <3> QED
      BY <3>1, <3>2
  <2>2. 1 .. k \subseteq 1 .. MaxOriginChain
    BY <1>1, <1>5
  <2> QED
    BY <2>1, <2>2
<1>10. c = [ i \in 1 .. k |-> f[i] ]
  BY <1>2, <1>9
<1> HIDE DEF c
<1>11. DOMAIN c = 1 .. k /\ (\A i \in 1 .. k : c[i] = f[i]) /\ c = [ i \in 1 .. k |-> c[i] ]
  BY <1>10
<1>12. Len(c) = k
  <2> DEFINE S == { c[i] : i \in 1 .. k }
  <2>1. c \in [1 .. k -> S]
    BY <1>11
  <2> HIDE DEF S
  <2>2. c \in Seq(S)
    BY <1>5, <2>1
  <2> QED
    BY <1>5, <1>11, <2>2
<1>13. ASSUME NEW i \in 1 .. (k - 1) PROVE c[i + 1] = OriginOf(st, c[i])
  <2>1. i \in 1 .. (MaxOriginChain - 1) /\ i \in 1 .. k /\ i + 1 \in 1 .. k
    BY <1>1, <1>5
  <2>2. f[i + 1] = OriginOf(st, f[i])
    BY <1>2, <1>6, <2>1
  <2> QED
    BY <1>11, <2>1, <2>2
<1>14. k < MaxOriginChain => OriginOf(st, c[k]) = NoId
  <2> SUFFICES ASSUME k < MaxOriginChain PROVE OriginOf(st, c[k]) = NoId
    OBVIOUS
  <2>1. k \in 1 .. (MaxOriginChain - 1) /\ k \in 1 .. k
    BY <1>1, <1>5
  <2>2. f[k + 1] = OriginOf(st, f[k])
    BY <1>2, <1>6, <2>1
  <2> QED
    BY <1>7, <1>11, <2>1, <2>2
<1>15. Climbs(st, x, c, k)
  <2>1. c[1] = x
    BY <1>2, <1>5, <1>11
  <2> QED
    BY <1>6, <1>11, <1>13, <2>1 DEF Climbs
<1> QED
  BY <1>5, <1>11, <1>12, <1>14, <1>15 DEF c

-----------------------------------------------------------------------------
(* Lines of origins in a store.                                           *)

\* The chain of x is not cut: it reaches an item without origin.
Full(st, x) == x # NoId /\ OriginOf(st, Chain(st, x)[Len(Chain(st, x))]) = NoId

\* x, its origin, and so on.
Line(st, x) == ToSet(Chain(st, x))

\* A climb to the top is the chain, also for another store that agrees on
\* the origins along it.
LEMMA ClimbIsChain ==
  ASSUME NEW st, NEW u, NEW x, NEW c, NEW k \in 1 .. MaxOriginChain,
         Climbs(st, x, c, k), OriginOf(st, c[k]) = NoId,
         \A i \in 1 .. k : OriginOf(u, c[i]) = OriginOf(st, c[i])
  PROVE  /\ Len(Chain(u, x)) = k /\ DOMAIN Chain(u, x) = 1 .. k
         /\ \A i \in 1 .. k : Chain(u, x)[i] = c[i]
         /\ Chain(u, x) = [ i \in 1 .. k |-> Chain(u, x)[i] ]
<1>1. MaxOriginChain \in Nat /\ k \in Nat /\ 1 <= k
  BY MaxOriginChainAssumption
<1>2. x # NoId
  <2>1. 1 \in 1 .. k
    BY <1>1
  <2> QED
    BY <2>1 DEF Climbs
<1>3. PICK m \in 1 .. MaxOriginChain :
        /\ Climbs(u, x, Chain(u, x), m) /\ Len(Chain(u, x)) = m
        /\ m < MaxOriginChain => OriginOf(u, Chain(u, x)[m]) = NoId
        /\ Chain(u, x) = [ i \in 1 .. m |-> Chain(u, x)[i] ]
  BY <1>2, ChainClimbs
<1> DEFINE d == Chain(u, x)
<1>a. /\ d[1] = x
      /\ \A i \in 1 .. m : d[i] # NoId
      /\ \A i \in 1 .. (m - 1) : d[i + 1] = OriginOf(u, d[i])
  BY <1>3, Zenon DEF Climbs
<1>b. /\ c[1] = x
      /\ \A i \in 1 .. k : c[i] # NoId
      /\ \A i \in 1 .. (k - 1) : c[i + 1] = OriginOf(st, c[i])
  BY Zenon DEF Climbs
<1> HIDE DEF d
<1>4. /\ d[1] = x /\ c[1] = x /\ m \in Nat
      /\ \A i \in 1 .. m : d[i] # NoId
      /\ \A i \in 1 .. k : c[i] # NoId
      /\ \A i \in 1 .. (m - 1) : d[i + 1] = OriginOf(u, d[i])
      /\ \A i \in 1 .. (k - 1) : c[i + 1] = OriginOf(st, c[i])
  BY <1>1, <1>3, <1>a, <1>b
<1> DEFINE Bad == { i \in Nat : i \in 1 .. k /\ i \in 1 .. m /\ d[i] # c[i] }
<1>5. Bad = {}
  <2> SUFFICES ASSUME Bad # {} PROVE FALSE
    OBVIOUS
  <2>1. PICK i \in Bad : \A j \in Bad : i <= j
    BY NatLeast
  <2>2. i # 1
    BY <1>4, <2>1
  <2>3. PICK j \in Nat : j = i - 1
    BY <2>1
  <2>4. j \in 1 .. (k - 1) /\ j \in 1 .. (m - 1) /\ j \in 1 .. k /\ i = j + 1 /\ j \notin Bad
    BY <1>1, <1>4, <2>1, <2>2, <2>3
  <2>5. d[j] = c[j]
    BY <1>4, <2>4
  <2>6. d[j + 1] = c[j + 1]
    BY <1>4, <2>4, <2>5
  <2> QED
    BY <2>1, <2>4, <2>6
<1>6. \A i \in 1 .. k : i \in 1 .. m => d[i] = c[i]
  <2>1. ASSUME NEW i \in 1 .. k, i \in 1 .. m PROVE d[i] = c[i]
    <3>1. i \notin Bad
      BY <1>5
    <3> QED
      BY <2>1, <3>1
  <2> QED
    BY <2>1
<1> HIDE DEF Bad
<1>7. ~(m < k)
  <2> SUFFICES ASSUME m < k PROVE FALSE
    OBVIOUS
  <2>1. m \in 1 .. (k - 1) /\ m \in 1 .. k /\ m \in 1 .. m /\ m + 1 \in 1 .. k /\ m < MaxOriginChain
    BY <1>1, <1>3, <1>4
  <2>2. OriginOf(u, d[m]) = NoId /\ d[m] = c[m]
    BY <1>3, <1>6, <2>1 DEF d
  <2>3. c[m + 1] = NoId
    BY <1>4, <2>1, <2>2
  <2> QED
    BY <1>4, <2>1, <2>3
<1>8. ~(k < m)
  <2> SUFFICES ASSUME k < m PROVE FALSE
    OBVIOUS
  <2>1. k \in 1 .. (m - 1) /\ k \in 1 .. m /\ k \in 1 .. k /\ k + 1 \in 1 .. m
    BY <1>1, <1>3, <1>4
  <2>2. d[k + 1] = NoId
    BY <1>4, <1>6, <2>1
  <2> QED
    BY <1>4, <2>1, <2>2
<1>9. m = k
  BY <1>1, <1>4, <1>7, <1>8
<1> QED
  BY <1>3, <1>6, <1>9 DEF Climbs, d

\* What a full chain looks like.
LEMMA FullChain ==
  ASSUME NEW st, NEW x, Full(st, x)
  PROVE  \E k \in 1 .. MaxOriginChain :
           /\ Climbs(st, x, Chain(st, x), k) /\ Len(Chain(st, x)) = k
           /\ OriginOf(st, Chain(st, x)[k]) = NoId
BY ChainClimbs DEF Full

\* The chain of a member is the rest of the chain.
Rest(st, c, k, j) ==
  /\ Full(st, c[j])
  /\ Len(Chain(st, c[j])) = (k - j) + 1
  /\ \A i \in 1 .. ((k - j) + 1) : Chain(st, c[j])[i] = c[(i + j) - 1]

LEMMA RestOfChain ==
  ASSUME NEW st, NEW x, Full(st, x), NEW c, c = Chain(st, x), NEW k, k = Len(c)
  PROVE  \A j \in 1 .. k : Rest(st, c, k, j)
<1> SUFFICES ASSUME NEW j \in 1 .. k PROVE Rest(st, c, k, j)
  OBVIOUS
<1> DEFINE y == c[j]
<1>1. /\ k \in 1 .. MaxOriginChain
      /\ Climbs(st, x, c, k) /\ Len(c) = k
      /\ OriginOf(st, c[k]) = NoId
  BY FullChain
<1>2. /\ MaxOriginChain \in Nat /\ k \in Nat /\ 1 <= k /\ j \in Nat /\ 1 <= j /\ j <= k
  BY <1>1, MaxOriginChainAssumption
<1>3. /\ \A i \in 1 .. k : c[i] # NoId
      /\ \A i \in 1 .. (k - 1) : c[i + 1] = OriginOf(st, c[i])
      /\ OriginOf(st, c[k]) = NoId /\ Len(c) = k
  BY <1>1 DEF Climbs
<1>4. PICK n \in 1 .. MaxOriginChain : n = (k - j) + 1
  BY <1>1, <1>2
<1> DEFINE e == [ i \in 1 .. n |-> c[(i + j) - 1] ]
<1>5. DOMAIN e = 1 .. n /\ \A i \in 1 .. n : e[i] = c[(i + j) - 1]
  OBVIOUS
<1> HIDE DEF e
<1>6. Climbs(st, c[j], e, n)
  <2>1. e[1] = c[j]
    <3>1. 1 \in 1 .. n /\ (1 + j) - 1 = j
      BY <1>2, <1>4
    <3> QED
      BY <1>5, <3>1
  <2>2. ASSUME NEW i \in 1 .. n PROVE e[i] # NoId
    <3>1. (i + j) - 1 \in 1 .. k
      BY <1>2, <1>4
    <3> QED
      BY <1>3, <1>5, <3>1
  <2>3. ASSUME NEW i \in 1 .. (n - 1) PROVE e[i + 1] = OriginOf(st, e[i])
    <3>1. PICK a \in 1 .. (k - 1) : a = (i + j) - 1
      BY <1>2, <1>4
    <3>2. i \in 1 .. n /\ i + 1 \in 1 .. n /\ ((i + 1) + j) - 1 = a + 1
      BY <1>2, <1>4, <3>1
    <3>3. e[i] = c[a] /\ e[i + 1] = c[a + 1]
      BY <1>5, <3>1, <3>2
    <3> QED
      BY <1>3, <3>3
  <2> QED
    BY <1>5, <2>1, <2>2, <2>3 DEF Climbs
<1>7. OriginOf(st, e[n]) = NoId
  <2>1. n \in 1 .. n /\ (n + j) - 1 = k
    BY <1>2, <1>4
  <2> QED
    BY <1>3, <1>5, <2>1
<1>8. /\ Len(Chain(st, c[j])) = n
      /\ \A i \in 1 .. n : Chain(st, c[j])[i] = e[i]
  BY <1>4, <1>6, <1>7, ClimbIsChain
<1>9. n \in 1 .. n
  BY <1>2, <1>4
<1>10. Full(st, c[j])
  <2>1. j \in 1 .. k
    BY <1>2
  <2> QED
    BY <1>3, <1>5, <1>7, <1>8, <1>9, <2>1 DEF Full
<1> QED
  BY <1>1, <1>3, <1>4, <1>5, <1>8, <1>10 DEF Rest

-----------------------------------------------------------------------------
(* Members of lines.                                                       *)

LEMMA LineIs ==
  ASSUME NEW st, NEW x, Full(st, x)
  PROVE  /\ Line(st, x) = { Chain(st, x)[i] : i \in 1 .. Len(Chain(st, x)) }
         /\ Len(Chain(st, x)) \in Nat /\ Len(Chain(st, x)) >= 1
         /\ Chain(st, x)[1] = x /\ x \in Line(st, x)
         /\ NoId \notin Line(st, x)
<1>1. PICK k \in 1 .. MaxOriginChain :
        /\ Climbs(st, x, Chain(st, x), k) /\ Len(Chain(st, x)) = k
        /\ OriginOf(st, Chain(st, x)[k]) = NoId
  BY FullChain
<1>2. /\ DOMAIN Chain(st, x) = 1 .. k /\ Chain(st, x)[1] = x /\ k \in Nat /\ k >= 1
      /\ \A i \in 1 .. k : Chain(st, x)[i] # NoId
  BY <1>1 DEF Climbs
<1>3. Line(st, x) = { Chain(st, x)[i] : i \in 1 .. k }
  BY <1>2 DEF Line, ToSet
<1>4. 1 \in 1 .. k
  BY <1>2
<1> QED
  BY <1>1, <1>2, <1>3, <1>4

\* Who is on the line of a member of a line is on the line.
LEMMA LineWithin ==
  ASSUME NEW st, NEW x, Full(st, x), NEW y \in Line(st, x)
  PROVE  Full(st, y) /\ Line(st, y) \subseteq Line(st, x)
<1> DEFINE c == Chain(st, x)
           k == Len(c)
<1>1. Line(st, x) = { c[i] : i \in 1 .. k } /\ k \in Nat
  BY LineIs
<1>2. PICK j \in 1 .. k : y = c[j]
  BY <1>1
<1>r. \A i \in 1 .. k : Rest(st, c, k, i)
  BY RestOfChain
<1> HIDE DEF c, k
<1>3. /\ Full(st, y) /\ Len(Chain(st, y)) = (k - j) + 1
      /\ \A i \in 1 .. ((k - j) + 1) : Chain(st, y)[i] = c[(i + j) - 1]
  BY <1>2, <1>r DEF Rest
<1>4. Line(st, y) = { Chain(st, y)[i] : i \in 1 .. Len(Chain(st, y)) }
  BY <1>3, LineIs
<1>5. ASSUME NEW z \in Line(st, y) PROVE z \in Line(st, x)
  <2>1. PICK i \in 1 .. ((k - j) + 1) : z = Chain(st, y)[i]
    BY <1>3, <1>4
  <2>2. (i + j) - 1 \in 1 .. k
    BY <1>1, <1>2, <2>1
  <2> QED
    BY <1>1, <1>3, <2>1, <2>2
<1> QED
  BY <1>3, <1>5

\* Of two members one is on the line of the other, and not the other way
\* round; the members behind the first are those of the origin's line.
LEMMA LineLinear ==
  ASSUME NEW st, NEW x, Full(st, x), NEW y \in Line(st, x), NEW z \in Line(st, x)
  PROVE  y \in Line(st, z) \/ z \in Line(st, y)
<1> DEFINE c == Chain(st, x)
           k == Len(c)
<1>1. Line(st, x) = { c[i] : i \in 1 .. k } /\ k \in Nat
  BY LineIs
<1>r. \A i \in 1 .. k : Rest(st, c, k, i)
  BY RestOfChain
<1> HIDE DEF c, k
<1>2. ASSUME NEW a \in 1 .. k, NEW b \in 1 .. k, a <= b
      PROVE  c[b] \in Line(st, c[a])
  <2>1. /\ Full(st, c[a]) /\ Len(Chain(st, c[a])) = (k - a) + 1
        /\ \A i \in 1 .. ((k - a) + 1) : Chain(st, c[a])[i] = c[(i + a) - 1]
    BY <1>r DEF Rest
  <2>2. Line(st, c[a]) = { Chain(st, c[a])[i] : i \in 1 .. Len(Chain(st, c[a])) }
    <3>1. PICK w : w = c[a]
      OBVIOUS
    <3>2. Full(st, w)
      BY <2>1, <3>1
    <3>3. Line(st, w) = { Chain(st, w)[i] : i \in 1 .. Len(Chain(st, w)) }
      BY <3>2, LineIs
    <3> QED
      BY <3>1, <3>3
  <2>3. PICK i \in 1 .. ((k - a) + 1) : i = (b - a) + 1
    BY <1>1, <1>2
  <2>4. (i + a) - 1 = b
    BY <2>3
  <2> QED
    BY <2>1, <2>2, <2>3, <2>4
<1>3. PICK a \in 1 .. k : y = c[a]
  BY <1>1
<1>4. PICK b \in 1 .. k : z = c[b]
  BY <1>1
<1> HIDE DEF c, k
<1>5. a <= b \/ b <= a
  BY <1>1
<1> QED
  BY <1>2, <1>3, <1>4, <1>5

LEMMA LineShorter ==
  ASSUME NEW st, NEW x, Full(st, x), NEW y \in Line(st, x), y # x
  PROVE  Len(Chain(st, y)) < Len(Chain(st, x))
<1> DEFINE c == Chain(st, x)
           k == Len(c)
<1>1. Line(st, x) = { c[i] : i \in 1 .. k } /\ k \in Nat /\ c[1] = x
  BY LineIs
<1>2. PICK j \in 1 .. k : y = c[j]
  BY <1>1
<1>r. \A i \in 1 .. k : Rest(st, c, k, i)
  BY RestOfChain
<1> HIDE DEF c, k
<1>3. Len(Chain(st, y)) = (k - j) + 1
  BY <1>2, <1>r DEF Rest
<1>4. j # 1
  BY <1>1, <1>2
<1>5. (k - j) + 1 < k
  BY <1>1, <1>2, <1>4
<1> QED
  BY <1>3, <1>5 DEF k, c

LEMMA LineOrdered ==
  ASSUME NEW st, NEW x, Full(st, x), NEW y \in Line(st, x), x \in Line(st, y)
  PROVE  x = y
<1> SUFFICES ASSUME x # y PROVE FALSE
  OBVIOUS
<1>1. Full(st, y)
  BY LineWithin
<1>2. Len(Chain(st, y)) < Len(Chain(st, x)) /\ Len(Chain(st, x)) < Len(Chain(st, y))
  BY <1>1, LineShorter
<1>3. Len(Chain(st, y)) \in Nat /\ Len(Chain(st, x)) \in Nat
  BY <1>1, LineIs
<1> QED
  BY <1>2, <1>3

LEMMA LineOfOrigin ==
  ASSUME NEW st, NEW x, Full(st, x)
  PROVE  /\ OriginOf(st, x) = NoId => Line(st, x) = {x}
         /\ OriginOf(st, x) # NoId =>
              /\ Full(st, OriginOf(st, x))
              /\ Line(st, x) = {x} \cup Line(st, OriginOf(st, x))
              /\ x \notin Line(st, OriginOf(st, x))
<1>1. PICK k \in 1 .. MaxOriginChain :
        /\ Climbs(st, x, Chain(st, x), k) /\ Len(Chain(st, x)) = k
        /\ OriginOf(st, Chain(st, x)[k]) = NoId
  BY FullChain
<1> DEFINE c == Chain(st, x)
           o == OriginOf(st, x)
<1>2. /\ k \in Nat /\ k >= 1 /\ c[1] = x /\ \A i \in 1 .. k : c[i] # NoId
      /\ \A i \in 1 .. (k - 1) : c[i + 1] = OriginOf(st, c[i])
      /\ Line(st, x) = { c[i] : i \in 1 .. k } /\ OriginOf(st, c[k]) = NoId
  BY <1>1, LineIs DEF Climbs
<1>r. \A i \in 1 .. k : Rest(st, c, k, i)
  BY <1>1, RestOfChain
<1> HIDE DEF c
<1>3. ASSUME NEW j \in 1 .. k
      PROVE  /\ Full(st, c[j]) /\ Len(Chain(st, c[j])) = (k - j) + 1
             /\ \A i \in 1 .. ((k - j) + 1) : Chain(st, c[j])[i] = c[(i + j) - 1]
  BY <1>r DEF Rest
<1>4. CASE k = 1
  <2>1. o = NoId /\ 1 .. k = {1}
    BY <1>2, <1>4
  <2>2. Line(st, x) = {x}
    BY <1>2, <2>1
  <2> QED
    BY <2>1, <2>2
<1>5. CASE k # 1
  <2>1. 1 \in 1 .. (k - 1) /\ 2 \in 1 .. k /\ 1 + 1 = 2
    BY <1>2, <1>5
  <2>2. o = c[2] /\ o # NoId
    BY <1>2, <2>1
  <2>3. /\ Full(st, o) /\ Len(Chain(st, o)) = (k - 2) + 1
        /\ \A i \in 1 .. ((k - 2) + 1) : Chain(st, o)[i] = c[(i + 2) - 1]
    BY <1>3, <2>1, <2>2
  <2>4. Line(st, o) = { Chain(st, o)[i] : i \in 1 .. Len(Chain(st, o)) }
    BY <2>3, LineIs
  <2> HIDE DEF o
  <2>5. ASSUME NEW z \in Line(st, x) PROVE z = x \/ z \in Line(st, o)
    <3>1. PICK i \in 1 .. k : z = c[i]
      BY <1>2
    <3>2. CASE i = 1
      BY <1>2, <3>1, <3>2
    <3>3. CASE i # 1
      <4>1. PICK j \in 1 .. ((k - 2) + 1) : j = i - 1
        BY <1>2, <3>1, <3>3
      <4>2. (j + 2) - 1 = i
        BY <4>1
      <4> QED
        BY <2>3, <2>4, <3>1, <4>1, <4>2
    <3> QED
      BY <3>2, <3>3
  <2>6. o \in Line(st, x)
    BY <1>2, <2>1, <2>2
  <2>7. Line(st, o) \subseteq Line(st, x) /\ x \in Line(st, x)
    BY <2>6, LineWithin, LineIs
  <2>8. x \notin Line(st, o)
    <3> SUFFICES ASSUME x \in Line(st, o) PROVE FALSE
      OBVIOUS
    <3>1. o = x
      BY <2>6, LineOrdered
    <3>2. Len(Chain(st, o)) = k
      BY <1>1, <3>1
    <3> QED
      BY <1>2, <2>3, <3>2
  <2> QED
    BY <2>2, <2>3, <2>5, <2>7, <2>8 DEF o
<1> QED
  BY <1>4, <1>5

-----------------------------------------------------------------------------
(* The order of the items of a key.                                        *)

LEMMA IdsOrdered ==
  /\ \A a \in Ids : ~IdLess(a, a)
  /\ \A a, b \in Ids : a = b \/ IdLess(a, b) \/ IdLess(b, a)
  /\ \A a, b, c \in Ids : IdLess(a, b) /\ IdLess(b, c) => IdLess(a, c)
<1>1. ASSUME NEW a \in Ids PROVE a[1] \in Nat /\ a[2] \in Nat /\ a = << a[1], a[2] >>
  <2>1. PICK c \in Clients, n \in Nat : a = << c, n >>
    BY DEF Ids
  <2>2. c \in Nat
    BY ClientsAssumption
  <2> QED
    BY <2>1, <2>2
<1>2. \A a \in Ids : ~IdLess(a, a)
  BY <1>1 DEF IdLess
<1>3. \A a, b \in Ids : a = b \/ IdLess(a, b) \/ IdLess(b, a)
  <2> SUFFICES ASSUME NEW a \in Ids, NEW b \in Ids, ~IdLess(a, b), ~IdLess(b, a)
               PROVE  a = b
    OBVIOUS
  <2>1. a[1] = b[1] /\ a[2] = b[2]
    BY <1>1 DEF IdLess
  <2> QED
    BY <1>1, <2>1
<1>4. \A a, b, c \in Ids : IdLess(a, b) /\ IdLess(b, c) => IdLess(a, c)
  BY <1>1 DEF IdLess
<1> QED
  BY <1>2, <1>3, <1>4

\* Some item on the line of x and one on the line of y were written on the
\* same item, or both on none, and that of x has the smaller id.
Beside(st, x, y) ==
  \E u \in Line(st, x), v \in Line(st, y) :
    OriginOf(st, u) = OriginOf(st, v) /\ IdLess(u, v)

\* y was written on top of x, perhaps not directly, or their lines part.
LeftOf(st, x, y) == (x # y /\ x \in Line(st, y)) \/ Beside(st, x, y)

Orderly(st, x) == Full(st, x) /\ Line(st, x) \subseteq Ids

\* Who stands above an item stands above or at its origin.
LEMMA Above ==
  ASSUME NEW st, NEW x, Full(st, x), NEW y \in Line(st, x), y # x
  PROVE  OriginOf(st, x) # NoId /\ y \in Line(st, OriginOf(st, x))
BY LineOfOrigin

\* Two items of one line have different origins.
LEMMA NoSiblings ==
  ASSUME NEW st, NEW x, Full(st, x), NEW u \in Line(st, x), NEW v \in Line(st, x),
         OriginOf(st, u) = OriginOf(st, v)
  PROVE  u = v
<1>1. ASSUME NEW a \in Line(st, x), NEW b \in Line(st, x), a \in Line(st, b),
             OriginOf(st, a) = OriginOf(st, b), a # b
      PROVE  FALSE
  <2>1. Full(st, a) /\ Full(st, b)
    BY LineWithin
  <2>2. OriginOf(st, b) # NoId /\ a \in Line(st, OriginOf(st, b))
    BY <1>1, <2>1, Above
  <2>3. a \notin Line(st, OriginOf(st, a))
    BY <1>1, <2>1, <2>2, LineOfOrigin
  <2> QED
    BY <1>1, <2>2, <2>3
<1>2. u \in Line(st, v) \/ v \in Line(st, u)
  BY LineLinear
<1> QED
  BY <1>1, <1>2

\* An item above x that is above or at an item which shares its origin with w
\* is above w, or it is that item.
LEMMA AcrossSiblings ==
  ASSUME NEW st, NEW z, Full(st, z), NEW w \in Line(st, z),
         NEW y, Full(st, y), NEW v \in Line(st, y),
         OriginOf(st, v) = OriginOf(st, w),
         NEW x \in Line(st, v), x # v
  PROVE  x \in Line(st, w) /\ x # w /\ x \in Line(st, z)
<1>1. Full(st, v) /\ Full(st, w) /\ Line(st, w) \subseteq Line(st, z)
  BY LineWithin
<1>2. OriginOf(st, v) # NoId /\ x \in Line(st, OriginOf(st, v))
  BY <1>1, Above
<1>3. /\ Line(st, w) = {w} \cup Line(st, OriginOf(st, w))
      /\ w \notin Line(st, OriginOf(st, w))
  BY <1>1, <1>2, LineOfOrigin
<1> QED
  BY <1>1, <1>2, <1>3

LEMMA LeftIrreflexive ==
  ASSUME NEW st, NEW x, Orderly(st, x)
  PROVE  ~LeftOf(st, x, x)
<1> SUFFICES ASSUME LeftOf(st, x, x) PROVE FALSE
  OBVIOUS
<1>1. Full(st, x) /\ Line(st, x) \subseteq Ids
  BY DEF Orderly
<1>2. PICK u \in Line(st, x), v \in Line(st, x) :
        OriginOf(st, u) = OriginOf(st, v) /\ IdLess(u, v)
  BY DEF LeftOf, Beside
<1>3. u = v
  BY <1>1, <1>2, NoSiblings
<1> QED
  BY <1>1, <1>2, <1>3, IdsOrdered

LEMMA BesideStep ==
  ASSUME NEW st, NEW x, NEW y, NEW z, Orderly(st, x), Orderly(st, y), Orderly(st, z)
  PROVE  /\ x \in Line(st, y) /\ Beside(st, y, z) => LeftOf(st, x, z)
         /\ Beside(st, x, y) /\ y \in Line(st, z) => Beside(st, x, z)
         /\ Beside(st, x, y) /\ Beside(st, y, z) => Beside(st, x, z)
         /\ y \in Line(st, x) /\ Beside(st, y, z) => Beside(st, x, z)
<1>0. /\ Full(st, x) /\ Full(st, y) /\ Full(st, z)
      /\ Line(st, x) \subseteq Ids /\ Line(st, y) \subseteq Ids /\ Line(st, z) \subseteq Ids
  BY DEF Orderly
<1>1. ASSUME x \in Line(st, y), Beside(st, y, z) PROVE LeftOf(st, x, z)
  <2>1. PICK v \in Line(st, y), w \in Line(st, z) :
          OriginOf(st, v) = OriginOf(st, w) /\ IdLess(v, w)
    BY <1>1 DEF Beside
  <2>2. v \in Line(st, x) \/ x \in Line(st, v)
    BY <1>0, <1>1, LineLinear
  <2>3. CASE v \in Line(st, x)
    BY <2>1, <2>3 DEF LeftOf, Beside
  <2>4. CASE x \in Line(st, v) /\ v # x
    <3>1. x \in Line(st, w) /\ x # w /\ x \in Line(st, z)
      BY <1>0, <2>1, <2>4, AcrossSiblings
    <3>2. x # z
      BY <1>0, <3>1, LineOrdered
    <3> QED
      BY <3>1, <3>2 DEF LeftOf
  <2> QED
    BY <1>0, <2>2, <2>3, <2>4, LineIs
<1>2. ASSUME Beside(st, x, y), y \in Line(st, z) PROVE Beside(st, x, z)
  BY <1>0, <1>2, LineWithin DEF Beside
<1>3. ASSUME Beside(st, x, y), Beside(st, y, z) PROVE Beside(st, x, z)
  <2>1. PICK u \in Line(st, x), v \in Line(st, y) :
          OriginOf(st, u) = OriginOf(st, v) /\ IdLess(u, v)
    BY <1>3 DEF Beside
  <2>2. PICK t \in Line(st, y), w \in Line(st, z) :
          OriginOf(st, t) = OriginOf(st, w) /\ IdLess(t, w)
    BY <1>3 DEF Beside
  <2>3. v \in Line(st, t) \/ t \in Line(st, v)
    BY <1>0, LineLinear
  <2>4. CASE v = t
    <3>1. u \in Ids /\ v \in Ids /\ w \in Ids
      BY <1>0
    <3>2. IdLess(u, w) /\ OriginOf(st, u) = OriginOf(st, w)
      BY <2>1, <2>2, <2>4, <3>1, IdsOrdered
    <3> QED
      BY <3>2 DEF Beside
  <2>5. CASE v \in Line(st, t) /\ v # t
    <3>1. v \in Line(st, z)
      BY <1>0, <2>2, <2>5, AcrossSiblings
    <3> QED
      BY <2>1, <3>1 DEF Beside
  <2>6. CASE t \in Line(st, v) /\ v # t
    <3>1. t \in Line(st, x)
      BY <1>0, <2>1, <2>6, AcrossSiblings
    <3> QED
      BY <2>2, <3>1 DEF Beside
  <2> QED
    BY <2>3, <2>4, <2>5, <2>6
<1>4. ASSUME y \in Line(st, x), Beside(st, y, z) PROVE Beside(st, x, z)
  BY <1>0, <1>4, LineWithin DEF Beside
<1> QED
  BY <1>1, <1>2, <1>3, <1>4

LEMMA LeftTransitive ==
  ASSUME NEW st, NEW x, NEW y, NEW z, Orderly(st, x), Orderly(st, y), Orderly(st, z),
         LeftOf(st, x, y), LeftOf(st, y, z)
  PROVE  LeftOf(st, x, z)
<1>0. Full(st, x) /\ Full(st, y) /\ Full(st, z)
  BY DEF Orderly
<1>1. CASE x # y /\ x \in Line(st, y) /\ y # z /\ y \in Line(st, z)
  <2>1. x \in Line(st, z)
    BY <1>0, <1>1, LineWithin
  <2>2. x # z
    BY <1>0, <1>1, LineOrdered
  <2> QED
    BY <2>1, <2>2 DEF LeftOf
<1>2. CASE x \in Line(st, y) /\ Beside(st, y, z)
  BY <1>2, BesideStep
<1>3. CASE Beside(st, x, y) /\ y \in Line(st, z)
  BY <1>3, BesideStep DEF LeftOf
<1>4. CASE Beside(st, x, y) /\ Beside(st, y, z)
  BY <1>4, BesideStep DEF LeftOf
<1> QED
  BY <1>1, <1>2, <1>3, <1>4 DEF LeftOf

\* The ids that sorts_right_of compares: below the first common item of the
\* two chains, or at their ends.
Meets(ca, cb) == { i \in DOMAIN ca : ca[i] \in ToSet(cb) }
MeetA(ca, cb) == CHOOSE i \in Meets(ca, cb) : \A j \in Meets(ca, cb) : i <= j
MeetB(ca, cb) == CHOOSE j \in DOMAIN cb : cb[j] = ca[MeetA(ca, cb)]
ForkA(ca, cb) == IF Meets(ca, cb) = {} THEN ca[Len(ca)] ELSE ca[MeetA(ca, cb) - 1]
ForkB(ca, cb) == IF Meets(ca, cb) = {} THEN cb[Len(cb)] ELSE cb[MeetB(ca, cb) - 1]

LEMMA ChainsMeet ==
  ASSUME NEW st, NEW a, NEW b, Orderly(st, a), Orderly(st, b),
         a \notin Line(st, b), b \notin Line(st, a)
  PROVE  /\ ForkA(Chain(st, a), Chain(st, b)) \in Line(st, a)
         /\ ForkB(Chain(st, a), Chain(st, b)) \in Line(st, b)
         /\ ForkA(Chain(st, a), Chain(st, b)) # ForkB(Chain(st, a), Chain(st, b))
         /\ OriginOf(st, ForkA(Chain(st, a), Chain(st, b)))
              = OriginOf(st, ForkB(Chain(st, a), Chain(st, b)))
<1> DEFINE ca == Chain(st, a)
           cb == Chain(st, b)
           shared == Meets(ca, cb)
           meetA == MeetA(ca, cb)
           meetB == MeetB(ca, cb)
           u == ForkA(ca, cb)
           v == ForkB(ca, cb)
<1>0. Full(st, a) /\ Full(st, b)
  BY DEF Orderly
<1>1. PICK k \in 1 .. MaxOriginChain :
        /\ Climbs(st, a, ca, k) /\ Len(ca) = k /\ OriginOf(st, ca[k]) = NoId
  BY <1>0, FullChain
<1>2. PICK m \in 1 .. MaxOriginChain :
        /\ Climbs(st, b, cb, m) /\ Len(cb) = m /\ OriginOf(st, cb[m]) = NoId
  BY <1>0, FullChain
<1>3. Line(st, a) = ToSet(ca) /\ Line(st, b) = ToSet(cb)
  BY DEF Line
<1>4. /\ DOMAIN ca = 1 .. k /\ k \in Nat /\ k >= 1 /\ ca[1] = a
      /\ \A i \in 1 .. (k - 1) : ca[i + 1] = OriginOf(st, ca[i])
  BY <1>1 DEF Climbs
<1>5. /\ DOMAIN cb = 1 .. m /\ m \in Nat /\ m >= 1 /\ cb[1] = b
      /\ \A i \in 1 .. (m - 1) : cb[i + 1] = OriginOf(st, cb[i])
  BY <1>2 DEF Climbs
<1> HIDE DEF ca, cb
<1>6. ToSet(ca) = { ca[i] : i \in 1 .. k } /\ ToSet(cb) = { cb[i] : i \in 1 .. m }
  BY <1>4, <1>5 DEF ToSet
<1>s. shared = { i \in DOMAIN ca : ca[i] \in ToSet(cb) }
  BY DEF Meets
<1>7. CASE shared = {}
  <2>1. u = ca[k] /\ v = cb[m]
    BY <1>1, <1>2, <1>7 DEF ForkA, ForkB
  <2>2. k \in 1 .. k /\ m \in 1 .. m
    BY <1>4, <1>5
  <2>3. k \notin shared
    BY <1>7
  <2> HIDE DEF u, v, shared
  <2>4. ca[k] \notin ToSet(cb)
    BY <1>s, <1>4, <2>2, <2>3
  <2>5. ca[k] # cb[m]
    BY <1>6, <2>2, <2>4
  <2>6. u \in Line(st, a) /\ v \in Line(st, b)
    BY <1>3, <1>6, <2>1, <2>2
  <2>7. OriginOf(st, u) = OriginOf(st, v)
    BY <1>1, <1>2, <2>1
  <2> QED
    BY <2>1, <2>5, <2>6, <2>7 DEF u, v, ca, cb
<1>8. CASE shared # {}
  <2>1. u = ca[meetA - 1] /\ v = cb[meetB - 1]
    BY <1>8 DEF ForkA, ForkB
  <2>2. shared \in SUBSET Nat
    BY <1>s, <1>4
  <2>3. \E i \in shared : \A j \in shared : i <= j
    BY <1>8, <2>2, NatLeast
  <2>4. meetA \in shared /\ \A j \in shared : meetA <= j
    BY <2>3 DEF MeetA
  <2>5. meetA \in 1 .. k /\ ca[meetA] \in ToSet(cb)
    BY <1>s, <1>4, <2>4
  <2>6. \E j \in DOMAIN cb : cb[j] = ca[meetA]
    BY <1>5, <1>6, <2>5
  <2>b. meetB = CHOOSE j \in DOMAIN cb : cb[j] = ca[meetA]
    BY DEF MeetB
  <2> HIDE DEF meetA, meetB
  <2>7. meetB \in 1 .. m /\ cb[meetB] = ca[meetA]
    BY <1>5, <2>6, <2>b
  <2>8. meetA # 1
    BY <1>3, <1>4, <2>5
  <2>9. meetB # 1
    <3>1. ca[meetA] \in ToSet(ca)
      BY <1>6, <2>5
    <3> QED
      BY <1>3, <1>5, <2>7, <3>1
  <2>10. ca[meetA - 1] \notin ToSet(cb)
    <3>1. meetA - 1 \in DOMAIN ca /\ ~(meetA <= meetA - 1)
      BY <1>4, <2>5, <2>8
    <3>2. meetA - 1 \notin shared
      BY <2>4, <3>1
    <3> QED
      BY <1>s, <3>1, <3>2
  <2> HIDE DEF u, v, shared
  <2>11. PICK i \in 1 .. (k - 1) : i = meetA - 1
    BY <1>4, <2>5, <2>8
  <2>12. PICK j \in 1 .. (m - 1) : j = meetB - 1
    BY <1>5, <2>7, <2>9
  <2>13. /\ i \in 1 .. k /\ j \in 1 .. m /\ i + 1 = meetA /\ j + 1 = meetB
         /\ u = ca[i] /\ v = cb[j]
    BY <1>4, <1>5, <2>1, <2>5, <2>7, <2>11, <2>12
  <2>14. OriginOf(st, u) = OriginOf(st, v)
    BY <1>4, <1>5, <2>7, <2>11, <2>12, <2>13
  <2>15. u \in Line(st, a) /\ v \in Line(st, b)
    BY <1>3, <1>6, <2>13
  <2>16. u # v
    BY <1>3, <2>1, <2>10, <2>15
  <2> QED
    BY <2>14, <2>15, <2>16 DEF u, v, ca, cb
<1> QED
  BY <1>7, <1>8

\* sorts_right_of decides the order.
LEMMA SortsIs ==
  ASSUME NEW st, NEW a, NEW b, Orderly(st, a), Orderly(st, b)
  PROVE  /\ SortsRightOf(st, a, b) => a = b \/ LeftOf(st, a, b)
         /\ ~SortsRightOf(st, a, b) => LeftOf(st, b, a)
<1> DEFINE ca == Chain(st, a)
           cb == Chain(st, b)
           u == ForkA(ca, cb)
           v == ForkB(ca, cb)
<1>1. Line(st, a) = ToSet(ca) /\ Line(st, b) = ToSet(cb)
  BY DEF Line
<1>2. SortsRightOf(st, a, b) <=>
        \/ a \in ToSet(cb)
        \/ a \notin ToSet(cb) /\ b \notin ToSet(ca) /\ IdLess(u, v)
  <2> DEFINE c == IF Meets(ca, cb) = {} THEN IdLess(ca[Len(ca)], cb[Len(cb)])
                  ELSE IdLess(ca[MeetA(ca, cb) - 1], cb[MeetB(ca, cb) - 1])
  <2>1. SortsRightOf(st, a, b) <=>
          \/ a \in ToSet(cb)
          \/ a \notin ToSet(cb) /\ b \notin ToSet(ca) /\ c
    BY Zenon DEF SortsRightOf, Meets, MeetA, MeetB
  <2>2. c <=> IdLess(u, v)
    BY Zenon DEF ForkA, ForkB
  <2> HIDE DEF c, ca, cb, u, v
  <2> QED
    BY <2>1, <2>2
<1>3. ASSUME a \notin Line(st, b), b \notin Line(st, a)
      PROVE  /\ u \in Line(st, a) /\ v \in Line(st, b) /\ u # v
             /\ OriginOf(st, u) = OriginOf(st, v)
  BY <1>3, ChainsMeet, Zenon
<1> HIDE DEF ca, cb, u, v
<1>4. Line(st, a) \subseteq Ids /\ Line(st, b) \subseteq Ids
  BY DEF Orderly
<1>5. ASSUME a \notin Line(st, b), b \notin Line(st, a)
      PROVE  /\ IdLess(u, v) => LeftOf(st, a, b)
             /\ ~IdLess(u, v) => LeftOf(st, b, a)
  <2>1. u \in Ids /\ v \in Ids /\ (IdLess(u, v) \/ IdLess(v, u))
    BY <1>3, <1>4, <1>5, IdsOrdered
  <2> QED
    BY <1>3, <1>5, <2>1 DEF LeftOf, Beside
<1>6. a \in Line(st, b) => a = b \/ LeftOf(st, a, b)
  BY DEF LeftOf
<1>7. b \in Line(st, a) /\ a \notin Line(st, b) => LeftOf(st, b, a)
  <2>1. a \in Line(st, a)
    BY LineIs DEF Orderly
  <2> QED
    BY <2>1 DEF LeftOf
<1> QED
  BY <1>1, <1>2, <1>5, <1>6, <1>7

-----------------------------------------------------------------------------
(* Lines in a store that grows.                                            *)

\* A store in which every left origin is found.
WellStored(st) ==
  /\ st \in Stores /\ Sorted(st)
  /\ \A c \in Clients : \A i \in DOMAIN st[c] :
       st[c][i].origin_left # NoId => Has(st, st[c][i].origin_left)

\* All items of st are in u, perhaps as placeholders.
Within(st, u) ==
  \A c \in Clients : \A i \in DOMAIN st[c] :
    i \in DOMAIN u[c] /\ Core(u[c][i]) = Core(st[c][i])

LEMMA FoundIs ==
  ASSUME NEW st \in Stores, Sorted(st), NEW y \in Ids, NEW c, c = y[1],
         NEW m \in DOMAIN st[c], Covers(st[c][m], y)
  PROVE  Has(st, y) /\ Find(st, y) = st[c][m]
<1>1. c \in Clients /\ y # NoId
  BY DEF Ids, Covers
<1>2. Has(st, y)
  BY <1>1 DEF Has
<1>3. PICK j \in DOMAIN st[y[1]] : Find(st, y) = st[y[1]][j] /\ Covers(st[y[1]][j], y)
  BY <1>1, <1>2, FindStored
<1>4. j = m
  BY <1>1, <1>3, Apart
<1> QED
  BY <1>2, <1>3, <1>4

\* Where an item's left origin points.
LEMMA OriginIs ==
  ASSUME NEW st, WellStored(st), NEW c \in Clients, NEW i \in DOMAIN st[c]
  PROVE  LET ol == st[c][i].origin_left IN
         /\ Find(st, st[c][i].id) = st[c][i]
         /\ ol = NoId => OriginOf(st, st[c][i].id) = NoId
         /\ ol # NoId => \E d \in Clients : \E m \in DOMAIN st[d] :
              /\ d = ol[1] /\ ol \in Ids /\ Covers(st[d][m], ol)
              /\ OriginOf(st, st[c][i].id) = st[d][m].id
<1> DEFINE it == st[c][i]
           ol == it.origin_left
<1>1. st \in Stores /\ Sorted(st)
  BY DEF WellStored
<1>2. it \in Items /\ it.id \in Ids /\ Covers(it, it.id) /\ it.id[1] = c
  BY <1>1, EntryIs DEF Sorted, Client
<1>3. ol \in Ids \cup {NoId}
  BY <1>2 DEF Items, OptIds
<1>f. Find(st, it.id) = it
  <2>1. PICK y \in Ids : y = it.id
    BY <1>2
  <2>2. c = y[1] /\ Covers(st[c][i], y)
    BY <1>2, <2>1
  <2> QED
    BY <1>1, <2>1, <2>2, FoundIs
<1>4. OriginOf(st, it.id) = IF ol # NoId /\ Has(st, ol) THEN Find(st, ol).id ELSE NoId
  BY <1>f DEF OriginOf
<1>5. ASSUME ol # NoId
      PROVE  \E d \in Clients : \E m \in DOMAIN st[d] :
               /\ d = ol[1] /\ ol \in Ids /\ Covers(st[d][m], ol)
               /\ OriginOf(st, it.id) = st[d][m].id
  <2>1. ol \in Ids /\ Has(st, ol)
    BY <1>3, <1>5 DEF WellStored
  <2>2. PICK d \in Clients : d = ol[1]
    BY <2>1 DEF Ids
  <2>3. PICK m \in DOMAIN st[ol[1]] : Find(st, ol) = st[ol[1]][m] /\ Covers(st[ol[1]][m], ol)
    BY <1>1, <2>1, <2>2, FindStored
  <2> QED
    BY <1>4, <1>5, <2>1, <2>2, <2>3
<1> QED
  BY <1>4, <1>5, <1>f

LEMMA OriginExact ==
  ASSUME NEW st, WellStored(st), NEW x, Exact(st, x)
  PROVE  OriginOf(st, x) = NoId \/ Exact(st, OriginOf(st, x))
<1>1. st \in Stores /\ Sorted(st)
  BY DEF WellStored
<1>2. PICK c \in Clients : \E i \in DOMAIN st[c] : st[c][i].id = x
  BY DEF Exact, Ids
<1>3. PICK i \in DOMAIN st[c] : st[c][i].id = x
  BY <1>2
<1>4. CASE st[c][i].origin_left = NoId
  BY <1>3, <1>4, OriginIs
<1>5. CASE st[c][i].origin_left # NoId
  <2>1. PICK d \in Clients : \E m \in DOMAIN st[d] : OriginOf(st, x) = st[d][m].id
    BY <1>3, <1>5, OriginIs
  <2>2. PICK m \in DOMAIN st[d] : OriginOf(st, x) = st[d][m].id
    BY <2>1
  <2> QED
    BY <1>1, <2>2, ExactIs
<1> QED
  BY <1>4, <1>5

LEMMA LineExact ==
  ASSUME NEW st, WellStored(st), NEW x, Exact(st, x), NEW y \in Line(st, x)
  PROVE  Exact(st, y)
<1>1. x # NoId
  BY ExactFound DEF WellStored
<1>2. PICK k \in 1 .. MaxOriginChain :
        /\ Climbs(st, x, Chain(st, x), k) /\ Len(Chain(st, x)) = k
        /\ k < MaxOriginChain => OriginOf(st, Chain(st, x)[k]) = NoId
        /\ Chain(st, x) = [ i \in 1 .. k |-> Chain(st, x)[i] ]
  BY <1>1, ChainClimbs
<1> DEFINE c == Chain(st, x)
           Bad == { i \in Nat : i \in 1 .. k /\ ~Exact(st, c[i]) }
<1>n. k \in Nat
  BY MaxOriginChainAssumption
<1>3. /\ DOMAIN c = 1 .. k /\ c[1] = x
      /\ \A i \in 1 .. k : c[i] # NoId
      /\ \A i \in 1 .. (k - 1) : c[i + 1] = OriginOf(st, c[i])
  BY <1>2, Zenon DEF Climbs
<1>4. PICK j \in 1 .. k : y = c[j]
  BY <1>3 DEF Line, ToSet
<1> HIDE DEF c
<1>5. Bad = {}
  <2> SUFFICES ASSUME Bad # {} PROVE FALSE
    OBVIOUS
  <2>1. PICK i \in Bad : \A n \in Bad : i <= n
    BY NatLeast
  <2>2. i # 1
    BY <1>3, <2>1
  <2>3. PICK n \in 1 .. (k - 1) : i = n + 1
    <3>1. i - 1 \in 1 .. (k - 1) /\ i = (i - 1) + 1
      BY <1>n, <1>3, <2>1, <2>2
    <3> QED
      BY <3>1
  <2>4. n \in 1 .. k /\ n \in Nat /\ n \notin Bad
    BY <1>n, <2>1, <2>3
  <2>5. Exact(st, c[n])
    BY <2>4
  <2>6. PICK w : w = c[n]
    OBVIOUS
  <2>7. OriginOf(st, w) = NoId \/ Exact(st, OriginOf(st, w))
    BY <2>5, <2>6, OriginExact
  <2>8. c[n + 1] = OriginOf(st, w) /\ c[i] # NoId
    BY <1>3, <2>1, <2>3, <2>6
  <2> QED
    BY <2>1, <2>3, <2>7, <2>8
<1> QED
  BY <1>n, <1>4, <1>5

LEMMA OriginKept ==
  ASSUME NEW st, NEW u, WellStored(st), WellStored(u), Within(st, u),
         NEW x, Exact(st, x)
  PROVE  Exact(u, x) /\ OriginOf(u, x) = OriginOf(st, x)
<1>1. u \in Stores /\ Sorted(u) /\ st \in Stores /\ Sorted(st)
  BY DEF WellStored
<1>2. PICK c \in Clients : \E i \in DOMAIN st[c] : st[c][i].id = x
  BY DEF Exact, Ids
<1>3. PICK i \in DOMAIN st[c] : st[c][i].id = x
  BY <1>2
<1>4. i \in DOMAIN u[c] /\ Core(u[c][i]) = Core(st[c][i])
  BY DEF Within
<1>5. u[c][i].id = x /\ u[c][i].origin_left = st[c][i].origin_left
  BY <1>3, <1>4 DEF Core
<1>6. Exact(u, x)
  BY <1>1, <1>4, <1>5, ExactIs
<1>7. CASE st[c][i].origin_left = NoId
  <2>1. OriginOf(st, x) = NoId
    BY <1>3, <1>7, OriginIs
  <2>2. OriginOf(u, x) = NoId
    BY <1>4, <1>5, <1>7, OriginIs
  <2> QED
    BY <1>6, <2>1, <2>2
<1>8. CASE st[c][i].origin_left # NoId
  <2> DEFINE ol == st[c][i].origin_left
  <2>1. PICK d \in Clients : \E m \in DOMAIN st[d] :
          d = ol[1] /\ ol \in Ids /\ Covers(st[d][m], ol) /\ OriginOf(st, x) = st[d][m].id
    BY <1>3, <1>8, OriginIs
  <2>2. PICK m \in DOMAIN st[d] :
          d = ol[1] /\ ol \in Ids /\ Covers(st[d][m], ol) /\ OriginOf(st, x) = st[d][m].id
    BY <2>1
  <2>3. PICK e \in Clients : \E n \in DOMAIN u[e] :
          e = ol[1] /\ Covers(u[e][n], ol) /\ OriginOf(u, x) = u[e][n].id
    BY <1>4, <1>5, <1>8, OriginIs
  <2>4. PICK n \in DOMAIN u[e] :
          e = ol[1] /\ Covers(u[e][n], ol) /\ OriginOf(u, x) = u[e][n].id
    BY <2>3
  <2> HIDE DEF ol
  <2>5. m \in DOMAIN u[d] /\ Core(u[d][m]) = Core(st[d][m])
    BY <2>2 DEF Within
  <2>6. Covers(u[d][m], ol) /\ u[d][m].id = st[d][m].id
    BY <2>2, <2>5 DEF Core, Covers, End
  <2>7. d = e /\ m = n
    BY <1>1, <2>2, <2>4, <2>5, <2>6, Apart
  <2> QED
    BY <1>6, <2>2, <2>4, <2>6, <2>7
<1> QED
  BY <1>7, <1>8

LEMMA LineKept ==
  ASSUME NEW st, NEW u, WellStored(st), WellStored(u), Within(st, u),
         NEW x, Exact(st, x), Full(st, x)
  PROVE  Full(u, x) /\ Line(u, x) = Line(st, x)
<1>1. PICK k \in 1 .. MaxOriginChain :
        /\ Climbs(st, x, Chain(st, x), k) /\ Len(Chain(st, x)) = k
        /\ OriginOf(st, Chain(st, x)[k]) = NoId
  BY FullChain
<1>2. PICK c : c = Chain(st, x)
  OBVIOUS
<1>3. DOMAIN c = 1 .. k /\ Line(st, x) = { c[i] : i \in 1 .. k } /\ k \in 1 .. k
  BY <1>1, <1>2, LineIs, MaxOriginChainAssumption DEF Climbs
<1>4. ASSUME NEW i \in 1 .. k PROVE OriginOf(u, c[i]) = OriginOf(st, c[i])
  <2>1. PICK y \in Line(st, x) : y = c[i]
    BY <1>3
  <2>2. Exact(st, y)
    BY LineExact
  <2> QED
    BY <2>1, <2>2, OriginKept
<1>5. Climbs(st, x, c, k) /\ OriginOf(st, c[k]) = NoId
  BY <1>1, <1>2
<1>6. /\ Len(Chain(u, x)) = k /\ DOMAIN Chain(u, x) = 1 .. k
      /\ \A i \in 1 .. k : Chain(u, x)[i] = c[i]
  BY <1>4, <1>5, ClimbIsChain
<1>7. x # NoId
  BY DEF Full
<1>8. Full(u, x)
  <2>1. OriginOf(u, Chain(u, x)[k]) = NoId
    BY <1>3, <1>4, <1>5, <1>6
  <2> QED
    BY <1>6, <1>7, <2>1 DEF Full
<1>9. Line(u, x) = { Chain(u, x)[i] : i \in 1 .. k }
  BY <1>6 DEF Line, ToSet
<1> QED
  BY <1>3, <1>6, <1>8, <1>9

LEMMA OrderKept ==
  ASSUME NEW st, NEW u, WellStored(st), WellStored(u), Within(st, u),
         NEW x, Exact(st, x), Full(st, x), NEW y, Exact(st, y), Full(st, y)
  PROVE  LeftOf(u, x, y) <=> LeftOf(st, x, y)
<1>1. Line(u, x) = Line(st, x) /\ Line(u, y) = Line(st, y)
  BY LineKept
<1>2. \A a \in Line(st, x) : OriginOf(u, a) = OriginOf(st, a)
  BY LineExact, OriginKept
<1>3. \A a \in Line(st, y) : OriginOf(u, a) = OriginOf(st, a)
  BY LineExact, OriginKept
<1> QED
  BY <1>1, <1>2, <1>3 DEF LeftOf, Beside

LEMMA ExactOrderly ==
  ASSUME NEW st, WellStored(st), NEW x, Exact(st, x), Full(st, x)
  PROVE  Orderly(st, x)
BY LineExact DEF Orderly, Exact

-----------------------------------------------------------------------------
(* The head of a key.                                                      *)

\* x is the id of a value of key k.
IsValue(st, k, x) ==
  \E c \in Clients : \E i \in DOMAIN st[c] :
    st[c][i].id = x /\ st[c][i].parent = k /\ st[c][i].content_kind = "string"

\* The chains of the values of k are not cut.
Fits(st, k) == \A x : IsValue(st, k, x) => Full(st, x)

\* h is the last value of k in the order, though perhaps a placeholder.
TopAt(st, k, h) ==
  /\ h # NoId => Exact(st, h) /\ Full(st, h)
  /\ \A x : IsValue(st, k, x) => h # NoId /\ (x = h \/ LeftOf(st, x, h))

\* The head after x is installed where h was the head.
Heads(u, h, x) == IF h = NoId \/ SortsRightOf(u, h, x) THEN x ELSE h

LEMMA ValueExact ==
  ASSUME NEW st, WellStored(st), NEW k, NEW x, IsValue(st, k, x)
  PROVE  Exact(st, x)
BY ExactIs DEF IsValue, WellStored

\* In a store that grows without a new value the top stays.
LEMMA TopGrows ==
  ASSUME NEW st, NEW u, WellStored(st), WellStored(u), Within(st, u),
         NEW k, Fits(st, k), NEW h, TopAt(st, k, h),
         \A x : IsValue(u, k, x) => IsValue(st, k, x)
  PROVE  TopAt(u, k, h)
<1>1. h # NoId => Exact(u, h) /\ Full(u, h)
  BY OriginKept, LineKept DEF TopAt
<1>2. ASSUME NEW x, IsValue(u, k, x)
      PROVE  h # NoId /\ (x = h \/ LeftOf(u, x, h))
  <2>1. IsValue(st, k, x) /\ Exact(st, x) /\ Full(st, x)
    BY <1>2, ValueExact DEF Fits
  <2>2. h # NoId /\ Exact(st, h) /\ Full(st, h) /\ (x = h \/ LeftOf(st, x, h))
    BY <2>1 DEF TopAt
  <2> QED
    BY <2>1, <2>2, OrderKept
<1> QED
  BY <1>1, <1>2 DEF TopAt

\* The values of a store with one more item.
LEMMA AppendValues ==
  ASSUME NEW st \in Stores, NEW it \in Items
  PROVE  /\ Within(st, Appended(st, it))
         /\ \A k, x : IsValue(Appended(st, it), k, x) =>
              \/ IsValue(st, k, x)
              \/ x = it.id /\ it.parent = k /\ it.content_kind = "string"
<1>1. Within(st, Appended(st, it))
  BY AppendStored DEF Within
<1>2. ASSUME NEW k, NEW x, IsValue(Appended(st, it), k, x)
      PROVE  \/ IsValue(st, k, x)
             \/ x = it.id /\ it.parent = k /\ it.content_kind = "string"
  <2> DEFINE u == Appended(st, it)
  <2>1. PICK c \in Clients : \E i \in DOMAIN u[c] :
          u[c][i].id = x /\ u[c][i].parent = k /\ u[c][i].content_kind = "string"
    BY <1>2 DEF IsValue
  <2>2. PICK i \in DOMAIN u[c] :
          u[c][i].id = x /\ u[c][i].parent = k /\ u[c][i].content_kind = "string"
    BY <2>1
  <2>3. (i \in DOMAIN st[c] /\ u[c][i] = st[c][i]) \/ u[c][i] = it
    BY AppendEntry
  <2> HIDE DEF u
  <2> QED
    BY <2>2, <2>3 DEF IsValue
<1> QED
  BY <1>1, <1>2

LEMMA AppendedValue ==
  ASSUME NEW st \in Stores, NEW it \in Items, it.content_kind = "string"
  PROVE  IsValue(Appended(st, it), it.parent, it.id)
<1>1. Client(it) \in Clients
  BY ItemIds
<1>2. st[Client(it)] \in Seq(Items)
  BY <1>1 DEF Stores
<1>3. Appended(st, it)[Client(it)] = Append(st[Client(it)], it)
  BY <1>1, AppendStored
<1>4. /\ Len(st[Client(it)]) + 1 \in DOMAIN Append(st[Client(it)], it)
      /\ Append(st[Client(it)], it)[Len(st[Client(it)]) + 1] = it
  BY <1>2, AppendProperties
<1> QED
  BY <1>1, <1>3, <1>4 DEF IsValue

\* A new value becomes the top unless the old top sorts right of it
\* (install_into_map).
LEMMA TopInstall ==
  ASSUME NEW st, NEW it \in Items, NEW u, u = Appended(st, it),
         WellStored(st), WellStored(u), NEW k, Fits(st, k), Full(u, it.id),
         NEW h, TopAt(st, k, h)
  PROVE  TopAt(u, k, Heads(u, h, it.id))
<1> DEFINE y == it.id
           h2 == Heads(u, h, y)
<1>h. /\ h = NoId => h2 = y
      /\ h # NoId /\ SortsRightOf(u, h, y) => h2 = y
      /\ h # NoId /\ ~SortsRightOf(u, h, y) => h2 = h
  BY Zenon DEF Heads
<1>0. st \in Stores /\ Within(st, u)
  BY AppendValues DEF WellStored
<1>1. Exact(u, y) /\ Full(u, y)
  BY <1>0, AppendedExact
<1>2. ASSUME NEW x, IsValue(u, k, x) PROVE IsValue(st, k, x) \/ x = y
  BY <1>0, <1>2, AppendValues
<1> SUFFICES TopAt(u, k, h2)
  BY DEF y, h2
<1> HIDE DEF y, h2
<1>3. CASE h = NoId
  <2>1. h2 = y
    BY <1>3, <1>h
  <2>2. y # NoId
    BY <1>1 DEF Full
  <2>3. ASSUME NEW x, IsValue(u, k, x) PROVE x = y
    BY <1>2, <1>3, <2>3 DEF TopAt
  <2> QED
    BY <1>1, <2>1, <2>2, <2>3 DEF TopAt
<1>4. CASE h # NoId
  <2>1. Exact(st, h) /\ Full(st, h)
    BY <1>4 DEF TopAt
  <2>2. Exact(u, h) /\ Full(u, h)
    BY <1>0, <2>1, OriginKept, LineKept
  <2>3. Orderly(u, h) /\ Orderly(u, y)
    BY <1>1, <2>2, ExactOrderly
  <2>4. ASSUME NEW x, IsValue(st, k, x)
        PROVE  Orderly(u, x) /\ (x = h \/ LeftOf(u, x, h))
    <3>1. Exact(st, x) /\ Full(st, x)
      BY <2>4, ValueExact DEF Fits
    <3>2. Exact(u, x) /\ Full(u, x)
      BY <1>0, <3>1, OriginKept, LineKept
    <3>3. x = h \/ LeftOf(st, x, h)
      BY <2>4 DEF TopAt
    <3> QED
      BY <1>0, <2>1, <3>1, <3>2, <3>3, ExactOrderly, OrderKept
  <2>5. CASE SortsRightOf(u, h, y)
    <3>1. h2 = y /\ y # NoId /\ (h = y \/ LeftOf(u, h, y))
      BY <1>1, <1>4, <1>h, <2>3, <2>5, SortsIs DEF Full
    <3>2. ASSUME NEW x, IsValue(u, k, x) PROVE x = y \/ LeftOf(u, x, y)
      BY <1>2, <2>3, <2>4, <3>1, <3>2, LeftTransitive
    <3> QED
      BY <1>1, <3>1, <3>2 DEF TopAt
  <2>6. CASE ~SortsRightOf(u, h, y)
    <3>1. h2 = h /\ LeftOf(u, y, h)
      BY <1>4, <1>h, <2>3, <2>6, SortsIs
    <3>2. ASSUME NEW x, IsValue(u, k, x) PROVE x = h \/ LeftOf(u, x, h)
      BY <1>2, <2>4, <3>1, <3>2
    <3> QED
      BY <1>4, <2>2, <3>1, <3>2 DEF TopAt
  <2> QED
    BY <2>5, <2>6
<1> QED
  BY <1>3, <1>4

\* No chain is cut: no key is overwritten in a row so often that walking its
\* chain meets kMaxOriginChain.
ChainsFit ==
  \A p \in Clients, k \in Keys : \A it \in OfKey(p, k) : Full(store[p], it.id)

HeadTop == \A p \in Clients, k \in Keys : TopAt(store[p], k, head[p][k])

WellKept == \A p \in Clients : WellStored(store[p])
KeysFit == \A p \in Clients, k \in Keys : Fits(store[p], k)

LEMMA StoreWell == IInv => WellKept
<1> SUFFICES ASSUME DocOK, History, NEW p \in Clients
             PROVE  WellStored(store[p])
  BY InvariantParts DEF WellKept
<1>2. store[p] \in Stores /\ Sorted(store[p])
  BY StoreSorted
<1>3. ASSUME NEW c \in Clients, NEW i \in DOMAIN store[p][c],
             store[p][c][i].origin_left # NoId
      PROVE  Has(store[p], store[p][c][i].origin_left)
  <2>1. store[p][c][i] \in Stored(store[p])
    BY <1>2 DEF Stored, Stores, ToSet
  <2> QED
    BY <1>3, <2>1 DEF History, OriginsStored
<1> QED
  BY <1>2, <1>3 DEF WellStored

LEMMA ValueOfKey ==
  ASSUME NEW p \in Clients, store[p] \in Stores, NEW k
  PROVE  \A x : IsValue(store[p], k, x) <=> x \in { it.id : it \in OfKey(p, k) }
<1>1. ASSUME NEW x, IsValue(store[p], k, x) PROVE \E it \in OfKey(p, k) : x = it.id
  <2>1. PICK c \in Clients : \E i \in DOMAIN store[p][c] :
          /\ store[p][c][i].id = x /\ store[p][c][i].parent = k
          /\ store[p][c][i].content_kind = "string"
    BY <1>1 DEF IsValue
  <2>2. PICK i \in DOMAIN store[p][c] :
          /\ store[p][c][i].id = x /\ store[p][c][i].parent = k
          /\ store[p][c][i].content_kind = "string"
    BY <2>1
  <2>3. store[p][c][i] \in Stored(store[p])
    BY DEF Stored, Stores, ToSet
  <2> QED
    BY <2>2, <2>3 DEF OfKey
<1>2. ASSUME NEW it \in OfKey(p, k) PROVE IsValue(store[p], k, it.id)
  <2>1. it \in Stored(store[p]) /\ it.parent = k /\ it.content_kind = "string"
    BY DEF OfKey
  <2>2. \E c \in Clients : \E i \in DOMAIN store[p][c] : it = store[p][c][i]
    BY <2>1, StoredItem
  <2> QED
    BY <2>1, <2>2 DEF IsValue
<1> QED
  BY <1>1, <1>2

LEMMA KeysFitIs == IInv /\ ChainsFit => KeysFit
<1> SUFFICES ASSUME IInv, ChainsFit, NEW p \in Clients, NEW k \in Keys,
                    NEW x, IsValue(store[p], k, x)
             PROVE  Full(store[p], x)
  BY DEF KeysFit, Fits
<1>1. store[p] \in Stores
  BY StoreWell DEF WellKept, WellStored
<1>2. x \in { it.id : it \in OfKey(p, k) }
  BY <1>1, ValueOfKey
<1>3. PICK it \in OfKey(p, k) : x = it.id
  BY <1>2
<1> QED
  BY <1>3 DEF ChainsFit

\* An item is installed.
LEMMA ExtendHead ==
  ASSUME DocOK, WellKept, WellKept', KeysFit, KeysFit', HeadTop,
         NEW p \in Clients, NEW it, Extends(p, it)
  PROVE  HeadTop'
<1>1. /\ it \in Items /\ Installs(p, it) /\ StoreItem(p, it)
  BY DEF Extends
<1>2. /\ store'[p] = Appended(store[p], it)
      /\ \A q \in Clients \ {p} : store'[q] = store[q]
  BY <1>1 DEF StoreItem, DocOK
<1>3. \A q \in Clients : WellStored(store[q]) /\ WellStored(store'[q])
  BY DEF WellKept
<1>h. head \in [Clients -> [Keys -> OptIds]]
  BY DEF DocOK
<1>5. ASSUME NEW q \in Clients, NEW k \in Keys,
             ~(q = p /\ IsMapValue(it) /\ k = it.parent), head'[q][k] = head[q][k]
      PROVE  TopAt(store'[q], k, head'[q][k])
  <2>1. TopAt(store[q], k, head[q][k]) /\ Fits(store[q], k)
    BY DEF HeadTop, KeysFit
  <2>2. CASE q # p
    BY <1>2, <1>5, <2>1, <2>2
  <2>3. CASE q = p
    <3>1. store[p] \in Stores
      BY <1>3 DEF WellStored
    <3>2. Within(store[p], store'[p])
      BY <1>1, <1>2, <3>1, AppendValues
    <3>3. ~(it.parent = k /\ it.content_kind = "string")
      BY <1>5, <2>3 DEF IsMapValue
    <3>4. ASSUME NEW x, IsValue(store'[p], k, x) PROVE IsValue(store[p], k, x)
      BY <1>1, <1>2, <3>1, <3>3, <3>4, AppendValues
    <3> QED
      BY <1>3, <1>5, <2>1, <2>3, <3>2, <3>4, TopGrows
  <2> QED
    BY <2>2, <2>3
<1>4. CASE IsMapValue(it) /\ InstallIntoMap(p, it)
  <2> DEFINE k0 == it.parent
             h2 == Heads(store'[p], head[p][k0], it.id)
  <2>1. k0 \in Keys /\ it.content_kind = "string"
    BY <1>4 DEF IsMapValue
  <2>2. head' = [head EXCEPT ![p][k0] = h2]
    <3> DEFINE h0 == head[p][k0]
               u == store'[p]
    <3>1. \/ h0 = NoId /\ head' = [head EXCEPT ![p][k0] = it.id]
          \/ h0 # NoId /\ SortsRightOf(u, h0, it.id) /\ head' = [head EXCEPT ![p][k0] = it.id]
          \/ h0 # NoId /\ ~SortsRightOf(u, h0, it.id) /\ UNCHANGED head
      BY <1>2, <1>4, Zenon DEF InstallIntoMap
    <3>2. /\ h0 = NoId => h2 = it.id
          /\ h0 # NoId /\ SortsRightOf(u, h0, it.id) => h2 = it.id
          /\ h0 # NoId /\ ~SortsRightOf(u, h0, it.id) => h2 = h0
      BY Zenon DEF Heads
    <3>3. UNCHANGED head => head' = [head EXCEPT ![p][k0] = h0]
      BY <1>h, <2>1
    <3> HIDE DEF h0, u, h2, k0
    <3> QED
      BY <3>1, <3>2, <3>3, Zenon
  <2>3. /\ head'[p][k0] = h2
        /\ \A q \in Clients, k \in Keys : q # p \/ k # k0 => head'[q][k] = head[q][k]
    BY <1>h, <2>1, <2>2
  <2>4. TopAt(store'[p], k0, h2)
    <3>1. IsValue(store'[p], k0, it.id)
      BY <1>1, <1>2, <1>3, <2>1, AppendedValue DEF WellStored
    <3>2. Full(store'[p], it.id)
      BY <2>1, <3>1 DEF KeysFit, Fits
    <3>3. TopAt(store[p], k0, head[p][k0]) /\ Fits(store[p], k0)
      BY <2>1 DEF HeadTop, KeysFit
    <3> QED
      BY <1>1, <1>2, <1>3, <3>2, <3>3, TopInstall
  <2> HIDE DEF k0, h2
  <2>5. ASSUME NEW q \in Clients, NEW k \in Keys, q # p \/ k # k0
        PROVE  TopAt(store'[q], k, head'[q][k])
    BY <1>5, <2>3, <2>5 DEF k0
  <2> QED
    BY <2>3, <2>4, <2>5 DEF HeadTop
<1>6. CASE UNCHANGED head /\ ~IsMapValue(it)
  BY <1>5, <1>6 DEF HeadTop
<1>7. ASSUME IsMapValue(it) PROVE it.parent \notin Texts
  BY <1>7, ParentAssumption DEF IsMapValue
<1> QED
  BY <1>1, <1>4, <1>6, <1>7 DEF Installs, InstallIntoArray, FailToIntegrate, InstallBare

LEMMA CompactHead ==
  ASSUME DocOK, WellKept, WellKept', KeysFit, HeadTop, NEW p \in Clients, Compact(p)
  PROVE  HeadTop'
<1>2. UNCHANGED head /\ \A q \in Clients : SameButPayload(store[q], store'[q])
  BY CompactPayloads
<1>3. ASSUME NEW q \in Clients, NEW k \in Keys PROVE TopAt(store'[q], k, head'[q][k])
  <2>1. TopAt(store[q], k, head[q][k]) /\ Fits(store[q], k) /\ SameButPayload(store[q], store'[q])
    BY <1>2 DEF HeadTop, KeysFit
  <2>2. Within(store[q], store'[q])
    BY <2>1 DEF Within, SameButPayload
  <2>3. \A x : IsValue(store'[q], k, x) => IsValue(store[q], k, x)
    <3> SUFFICES ASSUME NEW x, IsValue(store'[q], k, x) PROVE IsValue(store[q], k, x)
      OBVIOUS
    <3>1. PICK c \in Clients : \E i \in DOMAIN store'[q][c] :
            /\ store'[q][c][i].id = x /\ store'[q][c][i].parent = k
            /\ store'[q][c][i].content_kind = "string"
      BY DEF IsValue
    <3>2. PICK i \in DOMAIN store'[q][c] :
            /\ store'[q][c][i].id = x /\ store'[q][c][i].parent = k
            /\ store'[q][c][i].content_kind = "string"
      BY <3>1
    <3>3. /\ i \in DOMAIN store[q][c] /\ store[q][c][i].id = x
          /\ store[q][c][i].parent = k /\ store[q][c][i].content_kind = "string"
      BY <2>1, <3>2 DEF SameButPayload, Core
    <3> QED
      BY <3>3 DEF IsValue
  <2>4. WellStored(store[q]) /\ WellStored(store'[q])
    BY DEF WellKept
  <2> QED
    BY <1>2, <2>1, <2>2, <2>3, <2>4, TopGrows
<1> QED
  BY <1>3 DEF HeadTop

LEMMA HeadStep ==
  ASSUME IInv, WellKept, WellKept', KeysFit, KeysFit', HeadTop, [Next]_vars
  PROVE  HeadTop'
<1>0. DocOK
  BY InvariantParts
<1>1. ASSUME UNCHANGED << store, head >> PROVE HeadTop'
  BY <1>1 DEF HeadTop
<1>2. ASSUME ApplyDeletes \/ \E p \in Clients : \E t \in Texts : \E i \in Nat : ArrayDeleteAt(p, t, i)
      PROVE  UNCHANGED << store, head >>
  BY <1>2 DEF ApplyDeletes, ArrayDeleteAt
<1> QED
  BY <1>0, <1>1, <1>2, StepKinds, ExtendHead, CompactHead DEF vars, docVars

-----------------------------------------------------------------------------
(* The head of a key is the rightmost item of its forest.                  *)

LEMMA ImageFinite ==
  ASSUME NEW D, IsFiniteSet(D), NEW f, DOMAIN f = D
  PROVE  IsFiniteSet({ f[x] : x \in D })
<1> DEFINE S == { f[x] : x \in D }
<1>2. [x \in D |-> f[x]] \in Surjection(D, S)
  BY DEF Surjection
<1> QED
  BY <1>2, FS_Surjection

LEMMA StoredFinite ==
  ASSUME NEW st \in Stores
  PROVE  IsFiniteSet(Stored(st))
<1> DEFINE F == [c \in Clients |-> ToSet(st[c])]
           S == { F[c] : c \in Clients }
<1>1. IsFiniteSet(Clients)
  BY ClientsAssumption
<1>2. IsFiniteSet(S)
  BY <1>1, ImageFinite
<1>3. ASSUME NEW c \in Clients PROVE IsFiniteSet(ToSet(st[c]))
  <2>1. st[c] \in Seq(Items) /\ DOMAIN st[c] = 1 .. Len(st[c]) /\ Len(st[c]) \in Nat
    BY DEF Stores
  <2>2. IsFiniteSet(DOMAIN st[c])
    BY <2>1, FS_Interval
  <2>3. IsFiniteSet({ st[c][i] : i \in DOMAIN st[c] })
    BY <2>2, ImageFinite
  <2> QED
    BY <2>3 DEF ToSet
<1>4. \A T \in S : IsFiniteSet(T)
  BY <1>3
<1>5. Stored(st) = UNION S
  BY DEF Stored, Stores
<1> HIDE DEF S
<1> QED
  BY <1>2, <1>4, <1>5, FS_UNION

\* The items of s and their origins.
Upward(st, s) == s \cup ({ OriginOf(st, y) : y \in s } \ {NoId})

\* The equation that the function of Lineage solves.
Upwards(st, x, m, f) ==
  f = [ n \in 1 .. m |-> IF n = 1 THEN {x} ELSE Upward(st, f[n - 1]) ]

LEMMA UpwardsSolvable ==
  ASSUME NEW st, NEW x, NEW m \in Nat
  PROVE  \E f : Upwards(st, x, m, f)
<1> DEFINE T == { n \in Nat : \E f : Upwards(st, x, n, f) }
<1>1. 0 \in T
  <2> DEFINE f == [ n \in 1 .. 0 |-> {x} ]
  <2>1. Upwards(st, x, 0, f)
    BY DEF Upwards
  <2> QED
    BY <2>1
<1>2. ASSUME NEW n \in Nat, n \in T PROVE n + 1 \in T
  <2>1. PICK f : Upwards(st, x, n, f)
    BY <1>2
  <2> DEFINE last == IF n = 0 THEN {x} ELSE Upward(st, f[n])
             g == [ i \in 1 .. (n + 1) |-> IF i = n + 1 THEN last ELSE f[i] ]
  <2>2. \A i \in 1 .. n : f[i] = IF i = 1 THEN {x} ELSE Upward(st, f[i - 1])
    BY <2>1 DEF Upwards
  <2>3. /\ g[n + 1] = last /\ \A i \in 1 .. n : g[i] = f[i]
        /\ g = [ i \in 1 .. (n + 1) |-> g[i] ]
    OBVIOUS
  <2>l. last = IF n = 0 THEN {x} ELSE Upward(st, f[n])
    OBVIOUS
  <2> HIDE DEF g, last
  <2>4. ASSUME NEW i \in 1 .. (n + 1)
        PROVE  g[i] = IF i = 1 THEN {x} ELSE Upward(st, g[i - 1])
    <3>1. CASE i = n + 1
      <4>1. CASE n = 0
        BY <2>3, <2>l, <3>1, <4>1
      <4>2. CASE n # 0
        <5>1. n \in 1 .. n /\ i - 1 = n /\ i # 1
          BY <3>1, <4>2
        <5> QED
          BY <2>3, <2>l, <3>1, <4>2, <5>1
      <4> QED
        BY <4>1, <4>2
    <3>2. CASE i # n + 1
      <4>1. i \in 1 .. n /\ (i # 1 => i - 1 \in 1 .. n)
        BY <3>2
      <4> QED
        BY <2>2, <2>3, <4>1
    <3> QED
      BY <3>1, <3>2
  <2>5. Upwards(st, x, n + 1, g)
    BY <2>3, <2>4 DEF Upwards
  <2> QED
    BY <2>5
<1>3. m \in T
  <2> HIDE DEF T
  <2> QED
    BY <1>1, <1>2, SetInduction
<1> QED
  BY <1>3

\* f[n] are x and the items at most n - 1 origins above it.
Ascent(p, x, m, f) ==
  /\ f[1] = {x}
  /\ \A n \in 1 .. (m - 1) : f[n + 1] = Upward(store[p], f[n])
  /\ Lineage(p, x) = f[m]

LEMMA LineageIs ==
  ASSUME NEW p, NEW x, NEW m, m = Cardinality(Stored(store[p])), m \in Nat, m >= 1
  PROVE  \E f : Ascent(p, x, m, f)
<1> DEFINE f == CHOOSE g : Upwards(store[p], x, m, g)
<1>1. Upwards(store[p], x, m, f)
  BY UpwardsSolvable
<1>2. Lineage(p, x) = f[m]
  BY Zenon DEF Lineage, Upwards, Upward
<1> HIDE DEF f
<1>3. \A n \in 1 .. m :
        f[n] = IF n = 1 THEN {x}
               ELSE Upward(store[p], f[n - 1])
  BY <1>1 DEF Upwards
<1>4. ASSUME NEW n \in 1 .. (m - 1)
      PROVE  f[n + 1] = Upward(store[p], f[n])
  <2>1. PICK i \in 1 .. m : i = n + 1
    OBVIOUS
  <2>2. i # 1 /\ i - 1 = n
    BY <2>1
  <2> QED
    BY <1>3, <2>1, <2>2
<1>5. f[1] = {x}
  BY <1>3
<1> QED
  BY <1>2, <1>4, <1>5 DEF Ascent

\* Going up from an item one stays on its line.
LEMMA LineageWithin ==
  ASSUME NEW p \in Clients, WellStored(store[p]), NEW x, Exact(store[p], x), Full(store[p], x)
  PROVE  x \in Lineage(p, x) /\ Lineage(p, x) \subseteq Line(store[p], x)
<1> DEFINE st == store[p]
           L == Line(st, x)
<1>1. PICK m : m = Cardinality(Stored(st))
  OBVIOUS
<1>2. m \in Nat /\ m >= 1
  <2>1. st \in Stores
    BY DEF WellStored
  <2>2. IsFiniteSet(Stored(st))
    BY <2>1, StoredFinite
  <2>3. Stored(st) # {}
    <3>1. PICK c \in Clients : \E i \in DOMAIN st[c] : st[c][i].id = x
      BY DEF Exact, Ids
    <3>2. PICK i \in DOMAIN st[c] : st[c][i].id = x
      BY <3>1
    <3>3. c \in DOMAIN st /\ st[c][i] \in ToSet(st[c])
      BY <2>1 DEF Stores, ToSet
    <3> QED
      BY <3>3 DEF Stored
  <2>4. m \in Nat /\ m # 0
    BY <1>1, <2>2, <2>3, FS_CardinalityType, FS_EmptySet
  <2> QED
    BY <2>4
<1>a. PICK f : Ascent(p, x, m, f)
  BY <1>1, <1>2, LineageIs
<1>3. /\ f[1] = {x}
      /\ \A n \in 1 .. (m - 1) : f[n + 1] = Upward(st, f[n])
      /\ Lineage(p, x) = f[m]
  BY <1>a DEF Ascent
<1>4. x \in L
  BY LineIs
<1>5. ASSUME NEW y \in L, OriginOf(st, y) # NoId PROVE OriginOf(st, y) \in L
  <2>1. Full(st, y) /\ Line(st, y) \subseteq L
    BY LineWithin
  <2>2. Full(st, OriginOf(st, y)) /\ Line(st, OriginOf(st, y)) \subseteq Line(st, y)
    BY <1>5, <2>1, LineOfOrigin
  <2> QED
    BY <2>1, <2>2, LineIs
<1> HIDE DEF L
<1> DEFINE T == { n \in Nat : n \in 1 .. m => x \in f[n] /\ f[n] \subseteq L }
<1>6. 0 \in T
  OBVIOUS
<1>7. ASSUME NEW n \in Nat, n \in T PROVE n + 1 \in T
  <2> SUFFICES ASSUME n + 1 \in 1 .. m
               PROVE  x \in f[n + 1] /\ f[n + 1] \subseteq L
    OBVIOUS
  <2>1. CASE n = 0
    BY <1>3, <1>4, <2>1
  <2>2. CASE n # 0
    <3>1. n \in 1 .. m /\ n \in 1 .. (m - 1)
      BY <1>2, <2>2
    <3>2. x \in f[n] /\ f[n] \subseteq L
      BY <1>7, <3>1
    <3>3. f[n + 1] = Upward(st, f[n])
      BY <1>3, <3>1
    <3> QED
      BY <1>5, <3>2, <3>3 DEF Upward
  <2> QED
    BY <2>1, <2>2
<1>8. m \in T
  <2> HIDE DEF T
  <2> QED
    BY <1>2, <1>6, <1>7, SetInduction
<1>9. x \in f[m] /\ f[m] \subseteq L
  BY <1>2, <1>8
<1> QED
  BY <1>3, <1>9 DEF L

LEMMA TopIsRightmost == WellKept /\ KeysFit /\ HeadTop => HeadIsRightmost
<1> SUFFICES ASSUME WellKept, KeysFit, HeadTop,
                    NEW p \in Clients, NEW k \in Keys, head[p][k] # NoId,
                    NEW it \in OfKey(p, k), it.id \notin Lineage(p, head[p][k])
             PROVE  /\ OriginOf(store[p], it.id) # head[p][k]
                    /\ \A x \in Lineage(p, head[p][k]) :
                         OriginOf(store[p], x) = OriginOf(store[p], it.id)
                         => IdLess(it.id, x)
  BY DEF HeadIsRightmost
<1> DEFINE st == store[p]
           h == head[p][k]
           y == it.id
           line == Lineage(p, h)
<1>1. /\ WellStored(st) /\ st \in Stores /\ Fits(st, k) /\ TopAt(st, k, h)
  BY DEF WellKept, WellStored, KeysFit, HeadTop
<1>2. IsValue(st, k, y)
  BY <1>1, ValueOfKey
<1>3. /\ Exact(st, h) /\ Full(st, h) /\ Exact(st, y) /\ Full(st, y)
      /\ y = h \/ LeftOf(st, y, h)
  BY <1>1, <1>2, ValueExact DEF TopAt, Fits
<1>4. Orderly(st, h) /\ Orderly(st, y)
  BY <1>1, <1>3, ExactOrderly
<1>5. h \in line /\ line \subseteq Line(st, h) /\ y \notin line
  BY <1>1, <1>3, LineageWithin
<1> HIDE DEF line, y, h, st
<1>6. LeftOf(st, y, h) /\ y # h
  BY <1>3, <1>5
<1>7. ~LeftOf(st, h, y)
  BY <1>4, <1>6, LeftTransitive, LeftIrreflexive
<1>8. Line(st, h) \subseteq Ids /\ y \in Line(st, y) /\ h \in Line(st, h) /\ y \in Ids
  BY <1>4, LineIs DEF Orderly
<1>9. OriginOf(st, y) # h
  <2> SUFFICES ASSUME OriginOf(st, y) = h PROVE FALSE
    OBVIOUS
  <2>1. h # NoId
    BY <1>3 DEF Full
  <2>2. h \in Line(st, y)
    BY <1>3, <1>8, <2>1, LineOfOrigin
  <2> QED
    BY <1>6, <1>7, <2>2 DEF LeftOf
<1>10. ASSUME NEW x \in line, OriginOf(st, x) = OriginOf(st, y) PROVE IdLess(y, x)
  <2>1. x \in Ids /\ x # y /\ x \in Line(st, h)
    BY <1>5, <1>8
  <2>2. ~IdLess(x, y)
    BY <1>7, <1>8, <1>10, <2>1 DEF LeftOf, Beside
  <2> QED
    BY <1>8, <2>1, <2>2, IdsOrdered
<1> QED
  BY <1>9, <1>10 DEF line, y, h, st

LEMMA InitHead == Init => HeadTop
<1> SUFFICES ASSUME Init, NEW p \in Clients, NEW k \in Keys
             PROVE  TopAt(store[p], k, head[p][k])
  BY DEF HeadTop
<1>1. head[p][k] = NoId /\ \A c \in Clients : DOMAIN store[p][c] = {}
  BY DEF Init
<1> QED
  BY <1>1 DEF TopAt, IsValue

\* As long as no chain is cut, the comparisons of two items add up to one
\* order: every head is the rightmost item of its key.
THEOREM HeadsAreRightmost == Spec /\ []ChainsFit => []HeadIsRightmost
<1>1. IInv => WellKept
  BY StoreWell
<1>2. IInv /\ ChainsFit => KeysFit
  BY KeysFitIs
<1>3. Init => HeadTop
  BY InitHead
<1>4. IInv /\ WellKept /\ WellKept' /\ KeysFit /\ KeysFit' /\ HeadTop /\ [Next]_vars
      => HeadTop'
  BY HeadStep
<1>5. WellKept /\ KeysFit /\ HeadTop => HeadIsRightmost
  BY TopIsRightmost
<1> QED
  BY Invariance, <1>1, <1>2, <1>3, <1>4, <1>5, PTL DEF Spec

-----------------------------------------------------------------------------
(* The root an item belongs to.                                            *)

\* The parent its author gave the item that x names.
Root(x) == Find(store[x[1]], x).parent

\* The origin whose parent an item takes (inherit_parent_from_origin).
Source(it) == IF it.origin_left # NoId THEN it.origin_left ELSE it.origin_right

\* An item, stored or on its way, belongs where its author put it, or has
\* lost its parent; it belongs where its origins do.
Rooted(it) ==
  /\ it.parent \in {Root(it.id), NoParent}
  /\ Root(it.id) # NoParent
  /\ it.content_kind = "string" /\ Source(it) = NoId => it.parent = Root(it.id)
  /\ Source(it) # NoId => Root(Source(it)) = Root(it.id)
  /\ Root(it.id) \in Keys => it.origin_right = NoId

StoredRooted ==
  \A p, c \in Clients : \A i \in DOMAIN store[p][c] : Rooted(store[p][c][i])

ShownRooted ==
  /\ \A p \in Clients, t \in Texts : \A x \in ToSet(list[p][t]) : Root(x) = t
  /\ \A p \in Clients, k \in Keys : head[p][k] # NoId => Root(head[p][k]) = k

SentRooted ==
  /\ job # NoJob => \A d \in job.todo : Rooted(d)
  /\ \A m \in msgs : \A d \in m.structs : Rooted(d)

AllRooted == StoredRooted /\ ShownRooted /\ SentRooted

\* What a document stores its author stores, at the same place.
LEMMA AuthorsEntry ==
  ASSUME DocOK, History, NEW p \in Clients, NEW c \in Clients,
         NEW i \in DOMAIN store[p][c], NEW x \in Ids, Covers(store[p][c][i], x)
  PROVE  /\ x[1] = c /\ i \in DOMAIN store[c][c] /\ Covers(store[c][c][i], x)
         /\ Core(store[c][c][i]) = Core(store[p][c][i])
         /\ Has(store[c], x) /\ Root(x) = store[c][c][i].parent
<1>1. i \in DOMAIN store[c][c] /\ Core(store[p][c][i]) = Core(store[c][c][i])
  BY DEF History, SameHistory
<1>2. Covers(store[c][c][i], x)
  BY <1>1 DEF Core, Covers, End
<1>3. x[1] = c
  BY DEF Covers, History, Dense, Client
<1>4. store[c] \in Stores /\ Sorted(store[c])
  BY StoreSorted
<1>5. Has(store[c], x) /\ Find(store[c], x) = store[c][c][i]
  BY <1>1, <1>2, <1>3, <1>4, FoundIs
<1> QED
  BY <1>1, <1>2, <1>3, <1>5 DEF Root

\* An id that a document can look up its author can look up.
LEMMA AuthorHas ==
  ASSUME DocOK, History, NEW p \in Clients, NEW x \in Ids, Has(store[p], x)
  PROVE  /\ x[1] \in Clients /\ Has(store[x[1]], x)
         /\ Find(store[p], x) \in Items /\ Root(x) = Root(Find(store[p], x).id)
         /\ \E i \in DOMAIN store[p][x[1]] : Find(store[p], x) = store[p][x[1]][i]
<1>1. x[1] \in Clients /\ store[p] \in Stores
  BY StoreSorted DEF Ids
<1>2. PICK i \in DOMAIN store[p][x[1]] :
        Find(store[p], x) = store[p][x[1]][i] /\ Covers(store[p][x[1]][i], x)
  BY <1>1, FindStored
<1>3. Find(store[p], x) \in Items /\ store[p][x[1]][i].id \in Ids
      /\ Covers(store[p][x[1]][i], store[p][x[1]][i].id)
  BY <1>1, <1>2, EntryIs
<1>4. Has(store[x[1]], x) /\ Root(x) = store[x[1]][x[1]][i].parent
  BY <1>1, <1>2, AuthorsEntry
<1>5. Root(store[p][x[1]][i].id) = store[x[1]][x[1]][i].parent
  BY <1>1, <1>3, AuthorsEntry
<1> QED
  BY <1>1, <1>2, <1>3, <1>4, <1>5

-----------------------------------------------------------------------------
(* Roots do not change.                                                    *)

\* No document loses an item or sees it altered, its parent included.
KeptRoots ==
  \A q, c \in Clients : \A i \in DOMAIN store[q][c] :
    /\ i \in DOMAIN store'[q][c]
    /\ Core(store'[q][c][i]) = Core(store[q][c][i])
    /\ store'[q][c][i].parent = store[q][c][i].parent

RootStays == \A x \in Ids : Has(store[x[1]], x) => Has(store'[x[1]], x) /\ Root(x)' = Root(x)

LEMMA RootsStay ==
  ASSUME DocOK, History, DocOK', History', KeptRoots
  PROVE  RootStays
<1> SUFFICES ASSUME NEW x \in Ids, Has(store[x[1]], x)
             PROVE  Has(store'[x[1]], x) /\ Root(x)' = Root(x)
  BY DEF RootStays
<1>c. PICK c \in Clients : c = x[1]
  BY DEF Ids
<1>1. store[c] \in Stores /\ store'[c] \in Stores /\ Sorted(store'[c])
  <2>1. store \in [Clients -> Stores] /\ store' \in [Clients -> Stores]
    BY DEF DocOK
  <2>2. Dense' /\ Ascending'
    BY DEF History
  <2> QED
    BY <2>1, <2>2 DEF Dense, Ascending, Sorted
<1>2. PICK i \in DOMAIN store[c][c] :
        Find(store[c], x) = store[c][c][i] /\ Covers(store[c][c][i], x)
  BY <1>1, <1>c, FindStored
<1>3. /\ i \in DOMAIN store'[c][c] /\ Core(store'[c][c][i]) = Core(store[c][c][i])
      /\ store'[c][c][i].parent = store[c][c][i].parent
  BY <1>2 DEF KeptRoots
<1>4. Covers(store'[c][c][i], x)
  BY <1>2, <1>3 DEF Core, Covers, End
<1> DEFINE st2 == store'[c]
<1>5. st2 \in Stores /\ Sorted(st2) /\ i \in DOMAIN st2[c] /\ Covers(st2[c][i], x)
  BY <1>1, <1>3, <1>4
<1> HIDE DEF st2
<1>6. Has(st2, x) /\ Find(st2, x) = st2[c][i]
  BY <1>5, <1>c, FoundIs
<1> QED
  BY <1>2, <1>3, <1>6, <1>c DEF Root, st2

LEMMA ExtendRoots ==
  ASSUME DocOK, NEW p \in Clients, NEW it, Extends(p, it)
  PROVE  KeptRoots
<1> SUFFICES ASSUME NEW q \in Clients, NEW c \in Clients, NEW i \in DOMAIN store[q][c]
             PROVE  i \in DOMAIN store'[q][c] /\ store'[q][c][i] = store[q][c][i]
  BY DEF KeptRoots
<1> DEFINE s == store[q][c]
           u == store'[q][c]
<1>1. s \in Seq(Items) /\ u \in Seq(Items)
  BY ExtendStore, VectorType DEF DocOK
<1>2. CASE q # p \/ c # Client(it)
  BY <1>2, ExtendStore
<1>3. CASE q = p /\ c = Client(it)
  <2>1. Len(u) = Len(s) + 1 /\ \A k \in 1 .. Len(s) : u[k] = s[k]
    BY <1>3, ExtendStore
  <2> QED
    BY <1>1, <2>1
<1> QED
  BY <1>2, <1>3

LEMMA CompactRoots ==
  ASSUME DocOK, NEW p \in Clients, Compact(p)
  PROVE  KeptRoots
BY CompactPayloads DEF KeptRoots, SameButPayload

\* What is known of an emitted item stays true of it.
LEMMA RootedStays ==
  ASSUME DocOK, History, RootStays, NEW it \in Items, Emitted(it), Rooted(it)
  PROVE  Rooted(it)' /\ Root(it.id)' = Root(it.id)
<1>c. PICK c \in Clients : c = Client(it)
  BY ItemIds
<1>1. PICK j \in DOMAIN store[c][c] : Core(it) = Core(store[c][c][j])
  BY <1>c DEF Emitted
<1>2. it.id \in Ids /\ Covers(it, it.id) /\ it.id[1] = c
  BY <1>c, ItemIds DEF Client
<1>3. Covers(store[c][c][j], it.id)
  BY <1>1, <1>2 DEF Core, Covers, End
<1>4. Has(store[c], it.id)
  BY <1>1, <1>2, <1>3, AuthorsEntry
<1>5. Root(it.id)' = Root(it.id)
  BY <1>2, <1>4 DEF RootStays
<1>6. ASSUME Source(it) # NoId
      PROVE  Root(Source(it))' = Root(Source(it))
  <2>1. store[c][c][j] \in Stored(store[c])
    BY <1>1 DEF Stored, ToSet, DocOK, Stores
  <2>2. Source(it) \in {store[c][c][j].origin_left, store[c][c][j].origin_right} \ {NoId}
    BY <1>1, <1>6 DEF Source, Core
  <2>3. Source(it) \in Ids /\ Has(store[c], Source(it))
    BY <1>6, <2>1, <2>2 DEF Source, Items, OptIds, History, OriginsStored
  <2>4. Has(store[Source(it)[1]], Source(it))
    BY <2>3, AuthorHas
  <2> QED
    BY <2>3, <2>4 DEF RootStays
<1> QED
  BY <1>5, <1>6 DEF Rooted, Source

-----------------------------------------------------------------------------
(* Every step keeps items where they belong.                               *)

\* What an install shows of the item: in the list or as the head of its
\* parent, if at all.
Shows(it) ==
  /\ \A q \in Clients, t \in Texts : \A x \in ToSet(list'[q][t]) :
       x \in ToSet(list[q][t]) \/ (x = it.id /\ it.parent = t)
  /\ \A q \in Clients, k \in Keys :
       head'[q][k] = head[q][k] \/ (head'[q][k] = it.id /\ it.parent = k)

LEMMA ExtendShows ==
  ASSUME DocOK, NEW p \in Clients, NEW it, Extends(p, it)
  PROVE  Shows(it)
<1>1. it \in Items /\ it.id \in Ids /\ Installs(p, it)
  BY ItemIds DEF Extends
<1>2. CASE UNCHANGED << list, head >>
  BY <1>2 DEF Shows
<1>3. ASSUME it.parent \in Keys, UNCHANGED list,
             head' = [head EXCEPT ![p][it.parent] = it.id]
      PROVE  Shows(it)
  <2>1. \A q \in Clients, k \in Keys :
          head'[q][k] = head[q][k] \/ (head'[q][k] = it.id /\ it.parent = k)
    BY <1>3 DEF DocOK
  <2> QED
    BY <1>3, <2>1 DEF Shows
<1>4. CASE IsMapValue(it) /\ InstallIntoMap(p, it)
  BY <1>2, <1>3, <1>4 DEF InstallIntoMap, IsMapValue
<1>5. ASSUME NEW t \in Texts, t = it.parent, NEW at \in 0 .. Len(list[p][t]),
             list' = [list EXCEPT ![p][t] = InsertAt(list[p][t], at + 1, it.id)],
             UNCHANGED head
      PROVE  Shows(it)
  <2>1. list[p][t] \in Seq(Ids)
    BY DEF DocOK
  <2>2. ToSet(InsertAt(list[p][t], at + 1, it.id)) \subseteq ToSet(list[p][t]) \cup {it.id}
    BY <1>1, <2>1, SpliceType
  <2>3. /\ list'[p][t] = InsertAt(list[p][t], at + 1, it.id)
        /\ \A q \in Clients, v \in Texts : q # p \/ v # t => list'[q][v] = list[q][v]
    BY <1>5 DEF DocOK
  <2> QED
    BY <1>5, <2>2, <2>3 DEF Shows
<1>6. CASE it.parent \in Texts /\ InstallIntoArray(p, it)
  <2>t. PICK t \in Texts : t = it.parent
    BY <1>6
  <2>1. /\ UNCHANGED head
        /\ \/ UNCHANGED list
           \/ \E at \in 0 .. Len(list[p][t]) :
                list' = [list EXCEPT ![p][t] = InsertAt(list[p][t], at + 1, it.id)]
    BY <1>6, <2>t DEF InstallIntoArray
  <2> QED
    BY <1>2, <1>5, <2>t, <2>1
<1>7. CASE FailToIntegrate(p, it) \/ InstallBare(p, it)
  BY <1>2, <1>7 DEF FailToIntegrate, InstallBare
<1> QED
  BY <1>1, <1>4, <1>6, <1>7 DEF Installs

\* What is shown is stored, and stays where it belongs.
LEMMA ShownStays ==
  ASSUME DocOK, History, ShownRooted, RootStays
  PROVE  /\ \A p \in Clients, t \in Texts : \A x \in ToSet(list[p][t]) : Root(x)' = t
         /\ \A p \in Clients, k \in Keys : head[p][k] # NoId =>
              \A x : x = head[p][k] => Root(x)' = k
<1>1. ASSUME NEW p \in Clients, NEW t \in Texts, NEW x \in ToSet(list[p][t])
      PROVE  Root(x)' = t
  <2>1. list[p][t] \in Seq(Ids)
    BY DEF DocOK
  <2>2. PICK i \in DOMAIN list[p][t] : x = list[p][t][i]
    BY DEF ToSet
  <2>3. x \in Ids /\ Has(store[p], x)
    BY <2>1, <2>2 DEF DocOK, ListStored
  <2>4. Has(store[x[1]], x)
    BY <2>3, AuthorHas
  <2> QED
    BY <2>3, <2>4 DEF RootStays, ShownRooted
<1>2. ASSUME NEW p \in Clients, NEW k \in Keys, NEW x, x = head[p][k], x # NoId
      PROVE  Root(x)' = k
  <2>1. x \in Ids /\ Has(store[p], x)
    BY <1>2 DEF DocOK, OptIds, HeadStored
  <2>2. Has(store[x[1]], x)
    BY <2>1, AuthorHas
  <2> QED
    BY <1>2, <2>1, <2>2 DEF RootStays, ShownRooted
<1> QED
  BY <1>1, <1>2

\* Stored items stay where they belong.
LEMMA StoredStays ==
  ASSUME DocOK, History, StoredRooted, RootStays,
         NEW p \in Clients, NEW c \in Clients, NEW i \in DOMAIN store[p][c],
         NEW it, it = store[p][c][i]
  PROVE  Rooted(it)'
<1>1. it \in Items /\ Rooted(it)
  BY EntryIs DEF DocOK, StoredRooted
<1>2. Emitted(it)
  BY DEF Emitted, History, SameHistory, Dense
<1> QED
  BY <1>1, <1>2, RootedStays

\* One item more.
LEMMA ExtendRooted ==
  ASSUME DocOK, History, DocOK', History', StoredRooted, ShownRooted,
         NEW p \in Clients, NEW it, Extends(p, it), Rooted(it)'
  PROVE  RootStays /\ StoredRooted' /\ ShownRooted'
<1>1. RootStays
  BY ExtendRoots, RootsStay
<1>2. it \in Items /\ Client(it) \in Clients
  BY ItemIds DEF Extends
<1>3. ASSUME NEW q \in Clients, NEW c \in Clients, NEW i \in DOMAIN store'[q][c]
      PROVE  Rooted(store[q][c][i])'
  <2>1. ASSUME i \in DOMAIN store[q][c], store'[q][c][i] = store[q][c][i]
        PROVE  Rooted(store[q][c][i])'
    <3>1. PICK e : e = store[q][c][i]
      OBVIOUS
    <3>2. Rooted(e)'
      BY <1>1, <2>1, <3>1, StoredStays
    <3>3. store'[q][c][i] = e
      BY <2>1, <3>1
    <3> QED
      BY <3>2, <3>3 DEF Rooted
  <2>2. CASE q # p \/ c # Client(it)
    <3>1. store'[q][c] = store[q][c]
      BY <2>2, ExtendStore
    <3> QED
      BY <2>1, <3>1
  <2>3. CASE q = p /\ c = Client(it)
    <3> DEFINE s == store[q][c]
               u == store'[q][c]
    <3>1. s \in Seq(Items) /\ u \in Seq(Items)
      BY ExtendStore, VectorType DEF DocOK
    <3>2. /\ Len(u) = Len(s) + 1 /\ u[Len(s) + 1] = it
          /\ \A k \in 1 .. Len(s) : u[k] = s[k]
      BY <2>3, ExtendStore
    <3>3. CASE i = Len(s) + 1
      <4>1. store'[q][c][i] = it
        BY <3>2, <3>3
      <4> QED
        BY <4>1 DEF Rooted
    <3>4. CASE i # Len(s) + 1
      <4> DEFINE m == Len(s)
      <4>a. i \in 1 .. Len(u)
        BY <3>1
      <4>b. i \in 1 .. m + 1 /\ m \in Nat
        BY <3>1, <3>2, <4>a
      <4>c. i \in 1 .. m
        <5> HIDE DEF m
        <5> QED
          BY <3>4, <4>b DEF m
      <4>1. i \in 1 .. Len(s) /\ i \in DOMAIN s
        BY <3>1, <4>c
      <4>2. u[i] = s[i]
        BY <3>2, <4>1
      <4> QED
        BY <2>1, <4>1, <4>2
    <3> QED
      BY <3>3, <3>4
  <2> QED
    BY <2>2, <2>3
<1>4. Shows(it)
  BY ExtendShows
<1>5. it.parent # NoParent => Root(it.id)' = it.parent
  BY DEF Rooted
<1>6. ASSUME NEW q \in Clients, NEW t \in Texts, NEW x \in ToSet(list'[q][t])
      PROVE  Root(x)' = t
  <2>1. CASE x \in ToSet(list[q][t])
    BY <1>1, <2>1, ShownStays
  <2>2. CASE x = it.id /\ it.parent = t
    BY <1>5, <2>2, ParentAssumption
  <2> QED
    BY <1>4, <2>1, <2>2 DEF Shows
<1>7. ASSUME NEW q \in Clients, NEW k \in Keys, NEW x, x = head'[q][k], x # NoId
      PROVE  Root(x)' = k
  <2>1. CASE x = head[q][k]
    BY <1>1, <1>7, <2>1, ShownStays
  <2>2. CASE x = it.id /\ it.parent = k
    BY <1>5, <2>2, ParentAssumption
  <2> QED
    BY <1>4, <1>7, <2>1, <2>2 DEF Shows
<1>8. StoredRooted'
  BY <1>3 DEF StoredRooted
<1>9. ShownRooted'
  <2>1. \A q \in Clients, k \in Keys : head'[q][k] # NoId => Root(head[q][k])' = k
    <3> SUFFICES ASSUME NEW q \in Clients, NEW k \in Keys, head'[q][k] # NoId
                 PROVE  Root(head[q][k])' = k
      OBVIOUS
    <3>1. PICK x : x = head'[q][k]
      OBVIOUS
    <3>2. Root(x)' = k
      BY <1>7, <3>1
    <3> QED
      BY <3>1, <3>2 DEF Root
  <2> QED
    BY <1>6, <2>1 DEF ShownRooted
<1> QED
  BY <1>1, <1>8, <1>9

\* The last clock of an item belongs where its first does.
LEMMA LastRoot ==
  ASSUME DocOK, History, NEW p \in Clients, NEW x \in Ids, Has(store[p], x),
         NEW y, y = LastId(Find(store[p], x))
  PROVE  y \in Ids /\ y # NoId /\ Has(store[y[1]], y) /\ Root(y) = Root(x)
<1>1. store[p] \in Stores /\ x[1] \in Clients
  BY StoreSorted DEF Ids
<1>2. PICK i \in DOMAIN store[p][x[1]] :
        Find(store[p], x) = store[p][x[1]][i] /\ Covers(store[p][x[1]][i], x)
  BY <1>1, FindStored
<1>3. y \in Ids /\ Has(store[p], y)
  BY <1>1, LastIdStored
<1>4. store[p][x[1]][i] \in Items
  BY <1>1, <1>2, EntryIs
<1>5. Covers(store[p][x[1]][i], y)
  <2> DEFINE it == store[p][x[1]][i]
  <2>1. /\ it.id[2] \in Nat /\ it.length \in Nat /\ it.length >= 1
        /\ y = << it.id[1], it.id[2] + (it.length - 1) >>
    BY <1>2, <1>4, ItemIds DEF LastId
  <2> HIDE DEF it
  <2>2. y # NoId
    BY <1>3, IdsSet
  <2>3. y[1] = it.id[1] /\ y[2] = it.id[2] + (it.length - 1)
    BY <2>1
  <2>4. it.id[2] <= y[2] /\ y[2] < it.id[2] + it.length
    BY <2>1, <2>3
  <2> QED
    BY <2>2, <2>3, <2>4 DEF Covers, End, it
<1>6. Root(x) = store[x[1]][x[1]][i].parent
  BY <1>1, <1>2, AuthorsEntry
<1>7. y[1] = x[1] /\ Has(store[x[1]], y) /\ Root(y) = store[x[1]][x[1]][i].parent
  <2>1. PICK c \in Clients : c = x[1]
    BY <1>1
  <2>2. i \in DOMAIN store[p][c] /\ Covers(store[p][c][i], y)
    BY <1>5, <2>1
  <2> QED
    BY <1>3, <2>1, <2>2, AuthorsEntry
<1>8. y # NoId
  BY <1>5 DEF Covers
<1> QED
  BY <1>3, <1>6, <1>7, <1>8

\* A new item belongs where what it was written next to does.
LEMMA EmitRooted ==
  ASSUME DocOK, History, DocOK', History', ShownRooted,
         NEW p \in Clients, NEW it, Emits(p, it)
  PROVE  Rooted(it)'
<1>1. /\ Extends(p, it) /\ it \in Items /\ Client(it) = p /\ it.content_kind = "string"
      /\ it.id \in Ids /\ Covers(it, it.id) /\ it.id[1] = p
      /\ it.parent \in Keys \cup Texts /\ it.parent # NoParent
  BY ItemIds, ParentAssumption DEF Emits, Extends, WritesKey, WritesText, Client
<1>2. RootStays
  BY <1>1, ExtendRoots, RootsStay
<1>3. Root(it.id)' = it.parent
  <2> DEFINE u == store'[p]
             n == Len(store[p][p]) + 1
  <2>1. u \in Stores /\ Sorted(u)
    BY StoreSorted DEF DocOK, History, Dense, Ascending, Sorted
  <2>2. store[p][p] \in Seq(Items) /\ u[p] = Append(store[p][p], it)
    <3>1. store'[p][Client(it)] = Append(store[p][Client(it)], it)
      BY <1>1, ExtendStore
    <3>2. Client(it) = p
      BY <1>1
    <3> QED
      BY <3>1, <3>2 DEF DocOK, Stores
  <2>3. n \in DOMAIN u[p] /\ u[p][n] = it
    BY <1>1, <2>2, AppendProperties
  <2> HIDE DEF u, n
  <2>4. Find(u, it.id) = it
    BY <1>1, <2>1, <2>3, FoundIs
  <2> QED
    BY <1>1, <2>4 DEF Root, u
<1>4. ASSUME NEW x \in Ids, Has(store[p], x)
      PROVE  Root(x)' = Root(x)
  <2>1. Has(store[x[1]], x)
    BY <1>4, AuthorHas
  <2> QED
    BY <1>2, <2>1 DEF RootStays
<1>5. ASSUME NEW x \in Ids, Has(store[p], x), Root(x) = it.parent,
             NEW y, y = LastOf(p, x)
      PROVE  y # NoId /\ Root(y)' = it.parent
  <2>1. x # NoId
    BY <1>5 DEF Has
  <2>2. y \in Ids /\ y # NoId /\ Has(store[y[1]], y) /\ Root(y) = it.parent
    BY <1>5, <2>1, LastRoot DEF LastOf
  <2> QED
    BY <1>2, <2>2 DEF RootStays
<1>6. CASE WritesKey(p, it)
  <2>1. PICK k \in Keys : k = it.parent
    BY <1>6 DEF WritesKey
  <2>2. it.origin_left = LastOf(p, head[p][k]) /\ it.origin_right = NoId
    BY <1>6, <2>1 DEF WritesKey
  <2>3. CASE head[p][k] = NoId
    <3>1. Source(it) = NoId
      BY <2>2, <2>3 DEF Source, LastOf
    <3> QED
      BY <1>1, <1>3, <2>2, <3>1 DEF Rooted
  <2>4. CASE head[p][k] # NoId
    <3>1. PICK x : x = head[p][k]
      OBVIOUS
    <3>2. x \in Ids /\ Has(store[p], x) /\ Root(x) = it.parent
      BY <2>1, <2>4, <3>1 DEF DocOK, OptIds, HeadStored, ShownRooted
    <3>3. Source(it) # NoId /\ Root(Source(it))' = it.parent
      <4>1. PICK y : y = it.origin_left
        OBVIOUS
      <4>2. y # NoId /\ Root(y)' = it.parent
        BY <1>5, <2>2, <3>1, <3>2, <4>1
      <4> QED
        BY <4>1, <4>2 DEF Source
    <3> QED
      BY <1>1, <1>3, <2>2, <3>3 DEF Rooted
  <2> QED
    BY <2>3, <2>4
<1>7. CASE WritesText(p, it)
  <2>t. PICK t \in Texts : t = it.parent
    BY <1>7 DEF WritesText
  <2>1. ASSUME NEW x \in ToSet(list[p][t])
        PROVE  x \in Ids /\ Has(store[p], x) /\ Root(x) = it.parent /\ x # NoId
    <3>1. list[p][t] \in Seq(Ids)
      BY DEF DocOK
    <3>2. PICK i \in DOMAIN list[p][t] : x = list[p][t][i]
      BY DEF ToSet
    <3>3. x \in Ids /\ Has(store[p], x)
      BY <3>1, <3>2 DEF DocOK, ListStored
    <3> QED
      BY <2>t, <3>3 DEF ShownRooted, Has
  <2>2. PICK left \in ToSet(list[p][t]) \cup {NoId} : it.origin_left = LastOf(p, left)
    BY <1>7, <2>t DEF WritesText
  <2>3. it.origin_right \in ToSet(list[p][t]) \cup {NoId}
    BY <1>7, <2>t DEF WritesText
  <2>4. it.parent \notin Keys
    BY <2>t, ParentAssumption
  <2>5. CASE left # NoId
    <3>1. PICK y : y = it.origin_left
      OBVIOUS
    <3>2. y # NoId /\ Root(y)' = it.parent
      BY <1>5, <2>1, <2>2, <2>5, <3>1
    <3>3. Source(it) # NoId /\ Root(Source(it))' = it.parent
      BY <3>1, <3>2 DEF Source
    <3> QED
      BY <1>1, <1>3, <2>4, <3>3 DEF Rooted
  <2>6. CASE left = NoId /\ it.origin_right # NoId
    <3>1. PICK y : y = it.origin_right
      OBVIOUS
    <3>2. y \in ToSet(list[p][t])
      BY <2>3, <2>6, <3>1
    <3>3. y # NoId /\ Root(y)' = it.parent
      BY <1>4, <2>1, <3>2
    <3>4. Source(it) # NoId /\ Root(Source(it))' = it.parent
      BY <2>2, <2>6, <3>1, <3>3 DEF Source, LastOf
    <3> QED
      BY <1>1, <1>3, <2>4, <3>4 DEF Rooted
  <2>7. CASE left = NoId /\ it.origin_right = NoId
    <3>1. Source(it) = NoId
      BY <2>2, <2>7 DEF Source, LastOf
    <3> QED
      BY <1>1, <1>3, <2>4, <3>1 DEF Rooted
  <2> QED
    BY <2>5, <2>6, <2>7
<1> QED
  BY <1>6, <1>7 DEF Emits

\* What travels belongs where it did.
LEMMA WireRooted ==
  ASSUME NEW it \in Items, Rooted(it)
  PROVE  Rooted(Wire(it))
<1>1. CASE Wire(it) = it
  BY <1>1
<1>2. CASE Wire(it) # it
  <2>1. /\ Wire(it) = [it EXCEPT !.parent = NoParent]
        /\ Source(it) # NoId \/ it.content_kind = "skip"
    BY <1>2 DEF Wire, Source
  <2>2. PICK w : w = Wire(it)
    OBVIOUS
  <2>3. /\ w.id = it.id /\ w.parent = NoParent /\ w.origin_left = it.origin_left
        /\ w.origin_right = it.origin_right /\ w.content_kind = it.content_kind
    BY <2>1, <2>2 DEF Items
  <2>4. Source(w) = Source(it)
    BY <2>3 DEF Source
  <2>5. Rooted(w)
    BY <2>1, <2>3, <2>4 DEF Rooted
  <2> QED
    BY <2>2, <2>5
<1> QED
  BY <1>1, <1>2

\* An item that takes its parent from an origin takes the right one, or none
\* (inherit_parent_from_origin).
LEMMA InheritedRooted ==
  ASSUME DocOK, History, StoredRooted, NEW p \in Clients, NEW d \in Items, Rooted(d),
         ~MissesOrigin(store[p], d), NEW it, it = Inherited(store[p], d)
  PROVE  Rooted(it)
<1>1. CASE it = d
  BY <1>1
<1>2. CASE it # d
  <2>x. PICK x : x = Source(d)
    OBVIOUS
  <2>1. /\ d.parent = NoParent /\ x # NoId
        /\ it = [d EXCEPT !.parent = Find(store[p], x).parent]
    BY <1>2, <2>x DEF Inherited, Source
  <2>2. x \in Ids /\ Has(store[p], x)
    BY <2>1, <2>x DEF Source, MissesOrigin, Items, OptIds
  <2>3. PICK f : f = Find(store[p], x)
    OBVIOUS
  <2>4. Rooted(f) /\ Root(f.id) = Root(x)
    BY <2>2, <2>3, AuthorHas DEF StoredRooted
  <2>5. /\ it.id = d.id /\ it.parent = f.parent /\ it.origin_left = d.origin_left
        /\ it.origin_right = d.origin_right /\ it.content_kind = d.content_kind
    BY <2>1, <2>3 DEF Items
  <2>6. Source(it) = x
    BY <2>x, <2>5 DEF Source
  <2> QED
    BY <2>1, <2>4, <2>5, <2>6, <2>x DEF Rooted
<1> QED
  BY <1>1, <1>2

LEMMA DiffRooted ==
  ASSUME DocOK, StoredRooted, NEW p \in Clients, NEW since \in [Clients -> Nat],
         NEW d \in Diff(p, since).structs
  PROVE  Rooted(d)
<1>c. PICK c \in Clients : \E i \in DOMAIN store[p][c] : d = Wire(store[p][c][i])
  BY DiffOK
<1>1. PICK i \in DOMAIN store[p][c] : d = Wire(store[p][c][i])
  BY <1>c
<1>2. PICK it : it = store[p][c][i]
  OBVIOUS
<1>3. it \in Items /\ Rooted(it)
  BY <1>2, EntryIs DEF DocOK, StoredRooted
<1> QED
  BY <1>1, <1>2, <1>3, WireRooted

\* A call in progress only gets shorter.
LEMMA TodoShrinks ==
  ASSUME IInv, Apply
  PROVE  /\ UNCHANGED msgs /\ job # NoJob
         /\ job' # NoJob => job'.todo \subseteq job.todo
<1>1. job # NoJob /\ UNCHANGED msgs
  BY DEF Apply, ApplyOne, NextPass, GiveUp, ApplyDeletes, PassIsOver
<1>2. job \in Jobs
  BY <1>1 DEF IInv, TypeOK
<1>3. ASSUME NEW d \in job.todo,
             \/ ApplyKnown(d) \/ ApplyDeferred(d)
             \/ ApplyRejected(d) \/ ApplyInstalled(d)
      PROVE  job' # NoJob => job'.todo \subseteq job.todo
  BY <1>2, <1>3 DEF ApplyKnown, ApplyDeferred, ApplyRejected, ApplyInstalled,
     Done, Pending, Jobs
<1>4. ASSUME NextPass \/ GiveUp \/ ApplyDeletes
      PROVE  job' # NoJob => job'.todo \subseteq job.todo
  BY <1>2, <1>4 DEF NextPass, GiveUp, ApplyDeletes, Jobs
<1> QED
  BY <1>1, <1>3, <1>4 DEF Apply, ApplyOne

\* What is on its way after a step was on its way before, or was stored.
LEMMA Senders ==
  ASSUME IInv, Next, NEW d,
         (job' # NoJob /\ d \in job'.todo) \/ (\E m \in msgs' : d \in m.structs)
  PROVE  \/ job # NoJob /\ d \in job.todo
         \/ \E m \in msgs : d \in m.structs
         \/ \E p \in Clients : \E since \in [Clients -> Nat] : d \in Diff(p, since).structs
<1> DEFINE Good == \/ job # NoJob /\ d \in job.todo
                   \/ \E m \in msgs : d \in m.structs
                   \/ \E p \in Clients : \E since \in [Clients -> Nat] :
                        d \in Diff(p, since).structs
<1>1. DocOK /\ CallOK
  BY InvariantParts
<1>2. ASSUME UNCHANGED << job, msgs >> PROVE Good
  BY <1>2
<1>3. ASSUME NEW p \in Clients, LocalEdit(p) PROVE UNCHANGED << job, msgs >>
  BY <1>1, <1>3, LocalEditOK
<1>4. ASSUME NEW p \in Clients, Compact(p) PROVE UNCHANGED << job, msgs >>
  BY <1>4 DEF Compact
<1>5. ASSUME NEW p \in Clients, NEW q \in Clients, Pull(p, q) PROVE Good
  <2>1. PICK since \in [Clients -> Nat] : since = StateVector(store[q])
    BY <1>1, StateOK DEF DocOK
  <2>2. job'.todo = Diff(p, since).structs /\ UNCHANGED msgs
    BY <1>5, <2>1 DEF Pull, Begin
  <2> QED
    BY <2>2
<1>6. ASSUME NEW p \in Clients, Publish(p) PROVE Good
  <2>1. PICK since \in [Clients -> Nat] : since = sent[p]
    BY <1>1 DEF CallOK
  <2>2. msgs' = msgs \cup {Diff(p, since)} /\ UNCHANGED job
    BY <1>6, <2>1 DEF Publish
  <2> QED
    BY <2>2
<1>7. ASSUME NEW p \in Clients, NEW m \in msgs, Deliver(p, m) PROVE Good
  BY <1>7 DEF Deliver, Begin
<1>8. ASSUME Apply PROVE Good
  BY <1>8, TodoShrinks
<1> HIDE DEF Good
<1>9. Good
  BY <1>2, <1>3, <1>4, <1>5, <1>6, <1>7, <1>8 DEF Next
<1> QED
  BY <1>9 DEF Good

LEMMA SendersRooted ==
  ASSUME IInv, AllRooted, Next, NEW d,
         (job' # NoJob /\ d \in job'.todo) \/ (\E m \in msgs' : d \in m.structs)
  PROVE  d \in Items /\ Authentic(d) /\ Rooted(d)
<1>1. DocOK /\ CallOK /\ History /\ InFlightAuthentic
  BY InvariantParts
<1>2. CASE job # NoJob /\ d \in job.todo
  BY <1>1, <1>2 DEF CallOK, Jobs, InFlightAuthentic, AllRooted, SentRooted
<1>3. ASSUME NEW m \in msgs, d \in m.structs
      PROVE  d \in Items /\ Authentic(d) /\ Rooted(d)
  BY <1>1, <1>3 DEF CallOK, Updates, InFlightAuthentic, AllRooted, SentRooted
<1>4. ASSUME NEW p \in Clients, NEW since \in [Clients -> Nat], d \in Diff(p, since).structs
      PROVE  d \in Items /\ Authentic(d) /\ Rooted(d)
  <2>1. Diff(p, since) \in Updates
    BY <1>1, DiffOK
  <2>2. d \in Items
    BY <1>4, <2>1 DEF Updates
  <2> QED
    BY <1>1, <1>4, <2>2, DiffAuthentic, DiffRooted DEF AllRooted
<1> QED
  BY <1>2, <1>3, <1>4, Senders

\* The documents after a step.
LEMMA DocumentsRooted ==
  ASSUME IInv, IInv', AllRooted, Next
  PROVE  RootStays /\ StoredRooted' /\ ShownRooted'
<1>1. DocOK /\ CallOK /\ History /\ InFlightAuthentic /\ DocOK' /\ History'
  BY InvariantParts, PTL
<1>2. StoredRooted /\ ShownRooted /\ SentRooted
  BY DEF AllRooted
<1> DEFINE Good == RootStays /\ StoredRooted' /\ ShownRooted'
<1>3. ASSUME NEW p \in Clients, NEW it, Extends(p, it), Rooted(it)' PROVE Good
  BY <1>1, <1>2, <1>3, ExtendRooted
<1>4. ASSUME UNCHANGED << store, list, head >> PROVE Good
  <2>1. RootStays
    BY <1>4 DEF RootStays, Root
  <2>2. StoredRooted'
    <3>1. \A it : Rooted(it)' <=> Rooted(it)
      BY <1>4 DEF Rooted, Root
    <3> QED
      BY <1>2, <1>4, <3>1 DEF StoredRooted
  <2>3. ShownRooted'
    BY <1>2, <1>4 DEF ShownRooted, Root
  <2> QED
    BY <2>1, <2>2, <2>3
<1>5. ASSUME NEW p \in Clients, NEW it, Emits(p, it) PROVE Good
  BY <1>1, <1>2, <1>3, <1>5, EmitRooted DEF Emits
<1>6. ASSUME NEW p \in Clients, LocalEdit(p) PROVE Good
  BY <1>1, <1>4, <1>5, <1>6, LocalEditOK DEF ArrayDeleteAt
<1>7. ASSUME NEW p \in Clients, Compact(p) PROVE Good
  <2>1. UNCHANGED << list, head >> /\ \A q \in Clients : SameButPayload(store[q], store'[q])
    BY <1>1, <1>7, CompactPayloads
  <2>2. RootStays
    BY <1>1, <1>7, CompactRoots, RootsStay
  <2>3. ShownRooted'
    BY <1>1, <1>2, <2>1, <2>2, ShownStays DEF ShownRooted
  <2>4. ASSUME NEW q \in Clients, NEW c \in Clients, NEW i \in DOMAIN store'[q][c]
        PROVE  Rooted(store[q][c][i])'
    <3>1. PICK s : s = store[q][c][i]
      OBVIOUS
    <3>2. PICK u : u = store'[q][c][i]
      OBVIOUS
    <3>3. /\ i \in DOMAIN store[q][c] /\ Core(u) = Core(s) /\ u.parent = s.parent
          /\ u.content_kind = "string" => s.content_kind = "string"
      BY <2>1, <3>1, <3>2 DEF SameButPayload
    <3>4. Rooted(s)'
      BY <1>1, <1>2, <2>2, <3>1, <3>3, StoredStays
    <3>5. Source(u) = Source(s) /\ u.id = s.id /\ u.origin_right = s.origin_right
      BY <3>3 DEF Source, Core
    <3>6. Rooted(u)'
      BY <3>3, <3>4, <3>5 DEF Rooted
    <3> QED
      BY <3>2, <3>6 DEF Rooted
  <2> QED
    BY <2>2, <2>3, <2>4 DEF StoredRooted
<1>8. ASSUME NEW p \in Clients,
             \/ \E q \in Clients : Pull(p, q)
             \/ Publish(p)
             \/ \E m \in msgs : Deliver(p, m)
      PROVE  Good
  BY <1>4, <1>8 DEF Pull, Publish, Deliver, docVars
<1>9. ASSUME Apply PROVE Good
  <2>1. job \in Jobs /\ job.doc \in Clients /\ job # NoJob
    BY <1>1, <1>9, TodoShrinks DEF CallOK, Jobs
  <2>2. ASSUME NEW d \in job.todo, ApplyInstalled(d) PROVE Good
    <3>1. d \in Items /\ Authentic(d) /\ Rooted(d)
      BY <1>1, <1>2, <2>1 DEF Jobs, InFlightAuthentic, SentRooted
    <3>2. d.parent # NoParent => d.origin_left = NoId /\ d.origin_right = NoId
      BY <3>1 DEF Authentic
    <3>3. PICK it : /\ Extends(job.doc, it) /\ Core(it) = Core(d)
                    /\ it = Inherited(store[job.doc], d)
      BY <1>1, <2>1, <2>2, <3>1, <3>2, ApplyInstalledOK
    <3>4. ~MissesOrigin(store[job.doc], d)
      BY <2>2 DEF ApplyInstalled
    <3>5. it \in Items /\ Rooted(it)
      BY <1>1, <1>2, <2>1, <3>1, <3>3, <3>4, InheritedRooted DEF Extends
    <3>6. Emitted(it)
      BY <3>1, <3>3 DEF Authentic, Emitted, Core, Client
    <3>7. RootStays
      BY <1>1, <2>1, <3>3, ExtendRoots, RootsStay
    <3>8. Rooted(it)'
      BY <1>1, <3>5, <3>6, <3>7, RootedStays
    <3> QED
      BY <1>3, <2>1, <3>3, <3>8
  <2>3. ASSUME NEW d \in job.todo,
               ApplyKnown(d) \/ ApplyDeferred(d) \/ ApplyRejected(d)
        PROVE  UNCHANGED << store, list, head >>
    BY <2>3 DEF ApplyKnown, ApplyDeferred, ApplyRejected, docVars
  <2>4. ASSUME NextPass \/ GiveUp \/ ApplyDeletes
        PROVE  UNCHANGED << store, list, head >>
    BY <2>4 DEF NextPass, GiveUp, ApplyDeletes, docVars
  <2> QED
    BY <1>4, <1>9, <2>2, <2>3, <2>4 DEF Apply, ApplyOne
<1> HIDE DEF Good
<1>10. Good
  BY <1>6, <1>7, <1>8, <1>9 DEF Next
<1> QED
  BY <1>10 DEF Good

LEMMA RootedStep ==
  ASSUME IInv, IInv', AllRooted, [Next]_vars
  PROVE  AllRooted'
<1>1. CASE UNCHANGED vars
  <2>1. UNCHANGED << store, list, head, job, msgs >>
    BY <1>1 DEF vars, docVars
  <2>2. \A it : Rooted(it)' <=> Rooted(it)
    BY <2>1 DEF Rooted, Root
  <2>3. StoredRooted'
    BY <2>1, <2>2 DEF AllRooted, StoredRooted
  <2>4. ShownRooted'
    BY <2>1 DEF AllRooted, ShownRooted, Root
  <2>5. SentRooted'
    BY <2>1, <2>2 DEF AllRooted, SentRooted
  <2> QED
    BY <2>3, <2>4, <2>5 DEF AllRooted
<1>2. CASE Next
  <2>1. DocOK /\ CallOK /\ History
    BY InvariantParts
  <2>2. RootStays /\ StoredRooted' /\ ShownRooted'
    BY <1>2, DocumentsRooted
  <2>3. ASSUME NEW d,
               (job' # NoJob /\ d \in job'.todo) \/ (\E m \in msgs' : d \in m.structs)
        PROVE  Rooted(d)'
    <3>1. d \in Items /\ Authentic(d) /\ Rooted(d)
      BY <1>2, <2>3, SendersRooted
    <3> QED
      BY <2>1, <2>2, <3>1, RootedStays DEF Authentic
  <2> QED
    BY <2>2, <2>3 DEF AllRooted, SentRooted
<1> QED
  BY <1>1, <1>2

LEMMA InitRooted == Init => AllRooted
<1> SUFFICES ASSUME Init PROVE AllRooted
  OBVIOUS
<1>1. \A p, c \in Clients : DOMAIN store[p][c] = {}
  BY DEF Init
<1>2. \A p \in Clients, t \in Texts : ToSet(list[p][t]) = {}
  BY DEF Init, ToSet
<1>3. \A p \in Clients, k \in Keys : head[p][k] = NoId
  BY DEF Init
<1>4. job = NoJob /\ msgs = {}
  BY DEF Init
<1> QED
  BY <1>1, <1>2, <1>3, <1>4 DEF AllRooted, StoredRooted, ShownRooted, SentRooted

\* No document files an item under another root than its author did: a copy
\* stands where the original does, or nowhere (inherit_parent_from_origin
\* takes the parent from whatever the origin has become).
RootsAgree ==
  \A p, c \in Clients : \A i \in DOMAIN store[p][c] :
    store[p][c][i].parent \in {store[c][c][i].parent, NoParent}

LEMMA RootsKnown == IInv /\ AllRooted => RootsAgree
<1> SUFFICES ASSUME IInv, AllRooted, NEW p \in Clients, NEW c \in Clients,
                    NEW i \in DOMAIN store[p][c]
             PROVE  store[p][c][i].parent \in {store[c][c][i].parent, NoParent}
  BY DEF RootsAgree
<1>1. DocOK /\ History
  BY InvariantParts
<1>2. PICK x : x = store[p][c][i].id
  OBVIOUS
<1>3. x \in Ids /\ Covers(store[p][c][i], x)
  BY <1>1, <1>2, EntryIs DEF DocOK
<1>4. Root(x) = store[c][c][i].parent
  BY <1>1, <1>3, AuthorsEntry
<1> QED
  BY <1>2, <1>4 DEF AllRooted, StoredRooted, Rooted

THEOREM ItemsStayRooted == Spec => []RootsAgree
<1>1. Init => AllRooted
  BY InitRooted
<1>2. IInv /\ IInv' /\ AllRooted /\ [Next]_vars => AllRooted'
  BY RootedStep
<1>3. IInv /\ AllRooted => RootsAgree
  BY RootsKnown
<1> QED
  BY Invariance, <1>1, <1>2, <1>3, PTL DEF Spec

-----------------------------------------------------------------------------
(* Documents that hold the same items have the same heads.                 *)

Compacts == \E p \in Clients : Compact(p)

\* Without compaction every item keeps its payload, and hence its parent.
StoredWhole ==
  \A p, c \in Clients : \A i \in DOMAIN store[p][c] :
    store[p][c][i].content_kind = "string" /\ store[p][c][i].parent # NoParent

SentWhole ==
  /\ job # NoJob => \A d \in job.todo : d.content_kind = "string"
  /\ \A m \in msgs : \A d \in m.structs : d.content_kind = "string"

AllWhole == StoredWhole /\ SentWhole

LEMMA ExtendWhole ==
  ASSUME DocOK, StoredWhole, NEW p \in Clients, NEW it, Extends(p, it),
         it.content_kind = "string", it.parent # NoParent
  PROVE  StoredWhole'
<1> SUFFICES ASSUME NEW q \in Clients, NEW c \in Clients, NEW i \in DOMAIN store'[q][c]
             PROVE  /\ store'[q][c][i].content_kind = "string"
                    /\ store'[q][c][i].parent # NoParent
  BY DEF StoredWhole
<1>1. it \in Items /\ Client(it) \in Clients
  BY ItemIds DEF Extends
<1>2. ASSUME i \in DOMAIN store[q][c], store'[q][c][i] = store[q][c][i]
      PROVE  /\ store'[q][c][i].content_kind = "string"
             /\ store'[q][c][i].parent # NoParent
  BY <1>2 DEF StoredWhole
<1>3. CASE q # p \/ c # Client(it)
  <2>1. store'[q][c] = store[q][c]
    BY <1>3, ExtendStore
  <2> QED
    BY <1>2, <2>1
<1>4. CASE q = p /\ c = Client(it)
  <2> DEFINE s == store[q][c]
             u == store'[q][c]
  <2>1. s \in Seq(Items) /\ u \in Seq(Items)
    BY ExtendStore, VectorType DEF DocOK
  <2>2. /\ Len(u) = Len(s) + 1 /\ u[Len(s) + 1] = it
        /\ \A k \in 1 .. Len(s) : u[k] = s[k]
    BY <1>4, ExtendStore
  <2>3. CASE i = Len(s) + 1
    BY <2>2, <2>3
  <2>4. CASE i # Len(s) + 1
    <3>0. i \in 1 .. Len(u) /\ Len(s) \in Nat /\ DOMAIN s = 1 .. Len(s)
      BY <2>1
    <3>1. i \in 1 .. Len(s) /\ i \in DOMAIN s
      BY <2>2, <2>4, <3>0
    <3> QED
      BY <1>2, <2>2, <3>1
  <2> QED
    BY <2>3, <2>4
<1> QED
  BY <1>3, <1>4

LEMMA WholeStep ==
  ASSUME IInv, AllRooted, AllWhole, [Next]_vars, ~Compacts
  PROVE  AllWhole'
<1>1. DocOK /\ CallOK /\ History /\ InFlightAuthentic
  BY InvariantParts
<1>2. StoredRooted /\ SentRooted /\ StoredWhole /\ SentWhole
  BY DEF AllRooted, AllWhole
<1>3. CASE UNCHANGED vars
  BY <1>3 DEF vars, docVars, AllWhole, StoredWhole, SentWhole
<1>4. CASE Next
  <2>1. ASSUME NEW d,
               (job' # NoJob /\ d \in job'.todo) \/ (\E m \in msgs' : d \in m.structs)
        PROVE  d.content_kind = "string"
    <3>1. ASSUME NEW p \in Clients, NEW since \in [Clients -> Nat],
                 d \in Diff(p, since).structs
          PROVE  d.content_kind = "string"
      <4>c. PICK c \in Clients : \E i \in DOMAIN store[p][c] : d = Wire(store[p][c][i])
        BY <1>1, <3>1, DiffOK
      <4>1. PICK i \in DOMAIN store[p][c] : d = Wire(store[p][c][i])
        BY <4>c
      <4>2. store[p][c][i] \in Items /\ store[p][c][i].content_kind = "string"
        BY <1>1, <1>2, EntryIs DEF DocOK, StoredWhole
      <4> QED
        BY <4>1, <4>2 DEF Wire, Items
    <3> QED
      BY <1>2, <1>4, <2>1, <3>1, Senders DEF SentWhole
  <2>2. ASSUME UNCHANGED store PROVE StoredWhole'
    BY <1>2, <2>2 DEF StoredWhole
  <2>3. ASSUME NEW p \in Clients, LocalEdit(p) PROVE StoredWhole'
    <3>1. ASSUME NEW it, Emits(p, it) PROVE StoredWhole'
      <4>1. it.content_kind = "string" /\ it.parent # NoParent /\ Extends(p, it)
        BY <3>1, ParentAssumption DEF Emits, WritesKey, WritesText
      <4> QED
        BY <1>1, <1>2, <4>1, ExtendWhole
    <3> QED
      BY <1>1, <2>2, <2>3, <3>1, LocalEditOK
  <2>4. ASSUME NEW p \in Clients,
               \/ \E q \in Clients : Pull(p, q)
               \/ Publish(p)
               \/ \E m \in msgs : Deliver(p, m)
        PROVE  StoredWhole'
    BY <2>2, <2>4 DEF Pull, Publish, Deliver, docVars
  <2>5. ASSUME Apply PROVE StoredWhole'
    <3>1. job \in Jobs /\ job.doc \in Clients /\ job # NoJob
      BY <1>1, <2>5, TodoShrinks DEF CallOK, Jobs
    <3>2. ASSUME NEW d \in job.todo, ApplyInstalled(d) PROVE StoredWhole'
      <4>1. d \in Items /\ Authentic(d) /\ Rooted(d) /\ d.content_kind = "string"
        BY <1>1, <1>2, <3>1 DEF Jobs, InFlightAuthentic, SentRooted, SentWhole
      <4>2. d.parent # NoParent => d.origin_left = NoId /\ d.origin_right = NoId
        BY <4>1 DEF Authentic
      <4>3. PICK it : /\ Extends(job.doc, it) /\ Core(it) = Core(d)
                      /\ it = Inherited(store[job.doc], d)
        BY <1>1, <3>1, <3>2, <4>1, <4>2, ApplyInstalledOK
      <4>4. it.content_kind = "string" /\ it.parent # NoParent
        <5>1. CASE d.parent # NoParent \/ Source(d) = NoId
          <6>1. it = d
            BY <4>3, <5>1 DEF Inherited, Source
          <6> QED
            BY <4>1, <5>1, <6>1 DEF Rooted
        <5>2. CASE d.parent = NoParent /\ Source(d) # NoId
          <6>x. PICK x : x = Source(d)
            OBVIOUS
          <6>1. it = [d EXCEPT !.parent = Find(store[job.doc], x).parent]
            BY <4>3, <5>2, <6>x DEF Inherited, Source
          <6>2. ~MissesOrigin(store[job.doc], d)
            BY <3>2 DEF ApplyInstalled
          <6>3. x \in Ids /\ Has(store[job.doc], x)
            BY <4>1, <5>2, <6>x, <6>2 DEF Source, MissesOrigin, Items, OptIds
          <6>4. Find(store[job.doc], x).parent # NoParent
            BY <1>1, <1>2, <3>1, <6>3, AuthorHas DEF StoredWhole
          <6> QED
            BY <4>1, <6>1, <6>4 DEF Items
        <5> QED
          BY <5>1, <5>2
      <4> QED
        BY <1>1, <1>2, <3>1, <4>3, <4>4, ExtendWhole
    <3>3. ASSUME NEW d \in job.todo,
                 ApplyKnown(d) \/ ApplyDeferred(d) \/ ApplyRejected(d)
          PROVE  UNCHANGED store
      BY <3>3 DEF ApplyKnown, ApplyDeferred, ApplyRejected, docVars
    <3>4. ASSUME NextPass \/ GiveUp \/ ApplyDeletes
          PROVE  UNCHANGED store
      BY <3>4 DEF NextPass, GiveUp, ApplyDeletes, docVars
    <3> QED
      BY <2>2, <2>5, <3>2, <3>3, <3>4 DEF Apply, ApplyOne
  <2>6. StoredWhole'
    BY <1>4, <2>3, <2>4, <2>5 DEF Next, Compacts
  <2> QED
    BY <2>1, <2>6 DEF AllWhole, SentWhole
<1> QED
  BY <1>3, <1>4

LEMMA InitWhole == Init => AllWhole
<1> SUFFICES ASSUME Init PROVE AllWhole
  OBVIOUS
<1>1. \A p, c \in Clients : DOMAIN store[p][c] = {}
  BY DEF Init
<1>2. job = NoJob /\ msgs = {}
  BY DEF Init
<1> QED
  BY <1>1, <1>2 DEF AllWhole, StoredWhole, SentWhole

\* Documents with the same state vector hold the same items.
LEMMA SameVectors ==
  ASSUME DocOK, History, NEW p \in Clients, NEW q \in Clients,
         StateVector(store[p]) = StateVector(store[q]), NEW c \in Clients
  PROVE  Len(store[p][c]) = Len(store[q][c])
<1>1. \A r \in Clients : /\ store[r] \in Stores /\ store[r][c] \in Seq(Items)
                         /\ Len(store[r][c]) \in Nat
                         /\ DOMAIN store[r][c] = 1 .. Len(store[r][c])
  <2> SUFFICES ASSUME NEW r \in Clients
               PROVE  /\ store[r] \in Stores /\ store[r][c] \in Seq(Items)
                      /\ Len(store[r][c]) \in Nat
                      /\ DOMAIN store[r][c] = 1 .. Len(store[r][c])
    OBVIOUS
  <2>1. store[r] \in Stores /\ store[r][c] \in Seq(Items)
    BY DEF DocOK, Stores
  <2> QED
    BY <2>1
<1>2. State(store[p], c) = State(store[q], c)
  <2>1. \A r \in Clients : StateVector(store[r])[c] = State(store[r], c)
    BY DEF StateVector
  <2> QED
    BY <2>1
<1>3. ASSUME NEW r \in Clients, NEW s \in Clients, Len(store[r][c]) < Len(store[s][c])
      PROVE  State(store[r], c) # State(store[s], c)
  <2> DEFINE n == Len(store[r][c])
             m == Len(store[s][c])
  <2>1. n \in Nat /\ m \in Nat /\ n < m
    BY <1>1, <1>3
  <2>2. m \in DOMAIN store[s][c] /\ store[s][c] # << >>
    BY <1>1, <2>1
  <2>3. State(store[s], c) = End(store[s][c][m])
    BY <2>2 DEF State
  <2>4. /\ store[s][c][m].id[2] \in Nat /\ End(store[s][c][m]) \in Nat
        /\ store[s][c][m].id[2] < End(store[s][c][m])
    BY <2>2, StoredEntry
  <2>5. CASE n = 0
    <3>1. store[r][c] = << >>
      BY <1>1, <2>5
    <3>2. State(store[r], c) = 0
      BY <3>1 DEF State
    <3> QED
      BY <2>3, <2>4, <3>2
  <2>6. CASE n # 0
    <3>1. n \in DOMAIN store[r][c] /\ n \in DOMAIN store[s][c] /\ store[r][c] # << >>
      BY <1>1, <2>1, <2>6
    <3>2. State(store[r], c) = End(store[r][c][n])
      BY <3>1 DEF State
    <3>3. End(store[s][c][n]) <= store[s][c][m].id[2]
      BY <2>1, <2>2, <3>1 DEF History, Ascending
    <3>4. Core(store[r][c][n]) = Core(store[s][c][n])
      BY <3>1 DEF History, SameHistory
    <3>5. End(store[r][c][n]) = End(store[s][c][n])
      BY <3>4 DEF Core, End
    <3>6. End(store[s][c][n]) \in Nat
      BY <3>1, StoredEntry
    <3> QED
      BY <2>3, <2>4, <3>2, <3>3, <3>5, <3>6
  <2> QED
    BY <2>5, <2>6
<1> QED
  BY <1>1, <1>2, <1>3

LEMMA SameStores ==
  ASSUME DocOK, History, StoredRooted, StoredWhole, NEW p \in Clients, NEW q \in Clients,
         StateVector(store[p]) = StateVector(store[q])
  PROVE  store[p] = store[q]
<1>1. store[p] \in Stores /\ store[q] \in Stores
  BY StoreSorted
<1>2. ASSUME NEW c \in Clients, NEW i \in DOMAIN store[p][c]
      PROVE  i \in DOMAIN store[q][c] /\ store[p][c][i] = store[q][c][i]
  <2>1. i \in DOMAIN store[q][c]
    <3>1. store[p][c] \in Seq(Items) /\ store[q][c] \in Seq(Items)
      BY <1>1 DEF Stores
    <3>2. Len(store[p][c]) = Len(store[q][c])
      BY SameVectors
    <3> QED
      BY <3>1, <3>2
  <2>2. PICK a : a = store[p][c][i]
    OBVIOUS
  <2>3. PICK b : b = store[q][c][i]
    OBVIOUS
  <2>4. a \in Items /\ b \in Items
    BY <1>1, <2>1, <2>2, <2>3, EntryIs
  <2>5. Core(a) = Core(b)
    BY <2>1, <2>2, <2>3 DEF History, SameHistory
  <2>6. /\ a.content_kind = "string" /\ a.parent = Root(a.id)
        /\ b.content_kind = "string" /\ b.parent = Root(b.id)
    BY <2>1, <2>2, <2>3 DEF StoredWhole, StoredRooted, Rooted
  <2>7. a.parent = b.parent
    BY <2>5, <2>6 DEF Core
  <2>8. /\ a.id = b.id /\ a.length = b.length /\ a.origin_left = b.origin_left
        /\ a.origin_right = b.origin_right
    BY <2>5 DEF Core
  <2>9. a = b
    BY <2>4, <2>6, <2>7, <2>8 DEF Items
  <2> QED
    BY <2>1, <2>2, <2>3, <2>9
<1>3. ASSUME NEW c \in Clients PROVE store[p][c] = store[q][c]
  <2>1. store[p][c] \in Seq(Items) /\ store[q][c] \in Seq(Items)
    BY <1>1 DEF Stores
  <2>2. Len(store[p][c]) = Len(store[q][c])
    BY SameVectors
  <2> QED
    BY <1>2, <2>1, <2>2
<1> QED
  BY <1>1, <1>3 DEF Stores

\* The order has one last element.
LEMMA OneTop ==
  ASSUME NEW st, WellStored(st), NEW k, Fits(st, k),
         NEW g, TopAt(st, k, g), g # NoId => IsValue(st, k, g),
         NEW h, TopAt(st, k, h), h # NoId => IsValue(st, k, h)
  PROVE  g = h
<1>1. (g # NoId => h # NoId) /\ (h # NoId => g # NoId)
  BY DEF TopAt
<1>2. CASE g # NoId
  <2>1. IsValue(st, k, g) /\ IsValue(st, k, h)
    BY <1>1, <1>2
  <2>2. /\ h = g \/ (LeftOf(st, g, h) /\ LeftOf(st, h, g))
        /\ Exact(st, g) /\ Full(st, g) /\ Exact(st, h) /\ Full(st, h)
    BY <1>1, <1>2, <2>1 DEF TopAt
  <2>3. Orderly(st, g) /\ Orderly(st, h)
    BY <2>2, ExactOrderly
  <2> QED
    BY <2>2, <2>3, LeftTransitive, LeftIrreflexive
<1> QED
  BY <1>1, <1>2

LEMMA WholeHeads ==
  ASSUME IInv, AllRooted, AllWhole, Flagging, KeysFit, HeadTop
  PROVE  HeadsAgree
<1>1. DocOK /\ History /\ StoredRooted /\ ShownRooted /\ StoredWhole
  BY InvariantParts DEF AllRooted, AllWhole
<1> SUFFICES ASSUME NEW p \in Clients, NEW q \in Clients,
                    StateVector(store[p]) = StateVector(store[q])
             PROVE  head[p] = head[q]
  BY DEF HeadsAgree
<1>2. store[p] = store[q]
  BY <1>1, SameStores
<1>3. ASSUME NEW r \in Clients, NEW k \in Keys, head[r][k] # NoId
      PROVE  IsValue(store[r], k, head[r][k])
  <2>x. PICK x : x = head[r][k]
    OBVIOUS
  <2>1. Exact(store[r], x) /\ Root(x) = k
    BY <1>1, <1>3, <2>x DEF Flagging, KeysOK, ShownRooted
  <2>2. x[1] \in Clients
    BY <2>1 DEF Exact, Ids
  <2>3. PICK i \in DOMAIN store[r][x[1]] : store[r][x[1]][i].id = x
    BY <2>1 DEF Exact
  <2>4. store[r][x[1]][i].parent = k /\ store[r][x[1]][i].content_kind = "string"
    BY <1>1, <2>1, <2>2, <2>3 DEF StoredRooted, StoredWhole, Rooted
  <2> QED
    BY <2>2, <2>3, <2>4, <2>x DEF IsValue
<1>4. ASSUME NEW k \in Keys PROVE head[p][k] = head[q][k]
  <2>s. PICK st : st = store[p]
    OBVIOUS
  <2>1. WellStored(st) /\ Fits(st, k)
    BY <2>s, StoreWell DEF WellKept, KeysFit
  <2>2. TopAt(st, k, head[p][k]) /\ TopAt(st, k, head[q][k])
    BY <1>2, <2>s DEF HeadTop
  <2>3. /\ head[p][k] # NoId => IsValue(st, k, head[p][k])
        /\ head[q][k] # NoId => IsValue(st, k, head[q][k])
    BY <1>2, <1>3, <2>s
  <2> QED
    BY <2>1, <2>2, <2>3, OneTop
<1> QED
  BY <1>1, <1>4 DEF DocOK

\* Where nobody compacts, documents that hold the same items pick the same
\* head for every key, in whatever order the items came, whatever was lost
\* or repeated on the way, and whichever integration of a text failed.
THEOREM HeadsSettle == Spec /\ [][~Compacts]_vars /\ []ChainsFit => []HeadsAgree
<1>1. IInv => WellKept
  BY StoreWell
<1>2. IInv /\ ChainsFit => KeysFit
  BY KeysFitIs
<1>3. Init => HeadTop /\ AllRooted /\ AllWhole /\ Flagging
  BY InitHead, InitRooted, InitWhole, InitFlagging
<1>4. IInv /\ WellKept /\ WellKept' /\ KeysFit /\ KeysFit' /\ HeadTop /\ [Next]_vars
      => HeadTop'
  BY HeadStep
<1>5. IInv /\ IInv' /\ AllRooted /\ [Next]_vars => AllRooted'
  BY RootedStep
<1>6. IInv /\ AllRooted /\ AllWhole /\ [Next]_vars /\ [~Compacts]_vars => AllWhole'
  <2>1. UNCHANGED vars /\ AllWhole => AllWhole'
    BY DEF vars, docVars, AllWhole, StoredWhole, SentWhole
  <2> QED
    BY <2>1, WholeStep
<1>7. IInv /\ Flagging /\ [Next]_vars => Flagging'
  BY FlaggingStep
<1>8. IInv /\ AllRooted /\ AllWhole /\ Flagging /\ KeysFit /\ HeadTop => HeadsAgree
  BY WholeHeads
<1> QED
  BY Invariance, <1>1, <1>2, <1>3, <1>4, <1>5, <1>6, <1>7, <1>8, PTL DEF Spec

-----------------------------------------------------------------------------
(* Calls that give up.                                                     *)

\* What an item must find in the store: its origins, and the clock before it.
Prior(d) ==
  ({d.origin_left, d.origin_right} \ {NoId})
    \cup { y \in Ids : y[1] = d.id[1] /\ y[2] + 1 = d.id[2] }

\* What an item must find does not depend on its payload.
LEMMA PriorCore ==
  ASSUME NEW d, NEW e, Core(d) = Core(e)
  PROVE  Prior(d) = Prior(e)
<1>1. d.id = e.id /\ d.origin_left = e.origin_left /\ d.origin_right = e.origin_right
  BY DEF Core
<1> QED
  BY <1>1 DEF Prior

LEMMA PriorIds ==
  ASSUME NEW d \in Items
  PROVE  Prior(d) \subseteq Ids
  BY DEF Prior, Items, OptIds

\* The entry before one of a vector holds the clock before it.
LEMMA ClockBefore ==
  ASSUME DocOK, History, NEW p \in Clients, NEW c \in Clients, NEW i \in DOMAIN store[p][c],
         NEW y \in Ids, y[1] = c, y[2] + 1 = store[p][c][i].id[2]
  PROVE  \E j \in DOMAIN store[p][c] : j + 1 = i /\ Covers(store[p][c][j], y)
<1>1. /\ DOMAIN store[p][c] = 1 .. Len(store[p][c]) /\ Len(store[p][c]) \in Nat
      /\ y[2] \in Nat /\ i \in Nat
  BY VectorDomain DEF Ids
<1>2. i # 1
  BY <1>1 DEF History, Dense
<1>3. PICK j : j = i - 1
  OBVIOUS
<1>4. j \in DOMAIN store[p][c] /\ j + 1 = i
  BY <1>1, <1>2, <1>3
<1>5. End(store[p][c][j]) = store[p][c][i].id[2] /\ Client(store[p][c][j]) = c
  BY <1>2, <1>3, <1>4 DEF History, Dense
<1>6. store[p][c][j] \in Items
  BY <1>4, StoredEntry
<1>7. /\ store[p][c][j].id[2] \in Nat /\ End(store[p][c][j]) \in Nat
      /\ End(store[p][c][j]) > store[p][c][j].id[2]
  BY <1>6, ItemIds
<1>8. y # NoId
  BY IdsSet
<1>a. store[p][c][j].id[1] = y[1]
  BY <1>5 DEF Client
<1>b. store[p][c][j].id[2] <= y[2] /\ y[2] < End(store[p][c][j])
  BY <1>1, <1>5, <1>7
<1>9. Covers(store[p][c][j], y)
  BY <1>8, <1>a, <1>b DEF Covers
<1> QED
  BY <1>4, <1>9

\* Whatever a stored item must find is stored with it.
LEMMA PriorStored ==
  ASSUME DocOK, History, NEW p \in Clients, NEW c \in Clients, NEW i \in DOMAIN store[p][c],
         NEW x \in Prior(store[p][c][i])
  PROVE  Has(store[p], x)
<1>1. store[p][c][i] \in Items /\ Client(store[p][c][i]) = c
  BY StoredEntry DEF History, Dense
<1>2. x \in Ids
  BY <1>1, PriorIds
<1>3. CASE x \in {store[p][c][i].origin_left, store[p][c][i].origin_right} \ {NoId}
  <2>1. store[p][c][i] \in Stored(store[p])
    <3>1. store[p][c][i] \in ToSet(store[p][c]) /\ c \in DOMAIN store[p]
      BY DEF ToSet, DocOK, Stores
    <3> QED
      BY <3>1 DEF Stored
  <2> QED
    BY <1>3, <2>1 DEF History, OriginsStored
<1>4. CASE x[1] = c /\ x[2] + 1 = store[p][c][i].id[2]
  <2>1. PICK j \in DOMAIN store[p][c] : Covers(store[p][c][j], x)
    BY <1>2, <1>4, ClockBefore
  <2> QED
    BY <1>2, <1>4, <2>1 DEF Has, Ids, NoId, Covers
<1> QED
  BY <1>1, <1>3, <1>4 DEF Prior, Client

\* A struct that finds what it must is installed, or known.
LEMMA PriorFits ==
  ASSUME DocOK, History, NEW p \in Clients, NEW d \in Items, Emitted(d),
         \A x \in Prior(d) : Has(store[p], x)
  PROVE  ~Unfit(store[p], d)
<1> SUFFICES ASSUME Unfit(store[p], d) PROVE FALSE
  OBVIOUS
<1>1. PICK c \in Clients : c = Client(d)
  BY ItemIds
<1>2. /\ d.id \in Ids /\ d.id[1] = c /\ d.id[2] \in Nat /\ Covers(d, d.id) /\ d.id # NoId
  BY <1>1, ItemIds DEF Client, Covers
<1>3. PICK m \in DOMAIN store[c][c] : Core(d) = Core(store[c][c][m])
  BY <1>1 DEF Emitted
<1>4. ~Has(store[p], d.id) /\ ~MissesOrigin(store[p], d) /\ ~CanAppend(store[p], d)
  BY DEF Unfit, MissesOrigin, Prior
<1>5. store[c][c][m].id = d.id /\ Covers(store[c][c][m], d.id)
  BY <1>2, <1>3 DEF Core, Covers, End
<1>6. /\ DOMAIN store[p][c] = 1 .. Len(store[p][c]) /\ Len(store[p][c]) \in Nat
      /\ DOMAIN store[c][c] = 1 .. Len(store[c][c]) /\ Len(store[c][c]) \in Nat
  BY VectorDomain
<1>7. m \notin DOMAIN store[p][c]
  <2> SUFFICES ASSUME m \in DOMAIN store[p][c] PROVE FALSE
    OBVIOUS
  <2>1. Core(store[p][c][m]) = Core(store[c][c][m])
    BY DEF History, SameHistory
  <2>2. Covers(store[p][c][m], d.id)
    BY <1>5, <2>1 DEF Core, Covers, End
  <2> QED
    BY <1>2, <1>4, <2>2 DEF Has
<1>8. State(store[p], c) # d.id[2]
  BY <1>1, <1>4 DEF CanAppend
<1>9. CASE m = 1
  <2>1. d.id[2] = 0
    BY <1>5, <1>9 DEF History, Dense
  <2>2. Len(store[p][c]) = 0
    BY <1>6, <1>7, <1>9
  <2>3. store[p][c] = << >>
    BY <2>2, EmptySeq DEF DocOK, Stores
  <2> QED
    BY <1>8, <2>1, <2>3 DEF State
<1>10. CASE m # 1
  <2>1. PICK n : n = m - 1
    OBVIOUS
  <2>2. n \in DOMAIN store[c][c] /\ n + 1 = m
    BY <1>6, <1>10, <2>1
  <2>3. End(store[c][c][n]) = d.id[2]
    BY <1>5, <1>10, <2>1 DEF History, Dense
  <2>4. /\ store[c][c][n].id[2] \in Nat
        /\ store[c][c][n].id[2] < d.id[2]
    BY <2>2, <2>3, StoredEntry
  <2>5. PICK y : y = << c, d.id[2] - 1 >>
    OBVIOUS
  <2>6. y \in Ids /\ y[1] = c /\ y[2] + 1 = d.id[2]
    BY <1>2, <2>4, <2>5 DEF Ids
  <2>7. Has(store[p], y)
    BY <1>2, <2>6 DEF Prior
  <2>8. PICK j \in DOMAIN store[p][c] : Covers(store[p][c][j], y)
    BY <2>6, <2>7 DEF Has
  <2>9. j \in DOMAIN store[c][c] /\ Covers(store[c][c][j], y)
    BY <2>6, <2>8, AuthorsEntry
  <2>10. PICK l \in DOMAIN store[c][c] : l + 1 = m /\ Covers(store[c][c][l], y)
    BY <1>5, <2>6, ClockBefore
  <2>11. j = l
    BY <2>6, <2>9, <2>10, StoreSorted, Apart
  <2>12. j = Len(store[p][c]) /\ j = n
    BY <1>6, <1>7, <2>2, <2>8, <2>10, <2>11
  <2>13. store[p][c] # << >>
    BY <2>8
  <2>14. State(store[p], c) = End(store[p][c][j])
    BY <2>12, <2>13 DEF State
  <2>15. End(store[p][c][j]) = End(store[c][c][j])
    BY <2>8 DEF History, SameHistory, Core, End
  <2> QED
    BY <1>8, <2>3, <2>12, <2>14, <2>15
<1> QED
  BY <1>9, <1>10

\* Every step writes an item, copies one of another client, compacts, or
\* leaves the stores alone.
LEMMA StepWrites ==
  ASSUME IInv, Next
  PROVE  \/ \E p \in Clients : \E it : Emits(p, it)
         \/ \E p \in Clients : \E it : Extends(p, it) /\ Client(it) # p
         \/ \E p \in Clients : Compact(p)
         \/ UNCHANGED store
<1> DEFINE Writes == \E p \in Clients : \E it : Emits(p, it)
           Copied == \E p \in Clients : \E it : Extends(p, it) /\ Client(it) # p
<1>1. DocOK /\ CallOK /\ History /\ InFlightAuthentic
  BY InvariantParts
<1>2. ASSUME NEW p \in Clients, LocalEdit(p) PROVE Writes \/ UNCHANGED store
  BY <1>1, <1>2, LocalEditOK
<1>3. ASSUME NEW p \in Clients,
             \/ \E q \in Clients : Pull(p, q)
             \/ Publish(p)
             \/ \E m \in msgs : Deliver(p, m)
      PROVE  UNCHANGED store
  BY <1>3 DEF Pull, Publish, Deliver, docVars
<1>4. ASSUME Apply PROVE Copied \/ UNCHANGED store
  <2>1. job # NoJob
    BY <1>4 DEF Apply, ApplyOne, NextPass, GiveUp, ApplyDeletes, PassIsOver
  <2>2. /\ job \in Jobs /\ job.doc \in Clients /\ job.todo \subseteq Items
        /\ \A d \in job.todo : Authentic(d)
    BY <1>1, <2>1 DEF CallOK, Jobs, InFlightAuthentic
  <2>3. ASSUME NEW d \in job.todo, ApplyInstalled(d) PROVE Copied
    <3>1. d \in Items /\ Authentic(d)
      BY <2>2
    <3>2. d.parent # NoParent => d.origin_left = NoId /\ d.origin_right = NoId
      BY <3>1 DEF Authentic
    <3>3. PICK it : Extends(job.doc, it) /\ Core(it) = Core(d)
      BY <1>1, <2>2, <2>3, <3>1, <3>2, ApplyInstalledOK
    <3>4. Emitted(it)
      BY <3>1, <3>3 DEF Authentic, Emitted, Core, Client
    <3>5. Client(it) # job.doc
      BY <1>1, <2>2, <3>3, <3>4, OwnIsNew
    <3> QED
      BY <2>2, <3>3, <3>5
  <2>4. ASSUME NEW d \in job.todo,
               ApplyKnown(d) \/ ApplyDeferred(d) \/ ApplyRejected(d)
        PROVE  UNCHANGED store
    BY <2>4 DEF ApplyKnown, ApplyDeferred, ApplyRejected, docVars
  <2>5. ASSUME NextPass \/ GiveUp \/ ApplyDeletes PROVE UNCHANGED store
    BY <2>5 DEF NextPass, GiveUp, ApplyDeletes, docVars
  <2> QED
    BY <1>4, <2>3, <2>4, <2>5 DEF Apply, ApplyOne
<1> HIDE DEF Writes, Copied
<1>5. Writes \/ Copied \/ (\E p \in Clients : Compact(p)) \/ UNCHANGED store
  BY <1>2, <1>3, <1>4 DEF Next
<1> QED
  BY <1>5 DEF Writes, Copied

\* A rank in which every clock of an item comes behind all that the item must
\* find: nobody names an item that is not there yet.
RankedBy(r) ==
  /\ r \in [Ids -> Nat]
  /\ \A c \in Clients : \A i \in DOMAIN store[c][c] :
       \A x \in Prior(store[c][c][i]), y \in Ids :
         Covers(store[c][c][i], y) => r[x] < r[y]
Ranked == \E r : RankedBy(r)

LEMMA InitRanked == Init => Ranked
<1> SUFFICES ASSUME Init PROVE Ranked
  OBVIOUS
<1>1. \A c \in Clients : DOMAIN store[c][c] = {}
  BY DEF Init
<1>2. RankedBy([x \in Ids |-> 0])
  BY <1>1 DEF RankedBy
<1> QED
  BY <1>2 DEF Ranked

\* The authors' items but for payloads.
SameWritten ==
  \A c \in Clients : \A i \in DOMAIN store'[c][c] :
    i \in DOMAIN store[c][c] /\ Core(store'[c][c][i]) = Core(store[c][c][i])

\* Where nothing is written the rank still fits.
LEMMA SameRanked ==
  ASSUME Ranked, SameWritten
  PROVE  Ranked'
<1>1. PICK r : RankedBy(r)
  BY DEF Ranked
<1>2. ASSUME NEW c \in Clients, NEW i \in DOMAIN store'[c][c],
             NEW x \in Prior(store'[c][c][i]), NEW y \in Ids, Covers(store'[c][c][i], y)
      PROVE  r[x] < r[y]
  <2>1. i \in DOMAIN store[c][c] /\ Core(store'[c][c][i]) = Core(store[c][c][i])
    BY DEF SameWritten
  <2>2. x \in Prior(store[c][c][i])
    BY <2>1, PriorCore
  <2>3. Covers(store[c][c][i], y)
    BY <1>2, <2>1 DEF Core, Covers, End
  <2> QED
    BY <1>1, <2>1, <2>2, <2>3 DEF RankedBy
<1>3. RankedBy(r)'
  BY <1>1, <1>2 DEF RankedBy
<1> QED
  BY <1>3 DEF Ranked

\* Some number is above the ranks of what an item must find.
LEMMA RankAbove ==
  ASSUME NEW r \in [Ids -> Nat], NEW it \in Items
  PROVE  \E n \in Nat : \A x \in Prior(it) : r[x] < n
<1>1. PICK a \in Nat : it.origin_left \in Ids => r[it.origin_left] = a
  OBVIOUS
<1>2. PICK b \in Nat : it.origin_right \in Ids => r[it.origin_right] = b
  OBVIOUS
<1>3. PICK y : y = << it.id[1], it.id[2] - 1 >>
  OBVIOUS
<1>4. PICK c \in Nat : y \in Ids => r[y] = c
  OBVIOUS
<1>5. it.id[2] \in Nat
  BY ItemIds
<1>6. \A x \in Ids : x[1] = it.id[1] /\ x[2] + 1 = it.id[2] => x = y
  BY <1>3, <1>5 DEF Ids
<1>7. ASSUME NEW x \in Prior(it) PROVE r[x] < a + b + c + 1
  <2>1. x \in Ids
    BY PriorIds
  <2>2. x = it.origin_left \/ x = it.origin_right \/ x = y
    BY <1>6 DEF Prior
  <2>3. r[x] = a \/ r[x] = b \/ r[x] = c
    BY <1>1, <1>2, <1>4, <2>1, <2>2
  <2> QED
    BY <2>3
<1>8. PICK n \in Nat : n = a + b + c + 1
  OBVIOUS
<1> QED
  BY <1>7, <1>8

\* A new item ranks above all that it names, and nobody names it yet.
LEMMA EmitRanked ==
  ASSUME DocOK, History, Ranked, NEW p \in Clients, NEW it, Emits(p, it)
  PROVE  Ranked'
<1>1. Extends(p, it) /\ Client(it) = p /\ it \in Items /\ CanAppend(store[p], it)
  BY DEF Emits, Extends
<1>2. PICK r : RankedBy(r)
  BY DEF Ranked
<1>3. r \in [Ids -> Nat]
  BY <1>2 DEF RankedBy
<1>4. PICK n \in Nat : \A x \in Prior(it) : r[x] < n
  BY <1>1, <1>3, RankAbove
<1>5. PICK q : q = [y \in Ids |-> IF Covers(it, y) THEN n ELSE r[y]]
  OBVIOUS
<1>6. q \in [Ids -> Nat] /\ \A y \in Ids : q[y] = IF Covers(it, y) THEN n ELSE r[y]
  BY <1>3, <1>5
<1>7. ASSUME NEW x \in Ids, Has(store[p], x) PROVE ~Covers(it, x)
  BY <1>1, <1>7, StoreSorted, AppendFresh
<1>8. ASSUME NEW c \in Clients, NEW x \in Ids, Has(store[c], x) PROVE ~Covers(it, x)
  <2> SUFFICES ASSUME Covers(it, x) PROVE FALSE
    OBVIOUS
  <2>1. x[1] = p
    BY <1>1 DEF Covers, Client
  <2>2. Has(store[p], x)
    BY <1>8, <2>1, AuthorHas
  <2> QED
    BY <1>7, <2>2
<1>9. ASSUME NEW x \in Prior(it) PROVE x \in Ids /\ ~Covers(it, x)
  <2>1. x \in Ids
    BY <1>1, PriorIds
  <2>2. CASE x \in {it.origin_left, it.origin_right} \ {NoId}
    <3>1. Has(store[p], x)
      BY <1>1, <2>2 DEF Extends
    <3> QED
      BY <1>7, <2>1, <3>1
  <2>3. CASE x[2] + 1 = it.id[2]
    <3>1. x[2] \in Nat /\ it.id[2] \in Nat
      BY <1>1, <2>1, ItemIds DEF Ids
    <3> QED
      BY <2>1, <2>3, <3>1 DEF Covers
  <2> QED
    BY <2>1, <2>2, <2>3 DEF Prior
<1>10. ASSUME NEW c \in Clients, NEW i \in DOMAIN store'[c][c],
              NEW x \in Prior(store'[c][c][i]), NEW y \in Ids, Covers(store'[c][c][i], y)
       PROVE  q[x] < q[y]
  <2>1. CASE i \in DOMAIN store[c][c] /\ store'[c][c][i] = store[c][c][i]
    <3>1. r[x] < r[y]
      BY <1>2, <1>10, <2>1 DEF RankedBy
    <3>2. x \in Ids /\ ~Covers(it, x)
      <4>1. store[c][c][i] \in Items
        BY <2>1, StoredEntry
      <4>2. x \in Ids
        BY <2>1, <4>1, PriorIds
      <4>3. Has(store[c], x)
        BY <2>1, PriorStored
      <4> QED
        BY <1>8, <4>2, <4>3
    <3>3. ~Covers(it, y)
      <4>1. Has(store[y[1]], y) /\ y[1] = c
        BY <1>10, <2>1, AuthorsEntry
      <4> QED
        BY <1>8, <4>1
    <3> QED
      BY <1>6, <3>1, <3>2, <3>3
  <2>2. CASE store'[c][c][i] = it
    <3>1. x \in Ids /\ ~Covers(it, x) /\ r[x] < n
      BY <1>4, <1>9, <2>2
    <3>2. Covers(it, y)
      BY <1>10, <2>2
    <3> QED
      BY <1>6, <3>1, <3>2
  <2>3. \/ i \in DOMAIN store[c][c] /\ store'[c][c][i] = store[c][c][i]
        \/ store'[c][c][i] = it
    <3>1. CASE c # p
      BY <1>1, <3>1, ExtendStore
    <3>2. CASE c = p
      <4>1. store[p][p] \in Seq(Items)
        BY DEF DocOK, Stores
      <4>2. store'[p][p] = Append(store[p][p], it)
        BY <1>1, ExtendStore
      <4> QED
        BY <3>2, <4>1, <4>2
    <3> QED
      BY <3>1, <3>2
  <2> QED
    BY <2>1, <2>2, <2>3
<1>11. RankedBy(q)'
  BY <1>6, <1>10 DEF RankedBy
<1> QED
  BY <1>11 DEF Ranked

LEMMA RankedStep ==
  ASSUME IInv, Ranked, [Next]_vars
  PROVE  Ranked'
<1>1. DocOK /\ History
  BY InvariantParts
<1>2. ASSUME UNCHANGED store PROVE SameWritten
  BY <1>2 DEF SameWritten
<1>3. CASE UNCHANGED vars
  BY <1>2, <1>3, SameRanked DEF vars, docVars
<1>4. CASE Next
  <2>1. CASE \E p \in Clients : \E it : Emits(p, it)
    BY <1>1, <2>1, EmitRanked
  <2>2. CASE \E p \in Clients : \E it : Extends(p, it) /\ Client(it) # p
    <3>1. PICK p \in Clients : \E it : Extends(p, it) /\ Client(it) # p
      BY <2>2
    <3>2. PICK it : Extends(p, it) /\ Client(it) # p
      BY <3>1
    <3>3. \A c \in Clients : store'[c][c] = store[c][c]
      BY <1>1, <3>2, ExtendStore
    <3>4. SameWritten
      BY <3>3 DEF SameWritten
    <3> QED
      BY <3>4, SameRanked
  <2>3. CASE \E p \in Clients : Compact(p)
    <3>1. SameWritten
      BY <1>1, <2>3, CompactOK DEF SameWritten
    <3> QED
      BY <3>1, SameRanked
  <2>4. CASE UNCHANGED store
    BY <1>2, <2>4, SameRanked
  <2> QED
    BY <1>4, <2>1, <2>2, <2>3, <2>4, StepWrites
<1> QED
  BY <1>3, <1>4

\* All that a struct on its way must find is there or on its way with it.
CallFits ==
  job # NoJob => \A d \in job.todo : \A x \in Prior(d) : Reachable(job.doc, job.todo, x)

\* A document that asks gets with each struct what that must find, or has it
\* (encode_diff_v1 counts from a state vector, and stores are closed).
LEMMA PullFits ==
  ASSUME IInv, NEW from \in Clients, NEW to \in Clients, Pull(from, to)
  PROVE  CallFits'
<1>1. DocOK /\ CallOK /\ History
  BY InvariantParts
<1>2. PICK since : since = StateVector(store[to])
  OBVIOUS
<1>3. since \in [Clients -> Nat]
  BY <1>1, <1>2, StateOK DEF DocOK
<1>4. job'.doc = to /\ job'.todo = Diff(from, since).structs /\ store' = store
  BY <1>2 DEF Pull, Begin, Diff, docVars
<1>5. ASSUME NEW d \in Diff(from, since).structs, NEW x \in Prior(d)
      PROVE  Reachable(to, Diff(from, since).structs, x)
  <2>1. PICK c \in Clients : \E i \in DOMAIN store[from][c] : d = Wire(store[from][c][i])
    BY <1>1, <1>3, DiffOK
  <2>2. PICK i \in DOMAIN store[from][c] : d = Wire(store[from][c][i])
    BY <2>1
  <2>3. store[from][c][i] \in Items /\ Core(d) = Core(store[from][c][i])
    BY <1>1, <2>2, StoredEntry, WireOK
  <2>4. x \in Prior(store[from][c][i]) /\ x \in Ids
    BY <2>3, PriorCore, PriorIds
  <2>5. Has(store[from], x)
    BY <1>1, <2>4, PriorStored
  <2>6. PICK b \in Clients : b = x[1]
    BY <2>4 DEF Ids
  <2>7. PICK j \in DOMAIN store[from][b] : Covers(store[from][b][j], x)
    BY <2>5, <2>6 DEF Has
  <2>8. Reached(to, b, since[b])
    BY <1>1, <1>2, VectorReached
  <2> QED
    BY <1>1, <1>3, <2>4, <2>7, <2>8, HeldOrSent
<1> QED
  BY <1>4, <1>5 DEF CallFits, Reachable, Has

LEMMA CallFitsStep ==
  ASSUME Publishers = {}, IInv, CallFits, NoneSent, [Next]_vars
  PROVE  CallFits' /\ NoneSent'
<1>1. DocOK /\ CallOK /\ History
  BY InvariantParts
<1>2. ASSUME NEW p \in Clients, LocalEdit(p) PROVE CallFits' /\ NoneSent'
  BY <1>1, <1>2, LocalEditOK, CallsAreAlone DEF CallFits, NoneSent
<1>3. ASSUME NEW p \in Clients, Compact(p) PROVE CallFits' /\ NoneSent'
  BY <1>3 DEF Compact, CallFits, NoneSent
<1>4. ASSUME NEW p \in Clients, NEW q \in Clients, Pull(p, q) PROVE CallFits' /\ NoneSent'
  BY <1>4, PullFits DEF Pull, NoneSent
<1>5. ASSUME NEW p \in Clients, Publish(p) \/ \E m \in msgs : Deliver(p, m) PROVE FALSE
  BY <1>5 DEF Publish, NoneSent
<1>6. CASE Apply
  <2>1. UNCHANGED msgs /\ job # NoJob /\ (job' # NoJob => job'.todo \subseteq job.todo)
    BY <1>6, TodoShrinks
  <2>2. job.todo \subseteq Items
    BY <1>1, <2>1 DEF CallOK, Jobs
  <2>3. ASSUME job' # NoJob, NEW d \in job'.todo, NEW x \in Prior(d)
        PROVE  Reachable(job.doc, job.todo, x)'
    <3>1. d \in job.todo /\ x \in Ids
      BY <2>1, <2>2, <2>3, PriorIds
    <3>2. Reachable(job.doc, job.todo, x)
      BY <2>1, <2>3, <3>1 DEF CallFits
    <3> QED
      BY <1>6, <2>3, <3>1, <3>2, ReachableStays
  <2> QED
    BY <2>1, <2>3 DEF CallFits, NoneSent
<1>7. CASE UNCHANGED vars
  BY <1>7 DEF vars, docVars, CallFits, NoneSent, Reachable, Has
<1> QED
  BY <1>2, <1>3, <1>4, <1>5, <1>6, <1>7 DEF Next

\* Of the structs that a call would leave out one comes first, and it is not
\* in want of anything.
LEMMA NoneLeftOut ==
  ASSUME IInv, TriedInVain, Ranked, CallFits, GiveUp
  PROVE  FALSE
<1>1. DocOK /\ CallOK /\ History /\ InFlightAuthentic
  BY InvariantParts
<1>2. /\ job # NoJob /\ ~job.progress /\ job.todo \subseteq job.tried
      /\ job.todo # {}
  BY DEF GiveUp, PassIsOver
<1>3. PICK p \in Clients : p = job.doc
  BY <1>1, <1>2 DEF CallOK, Jobs
<1>4. \A d \in job.todo : d \in Items /\ Emitted(d) /\ Unfit(store[p], d)
  BY <1>1, <1>2, <1>3 DEF CallOK, Jobs, InFlightAuthentic, Authentic, TriedInVain
<1>5. PICK r : RankedBy(r)
  BY DEF Ranked
<1> DEFINE Awaited == { y \in Ids : ~Has(store[p], y) /\ \E e \in job.todo : Covers(e, y) }
<1>6. PICK T : T = { r[y] : y \in Awaited }
  OBVIOUS
<1>7. T \in SUBSET Nat
  BY <1>5, <1>6 DEF RankedBy
<1>8. T # {}
  <2>1. PICK d : d \in job.todo
    BY <1>2
  <2>2. d.id \in Ids /\ Covers(d, d.id) /\ ~Has(store[p], d.id)
    BY <1>4, <2>1, ItemIds DEF Unfit
  <2> QED
    BY <1>6, <2>1, <2>2
<1>9. PICK m \in T : \A k \in T : m <= k
  BY <1>7, <1>8, NatLeast
<1>10. PICK y \in Awaited : m = r[y]
  BY <1>6, <1>9
<1>11. PICK e \in job.todo : Covers(e, y)
  BY <1>10
<1>12. PICK x \in Prior(e) : ~Has(store[p], x)
  BY <1>1, <1>4, <1>11, PriorFits
<1>13. x \in Ids
  BY <1>4, <1>11, <1>12, PriorIds
<1>14. Reachable(p, job.todo, x)
  BY <1>2, <1>3, <1>11, <1>12 DEF CallFits
<1>15. x \in Awaited
  BY <1>12, <1>13, <1>14 DEF Reachable
<1>16. r[x] < r[y]
  <2>1. PICK c \in Clients : c = Client(e)
    BY <1>4, <1>11, ItemIds
  <2>2. PICK j \in DOMAIN store[c][c] : Core(e) = Core(store[c][c][j])
    BY <1>4, <1>11, <2>1 DEF Emitted
  <2>3. x \in Prior(store[c][c][j]) /\ Covers(store[c][c][j], y)
    BY <1>11, <1>12, <2>2, PriorCore DEF Core, Covers, End
  <2> QED
    BY <1>5, <1>10, <2>2, <2>3 DEF RankedBy
<1>17. r[x] \in T /\ r[x] \in Nat /\ r[y] \in Nat
  BY <1>5, <1>6, <1>10, <1>13, <1>15 DEF RankedBy
<1> QED
  BY <1>9, <1>10, <1>16, <1>17

\* Where documents ask each other for what they lack, no call gives up:
\* whatever the order of clients in an update, its passes install every
\* struct, so kPendingReference is never returned and no delete set is lost
\* (apply_update_v1, encode_diff_v1).
THEOREM NoCallGivesUp ==
  ASSUME Publishers = {}
  PROVE  Spec => [][~GiveUp]_vars
<1>1. Init => TriedInVain /\ Ranked /\ CallFits /\ NoneSent
  <2>1. Init => TriedInVain /\ CallFits /\ NoneSent
    BY DEF Init, TriedInVain, CallFits, NoneSent
  <2> QED
    BY <2>1, InitRanked
<1>2. IInv /\ TriedInVain /\ [Next]_vars => TriedInVain'
  BY TriedInVainStep, InvariantParts
<1>3. IInv /\ Ranked /\ [Next]_vars => Ranked'
  BY RankedStep
<1>4. IInv /\ CallFits /\ NoneSent /\ [Next]_vars => CallFits' /\ NoneSent'
  BY CallFitsStep
<1>5. IInv /\ TriedInVain /\ Ranked /\ CallFits => ~GiveUp
  BY NoneLeftOut
<1> QED
  BY Invariance, <1>1, <1>2, <1>3, <1>4, <1>5, PTL DEF Spec

-----------------------------------------------------------------------------
(* The items that the authors hold: of every client its own.               *)

Authors == [c \in Clients |-> store[c][c]]

\* Item x was written for key k.
WrittenFor(k, x) == Exact(Authors, x) /\ Root(x) = k

\* The chains of the items written for keys are not cut.
AuthorsFit == \A k \in Keys : \A x : WrittenFor(k, x) => Full(Authors, x)

WellWritten == WellStored(Authors)

LEMMA AuthorsAre ==
  ASSUME DocOK, History
  PROVE  /\ WellStored(Authors)
         /\ \A p \in Clients : Within(store[p], Authors)
         /\ \A c \in Clients : Authors[c] = store[c][c]
<1>1. \A c \in Clients : Authors[c] = store[c][c] /\ store[c] \in Stores /\ Sorted(store[c])
  BY StoreSorted DEF Authors
<1>2. Authors \in Stores
  <2>1. \A c \in Clients : store[c][c] \in Seq(Items)
    BY <1>1 DEF Stores
  <2> QED
    BY <2>1 DEF Authors, Stores
<1>3. Sorted(Authors)
  BY <1>1 DEF Sorted
<1>4. ASSUME NEW c \in Clients, NEW i \in DOMAIN Authors[c],
             Authors[c][i].origin_left # NoId
      PROVE  Has(Authors, Authors[c][i].origin_left)
  <2>1. i \in DOMAIN store[c][c] /\ Authors[c][i] = store[c][c][i]
    BY <1>1
  <2>2. PICK ol : ol = store[c][c][i].origin_left
    OBVIOUS
  <2>3. store[c][c][i] \in Items
    BY <1>1, <2>1, EntryIs
  <2>4. ol \in Ids /\ ol # NoId
    BY <1>4, <2>1, <2>2, <2>3 DEF Items, OptIds
  <2>5. store[c][c][i] \in Stored(store[c])
    BY <1>1, <2>1 DEF Stored, Stores, ToSet
  <2>6. Has(store[c], ol)
    BY <2>2, <2>4, <2>5 DEF History, OriginsStored
  <2>7. ol[1] \in Clients /\ Has(store[ol[1]], ol)
    BY <2>4, <2>6, AuthorHas
  <2>8. Has(Authors, ol)
    BY <1>1, <2>7 DEF Has
  <2> QED
    BY <2>1, <2>2, <2>8
<1>5. ASSUME NEW p \in Clients PROVE Within(store[p], Authors)
  BY <1>1 DEF History, SameHistory, Within
<1> QED
  BY <1>1, <1>2, <1>3, <1>4, <1>5 DEF WellStored

LEMMA AuthorsWell == IInv => WellWritten
  BY InvariantParts, AuthorsAre DEF WellWritten

\* What a document holds of a key was written for it.
LEMMA HeldWritten ==
  ASSUME IInv, NEW p \in Clients, NEW x, Exact(store[p], x)
  PROVE  /\ WrittenFor(Root(x), x) /\ OriginOf(Authors, x) = OriginOf(store[p], x)
         /\ WellStored(store[p]) /\ WellStored(Authors) /\ Within(store[p], Authors)
<1>1. DocOK /\ History
  BY InvariantParts
<1>2. WellStored(Authors) /\ Within(store[p], Authors)
  BY <1>1, AuthorsAre
<1>3. WellStored(store[p])
  BY StoreWell DEF WellKept
<1> QED
  BY <1>2, <1>3, OriginKept DEF WrittenFor

\* A value belongs to its key.
LEMMA ValueWritten ==
  ASSUME IInv, AllRooted, NEW p \in Clients, NEW k \in Keys, NEW x, IsValue(store[p], k, x)
  PROVE  Exact(store[p], x) /\ WrittenFor(k, x)
<1>1. WellStored(store[p])
  BY StoreWell DEF WellKept
<1>2. Exact(store[p], x)
  BY <1>1, ValueExact
<1>3. PICK c \in Clients : \E i \in DOMAIN store[p][c] :
        store[p][c][i].id = x /\ store[p][c][i].parent = k
  BY DEF IsValue
<1>4. PICK i \in DOMAIN store[p][c] : store[p][c][i].id = x /\ store[p][c][i].parent = k
  BY <1>3
<1>5. Rooted(store[p][c][i])
  BY DEF AllRooted, StoredRooted
<1>6. Root(x) = k
  BY <1>4, <1>5, ParentAssumption DEF Rooted
<1> QED
  BY <1>2, <1>6, HeldWritten

\* What was written stays written, with the same line.
LEMMA WrittenStays ==
  ASSUME IInv, WellWritten', Grown, RootStays, AuthorsFit,
         NEW k \in Keys, NEW x, WrittenFor(k, x)
  PROVE  /\ WrittenFor(k, x)' /\ Full(Authors', x)
         /\ Line(Authors', x) = Line(Authors, x)
         /\ \A y \in Line(Authors, x) : OriginOf(Authors', y) = OriginOf(Authors, y)
<1>1. DocOK /\ History
  BY InvariantParts
<1>3. WellStored(Authors) /\ (\A c \in Clients : Authors[c] = store[c][c])
  BY <1>1, AuthorsAre
<1>4. WellStored(Authors') /\ (\A c \in Clients : Authors'[c] = store'[c][c])
  BY DEF WellWritten, Authors
<1>5. Within(Authors, Authors')
  BY <1>3, <1>4 DEF Grown, Within
<1>6. Exact(Authors, x) /\ Full(Authors, x)
  BY DEF WrittenFor, AuthorsFit
<1>7. \A y \in Line(Authors, x) : OriginOf(Authors', y) = OriginOf(Authors, y)
  BY <1>3, <1>4, <1>5, <1>6, LineExact, OriginKept
<1>8. Exact(Authors', x)
  BY <1>3, <1>4, <1>5, <1>6, OriginKept
<1>9. Root(x)' = Root(x)
  <2>1. x \in Ids /\ Has(Authors, x)
    BY <1>3, <1>6, ExactFound DEF WellStored
  <2>2. Has(store[x[1]], x)
    BY <1>3, <2>1 DEF Has, Ids
  <2> QED
    BY <2>1, <2>2 DEF RootStays
<1> QED
  BY <1>3, <1>4, <1>5, <1>6, <1>7, <1>8, <1>9, LineKept DEF WrittenFor

\* A step adds to what the authors hold a value at most.
LEMMA AuthorsGrow ==
  ASSUME IInv, Next, NEW c \in Clients, NEW i \in DOMAIN store'[c][c],
         i \notin DOMAIN store[c][c]
  PROVE  store'[c][c][i].content_kind = "string"
<1>1. DocOK
  BY InvariantParts
<1>2. CASE \E p \in Clients : \E it : Emits(p, it)
  <2>1. PICK p \in Clients : \E it : Emits(p, it)
    BY <1>2
  <2>2. PICK it : Emits(p, it)
    BY <2>1
  <2>3. Extends(p, it) /\ it.content_kind = "string" /\ it \in Items /\ Client(it) = p
    BY <2>2 DEF Emits, Extends
  <2>4. /\ c # p => store'[c][c] = store[c][c]
        /\ store'[p][p] = Append(store[p][p], it)
    BY <1>1, <2>3, ExtendStore
  <2>5. c = p
    BY <2>4
  <2>6. store[p][p] \in Seq(Items)
    BY <1>1 DEF DocOK, Stores
  <2>7. i = Len(store[p][p]) + 1 /\ store'[p][p][i] = it
    BY <2>4, <2>5, <2>6
  <2> QED
    BY <2>3, <2>5, <2>7
<1>3. CASE \E p \in Clients : \E it : Extends(p, it) /\ Client(it) # p
  <2>1. PICK p \in Clients : \E it : Extends(p, it) /\ Client(it) # p
    BY <1>3
  <2>2. PICK it : Extends(p, it) /\ Client(it) # p
    BY <2>1
  <2>3. store'[c][c] = store[c][c]
    BY <1>1, <2>2, ExtendStore
  <2> QED
    BY <2>3
<1>4. CASE \E p \in Clients : Compact(p)
  BY <1>1, <1>4, CompactOK
<1>5. CASE UNCHANGED store
  BY <1>5
<1> QED
  BY <1>2, <1>3, <1>4, <1>5, StepWrites

\* The chain of a new value is not cut, so no chain of written items is.
LEMMA AuthorsFitStep ==
  ASSUME IInv, IInv', WellWritten', WellKept', Grown, RootStays, AuthorsFit, KeysFit', Next
  PROVE  AuthorsFit'
<1> SUFFICES ASSUME NEW k \in Keys, NEW x, WrittenFor(k, x)' PROVE Full(Authors, x)'
  BY DEF AuthorsFit
<1>1. DocOK /\ History /\ DocOK' /\ History'
  BY InvariantParts, PTL
<1>2. WellStored(Authors) /\ \A c \in Clients : Authors[c] = store[c][c]
  BY <1>1, AuthorsAre
<1>3. WellStored(Authors') /\ \A c \in Clients : Authors'[c] = store'[c][c]
  BY DEF WellWritten, Authors
<1>4. Exact(Authors', x) /\ Root(x)' = k
  BY DEF WrittenFor
<1>5. PICK c \in Clients : c = x[1] /\ x \in Ids
  BY <1>4 DEF Exact, Ids
<1>6. PICK i \in DOMAIN store'[c][c] : store'[c][c][i].id = x
  BY <1>3, <1>4, <1>5 DEF Exact
<1>7. CASE i \in DOMAIN store[c][c]
  <2>1. store[c][c][i].id = x
    BY <1>6, <1>7 DEF Grown, Core
  <2>2. Exact(Authors, x)
    BY <1>2, <1>5, <1>7, <2>1 DEF Exact
  <2>3. Has(Authors, x)
    BY <1>2, <2>2, ExactFound DEF WellStored
  <2>4. Has(store[x[1]], x)
    BY <1>2, <1>5, <2>3 DEF Has
  <2>5. Root(x) = k
    BY <1>4, <1>5, <2>4 DEF RootStays
  <2> QED
    BY <2>2, <2>5, WrittenStays DEF WrittenFor
<1>8. CASE i \notin DOMAIN store[c][c]
  <2>1. store'[c][c][i].content_kind = "string"
    BY <1>8, AuthorsGrow
  <2>2. WellStored(store'[c])
    BY DEF WellKept
  <2>3. Find(store'[c], x) = store'[c][c][i] /\ Exact(store'[c], x)
    BY <1>5, <1>6, <2>2, OriginIs DEF Exact
  <2>4. store'[c][c][i].parent = k
    BY <1>4, <1>5, <2>3 DEF Root
  <2>5. IsValue(store'[c], k, x)
    BY <1>6, <2>1, <2>4 DEF IsValue
  <2>6. Full(store'[c], x)
    BY <2>5 DEF KeysFit, Fits
  <2>7. Within(store'[c], Authors')
    BY <1>1, <1>3 DEF History, SameHistory, Within
  <2> QED
    BY <1>3, <2>2, <2>3, <2>6, <2>7, LineKept
<1> QED
  BY <1>7, <1>8

LEMMA InitAuthors == Init => AuthorsFit
<1> SUFFICES ASSUME Init, NEW k, NEW x, WrittenFor(k, x) PROVE FALSE
  BY DEF AuthorsFit
<1>1. x[1] \in Clients /\ DOMAIN Authors[x[1]] # {}
  BY DEF WrittenFor, Exact, Ids
<1> QED
  BY <1>1 DEF Authors, Init

-----------------------------------------------------------------------------
(* Who may be the head of a key when the call in progress is over.         *)

\* The head of the key, and the values for it that the call brings.
Rival(p, k, y) ==
  \/ y = head[p][k] /\ y # NoId
  \/ /\ job # NoJob /\ p = job.doc
     /\ \E d \in job.todo : d.content_kind = "string" /\ d.id = y /\ Root(y) = k

RivalsWritten ==
  \A p \in Clients, k \in Keys : \A y : Rival(p, k, y) => WrittenFor(k, y)

\* What travels under a key's root was written for the key.
LEMMA SentWritten ==
  ASSUME IInv, NEW d \in Items, Emitted(d), NEW k, Root(d.id) = k
  PROVE  WrittenFor(k, d.id)
<1>1. DocOK /\ History
  BY InvariantParts
<1>2. \A c \in Clients : Authors[c] = store[c][c]
  BY <1>1, AuthorsAre
<1>3. PICK c \in Clients : c = Client(d) /\ d.id \in Ids
  BY ItemIds DEF Items
<1>4. PICK j \in DOMAIN store[c][c] : Core(d) = Core(store[c][c][j])
  BY <1>3 DEF Emitted
<1>5. Authors[c][j].id = d.id /\ c = d.id[1]
  BY <1>2, <1>3, <1>4 DEF Core, Client
<1> QED
  BY <1>2, <1>3, <1>4, <1>5 DEF WrittenFor, Exact

LEMMA RivalsKnown == IInv /\ AllRooted /\ Flagging => RivalsWritten
<1> SUFFICES ASSUME IInv, AllRooted, Flagging, NEW p \in Clients, NEW k \in Keys,
                    NEW y, Rival(p, k, y)
             PROVE  WrittenFor(k, y)
  BY DEF RivalsWritten
<1>1. CASE y = head[p][k] /\ y # NoId
  <2>1. Exact(store[p], y)
    BY <1>1 DEF Flagging, KeysOK
  <2>2. Root(y) = k
    BY <1>1 DEF AllRooted, ShownRooted
  <2> QED
    BY <2>1, <2>2, HeldWritten
<1>2. CASE ~(y = head[p][k] /\ y # NoId)
  <2>1. job # NoJob
    BY <1>2 DEF Rival
  <2>2. PICK d \in job.todo : d.id = y /\ Root(y) = k
    BY <1>2 DEF Rival
  <2>3. d \in Items /\ Emitted(d)
    BY <2>1, InvariantParts DEF CallOK, Jobs, InFlightAuthentic, Authentic
  <2> QED
    BY <2>2, <2>3, SentWritten
<1> QED
  BY <1>1, <1>2

\* Every rival stays one or has one on its right.
Yields(p, k) ==
  \A y : Rival(p, k, y) =>
    \E z : Rival(p, k, z)' /\ (z = y \/ LeftOf(Authors', y, z))

\* What is known of the two ends of a step.
Steady ==
  /\ IInv /\ AllRooted /\ Flagging /\ KeysFit /\ HeadTop
  /\ AuthorsFit /\ RivalsWritten
  /\ IInv' /\ AllRooted' /\ KeysFit' /\ WellKept' /\ WellWritten'
  /\ AuthorsFit' /\ RivalsWritten'
  /\ Grown /\ RootStays

LEMMA WrittenOrderly ==
  ASSUME Steady, NEW k \in Keys, NEW x, WrittenFor(k, x)
  PROVE  /\ WrittenFor(k, x)' /\ Orderly(Authors, x) /\ Orderly(Authors', x)
         /\ Line(Authors', x) = Line(Authors, x)
         /\ \A y \in Line(Authors, x) : OriginOf(Authors', y) = OriginOf(Authors, y)
<1>1. /\ WrittenFor(k, x)' /\ Full(Authors', x)
      /\ Line(Authors', x) = Line(Authors, x)
      /\ \A y \in Line(Authors, x) : OriginOf(Authors', y) = OriginOf(Authors, y)
  BY WrittenStays DEF Steady
<1>2. WellStored(Authors) /\ WellStored(Authors')
  BY AuthorsWell DEF Steady, WellWritten
<1>3. Exact(Authors, x) /\ Full(Authors, x) /\ Exact(Authors', x)
  BY <1>1 DEF Steady, WrittenFor, AuthorsFit
<1> QED
  BY <1>1, <1>2, <1>3, ExactOrderly

\* Two written items keep their places.
LEMMA SidesKept ==
  ASSUME Steady, NEW k \in Keys, NEW x, WrittenFor(k, x), NEW y, WrittenFor(k, y)
  PROVE  /\ Beside(Authors, x, y) <=> Beside(Authors', x, y)
         /\ LeftOf(Authors, x, y) <=> LeftOf(Authors', x, y)
<1>1. /\ Line(Authors', x) = Line(Authors, x)
      /\ \A z \in Line(Authors, x) : OriginOf(Authors', z) = OriginOf(Authors, z)
  BY WrittenOrderly
<1>2. /\ Line(Authors', y) = Line(Authors, y)
      /\ \A z \in Line(Authors, y) : OriginOf(Authors', z) = OriginOf(Authors, z)
  BY WrittenOrderly
<1>3. Beside(Authors, x, y) <=> Beside(Authors', x, y)
  BY <1>1, <1>2 DEF Beside
<1> QED
  BY <1>2, <1>3 DEF LeftOf

\* What is left of a rival stays so.
LEMMA CarrySides ==
  ASSUME Steady, NEW p \in Clients, NEW k \in Keys, Yields(p, k),
         NEW x, WrittenFor(k, x), NEW y, Rival(p, k, y)
  PROVE  /\ Beside(Authors, x, y) => \E z : Rival(p, k, z)' /\ Beside(Authors', x, z)
         /\ LeftOf(Authors, x, y) => \E z : Rival(p, k, z)' /\ LeftOf(Authors', x, z)
<1>1. WrittenFor(k, y)
  BY DEF Steady, RivalsWritten
<1>2. PICK z : Rival(p, k, z)' /\ (z = y \/ LeftOf(Authors', y, z))
  BY DEF Yields
<1>3. Orderly(Authors', x) /\ Orderly(Authors', y)
  BY <1>1, WrittenOrderly
<1>4. Orderly(Authors', z)
  <2>1. WrittenFor(k, z)'
    BY <1>2 DEF Steady, RivalsWritten
  <2>2. Exact(Authors', z) /\ Full(Authors', z)
    BY <2>1 DEF Steady, AuthorsFit, WrittenFor
  <2> QED
    BY <2>2, ExactOrderly DEF Steady, WellWritten
<1>5. ASSUME Beside(Authors', x, y) PROVE Beside(Authors', x, z)
  BY <1>2, <1>3, <1>4, <1>5, BesideStep DEF LeftOf
<1>6. ASSUME LeftOf(Authors', x, y) PROVE LeftOf(Authors', x, z)
  BY <1>2, <1>3, <1>4, <1>6, LeftTransitive
<1> QED
  BY <1>1, <1>2, <1>5, <1>6, SidesKept

-----------------------------------------------------------------------------
(* One key of one document.                                                *)

\* The head is a value, not a placeholder.
LiveAt(p, k) == head[p][k] # NoId => IsValue(store[p], k, head[p][k])

\* Whatever is flagged is left of the head.
FlaggedAt(p, k) ==
  \A x \in del[p] : Root(x) = k =>
    /\ WrittenFor(k, x) /\ head[p][k] # NoId
    /\ LeftOf(Authors, x, head[p][k])

\* An item written for the key that is no value here has lost to a rival
\* that was not written on top of it.
LostAt(p, k) ==
  \A x : Exact(store[p], x) /\ Root(x) = k /\ ~IsValue(store[p], k, x) =>
    \E y : Rival(p, k, y) /\ Beside(Authors, x, y)

KeyOK(p, k) == LiveAt(p, k) /\ FlaggedAt(p, k) /\ LostAt(p, k)

\* What a step does to the values, the flags and the head of a key.
KeepsLost(p, k) ==
  \A x : Exact(store'[p], x) /\ Root(x)' = k /\ ~IsValue(store'[p], k, x) =>
    \/ Exact(store[p], x) /\ ~IsValue(store[p], k, x)
    \/ \E y : Rival(p, k, y)' /\ Beside(Authors', x, y)

KeepsFlagged(p, k) ==
  \A x \in del'[p] : Root(x)' = k =>
    \/ x \in del[p]
    \/ WrittenFor(k, x)' /\ head'[p][k] # NoId /\ LeftOf(Authors', x, head'[p][k])

HeadYields(p, k) ==
  head[p][k] # NoId =>
    /\ head'[p][k] # NoId
    /\ head'[p][k] = head[p][k] \/ LeftOf(Authors', head[p][k], head'[p][k])

\* A root that is known after the step was known before.
LEMMA RootBefore ==
  ASSUME Steady, NEW p \in Clients, NEW x \in Ids, Has(store[p], x), NEW k, Root(x)' = k
  PROVE  Root(x) = k
<1>1. DocOK /\ History
  BY InvariantParts DEF Steady
<1>2. Has(store[x[1]], x)
  BY <1>1, AuthorHas
<1> QED
  BY <1>2 DEF Steady, RootStays

\* Heads were written for their keys.
LEMMA HeadWritten ==
  ASSUME Steady, NEW p \in Clients, NEW k \in Keys
  PROVE  /\ head[p][k] # NoId => WrittenFor(k, head[p][k])
         /\ \A g : g = head'[p][k] /\ g # NoId => WrittenFor(k, g)'
<1>1. head[p][k] # NoId => Rival(p, k, head[p][k])
  BY DEF Rival
<1>2. ASSUME NEW g, g = head'[p][k], g # NoId PROVE Rival(p, k, g)'
  BY <1>2 DEF Rival
<1>3. \A g : Rival(p, k, g)' => WrittenFor(k, g)'
  BY DEF Steady, RivalsWritten
<1> QED
  BY <1>1, <1>2, <1>3 DEF Steady, RivalsWritten

\* What a step keeps of a key's values, flags and head keeps the key in order.
LEMMA KeyStep ==
  ASSUME Steady, NEW p \in Clients, NEW k \in Keys, KeyOK(p, k), Yields(p, k),
         KeepsLost(p, k), KeepsFlagged(p, k), HeadYields(p, k), LiveAt(p, k)'
  PROVE  KeyOK(p, k)'
<1>0. DocOK /\ History
  BY InvariantParts DEF Steady
<1>1. LostAt(p, k)'
  <2> SUFFICES ASSUME NEW x, Exact(store'[p], x), Root(x)' = k, ~IsValue(store'[p], k, x)
               PROVE  \E y : Rival(p, k, y)' /\ Beside(Authors', x, y)
    BY DEF LostAt
  <2>1. CASE Exact(store[p], x) /\ ~IsValue(store[p], k, x)
    <3>1. x \in Ids /\ Has(store[p], x)
      BY <1>0, <2>1, StoreSorted, ExactFound
    <3>2. Root(x) = k
      BY <3>1, RootBefore
    <3>3. PICK y : Rival(p, k, y) /\ Beside(Authors, x, y)
      BY <2>1, <3>2 DEF KeyOK, LostAt
    <3>4. WrittenFor(k, x)
      BY <2>1, <3>2, HeldWritten DEF Steady
    <3> QED
      BY <3>3, <3>4, CarrySides
  <2> QED
    BY <2>1 DEF KeepsLost
<1>2. FlaggedAt(p, k)'
  <2> SUFFICES ASSUME NEW x \in del'[p], Root(x)' = k
               PROVE  /\ WrittenFor(k, x)' /\ head'[p][k] # NoId
                      /\ LeftOf(Authors', x, head'[p][k])
    BY DEF FlaggedAt
  <2>1. CASE x \in del[p]
    <3>1. x \in Ids /\ Has(store[p], x)
      BY <1>0, <2>1 DEF Steady, Flagging, FlagsOK, DocOK
    <3>2. Root(x) = k
      BY <3>1, RootBefore
    <3>3. PICK h : h = head[p][k]
      OBVIOUS
    <3>4. WrittenFor(k, x) /\ h # NoId /\ LeftOf(Authors, x, h)
      BY <2>1, <3>2, <3>3 DEF KeyOK, FlaggedAt
    <3>5. WrittenFor(k, h)
      BY <3>3, <3>4, HeadWritten
    <3>6. LeftOf(Authors', x, h) /\ WrittenFor(k, x)'
      BY <3>4, <3>5, SidesKept, WrittenOrderly
    <3>7. PICK g : g = head'[p][k]
      OBVIOUS
    <3>8. g # NoId /\ (g = h \/ LeftOf(Authors', h, g))
      BY <3>3, <3>4, <3>7 DEF HeadYields
    <3>9. WrittenFor(k, g)'
      BY <3>7, <3>8, HeadWritten
    <3>10. Orderly(Authors', g)
      BY <3>9, ExactOrderly DEF Steady, AuthorsFit, WrittenFor, WellWritten
    <3>11. Orderly(Authors', x) /\ Orderly(Authors', h)
      BY <3>4, <3>5, WrittenOrderly
    <3>12. LeftOf(Authors', x, g)
      BY <3>6, <3>8, <3>10, <3>11, LeftTransitive
    <3> QED
      BY <3>6, <3>7, <3>8, <3>12
  <2> QED
    BY <2>1 DEF KeepsFlagged
<1> QED
  BY <1>1, <1>2 DEF KeyOK

-----------------------------------------------------------------------------
(* Installing an item.                                                     *)

\* The stores before and after an item is installed.
LEMMA InstallStores ==
  ASSUME Steady, NEW p \in Clients, NEW it, Extends(p, it)
  PROVE  /\ it \in Items /\ it.id \in Ids /\ it.id # NoId
         /\ store[p] \in Stores /\ Sorted(store[p]) /\ CanAppend(store[p], it)
         /\ store'[p] = Appended(store[p], it)
         /\ \A q \in Clients \ {p} : store'[q] = store[q]
         /\ WellStored(store[p]) /\ WellStored(store'[p]) /\ WellStored(Authors')
         /\ Within(store[p], store'[p]) /\ Within(store'[p], Authors')
<1>1. DocOK /\ History
  BY InvariantParts DEF Steady
<1>2. DocOK' /\ History'
  BY InvariantParts, PTL DEF Steady
<1>3. it \in Items /\ it.id \in Ids /\ StoreItem(p, it) /\ CanAppend(store[p], it)
  BY ItemIds DEF Extends
<1>4. store[p] \in Stores /\ Sorted(store[p])
  BY <1>1, StoreSorted
<1>5. /\ store'[p] = Appended(store[p], it)
      /\ \A q \in Clients \ {p} : store'[q] = store[q]
  BY <1>1, <1>3 DEF StoreItem, DocOK
<1>6. WellStored(store[p]) /\ WellStored(store'[p]) /\ WellStored(Authors')
  BY StoreWell DEF Steady, WellKept, WellWritten
<1>7. Within(store[p], store'[p])
  BY <1>3, <1>4, <1>5, AppendValues
<1>8. \A c \in Clients : Authors'[c] = store'[c][c]
  BY DEF Authors
<1>9. Within(store'[p], Authors')
  BY <1>2, <1>8 DEF History, SameHistory, Within
<1>10. it.id # NoId
  BY <1>3, IdsSet
<1> QED
  BY <1>3, <1>4, <1>5, <1>6, <1>7, <1>9, <1>10

\* Of the old head and the new value the one flagged is left of the other.
LEMMA InstallSides ==
  ASSUME Steady, NEW p \in Clients, NEW it, Extends(p, it), IsMapValue(it),
         NEW k, k = it.parent, NEW h, h = head[p][k], h # NoId, NEW x, x = it.id
  PROVE  /\ SortsRightOf(Appended(store[p], it), h, x) => LeftOf(Authors', h, x)
         /\ ~SortsRightOf(Appended(store[p], it), h, x) => LeftOf(Authors', x, h)
<1>1. /\ it \in Items /\ x \in Ids
      /\ store[p] \in Stores /\ Sorted(store[p]) /\ CanAppend(store[p], it)
      /\ store'[p] = Appended(store[p], it)
      /\ WellStored(store[p]) /\ WellStored(store'[p]) /\ WellStored(Authors')
      /\ Within(store[p], store'[p]) /\ Within(store'[p], Authors')
  BY InstallStores
<1>2. PICK u : u = store'[p]
  OBVIOUS
<1>3. k \in Keys /\ it.content_kind = "string"
  BY DEF IsMapValue
<1>4. Exact(store[p], h) /\ Full(store[p], h)
  <2>1. TopAt(store[p], k, head[p][k])
    BY <1>3 DEF Steady, HeadTop
  <2> QED
    BY <2>1 DEF TopAt
<1>5. Exact(u, h) /\ Full(u, h)
  BY <1>1, <1>2, <1>4, OriginKept, LineKept
<1>6. Exact(u, x) /\ IsValue(u, k, x)
  BY <1>1, <1>2, <1>3, AppendedExact, AppendedValue
<1>7. Full(u, x)
  BY <1>2, <1>3, <1>6 DEF Steady, KeysFit, Fits
<1>8. Orderly(u, h) /\ Orderly(u, x)
  BY <1>1, <1>2, <1>5, <1>6, <1>7, ExactOrderly
<1>9. h # x
  <2>1. h \in Ids /\ Has(store[p], h)
    BY <1>1, <1>4, ExactFound
  <2>2. ~Covers(it, h)
    BY <1>1, <2>1, AppendFresh
  <2> QED
    BY <1>1, <2>2, ItemIds
<1>10. /\ SortsRightOf(u, h, x) => LeftOf(u, h, x)
       /\ ~SortsRightOf(u, h, x) => LeftOf(u, x, h)
  BY <1>8, <1>9, SortsIs
<1>11. /\ LeftOf(Authors', h, x) <=> LeftOf(u, h, x)
       /\ LeftOf(Authors', x, h) <=> LeftOf(u, x, h)
  BY <1>1, <1>2, <1>5, <1>6, <1>7, OrderKept
<1> QED
  BY <1>1, <1>2, <1>10, <1>11

\* The heads and the flags after an item is installed.
Installed(p, it, k) ==
  /\ \A q \in Clients, j \in Keys : q # p \/ j # k =>
       head'[q][j] = head[q][j]
  /\ \A q \in Clients : q # p => del'[q] = del[q]
  /\ \A x \in del'[p] : x \in del[p] \/ x = it.id \/ x = head[p][k]
  /\ \A h, g : h = head[p][k] /\ g = head'[p][k] =>
       /\ g # NoId /\ g \in {h, it.id}
       /\ h # NoId => h = g \/ LeftOf(Authors', h, g)
       /\ it.id = g \/ LeftOf(Authors', it.id, g)
       /\ \A x \in del'[p] : x \in del[p] \/ LeftOf(Authors', x, g)

\* A value that is installed ends at or left of the head (install_into_map).
LEMMA InstallHead ==
  ASSUME Steady, NEW p \in Clients, NEW it, Extends(p, it), IsMapValue(it),
         InstallIntoMap(p, it), NEW k, k = it.parent
  PROVE  Installed(p, it, k)
<1>1. DocOK
  BY InvariantParts DEF Steady
<1>2. head \in [Clients -> [Keys -> OptIds]] /\ del \in [Clients -> SUBSET Ids]
  BY <1>1 DEF DocOK
<1>3. it \in Items /\ it.id # NoId
  BY InstallStores
<1>4. PICK h : h = head[p][k]
  OBVIOUS
<1>5. PICK x : x = it.id
  OBVIOUS
<1>6. k \in Keys
  BY DEF IsMapValue
<1>7. \/ /\ h = NoId
         /\ head' = [head EXCEPT ![p][k] = x]
         /\ UNCHANGED del
      \/ /\ h # NoId /\ SortsRightOf(Appended(store[p], it), h, x)
         /\ head' = [head EXCEPT ![p][k] = x]
         /\ del' = [del EXCEPT ![p] = @ \cup {h}]
      \/ /\ h # NoId /\ ~SortsRightOf(Appended(store[p], it), h, x)
         /\ del' = [del EXCEPT ![p] = @ \cup {x}]
         /\ UNCHANGED head
  BY <1>4, <1>5, Zenon DEF InstallIntoMap
<1>8. CASE /\ h = NoId
           /\ head' = [head EXCEPT ![p][k] = x]
           /\ UNCHANGED del
  BY <1>2, <1>3, <1>4, <1>5, <1>6, <1>8 DEF Installed
<1>9. CASE /\ h # NoId /\ SortsRightOf(Appended(store[p], it), h, x)
           /\ head' = [head EXCEPT ![p][k] = x]
           /\ del' = [del EXCEPT ![p] = @ \cup {h}]
  <2>1. LeftOf(Authors', h, x)
    BY <1>4, <1>5, <1>9, InstallSides
  <2> QED
    BY <1>2, <1>3, <1>4, <1>5, <1>6, <1>9, <2>1 DEF Installed
<1>10. CASE /\ h # NoId /\ ~SortsRightOf(Appended(store[p], it), h, x)
            /\ del' = [del EXCEPT ![p] = @ \cup {x}]
            /\ UNCHANGED head
  <2>1. LeftOf(Authors', x, h)
    BY <1>4, <1>5, <1>10, InstallSides
  <2> QED
    BY <1>2, <1>3, <1>4, <1>5, <1>6, <1>10, <2>1 DEF Installed
<1> QED
  BY <1>7, <1>8, <1>9, <1>10

LEMMA AppendKeepsValues ==
  ASSUME NEW st \in Stores, NEW it \in Items, NEW k, NEW x, IsValue(st, k, x)
  PROVE  IsValue(Appended(st, it), k, x)
<1>1. PICK c \in Clients : \E i \in DOMAIN st[c] :
        st[c][i].id = x /\ st[c][i].parent = k /\ st[c][i].content_kind = "string"
  BY DEF IsValue
<1>2. PICK i \in DOMAIN st[c] :
        st[c][i].id = x /\ st[c][i].parent = k /\ st[c][i].content_kind = "string"
  BY <1>1
<1>3. i \in DOMAIN Appended(st, it)[c] /\ Appended(st, it)[c][i] = st[c][i]
  BY AppendStored
<1> QED
  BY <1>2, <1>3 DEF IsValue

\* The installed item, seen after the step.
LEMMA InstalledWritten ==
  ASSUME Steady, NEW p \in Clients, NEW it, Extends(p, it)
  PROVE  /\ Rooted(it)' /\ Exact(store'[p], it.id) /\ Exact(Authors', it.id)
         /\ it.parent \in Keys => WrittenFor(it.parent, it.id)'
<1>1. /\ it \in Items /\ it.id \in Ids
      /\ store[p] \in Stores
      /\ store'[p] = Appended(store[p], it)
      /\ WellStored(store'[p]) /\ WellStored(Authors')
      /\ Within(store'[p], Authors')
  BY InstallStores
<1>2. Exact(store'[p], it.id) /\ Exact(Authors', it.id)
  BY <1>1, AppendedExact, OriginKept
<1>3. DocOK
  BY InvariantParts DEF Steady
<1>4. PICK c \in Clients : c = Client(it)
  BY <1>3, ExtendStore
<1>5. /\ store'[p][c] = Append(store[p][c], it)
      /\ store'[p][c][Len(store[p][c]) + 1] = it
  BY <1>3, <1>4, ExtendStore
<1>6. store[p][c] \in Seq(Items)
  BY <1>1 DEF Stores
<1>7. PICK i : i = Len(store[p][c]) + 1
  OBVIOUS
<1>8. i \in DOMAIN store'[p][c] /\ store'[p][c][i] = it
  BY <1>1, <1>5, <1>6, <1>7
<1>9. Rooted(it)'
  <2>1. \A j \in DOMAIN store'[p][c] : Rooted(store[p][c][j])'
    BY DEF Steady, AllRooted, StoredRooted
  <2>2. Rooted(store[p][c][i])'
    BY <1>8, <2>1
  <2> QED
    BY <1>8, <2>2 DEF Rooted
<1>10. ASSUME it.parent \in Keys PROVE Root(it.id)' = it.parent
  BY <1>9, <1>10, ParentAssumption DEF Rooted
<1> QED
  BY <1>2, <1>9, <1>10 DEF WrittenFor

\* Only an item that is lost may need a rival.
LostIs(p, it, k) ==
  \A x : Exact(store'[p], x) /\ ~IsValue(store'[p], k, x) =>
    \/ Exact(store[p], x) /\ ~IsValue(store[p], k, x)
    \/ x = it.id /\ ~(it.parent = k /\ it.content_kind = "string")

\* An install makes no stored item lose its value but the item itself.
LEMMA InstallLost ==
  ASSUME Steady, NEW p \in Clients, NEW it, Extends(p, it), NEW k
  PROVE  LostIs(p, it, k)
<1>1. /\ it \in Items /\ store[p] \in Stores
      /\ store'[p] = Appended(store[p], it)
  BY InstallStores
<1> SUFFICES ASSUME NEW x, Exact(store'[p], x), ~IsValue(store'[p], k, x)
             PROVE  \/ Exact(store[p], x) /\ ~IsValue(store[p], k, x)
                    \/ x = it.id /\ ~(it.parent = k /\ it.content_kind = "string")
  BY DEF LostIs
<1>2. ~IsValue(store[p], k, x)
  BY <1>1, AppendKeepsValues
<1>3. Exact(store[p], x) \/ x = it.id
  <2>1. PICK c \in Clients : c = x[1] /\ x \in Ids
    BY DEF Exact, Ids
  <2>2. PICK i \in DOMAIN store'[p][c] : store'[p][c][i].id = x
    BY <2>1 DEF Exact
  <2>3. \/ i \in DOMAIN store[p][c] /\ store'[p][c][i] = store[p][c][i]
        \/ store'[p][c][i] = it
    BY <1>1, AppendEntry
  <2> QED
    BY <2>1, <2>2, <2>3 DEF Exact
<1>4. x = it.id => ~(it.parent = k /\ it.content_kind = "string")
  BY <1>1, AppendedValue
<1> QED
  BY <1>2, <1>3, <1>4

\* What an install does to each key of each document.
LEMMA InstallKey ==
  ASSUME Steady, NEW p \in Clients, NEW it, Extends(p, it),
         NEW q \in Clients, NEW k \in Keys, LiveAt(q, k)
  PROVE  /\ KeepsFlagged(q, k) /\ HeadYields(q, k) /\ LiveAt(q, k)'
         /\ q # p => KeepsLost(q, k)
         /\ ~(it.parent = k /\ it.content_kind = "string") => UNCHANGED head[q][k]
<1>1. /\ it \in Items /\ it.id # NoId /\ store[p] \in Stores
      /\ store'[p] = Appended(store[p], it)
      /\ \A r \in Clients \ {p} : store'[r] = store[r]
  BY InstallStores
<1>2. q # p => KeepsLost(q, k)
  BY <1>1 DEF KeepsLost
<1>3. \A x : IsValue(store[q], k, x) => IsValue(store'[q], k, x)
  BY <1>1, AppendKeepsValues
<1>4. Installs(p, it)
  BY DEF Extends
<1>5. CASE UNCHANGED << head, del >>
  BY <1>2, <1>3, <1>5 DEF KeepsFlagged, HeadYields, LiveAt
<1>6. CASE IsMapValue(it) /\ InstallIntoMap(p, it)
  <2>1. PICK j \in Keys : j = it.parent
    BY <1>6 DEF IsMapValue
  <2>2. Installed(p, it, j)
    BY <1>6, <2>1, InstallHead
  <2>3. WrittenFor(j, it.id)'
    BY <2>1, InstalledWritten
  <2>4. head[p][j] # NoId => WrittenFor(j, head[p][j])
    BY HeadWritten
  <2>5. ASSUME NEW x \in del'[p], x \notin del[p]
        PROVE  WrittenFor(j, x)'
    <3>1. x = it.id \/ x = head[p][j]
      BY <2>2, <2>5 DEF Installed
    <3>2. CASE x = head[p][j]
      <4>1. x # NoId
        <5>1. DocOK'
          BY InvariantParts, PTL DEF Steady
        <5>2. x \in Ids
          BY <5>1 DEF DocOK
        <5> QED
          BY <5>2, IdsSet
      <4>2. WrittenFor(j, x)
        BY <2>4, <3>2, <4>1
      <4> QED
        BY <4>2, WrittenOrderly
    <3>3. CASE x = it.id
      BY <2>3, <3>3
    <3> QED
      BY <3>1, <3>2, <3>3
  <2>6. KeepsFlagged(q, k)
    <3> SUFFICES ASSUME NEW x \in del'[q], Root(x)' = k, x \notin del[q]
                 PROVE  /\ WrittenFor(k, x)' /\ head'[q][k] # NoId
                        /\ LeftOf(Authors', x, head'[q][k])
      BY DEF KeepsFlagged
    <3>1. q = p
      BY <2>2 DEF Installed
    <3>2. WrittenFor(j, x)'
      BY <2>5, <3>1
    <3>3. j = k
      BY <3>2 DEF WrittenFor
    <3> QED
      BY <2>2, <3>1, <3>2, <3>3 DEF Installed
  <2>7. CASE q = p /\ k = j
    <3>1. PICK h : h = head[p][j]
      OBVIOUS
    <3>2. PICK g : g = head'[p][j]
      OBVIOUS
    <3>3. /\ g # NoId /\ g \in {h, it.id}
          /\ h # NoId => h = g \/ LeftOf(Authors', h, g)
      BY <2>2, <3>1, <3>2 DEF Installed
    <3>4. HeadYields(q, k)
      BY <2>7, <3>1, <3>2, <3>3 DEF HeadYields
    <3>5. IsValue(store'[p], j, g)
      <4>1. CASE g = h
        BY <1>3, <2>7, <3>1, <3>3, <4>1 DEF LiveAt
      <4>2. CASE g = it.id
        BY <1>1, <1>6, <2>1, <4>2, AppendedValue DEF IsMapValue
      <4> QED
        BY <3>3, <4>1, <4>2
    <3>6. LiveAt(q, k)'
      BY <2>7, <3>2, <3>5 DEF LiveAt
    <3> QED
      BY <1>2, <1>6, <2>1, <2>6, <2>7, <3>4, <3>6 DEF IsMapValue
  <2>8. CASE ~(q = p /\ k = j)
    <3>1. head'[q][k] = head[q][k]
      BY <2>2, <2>8 DEF Installed
    <3> QED
      BY <1>2, <1>3, <2>6, <3>1 DEF HeadYields, LiveAt
  <2> QED
    BY <2>7, <2>8
<1> QED
  BY <1>4, <1>5, <1>6 DEF Installs, InstallIntoArray, FailToIntegrate, InstallBare, IsMapValue

-----------------------------------------------------------------------------
(* Steps between calls.                                                    *)

KeysPlaced == \A p \in Clients, k \in Keys : KeyOK(p, k)

\* Without a call the head is the only rival.
LEMMA HeadsYield ==
  ASSUME NEW p \in Clients, NEW k \in Keys, HeadYields(p, k), job = NoJob \/ p # job.doc
  PROVE  Yields(p, k)
<1>1. PICK g : g = head'[p][k]
  OBVIOUS
<1>2. g # NoId => Rival(p, k, g)'
  BY <1>1 DEF Rival
<1>3. \A y : Rival(p, k, y) => y = head[p][k] /\ y # NoId
  BY DEF Rival
<1> QED
  BY <1>1, <1>2, <1>3 DEF Yields, HeadYields

\* map_set_string and the text edits keep keys in order.
LEMMA EmitPlaced ==
  ASSUME Steady, KeysPlaced, job = NoJob, NEW p \in Clients, NEW it, Emits(p, it)
  PROVE  KeysPlaced'
<1> SUFFICES ASSUME NEW q \in Clients, NEW k \in Keys PROVE KeyOK(q, k)'
  BY DEF KeysPlaced
<1>1. Extends(p, it) /\ it.content_kind = "string" /\ it.parent \in Keys \cup Texts
  BY DEF Emits, WritesKey, WritesText
<1>2. KeyOK(q, k) /\ LiveAt(q, k)
  BY DEF KeysPlaced, KeyOK
<1>3. /\ KeepsFlagged(q, k) /\ HeadYields(q, k) /\ LiveAt(q, k)'
      /\ q # p => KeepsLost(q, k)
  BY <1>1, <1>2, InstallKey
<1>4. Rooted(it)'
  BY <1>1, InstalledWritten
<1>5. Root(it.id)' = it.parent
  BY <1>1, <1>4, ParentAssumption DEF Rooted
<1>6. KeepsLost(p, k)
  <2>1. LostIs(p, it, k)
    BY <1>1, InstallLost
  <2> QED
    BY <1>1, <1>5, <2>1 DEF LostIs, KeepsLost
<1>7. Yields(q, k)
  BY <1>3, HeadsYield
<1> QED
  BY <1>2, <1>3, <1>6, <1>7, KeyStep

\* array_delete_at flags no value of a key.
LEMMA DeletePlaced ==
  ASSUME Steady, KeysPlaced, NEW p \in Clients, NEW t \in Texts, NEW index,
         ArrayDeleteAt(p, t, index)
  PROVE  KeysPlaced'
<1> SUFFICES ASSUME NEW q \in Clients, NEW k \in Keys PROVE KeyOK(q, k)'
  BY DEF KeysPlaced
<1>1. DocOK
  BY InvariantParts DEF Steady
<1>2. job = NoJob /\ UNCHANGED << store, head >>
  BY DEF ArrayDeleteAt
<1>3. KeyOK(q, k) /\ LiveAt(q, k)
  BY DEF KeysPlaced, KeyOK
<1>4. PICK y \in ToSet(list[p][t]) : del' = [del EXCEPT ![p] = @ \cup {y}]
  BY Zenon DEF ArrayDeleteAt
<1>5. Root(y) = t
  BY DEF Steady, AllRooted, ShownRooted
<1>6. y \in Ids /\ Has(store[p], y)
  <2>1. PICK i \in DOMAIN list[p][t] : y = list[p][t][i]
    BY DEF ToSet
  <2>2. list[p][t] \in Seq(Ids) /\ Has(store[p], list[p][t][i])
    BY <1>1 DEF DocOK, ListStored
  <2> QED
    BY <2>1, <2>2
<1>7. Root(y)' # k
  <2>1. Root(y)' = k => Root(y) = k
    BY <1>6, RootBefore
  <2> QED
    BY <1>5, <2>1, ParentAssumption
<1>8. KeepsFlagged(q, k)
  <2>1. \A x \in del'[q] : x \in del[q] \/ x = y
    BY <1>1, <1>4 DEF DocOK
  <2> QED
    BY <1>7, <2>1 DEF KeepsFlagged
<1>9. KeepsLost(q, k) /\ HeadYields(q, k) /\ LiveAt(q, k)'
  BY <1>2, <1>3 DEF KeepsLost, HeadYields, LiveAt
<1>10. Yields(q, k)
  BY <1>2, <1>9, HeadsYield
<1> QED
  BY <1>3, <1>8, <1>9, <1>10, KeyStep

\* Who is above an item on its line is the origin of one on the line.
LEMMA OnTop ==
  ASSUME NEW st, NEW y, Full(st, y), NEW x \in Line(st, y), x # y
  PROVE  \E z \in Line(st, y) : OriginOf(st, z) = x
<1>1. PICK k \in 1 .. MaxOriginChain :
        Climbs(st, y, Chain(st, y), k) /\ Len(Chain(st, y)) = k
  BY FullChain
<1>2. PICK c : c = Chain(st, y)
  OBVIOUS
<1>3. /\ Line(st, y) = { c[i] : i \in 1 .. k } /\ c[1] = y
      /\ \A i \in 1 .. (k - 1) : c[i + 1] = OriginOf(st, c[i])
  BY <1>1, <1>2, LineIs DEF Climbs
<1>4. PICK i \in 1 .. k : x = c[i]
  BY <1>3
<1>5. PICK j : j = i - 1
  OBVIOUS
<1>6. j \in 1 .. (k - 1) /\ j \in 1 .. k /\ j + 1 = i
  BY <1>3, <1>4, <1>5
<1>7. OriginOf(st, c[j]) = x /\ c[j] \in Line(st, y)
  BY <1>3, <1>4, <1>6
<1> QED
  BY <1>7

\* Nothing that somebody wrote on top of is compacted (is_origin_referent).
LEMMA NotOnTop ==
  ASSUME Steady, NEW p \in Clients, NEW c \in Clients, NEW i \in DOMAIN store[p][c],
         Compactable(p, store[p][c][i]), NEW x, x = store[p][c][i].id,
         NEW k \in Keys, NEW h, h = head[p][k], h # NoId, x # h
  PROVE  x \notin Line(Authors, h)
<1>1. DocOK /\ History
  BY InvariantParts DEF Steady
<1>2. WellStored(store[p])
  BY StoreWell DEF Steady, WellKept
<1>3. Exact(store[p], h) /\ Full(store[p], h)
  BY DEF Steady, HeadTop, TopAt
<1>4. Line(Authors, h) = Line(store[p], h)
  <2>1. WellStored(Authors) /\ Within(store[p], Authors)
    BY <1>1, AuthorsAre
  <2> QED
    BY <1>2, <1>3, <2>1, LineKept
<1> SUFFICES ASSUME x \in Line(store[p], h) PROVE FALSE
  BY <1>4
<1>5. PICK z \in Line(store[p], h) : OriginOf(store[p], z) = x
  BY <1>3, OnTop
<1>6. Exact(store[p], z)
  BY <1>2, <1>3, LineExact
<1>7. PICK b \in Clients : \E m \in DOMAIN store[p][b] : store[p][b][m].id = z
  BY <1>6 DEF Exact, Ids
<1>8. PICK m \in DOMAIN store[p][b] : store[p][b][m].id = z
  BY <1>7
<1>9. store[p] \in Stores /\ Sorted(store[p])
  BY <1>2 DEF WellStored
<1>10. store[p][c][i] \in Items /\ x \in Ids /\ x # NoId
  <2>1. store[p][c][i] \in Items
    BY <1>9, EntryIs
  <2>2. x \in Ids
    BY <1>9, EntryIs
  <2>3. Covers(store[p][c][i], x)
    BY <1>9, EntryIs
  <2>4. x # NoId
    BY <2>3 DEF Covers
  <2> QED
    BY <2>1, <2>2, <2>4
<1>11. PICK ol : ol = store[p][b][m].origin_left
  OBVIOUS
<1>12. PICK d \in Clients : \E n \in DOMAIN store[p][d] :
         /\ d = ol[1] /\ ol \in Ids /\ Covers(store[p][d][n], ol)
         /\ x = store[p][d][n].id
  <2>1. OriginOf(store[p], z) # NoId
    BY <1>5, <1>10
  <2>2. /\ ol = NoId => OriginOf(store[p], store[p][b][m].id) = NoId
        /\ ol # NoId => \E d \in Clients : \E n \in DOMAIN store[p][d] :
             /\ d = ol[1] /\ ol \in Ids /\ Covers(store[p][d][n], ol)
             /\ OriginOf(store[p], store[p][b][m].id) = store[p][d][n].id
    BY <1>2, <1>11, OriginIs
  <2> QED
    BY <1>5, <1>8, <2>1, <2>2
<1>13. PICK n \in DOMAIN store[p][d] : Covers(store[p][d][n], ol) /\ x = store[p][d][n].id
  BY <1>12
<1>14. Covers(store[p][c][i], x) /\ Covers(store[p][d][n], x)
  BY <1>9, <1>13, EntryIs
<1>15. c = d /\ i = n
  BY <1>9, <1>10, <1>14, Apart
<1>16. store[p][b][m] \in Stored(store[p])
  BY <1>9 DEF Stored, Stores, ToSet
<1> QED
  BY <1>11, <1>13, <1>15, <1>16 DEF Compactable, IsOriginReferent

\* compact rewrites nothing but flagged items without referents.
LEMMA CompactedIs ==
  ASSUME DocOK, NEW p \in Clients, Compact(p), NEW q \in Clients, NEW c \in Clients,
         NEW i \in DOMAIN store[q][c]
  PROVE  \/ i \in DOMAIN store'[q][c] /\ store'[q][c][i] = store[q][c][i]
         \/ q = p /\ Compactable(p, store[q][c][i])
<1>1. store \in [Clients -> [Clients -> Seq(Items)]]
  BY DEF DocOK, Stores
<1>2. q # p => store'[q] = store[q]
  BY <1>1 DEF Compact
<1>3. store'[p][c] = [j \in DOMAIN store[p][c] |->
                        IF Compactable(p, store[p][c][j])
                        THEN [store[p][c][j] EXCEPT !.content_kind = "skip"]
                        ELSE store[p][c][j]]
  BY <1>1 DEF Compact
<1> QED
  BY <1>2, <1>3

\* A value that compact takes away was flagged and nobody wrote on top of it,
\* so it had lost beside the head.
LEMMA CompactPlaced ==
  ASSUME Steady, KeysPlaced, NEW p \in Clients, Compact(p)
  PROVE  KeysPlaced'
<1> SUFFICES ASSUME NEW q \in Clients, NEW k \in Keys PROVE KeyOK(q, k)'
  BY DEF KeysPlaced
<1>1. DocOK
  BY InvariantParts DEF Steady
<1>2. job = NoJob
  BY DEF Compact
<1>3. UNCHANGED << del, head >> /\ SameButPayload(store[q], store'[q])
  BY <1>1, CompactPayloads
<1>4. LiveAt(q, k) /\ FlaggedAt(q, k) /\ KeyOK(q, k)
  BY DEF KeysPlaced, KeyOK
<1>5. KeepsFlagged(q, k) /\ HeadYields(q, k)
  BY <1>3 DEF KeepsFlagged, HeadYields
<1>6. Yields(q, k)
  BY <1>2, <1>5, HeadsYield
<1>h. PICK h : h = head[q][k]
  OBVIOUS
<1>7. ASSUME NEW x, IsValue(store[q], k, x), ~IsValue(store'[q], k, x)
      PROVE  /\ WrittenFor(k, x) /\ h # NoId /\ LeftOf(Authors, x, h)
             /\ x # h => x \notin Line(Authors, h)
  <2>1. PICK c \in Clients : \E i \in DOMAIN store[q][c] :
          /\ store[q][c][i].id = x /\ store[q][c][i].parent = k
          /\ store[q][c][i].content_kind = "string"
    BY <1>7 DEF IsValue
  <2>2. PICK i \in DOMAIN store[q][c] :
          /\ store[q][c][i].id = x /\ store[q][c][i].parent = k
          /\ store[q][c][i].content_kind = "string"
    BY <2>1
  <2>3. q = p /\ Compactable(p, store[q][c][i])
    BY <1>1, <1>7, <2>2, CompactedIs DEF IsValue
  <2>4. x \in del[q]
    BY <2>2, <2>3 DEF Compactable
  <2>5. WrittenFor(k, x)
    BY <1>7, ValueWritten DEF Steady
  <2>6. h # NoId /\ LeftOf(Authors, x, h)
    BY <1>4, <1>h, <2>4, <2>5 DEF FlaggedAt, WrittenFor
  <2>7. x # h => x \notin Line(Authors, h)
    BY <1>h, <2>2, <2>3, <2>6, NotOnTop
  <2> QED
    BY <2>5, <2>6, <2>7
<1>8. ASSUME NEW x, WrittenFor(k, x) PROVE ~LeftOf(Authors, x, x)
  BY <1>8, WrittenOrderly, LeftIrreflexive
<1>9. LiveAt(q, k)'
  BY <1>3, <1>4, <1>h, <1>7, <1>8 DEF LiveAt
<1>10. KeepsLost(q, k)
  <2> SUFFICES ASSUME NEW x, Exact(store'[q], x), Root(x)' = k, ~IsValue(store'[q], k, x),
                      IsValue(store[q], k, x)
               PROVE  \E y : Rival(q, k, y)' /\ Beside(Authors', x, y)
    <3>1. \A x : Exact(store'[q], x) => Exact(store[q], x)
      BY <1>3 DEF SameButPayload, Exact, Core, Ids
    <3> QED
      BY <3>1 DEF KeepsLost
  <2>1. /\ WrittenFor(k, x) /\ h # NoId /\ LeftOf(Authors, x, h)
        /\ x # h => x \notin Line(Authors, h)
    BY <1>7
  <2>2. Beside(Authors, x, h)
    BY <1>8, <2>1 DEF LeftOf
  <2>3. WrittenFor(k, h)
    BY <1>h, <2>1, HeadWritten
  <2>4. Beside(Authors', x, h)
    BY <2>1, <2>2, <2>3, SidesKept
  <2>5. Rival(q, k, h)'
    BY <1>3, <1>h, <2>1 DEF Rival
  <2> QED
    BY <2>4, <2>5
<1> QED
  BY <1>4, <1>5, <1>6, <1>9, <1>10, KeyStep

-----------------------------------------------------------------------------
(* A call begins.                                                          *)

\* A struct on its way that lost its payload lost to a rival.
CallSkips ==
  job # NoJob => \A k \in Keys : \A d \in job.todo :
    d.content_kind # "string" /\ Root(d.id) = k =>
      \E y : Rival(job.doc, k, y) /\ Beside(Authors, d.id, y)

\* What the call deletes of a key is left of a rival.
CallDeletes ==
  job # NoJob => \A k \in Keys : \A x : \A z \in job.ds :
    WrittenFor(k, x) /\ Covers(Find(Authors, x), z) =>
      \E y : Rival(job.doc, k, y) /\ LeftOf(Authors, x, y)

\* An item that can be looked up is stored under its own id.
LEMMA KnownExact ==
  ASSUME IInv, NEW p \in Clients, NEW x, Has(store[p], x), Exact(Authors, x)
  PROVE  Exact(store[p], x)
<1>1. DocOK /\ History
  BY InvariantParts
<1>2. \A c \in Clients : Authors[c] = store[c][c] /\ store[c] \in Stores /\ Sorted(store[c])
  BY <1>1, AuthorsAre, StoreSorted
<1>3. PICK c \in Clients : c = x[1] /\ x \in Ids
  BY DEF Exact, Ids
<1>4. PICK i \in DOMAIN store[p][c] : Covers(store[p][c][i], x)
  BY <1>3 DEF Has
<1>5. /\ i \in DOMAIN store[c][c] /\ Covers(store[c][c][i], x)
      /\ Core(store[c][c][i]) = Core(store[p][c][i])
  BY <1>1, <1>3, <1>4, AuthorsEntry
<1>6. PICK j \in DOMAIN store[c][c] : store[c][c][j].id = x
  BY <1>2, <1>3 DEF Exact
<1>7. Covers(store[c][c][j], x)
  BY <1>2, <1>6, EntryIs
<1>8. i = j
  BY <1>2, <1>3, <1>5, <1>7, Apart
<1> QED
  BY <1>3, <1>4, <1>5, <1>6, <1>8 DEF Exact, Core

\* A value that a document holds is its head or left of a rival.
LEMMA HeldLeft ==
  ASSUME Steady, NEW p \in Clients, NEW k \in Keys, KeyOK(p, k),
         NEW x, Exact(store[p], x), Root(x) = k
  PROVE  \E y : Rival(p, k, y) /\ ((y = x /\ x = head[p][k]) \/ LeftOf(Authors, x, y))
<1>1. CASE IsValue(store[p], k, x)
  <2>1. PICK h : h = head[p][k]
    OBVIOUS
  <2>2. TopAt(store[p], k, h) /\ Fits(store[p], k)
    BY <2>1 DEF Steady, HeadTop, KeysFit
  <2>3. /\ h # NoId /\ (x = h \/ LeftOf(store[p], x, h))
        /\ Exact(store[p], h) /\ Full(store[p], h) /\ Full(store[p], x)
    BY <1>1, <2>2 DEF TopAt, Fits
  <2>4. WellStored(store[p]) /\ WellStored(Authors) /\ Within(store[p], Authors)
    BY HeldWritten DEF Steady
  <2>5. x = h \/ LeftOf(Authors, x, h)
    BY <2>3, <2>4, OrderKept
  <2> QED
    BY <2>1, <2>3, <2>5 DEF Rival
<1>2. CASE ~IsValue(store[p], k, x)
  BY <1>2 DEF KeyOK, LostAt, LeftOf
<1> QED
  BY <1>1, <1>2

\* Keys stay in order when only the rivals grow.
LEMMA StillPlaced ==
  ASSUME Steady, KeysPlaced, UNCHANGED << store, del, head >>,
         \A p \in Clients, k \in Keys : Yields(p, k)
  PROVE  KeysPlaced'
<1> SUFFICES ASSUME NEW q \in Clients, NEW k \in Keys PROVE KeyOK(q, k)'
  BY DEF KeysPlaced
<1>1. KeyOK(q, k) /\ LiveAt(q, k)
  BY DEF KeysPlaced, KeyOK
<1>2. KeepsFlagged(q, k) /\ KeepsLost(q, k) /\ HeadYields(q, k) /\ LiveAt(q, k)'
  BY <1>1 DEF KeepsFlagged, KeepsLost, HeadYields, LiveAt
<1> QED
  BY <1>1, <1>2, KeyStep

\* The head of the answering document, or one on its right, is a rival.
LEMMA HeadPassed ==
  ASSUME Steady, KeysPlaced, NEW from \in Clients, NEW to \in Clients, Pull(from, to),
         NEW k \in Keys, NEW g, g = head[from][k], g # NoId
  PROVE  \E y : Rival(to, k, y)' /\ (y = g \/ LeftOf(Authors, g, y))
<1>1. DocOK /\ History
  BY InvariantParts DEF Steady
<1>2. /\ job = NoJob /\ UNCHANGED << store, head >>
      /\ Begin(to, Diff(from, StateVector(store[to])))
  BY DEF Pull, docVars
<1>3. WrittenFor(k, g)
  BY HeadWritten
<1>4. PICK c \in Clients : \E i \in DOMAIN store[from][c] :
        store[from][c][i].id = g /\ store[from][c][i].content_kind = "string"
  BY DEF KeysPlaced, KeyOK, LiveAt, IsValue
<1>5. PICK i \in DOMAIN store[from][c] :
        store[from][c][i].id = g /\ store[from][c][i].content_kind = "string"
  BY <1>4
<1>6. PICK it : it = store[from][c][i]
  OBVIOUS
<1>7. /\ store[from] \in Stores /\ Sorted(store[from])
      /\ it \in Items /\ Client(it) = c /\ it.id = g /\ it.content_kind = "string"
  BY <1>1, <1>5, <1>6, StoreSorted, EntryIs DEF Sorted
<1>8. PICK since : since = StateVector(store[to])
  OBVIOUS
<1>9. since[c] = State(store[to], c) /\ since[c] \in Nat
  BY <1>1, <1>8, StateNat DEF StateVector
<1>10. CASE it.id[2] >= since[c]
  <2>1. it \in Stored(store[from])
    BY <1>5, <1>6, <1>7 DEF Stored, Stores, ToSet
  <2>2. Wire(it) \in Diff(from, since).structs
    BY <1>7, <1>10, <2>1 DEF Diff
  <2>3. Wire(it).id = g /\ Wire(it).content_kind = "string"
    BY <1>7 DEF Wire, Items
  <2>4. job' # NoJob /\ job'.doc = to /\ job'.todo = Diff(from, since).structs
    <3>1. Diff(from, since) \in Updates
      BY <1>1, <1>8, StateOK, DiffOK DEF DocOK
    <3>2. job' \in Jobs /\ job'.todo = Diff(from, since).structs
      BY <1>2, <1>8, <3>1, BeginOK
    <3> QED
      BY <1>2, <3>2, NoJobAssumption DEF Begin
  <2>5. Root(g)' = k
    BY <1>2, <1>3 DEF Root, WrittenFor
  <2>6. Rival(to, k, g)'
    BY <2>2, <2>3, <2>4, <2>5 DEF Rival
  <2> QED
    BY <2>6
<1>11. CASE it.id[2] < since[c]
  <2>1. Emitted(it)
    BY <1>1, <1>5, <1>6, <1>7 DEF History, SameHistory, Emitted
  <2>2. Has(store[to], g)
    BY <1>1, <1>7, <1>9, <1>11, <2>1, BelowIsKnown
  <2>3. Exact(store[to], g)
    BY <1>3, <2>2, KnownExact DEF Steady, WrittenFor
  <2>4. KeyOK(to, k)
    BY DEF KeysPlaced
  <2>5. PICK y : Rival(to, k, y) /\ (y = g \/ LeftOf(Authors, g, y))
    BY <1>3, <2>3, <2>4, HeldLeft DEF WrittenFor
  <2>6. Rival(to, k, y)'
    BY <1>2, <2>5 DEF Rival
  <2> QED
    BY <2>5, <2>6
<1>12. it.id[2] \in Nat
  BY <1>7, ItemIds
<1> QED
  BY <1>9, <1>10, <1>11, <1>12

\* What an answer lacks or deletes has lost to the answering head, and that is
\* a rival now.
LEMMA PullPlaced ==
  ASSUME Steady, KeysPlaced, Deleted,
         NEW from \in Clients, NEW to \in Clients, Pull(from, to)
  PROVE  KeysPlaced' /\ CallSkips' /\ CallDeletes'
<1>1. DocOK /\ History /\ WellStored(Authors)
  BY InvariantParts, AuthorsAre DEF Steady
<1>2. /\ job = NoJob /\ UNCHANGED << store, del, head >>
      /\ Begin(to, Diff(from, StateVector(store[to])))
  BY DEF Pull, docVars
<1>3. PICK since : since = StateVector(store[to])
  OBVIOUS
<1>4. since \in [Clients -> Nat]
  BY <1>1, <1>3, StateOK DEF DocOK
<1>5. /\ job'.doc = to /\ job'.todo = Diff(from, since).structs /\ job'.ds = ds[from]
      /\ Diff(from, since) \in Updates
  <2>1. Diff(from, since) \in Updates
    BY <1>1, <1>4, DiffOK
  <2>2. job' \in Jobs /\ job'.todo = Diff(from, since).structs
    BY <1>2, <1>3, <2>1, BeginOK
  <2>3. job'.ds = ds[from]
    BY <1>2, <1>3 DEF Begin, Diff
  <2> QED
    BY <1>2, <2>1, <2>2, <2>3 DEF Begin
<1>6. Authors' = Authors
  BY <1>2 DEF Authors
<1>7. \A x : Root(x)' = Root(x)
  BY <1>2 DEF Root
<1>8. KeysPlaced'
  <2>1. \A p \in Clients, k \in Keys : HeadYields(p, k)
    BY <1>2 DEF HeadYields
  <2>2. \A p \in Clients, k \in Keys : Yields(p, k)
    BY <1>2, <2>1, HeadsYield
  <2> QED
    BY <1>2, <2>2, StillPlaced
<1>9. store[from] \in Stores /\ Sorted(store[from])
  BY <1>1, StoreSorted
\* The rivals that what is left of the head of the answering document has.
<1>10. ASSUME NEW k \in Keys, NEW x, WrittenFor(k, x), NEW g, g = head[from][k], g # NoId
       PROVE  /\ Beside(Authors, x, g) => \E y : Rival(to, k, y)' /\ Beside(Authors, x, y)
              /\ LeftOf(Authors, x, g) => \E y : Rival(to, k, y)' /\ LeftOf(Authors, x, y)
  <2>1. PICK y : Rival(to, k, y)' /\ (y = g \/ LeftOf(Authors, g, y))
    BY <1>10, HeadPassed
  <2>2. WrittenFor(k, g)
    BY <1>10, HeadWritten
  <2>3. Orderly(Authors, x) /\ Orderly(Authors, g)
    BY <1>10, <2>2, WrittenOrderly
  <2>4. WrittenFor(k, y)'
    BY <2>1 DEF Steady, RivalsWritten
  <2>5. Orderly(Authors, y)
    BY <1>1, <1>6, <2>4, ExactOrderly DEF Steady, AuthorsFit, WrittenFor
  <2>6. ASSUME Beside(Authors, x, g) PROVE Beside(Authors, x, y)
    BY <2>1, <2>3, <2>5, <2>6, BesideStep DEF LeftOf
  <2>7. ASSUME LeftOf(Authors, x, g) PROVE LeftOf(Authors, x, y)
    BY <2>1, <2>3, <2>5, <2>7, LeftTransitive
  <2> QED
    BY <2>1, <2>6, <2>7
<1>11. CallSkips'
  <2> SUFFICES ASSUME NEW k \in Keys, NEW d \in job'.todo,
                      d.content_kind # "string", Root(d.id)' = k
               PROVE  \E y : Rival(to, k, y)' /\ Beside(Authors', d.id, y)
    BY <1>5 DEF CallSkips
  <2>1. PICK c \in Clients : \E i \in DOMAIN store[from][c] : d = Wire(store[from][c][i])
    BY <1>1, <1>4, <1>5, DiffOK
  <2>2. PICK i \in DOMAIN store[from][c] : d = Wire(store[from][c][i])
    BY <2>1
  <2>3. PICK it : it = store[from][c][i]
    OBVIOUS
  <2>4. it \in Items
    BY <1>9, <2>3, EntryIs
  <2>5. d.id = it.id /\ it.content_kind # "string"
    BY <2>2, <2>3, <2>4 DEF Wire, Items
  <2>6. PICK x : x = it.id
    OBVIOUS
  <2>7. Exact(store[from], x)
    BY <1>9, <2>3, <2>6, ExactIs
  <2>8. ~IsValue(store[from], k, x)
    <3> SUFFICES ASSUME IsValue(store[from], k, x) PROVE FALSE
      OBVIOUS
    <3>1. PICK b \in Clients : \E m \in DOMAIN store[from][b] :
            store[from][b][m].id = x /\ store[from][b][m].content_kind = "string"
      BY DEF IsValue
    <3>2. PICK m \in DOMAIN store[from][b] :
            store[from][b][m].id = x /\ store[from][b][m].content_kind = "string"
      BY <3>1
    <3>3. Covers(store[from][b][m], x) /\ Covers(store[from][c][i], x) /\ x \in Ids
      BY <1>9, <2>3, <2>6, <3>2, EntryIs
    <3>4. b = c /\ m = i
      BY <1>9, <3>3, Apart
    <3> QED
      BY <2>3, <2>5, <3>2, <3>4
  <2>9. Root(x) = k
    BY <1>7, <2>5, <2>6
  <2>10. PICK y : Rival(from, k, y) /\ Beside(Authors, x, y)
    BY <2>7, <2>8, <2>9 DEF KeysPlaced, KeyOK, LostAt
  <2>11. y = head[from][k] /\ y # NoId
    BY <1>2, <2>10 DEF Rival
  <2>12. WrittenFor(k, x)
    BY <2>7, <2>9, HeldWritten DEF Steady
  <2>13. \E w : Rival(to, k, w)' /\ Beside(Authors, x, w)
    BY <1>10, <2>10, <2>11, <2>12
  <2> QED
    BY <1>6, <2>5, <2>6, <2>13
<1>12. CallDeletes'
  <2> SUFFICES ASSUME NEW k \in Keys, NEW x, NEW z \in ds[from], WrittenFor(k, x)',
                      Covers(Find(Authors', x), z)
               PROVE  \E y : Rival(to, k, y)' /\ LeftOf(Authors', x, y)
    BY <1>5 DEF CallDeletes
  <2>1. WrittenFor(k, x)
    BY <1>6, <1>7 DEF WrittenFor
  <2>2. z \in Ids /\ Has(store[from], z)
    BY <1>1 DEF DocOK, Deleted, DeadOK
  <2>3. PICK c \in Clients : c = z[1]
    BY <2>2 DEF Ids
  <2>4. PICK i \in DOMAIN store[from][c] : Covers(store[from][c][i], z)
    BY <2>2, <2>3 DEF Has
  <2>5. store[from][c][i].id \in del[from]
    BY <2>2, <2>4 DEF Deleted, DeadOK
  <2>6. /\ i \in DOMAIN store[c][c] /\ Covers(store[c][c][i], z)
        /\ Core(store[c][c][i]) = Core(store[from][c][i])
    BY <1>1, <2>2, <2>4, AuthorsEntry
  <2>7. PICK b \in Clients : \E j \in DOMAIN Authors[b] :
          Find(Authors, x) = Authors[b][j] /\ Authors[b][j].id = x
    BY <1>1, <2>1, ExactFound DEF WrittenFor, WellStored
  <2>8. PICK j \in DOMAIN Authors[b] :
          Find(Authors, x) = Authors[b][j] /\ Authors[b][j].id = x
    BY <2>7
  <2>9. i \in DOMAIN Authors[c] /\ Authors[c][i] = store[c][c][i]
    BY <1>1, <2>6, AuthorsAre
  <2>10. b = c /\ i = j
    BY <1>1, <1>6, <2>2, <2>6, <2>8, <2>9, Apart DEF WellStored
  <2>11. store[from][c][i].id = x
    BY <2>6, <2>8, <2>9, <2>10 DEF Core
  <2>12. PICK g : g = head[from][k]
    OBVIOUS
  <2>13. g # NoId /\ LeftOf(Authors, x, g)
    BY <2>1, <2>5, <2>11, <2>12 DEF KeysPlaced, KeyOK, FlaggedAt, WrittenFor
  <2>14. \E y : Rival(to, k, y)' /\ LeftOf(Authors, x, y)
    BY <1>10, <2>1, <2>12, <2>13
  <2> QED
    BY <1>6, <2>14
<1> QED
  BY <1>8, <1>11, <1>12

-----------------------------------------------------------------------------
(* A call goes on.                                                         *)

\* A step of a call that copies no item of its document's own client.
SameAuthors == \A c \in Clients : store'[c][c] = store[c][c]

\* The call in progress loses the struct d, or none.
Loses(d) ==
  /\ job # NoJob /\ job' # NoJob /\ job'.doc = job.doc /\ job'.ds = job.ds
  /\ job'.todo \subseteq job.todo
  /\ \A e \in job.todo : e # d => e \in job'.todo

\* What a call skips or deletes stays left of a rival.
LEMMA CallGoesOn ==
  ASSUME Steady, CallSkips, CallDeletes, job \in Jobs, SameAuthors, NEW d, Loses(d),
         \A k \in Keys : Yields(job.doc, k)
  PROVE  CallSkips' /\ CallDeletes'
<1>1. DocOK /\ History /\ InFlightAuthentic
  BY InvariantParts DEF Steady
<1>2. Authors' = Authors
  BY DEF Authors, SameAuthors
<1>3. job.doc \in Clients
  BY DEF Jobs
<1>4. /\ job # NoJob /\ job' # NoJob /\ job'.doc = job.doc /\ job'.ds = job.ds
      /\ job'.todo \subseteq job.todo
  BY DEF Loses
<1>5. \A c \in Clients : Authors[c] = store[c][c]
  BY <1>1, AuthorsAre
<1>6. ASSUME NEW k \in Keys, NEW x, Exact(Authors, x), Root(x)' = k
      PROVE  WrittenFor(k, x)
  <2>1. x \in Ids /\ Has(Authors, x)
    BY <1>1, <1>6, AuthorsAre, ExactFound DEF WellStored
  <2>2. Has(store[x[1]], x)
    BY <1>5, <2>1 DEF Has, Ids
  <2> QED
    BY <1>6, <2>1, <2>2 DEF Steady, RootStays, WrittenFor
<1>7. CallSkips'
  <2> SUFFICES ASSUME NEW k \in Keys, NEW e \in job.todo,
                      e.content_kind # "string", Root(e.id)' = k
               PROVE  \E y : Rival(job.doc, k, y)' /\ Beside(Authors', e.id, y)
    BY <1>4 DEF CallSkips
  <2>1. e \in Items /\ Emitted(e)
    BY <1>1, <1>4 DEF Jobs, InFlightAuthentic, Authentic
  <2>2. PICK x : x = e.id
    OBVIOUS
  <2>3. Exact(Authors, x)
    BY <2>1, <2>2, SentWritten DEF Steady, WrittenFor
  <2>4. WrittenFor(k, x)
    BY <1>6, <2>2, <2>3
  <2>5. PICK y : Rival(job.doc, k, y) /\ Beside(Authors, x, y)
    BY <1>4, <2>2, <2>4 DEF CallSkips, WrittenFor
  <2>6. \E w : Rival(job.doc, k, w)' /\ Beside(Authors', x, w)
    <3>1. PICK p \in Clients : p = job.doc
      BY <1>3
    <3>2. Yields(p, k) /\ Rival(p, k, y)
      BY <2>5, <3>1
    <3>3. PICK w : Rival(p, k, w)' /\ Beside(Authors', x, w)
      BY <2>4, <2>5, <3>2, CarrySides
    <3>4. Rival(job.doc, k, w)'
      BY <1>4, <3>1, <3>3 DEF Rival
    <3> QED
      BY <3>3, <3>4
  <2> QED
    BY <2>2, <2>6
<1>8. CallDeletes'
  <2> SUFFICES ASSUME NEW k \in Keys, NEW x, NEW z \in job.ds, WrittenFor(k, x)',
                      Covers(Find(Authors', x), z)
               PROVE  \E y : Rival(job.doc, k, y)' /\ LeftOf(Authors', x, y)
    BY <1>4 DEF CallDeletes
  <2>1. WrittenFor(k, x)
    BY <1>2, <1>6 DEF WrittenFor
  <2>2. PICK y : Rival(job.doc, k, y) /\ LeftOf(Authors, x, y)
    BY <1>2, <1>4, <2>1 DEF CallDeletes
  <2>3. PICK p \in Clients : p = job.doc
    BY <1>3
  <2>4. Yields(p, k) /\ Rival(p, k, y)
    BY <2>2, <2>3
  <2>5. PICK w : Rival(p, k, w)' /\ LeftOf(Authors', x, w)
    BY <2>1, <2>2, <2>4, CarrySides
  <2>6. Rival(job.doc, k, w)'
    BY <1>4, <2>3, <2>5 DEF Rival
  <2> QED
    BY <2>5, <2>6
<1> QED
  BY <1>7, <1>8

\* A rival other than the struct that the call is done with stays one if the
\* head does.
LEMMA RivalStays ==
  ASSUME Steady, job \in Jobs, NEW d, Loses(d), NEW k \in Keys, NEW y,
         Rival(job.doc, k, y), y # d.id, NEW p, p = job.doc
  PROVE  Rival(p, k, y)' \/ y = head[p][k]
<1>1. CASE y = head[p][k]
  BY <1>1
<1>2. CASE y # head[p][k]
  <2>1. PICK e \in job.todo : e.content_kind = "string" /\ e.id = y /\ Root(y) = k
    BY <1>2 DEF Rival
  <2>2. e \in job'.todo /\ job' # NoJob /\ p = job'.doc
    BY <2>1 DEF Loses
  <2>3. job.doc \in Clients
    BY DEF Jobs
  <2>4. WrittenFor(k, y)
    BY <2>3 DEF Steady, RivalsWritten
  <2>5. Root(y)' = k
    BY <2>4, WrittenOrderly DEF WrittenFor
  <2> QED
    BY <2>1, <2>2, <2>5 DEF Rival
<1> QED
  BY <1>1, <1>2

\* A step that changes nothing but the call.
LEMMA QuietPlaced ==
  ASSUME Steady, KeysPlaced, CallSkips, CallDeletes, job \in Jobs, NEW d, Loses(d),
         UNCHANGED << store, del, head >>,
         d \in job.todo => Has(store[job.doc], d.id) \/ d \in job'.todo
  PROVE  KeysPlaced' /\ CallSkips' /\ CallDeletes'
<1>1. DocOK /\ History /\ InFlightAuthentic
  BY InvariantParts DEF Steady
<1>2. job # NoJob /\ job' # NoJob /\ job'.doc = job.doc /\ Authors' = Authors
  BY DEF Loses, Authors
<1>3. ASSUME NEW p \in Clients, NEW k \in Keys PROVE Yields(p, k)
  <2>1. CASE p # job.doc
    <3>1. HeadYields(p, k)
      BY DEF HeadYields
    <3> QED
      BY <2>1, <3>1, HeadsYield
  <2>2. CASE p = job.doc
    <3> SUFFICES ASSUME NEW y, Rival(p, k, y)
                 PROVE  \E z : Rival(p, k, z)' /\ (z = y \/ LeftOf(Authors', y, z))
      BY DEF Yields
    <3>h. ASSUME NEW z, z = head[p][k], z # NoId PROVE Rival(p, k, z)'
      BY <3>h DEF Rival
    <3>z. ASSUME NEW z, Rival(p, k, z) PROVE z # NoId
      <4>1. WrittenFor(k, z)
        BY <3>z DEF Steady, RivalsWritten
      <4>2. Exact(Authors, z) /\ WellStored(Authors)
        BY <1>1, <4>1, AuthorsAre DEF WrittenFor
      <4> QED
        BY <4>2, ExactFound DEF WellStored
    <3>1. CASE y = head[p][k]
      BY <3>1, <3>h, <3>z
    <3>2. CASE y # head[p][k] /\ ~Rival(p, k, y)'
      <4>1. PICK e \in job.todo : e.content_kind = "string" /\ e.id = y /\ Root(y) = k
        BY <3>2 DEF Rival
      <4>2. Root(y)' = k
        BY <4>1 DEF Root
      <4>3. e \notin job'.todo
        BY <1>2, <2>2, <3>2, <4>1, <4>2 DEF Rival
      <4>4. e = d /\ y = d.id /\ Has(store[p], y)
        BY <2>2, <4>1, <4>3 DEF Loses
      <4>5. WrittenFor(k, y)
        BY DEF Steady, RivalsWritten
      <4>6. Exact(store[p], y)
        BY <4>4, <4>5, KnownExact DEF Steady, WrittenFor
      <4>7. PICK z : Rival(p, k, z) /\ ((z = y /\ y = head[p][k]) \/ LeftOf(Authors, y, z))
        BY <4>1, <4>6, HeldLeft DEF KeysPlaced
      <4>8. LeftOf(Authors, y, z)
        BY <3>2, <4>7
      <4>9. z # y
        BY <4>5, <4>8, WrittenOrderly, LeftIrreflexive
      <4>10. Rival(p, k, z)' \/ z = head[p][k]
        BY <2>2, <4>4, <4>7, <4>9, RivalStays
      <4>11. Rival(p, k, z)'
        BY <3>h, <3>z, <4>7, <4>10
      <4> QED
        BY <1>2, <4>8, <4>11
    <3> QED
      BY <3>1, <3>2
  <2> QED
    BY <2>1, <2>2
<1>4. KeysPlaced'
  BY <1>3, StillPlaced
<1>5. SameAuthors /\ job.doc \in Clients
  BY DEF SameAuthors, Jobs
<1> QED
  BY <1>3, <1>4, <1>5, CallGoesOn

-----------------------------------------------------------------------------
(* A struct is installed.                                                  *)

\* The document p installs the struct d as it.
Copies(p, d, it) ==
  /\ Extends(p, it) /\ Client(it) # p
  /\ d \in job.todo /\ d \in Items /\ Authentic(d)
  /\ Core(it) = Core(d) /\ it = Inherited(store[p], d)
  /\ job \in Jobs /\ p = job.doc /\ Loses(d)

\* A struct that finds no parent has an origin that lost, and loses with it
\* (inherit_parent_from_origin).
LEMMA LostWithOrigin ==
  ASSUME Steady, KeysPlaced, NEW p \in Clients, NEW d, NEW it, Copies(p, d, it),
         NEW k \in Keys, WrittenFor(k, it.id), it.content_kind = "string", it.parent # k
  PROVE  \E y : Rival(p, k, y) /\ Beside(Authors, it.id, y)
<1>1. DocOK /\ History
  BY InvariantParts DEF Steady
<1>2. Extends(p, it)
  BY DEF Copies
<1>3. /\ it \in Items /\ it.id \in Ids
      /\ store[p] \in Stores /\ Sorted(store[p])
      /\ store'[p] = Appended(store[p], it)
      /\ WellStored(store'[p]) /\ WellStored(Authors')
      /\ Within(store[p], store'[p]) /\ Within(store'[p], Authors')
  BY <1>2, InstallStores
<1>4. PICK x : x = it.id
  OBVIOUS
<1>5. Rooted(it)' /\ Exact(store'[p], x)
  BY <1>2, <1>4, InstalledWritten
<1>6. WrittenFor(k, x) /\ Root(x)' = k
  <2>1. WrittenFor(k, x)
    BY <1>4
  <2> QED
    BY <2>1, WrittenOrderly DEF WrittenFor
<1>7. it.parent = NoParent /\ Source(it) # NoId /\ it.origin_right = NoId
  BY <1>4, <1>5, <1>6 DEF Rooted
<1>8. PICK ol : ol = it.origin_left
  OBVIOUS
<1>9. ol # NoId /\ Source(it) = ol /\ ol \in Ids
  BY <1>3, <1>7, <1>8 DEF Source, Items, OptIds
<1>10. Has(store[p], ol)
  BY <1>2, <1>8, <1>9 DEF Extends
<1>11. Root(ol) = k
  <2>1. Root(ol)' = k
    BY <1>4, <1>5, <1>6, <1>9 DEF Rooted
  <2> QED
    BY <1>9, <1>10, <2>1, RootBefore
<1>12. PICK c \in Clients : c = ol[1]
  BY <1>9 DEF Ids
<1>13. PICK i \in DOMAIN store[p][c] : Find(store[p], ol) = store[p][c][i]
  BY <1>1, <1>9, <1>10, <1>12, AuthorHas
<1>14. PICK o : o = store[p][c][i].id
  OBVIOUS
<1>15. Exact(store[p], o) /\ Root(o) = k
  <2>1. Exact(store[p], o)
    BY <1>3, <1>14, ExactIs
  <2>2. Root(ol) = Root(Find(store[p], ol).id)
    BY <1>1, <1>9, <1>10, AuthorHas
  <2> QED
    BY <1>11, <1>13, <1>14, <2>1, <2>2
<1>16. store[p][c][i].parent = NoParent
  <2>1. d.origin_left = ol /\ d.origin_right = NoId
    BY <1>7, <1>8 DEF Copies, Core
  <2>2. d.parent = NoParent
    BY <1>9, <2>1 DEF Copies, Authentic
  <2>3. Inherited(store[p], d) = [d EXCEPT !.parent = store[p][c][i].parent]
    BY <1>9, <1>13, <2>1, <2>2 DEF Inherited
  <2>4. Inherited(store[p], d).parent = store[p][c][i].parent
    BY <2>3 DEF Copies, Items
  <2> QED
    BY <1>7, <2>4 DEF Copies
<1>17. ~IsValue(store[p], k, o)
  <2> SUFFICES ASSUME IsValue(store[p], k, o) PROVE FALSE
    OBVIOUS
  <2>1. PICK b \in Clients : \E m \in DOMAIN store[p][b] :
          store[p][b][m].id = o /\ store[p][b][m].parent = k
    BY DEF IsValue
  <2>2. PICK m \in DOMAIN store[p][b] : store[p][b][m].id = o /\ store[p][b][m].parent = k
    BY <2>1
  <2>3. Covers(store[p][b][m], o) /\ Covers(store[p][c][i], o) /\ o \in Ids
    BY <1>3, <1>14, <2>2, EntryIs
  <2>4. b = c /\ m = i
    BY <1>3, <2>3, Apart
  <2> QED
    BY <1>16, <2>2, <2>4, ParentAssumption
<1>18. PICK y : Rival(p, k, y) /\ Beside(Authors, o, y)
  BY <1>15, <1>17 DEF KeysPlaced, KeyOK, LostAt
<1>19. OriginOf(store'[p], x) = o
  <2>1. PICK u : u = store'[p]
    OBVIOUS
  <2>2. PICK b \in Clients : \E m \in DOMAIN u[b] : u[b][m] = it
    <3>1. PICK b \in Clients : b = Client(it)
      BY <1>3, ItemIds
    <3>a. store[p][b] \in Seq(Items)
      BY <1>3 DEF Stores
    <3>b. u[b] = Append(store[p][b], it)
      BY <1>1, <1>2, <2>1, <3>1, ExtendStore
    <3>2. store[p][b] \in Seq(Items) /\ u[b] = Append(store[p][b], it)
      BY <3>a, <3>b
    <3>3. PICK n : n = Len(store[p][b]) + 1
      OBVIOUS
    <3>4. n \in DOMAIN u[b] /\ u[b][n] = it
      BY <3>2, <3>3
    <3> QED
      BY <3>4
  <2>3. PICK m \in DOMAIN u[b] : u[b][m] = it
    BY <2>2
  <2>4. PICK e \in Clients : \E n \in DOMAIN u[e] :
          /\ e = ol[1] /\ Covers(u[e][n], ol) /\ OriginOf(u, x) = u[e][n].id
    BY <1>3, <1>4, <1>8, <1>9, <2>1, <2>3, OriginIs
  <2>5. PICK n \in DOMAIN u[e] :
          /\ e = ol[1] /\ Covers(u[e][n], ol) /\ OriginOf(u, x) = u[e][n].id
    BY <2>4
  <2>6. i \in DOMAIN u[c] /\ u[c][i] = store[p][c][i]
    BY <1>3, <2>1, AppendStored
  <2>7. Covers(store[p][c][i], ol)
    BY <1>3, <1>9, <1>10, <1>13, FindStored
  <2>8. e = c /\ n = i
    BY <1>3, <1>9, <2>1, <2>5, <2>6, <2>7, Apart DEF WellStored
  <2> QED
    BY <1>14, <2>1, <2>5, <2>6, <2>8
<1>20. OriginOf(Authors, x) = o
  <2>1. OriginOf(Authors', x) = o
    BY <1>3, <1>5, <1>19, OriginKept
  <2>2. Full(Authors, x)
    BY <1>6 DEF Steady, AuthorsFit
  <2>3. x \in Line(Authors, x)
    BY <2>2, LineIs
  <2> QED
    BY <1>6, <2>1, <2>3, WrittenOrderly
<1>21. WrittenFor(k, o) /\ WrittenFor(k, y)
  BY <1>15, <1>18, HeldWritten DEF Steady, RivalsWritten
<1>22. Orderly(Authors, x) /\ Orderly(Authors, o) /\ Orderly(Authors, y)
  BY <1>6, <1>21, WrittenOrderly
<1>23. o \in Line(Authors, x)
  <2>1. o # NoId /\ Full(Authors, o) /\ Full(Authors, x)
    BY <1>22 DEF Orderly, Full
  <2>2. Line(Authors, x) = {x} \cup Line(Authors, o) /\ o \in Line(Authors, o)
    BY <1>20, <2>1, LineOfOrigin, LineIs
  <2> QED
    BY <2>2
<1>24. Beside(Authors, x, y)
  BY <1>18, <1>22, <1>23, BesideStep
<1> QED
  BY <1>4, <1>18, <1>24

\* What belongs to a key after a step was written for it.
LEMMA RootWritten ==
  ASSUME Steady, NEW k, NEW x, Exact(Authors, x), Root(x)' = k
  PROVE  WrittenFor(k, x)
<1>1. DocOK /\ History
  BY InvariantParts DEF Steady
<1>2. x \in Ids /\ Has(Authors, x)
  BY <1>1, AuthorsAre, ExactFound DEF WellStored
<1>3. Has(store[x[1]], x)
  BY <1>1, <1>2, AuthorsAre DEF Has, Ids
<1> QED
  BY <1>2, <1>3 DEF Steady, RootStays, WrittenFor

\* An item that is lost as it is installed leaves a rival behind.
LEMMA CopyLost ==
  ASSUME Steady, KeysPlaced, CallSkips, NEW p \in Clients, NEW d, NEW it, Copies(p, d, it),
         NEW k \in Keys, NEW x, x = it.id, WrittenFor(k, x),
         ~(it.parent = k /\ it.content_kind = "string")
  PROVE  \E y : Rival(p, k, y)' /\ Beside(Authors', x, y)
<1>1. Extends(p, it) /\ p = job.doc /\ job \in Jobs /\ Loses(d)
  BY DEF Copies
<1>2. x = d.id /\ d.content_kind = it.content_kind
  BY DEF Copies, Core, Inherited, Items
<1>3. PICK y : Rival(p, k, y) /\ Beside(Authors, x, y)
  <2>1. CASE it.content_kind = "string"
    BY <2>1, LostWithOrigin
  <2>2. CASE it.content_kind # "string"
    <3>1. d \in job.todo /\ job # NoJob
      BY DEF Copies, Loses
    <3>2. d.content_kind # "string" /\ Root(d.id) = k
      BY <1>2, <2>2 DEF WrittenFor
    <3> QED
      BY <1>1, <1>2, <3>1, <3>2 DEF CallSkips
  <2> QED
    BY <2>1, <2>2
<1>4. WrittenFor(k, y)
  BY <1>3 DEF Steady, RivalsWritten
<1>5. Beside(Authors', x, y)
  BY <1>3, <1>4, SidesKept
<1>6. y # x
  BY <1>3, <1>4, WrittenOrderly, LeftIrreflexive DEF LeftOf
<1>7. Rival(p, k, y)' \/ y = head[p][k]
  BY <1>1, <1>2, <1>3, <1>6, RivalStays
<1>8. head'[p][k] = head[p][k]
  <2>1. LiveAt(p, k)
    BY DEF KeysPlaced, KeyOK
  <2> QED
    BY <1>1, <2>1, InstallKey
<1>9. y # NoId
  <2>1. Full(Authors, y)
    BY <1>4 DEF Steady, AuthorsFit
  <2> QED
    BY <2>1 DEF Full
<1>10. Rival(p, k, y)'
  BY <1>7, <1>8, <1>9 DEF Rival
<1> QED
  BY <1>5, <1>10

\* A struct that is installed leaves its place among the rivals to the head.
LEMMA CopyYields ==
  ASSUME Steady, KeysPlaced, CallSkips, NEW p \in Clients, NEW d, NEW it, Copies(p, d, it),
         NEW k \in Keys
  PROVE  Yields(p, k)
<1>1. Extends(p, it) /\ p = job.doc /\ job \in Jobs /\ Loses(d)
  BY DEF Copies
<1>2. d.id = it.id /\ d.content_kind = it.content_kind
  BY DEF Copies, Core, Inherited, Items
<1> SUFFICES ASSUME NEW y, Rival(p, k, y)
             PROVE  \E z : Rival(p, k, z)' /\ (z = y \/ LeftOf(Authors', y, z))
  BY DEF Yields
<1>3. WrittenFor(k, y)
  BY DEF Steady, RivalsWritten
<1>4. y # NoId
  <2>1. Full(Authors, y)
    BY <1>3 DEF Steady, AuthorsFit
  <2> QED
    BY <2>1 DEF Full
<1>5. PICK g : g = head'[p][k]
  OBVIOUS
<1>6. g # NoId => Rival(p, k, g)'
  BY <1>5 DEF Rival
<1>7. CASE y = head[p][k]
  <2>1. LiveAt(p, k)
    BY DEF KeysPlaced, KeyOK
  <2>2. HeadYields(p, k)
    BY <1>1, <2>1, InstallKey
  <2>3. g # NoId /\ (g = y \/ LeftOf(Authors', y, g))
    BY <1>4, <1>5, <1>7, <2>2 DEF HeadYields
  <2> QED
    BY <1>6, <2>3
<1>8. CASE y # head[p][k] /\ ~Rival(p, k, y)'
  <2>1. y = it.id
    BY <1>1, <1>2, <1>8, RivalStays
  <2>2. it.content_kind = "string"
    <3>1. PICK e \in job.todo : e.content_kind = "string" /\ e.id = y /\ Root(y) = k
      BY <1>8 DEF Rival
    <3>2. Root(y)' = k
      BY <1>3, WrittenOrderly DEF WrittenFor
    <3>3. e \notin job'.todo
      BY <1>1, <1>8, <3>1, <3>2 DEF Rival, Loses
    <3>4. e = d
      BY <1>1, <3>1, <3>3 DEF Loses
    <3> QED
      BY <1>2, <3>1, <3>4
  <2>3. CASE it.parent = k
    <3>1. IsMapValue(it)
      BY <2>2, <2>3 DEF IsMapValue
    <3>2. InstallIntoMap(p, it)
      BY <1>1, <2>3, <3>1, ParentAssumption DEF Extends, Installs
    <3>3. Installed(p, it, k)
      BY <1>1, <2>3, <3>1, <3>2, InstallHead
    <3>4. g # NoId /\ (it.id = g \/ LeftOf(Authors', it.id, g))
      BY <1>5, <3>3 DEF Installed
    <3> QED
      BY <1>6, <2>1, <3>4
  <2>4. CASE it.parent # k
    BY <1>3, <2>1, <2>4, CopyLost DEF LeftOf
  <2> QED
    BY <2>3, <2>4
<1> QED
  BY <1>7, <1>8

\* Installing a struct keeps keys in order (apply_one).
LEMMA CopyPlaced ==
  ASSUME Steady, KeysPlaced, CallSkips, CallDeletes,
         NEW p \in Clients, NEW d, NEW it, Copies(p, d, it)
  PROVE  KeysPlaced' /\ CallSkips' /\ CallDeletes'
<1>1. Extends(p, it) /\ p = job.doc /\ job \in Jobs /\ Loses(d) /\ Client(it) # p
  BY DEF Copies
<1>2. DocOK
  BY InvariantParts DEF Steady
<1>3. SameAuthors
  BY <1>1, <1>2, ExtendStore DEF SameAuthors
<1>4. Exact(Authors, it.id)
  <2>1. d \in Items /\ Emitted(d) /\ d.id = it.id
    BY DEF Copies, Authentic, Core
  <2> QED
    BY <2>1, SentWritten DEF Steady, WrittenFor
<1>5. ASSUME NEW k \in Keys PROVE KeepsLost(p, k)
  <2> SUFFICES ASSUME NEW x, Exact(store'[p], x), Root(x)' = k, ~IsValue(store'[p], k, x),
                      ~(Exact(store[p], x) /\ ~IsValue(store[p], k, x))
               PROVE  \E y : Rival(p, k, y)' /\ Beside(Authors', x, y)
    BY DEF KeepsLost
  <2>1. LostIs(p, it, k)
    BY <1>1, InstallLost
  <2>2. x = it.id /\ ~(it.parent = k /\ it.content_kind = "string")
    BY <2>1 DEF LostIs
  <2>3. WrittenFor(k, x)
    BY <1>4, <2>2, RootWritten
  <2> QED
    BY <2>2, <2>3, CopyLost
<1>6. ASSUME NEW q \in Clients, NEW k \in Keys PROVE KeyOK(q, k)'
  <2>1. KeyOK(q, k) /\ LiveAt(q, k)
    BY DEF KeysPlaced, KeyOK
  <2>2. /\ KeepsFlagged(q, k) /\ HeadYields(q, k) /\ LiveAt(q, k)'
        /\ q # p => KeepsLost(q, k)
    BY <1>1, <2>1, InstallKey
  <2>3. Yields(q, k)
    <3>1. CASE q = p
      BY <3>1, CopyYields
    <3>2. CASE q # p
      BY <1>1, <2>2, <3>2, HeadsYield
    <3> QED
      BY <3>1, <3>2
  <2> QED
    BY <1>5, <2>1, <2>2, <2>3, KeyStep
<1>7. \A k \in Keys : Yields(job.doc, k)
  BY <1>1, CopyYields
<1>8. CallSkips' /\ CallDeletes'
  BY <1>1, <1>3, <1>7, CallGoesOn
<1> QED
  BY <1>6, <1>8 DEF KeysPlaced

\* The end of a call: nothing to come, so what it deletes is left of the head.
LEMMA ApplyDeletesPlaced ==
  ASSUME Steady, KeysPlaced, CallDeletes, job \in Jobs, ApplyDeletes
  PROVE  KeysPlaced' /\ CallSkips' /\ CallDeletes'
<1>1. DocOK /\ History
  BY InvariantParts DEF Steady
<1>2. /\ job # NoJob /\ job.todo = {} /\ job' = NoJob /\ UNCHANGED << store, head >>
      /\ del' = [del EXCEPT ![job.doc] = @ \cup Touched(store[job.doc], job.ds)]
  BY DEF ApplyDeletes, PassIsOver, Touched
<1>3. PICK p \in Clients : p = job.doc
  BY DEF Jobs
<1>4. CallSkips' /\ CallDeletes'
  BY <1>2 DEF CallSkips, CallDeletes
<1>5. Authors' = Authors
  BY <1>2 DEF Authors
<1> SUFFICES ASSUME NEW q \in Clients, NEW k \in Keys PROVE KeyOK(q, k)'
  BY <1>4 DEF KeysPlaced
<1>6. KeyOK(q, k) /\ LiveAt(q, k)
  BY DEF KeysPlaced, KeyOK
<1>7. KeepsLost(q, k) /\ HeadYields(q, k) /\ LiveAt(q, k)'
  BY <1>2, <1>6 DEF KeepsLost, HeadYields, LiveAt
<1>8. \A y : Rival(q, k, y) <=> y = head[q][k] /\ y # NoId
  BY <1>2 DEF Rival
<1>9. Yields(q, k)
  <2>1. \A y : Rival(q, k, y) => Rival(q, k, y)'
    BY <1>2, <1>8 DEF Rival
  <2> QED
    BY <2>1 DEF Yields
<1>10. KeepsFlagged(q, k)
  <2> SUFFICES ASSUME NEW x \in del'[q], Root(x)' = k, x \notin del[q]
               PROVE  /\ WrittenFor(k, x)' /\ head'[q][k] # NoId
                      /\ LeftOf(Authors', x, head'[q][k])
    BY DEF KeepsFlagged
  <2>1. q = p /\ x \in Touched(store[p], job.ds)
    BY <1>1, <1>2, <1>3 DEF DocOK
  <2>2. PICK s \in Stored(store[p]) : ClocksOf(s) \cap job.ds # {} /\ x = s.id
    BY <2>1 DEF Touched
  <2>3. store[p] \in Stores /\ Sorted(store[p])
    BY <1>1, StoreSorted
  <2>4. s \in Items
    BY <2>3, StoredItem
  <2>5. PICK c \in Clients : \E i \in DOMAIN store[p][c] : s = store[p][c][i]
    BY <2>3, StoredItem
  <2>6. PICK i \in DOMAIN store[p][c] : s = store[p][c][i]
    BY <2>5
  <2>7. PICK z \in job.ds : z \in ClocksOf(s)
    BY <2>2
  <2>8. z \in Ids /\ Covers(s, z)
    BY <2>4, <2>7, ItemIds, ClockCovered
  <2>9. Exact(store[p], x) /\ x \in Ids /\ Covers(s, x)
    BY <2>2, <2>3, <2>6, ExactIs, EntryIs
  <2>10. Root(x) = k
    <3>1. Has(store[p], x)
      BY <2>3, <2>9, ExactFound
    <3> QED
      BY <2>9, <3>1, RootBefore
  <2>11. WrittenFor(k, x)
    BY <2>9, <2>10, HeldWritten DEF Steady
  <2>12. Covers(Find(Authors, x), z)
    <3>1. /\ i \in DOMAIN store[c][c] /\ Covers(store[c][c][i], x)
          /\ x[1] = c
      BY <1>1, <2>6, <2>9, AuthorsEntry
    <3>2. Covers(store[c][c][i], z)
      BY <1>1, <2>6, <2>8, AuthorsEntry
    <3>3. WellStored(Authors) /\ Authors[c] = store[c][c]
      BY <1>1, AuthorsAre
    <3>4. Find(Authors, x) = Authors[c][i]
      BY <2>9, <3>1, <3>3, FoundIs DEF WellStored
    <3> QED
      BY <3>2, <3>3, <3>4
  <2>13. PICK y : Rival(job.doc, k, y) /\ LeftOf(Authors, x, y)
    BY <1>2, <2>11, <2>12 DEF CallDeletes
  <2>14. y = head[q][k] /\ y # NoId
    BY <1>3, <1>8, <2>1, <2>13
  <2>15. WrittenFor(k, x)'
    BY <2>11, WrittenOrderly
  <2> QED
    BY <1>2, <1>5, <2>13, <2>14, <2>15
<1> QED
  BY <1>6, <1>7, <1>9, <1>10, KeyStep

\* A struct of the call in progress.
LEMMA ApplyPlaced ==
  ASSUME Steady, KeysPlaced, CallSkips, CallDeletes, ~Fails, job \in Jobs, job # NoJob,
         NEW d \in job.todo,
         ApplyKnown(d) \/ ApplyDeferred(d) \/ ApplyRejected(d) \/ ApplyInstalled(d)
  PROVE  KeysPlaced' /\ CallSkips' /\ CallDeletes'
<1>1. DocOK /\ CallOK /\ History /\ InFlightAuthentic
  BY InvariantParts DEF Steady
<1>2. d \in Items /\ Authentic(d) /\ job.doc \in Clients
  BY <1>1 DEF Jobs, InFlightAuthentic
<1>3. PICK p \in Clients : p = job.doc
  BY <1>2
<1>4. NoJob \notin Jobs
  BY NoJobAssumption
<1>5. Done(d) => Loses(d)
  <2> SUFFICES ASSUME Done(d) PROVE Loses(d)
    OBVIOUS
  <2>1. job' \in Jobs /\ job'.doc = job.doc /\ job'.ds = job.ds /\ job'.todo = job.todo \ {d}
    BY DEF Done, Jobs
  <2> QED
    BY <1>4, <2>1 DEF Loses
<1>6. Pending(d) => Loses(d) /\ d \in job'.todo
  <2> SUFFICES ASSUME Pending(d) PROVE Loses(d) /\ d \in job'.todo
    OBVIOUS
  <2>1. job' \in Jobs /\ job'.doc = job.doc /\ job'.ds = job.ds /\ job'.todo = job.todo
    BY DEF Pending, Jobs
  <2> QED
    BY <1>4, <2>1 DEF Loses
<1>7. CASE ApplyKnown(d)
  <2>1. Loses(d) /\ UNCHANGED << store, del, head >> /\ Has(store[job.doc], d.id)
    BY <1>5, <1>7 DEF ApplyKnown, docVars
  <2> QED
    BY <2>1, QuietPlaced
<1>8. CASE ApplyDeferred(d) \/ ApplyRejected(d)
  <2>1. Loses(d) /\ UNCHANGED << store, del, head >> /\ d \in job'.todo
    BY <1>6, <1>8 DEF ApplyDeferred, ApplyRejected, docVars
  <2> QED
    BY <2>1, QuietPlaced
<1>9. CASE ApplyInstalled(d)
  <2>1. d.parent # NoParent => d.origin_left = NoId /\ d.origin_right = NoId
    BY <1>2 DEF Authentic
  <2>2. PICK it : Extends(job.doc, it) /\ Core(it) = Core(d) /\ it = Inherited(store[job.doc], d)
    BY <1>1, <1>2, <1>9, <2>1, ApplyInstalledOK
  <2>3. it \in Items /\ ~FailToIntegrate(p, it)
    BY <2>2 DEF Extends, Fails
  <2>4. Done(d)
    BY <1>3, <1>9, <2>2, <2>3 DEF ApplyInstalled
  <2>5. Emitted(it)
    BY <1>2, <2>2 DEF Authentic, Emitted, Core, Client
  <2>6. Client(it) # p
    BY <1>1, <1>3, <2>2, <2>5, OwnIsNew
  <2>7. Copies(p, d, it)
    BY <1>2, <1>3, <1>5, <2>2, <2>4, <2>6 DEF Copies
  <2> QED
    BY <2>7, CopyPlaced
<1> QED
  BY <1>7, <1>8, <1>9

\* Every step keeps the keys in order.
LEMMA PlacedStep ==
  ASSUME NoneSent, Publishers = {}, Steady, Deleted, KeysPlaced, CallSkips, CallDeletes,
         Next, ~Fails, ~GiveUp
  PROVE  KeysPlaced' /\ CallSkips' /\ CallDeletes'
<1> DEFINE Good == KeysPlaced' /\ CallSkips' /\ CallDeletes'
<1>1. DocOK /\ CallOK /\ History /\ InFlightAuthentic
  BY InvariantParts DEF Steady
<1>2. ASSUME job' = NoJob, KeysPlaced' PROVE Good
  BY <1>2 DEF CallSkips, CallDeletes
<1>3. ASSUME NEW p \in Clients, LocalEdit(p) PROVE Good
  <2>1. job = NoJob /\ job' = NoJob
    BY <1>3, CallsAreAlone
  <2>2. ASSUME NEW it, Emits(p, it) PROVE KeysPlaced'
    BY <2>1, <2>2, EmitPlaced
  <2>3. ASSUME NEW t \in Texts, NEW i \in Nat, ArrayDeleteAt(p, t, i) PROVE KeysPlaced'
    BY <2>3, DeletePlaced
  <2>4. KeysPlaced'
    BY <1>1, <1>3, <2>2, <2>3, LocalEditOK
  <2> QED
    BY <1>2, <2>1, <2>4
<1>4. ASSUME NEW p \in Clients, Compact(p) PROVE Good
  <2>1. job' = NoJob
    BY <1>4, CallsAreAlone
  <2>2. KeysPlaced'
    BY <1>4, CompactPlaced
  <2> QED
    BY <1>2, <2>1, <2>2
<1>5. ASSUME NEW p \in Clients, NEW q \in Clients, Pull(p, q) PROVE Good
  BY <1>5, PullPlaced
<1>6. ASSUME NEW p \in Clients, Publish(p) \/ \E m \in msgs : Deliver(p, m) PROVE FALSE
  BY <1>6 DEF Publish, NoneSent
<1>7. ASSUME ApplyOne PROVE Good
  <2>1. PICK d \in job.todo : \/ ApplyKnown(d) \/ ApplyDeferred(d)
                              \/ ApplyRejected(d) \/ ApplyInstalled(d)
    BY <1>7 DEF ApplyOne
  <2>2. job # NoJob /\ job \in Jobs
    BY <1>1, <1>7 DEF ApplyOne, CallOK
  <2> QED
    BY <2>1, <2>2, ApplyPlaced
<1>8. ASSUME NextPass PROVE Good
  <2>1. job # NoJob /\ job \in Jobs /\ NoJob \notin Jobs
    BY <1>1, <1>8, NoJobAssumption DEF NextPass, PassIsOver, CallOK
  <2>2. /\ job' \in Jobs /\ job'.doc = job.doc /\ job'.ds = job.ds /\ job'.todo = job.todo
        /\ UNCHANGED << store, del, head >>
    BY <1>8, <2>1 DEF NextPass, Jobs, docVars
  <2>3. Loses(NoId) /\ (NoId \in job.todo => NoId \in job'.todo)
    BY <2>1, <2>2 DEF Loses
  <2> QED
    BY <2>1, <2>2, <2>3, QuietPlaced
<1>9. ASSUME ApplyDeletes PROVE Good
  <2>1. job \in Jobs
    BY <1>1, <1>9 DEF ApplyDeletes, PassIsOver, CallOK
  <2> QED
    BY <1>9, <2>1, ApplyDeletesPlaced
<1> HIDE DEF Good
<1>10. Good
  BY <1>3, <1>4, <1>5, <1>6, <1>7, <1>8, <1>9 DEF Next, Apply
<1> QED
  BY <1>10 DEF Good

LEMMA StutterPlaced ==
  ASSUME UNCHANGED vars, KeysPlaced, CallSkips, CallDeletes
  PROVE  KeysPlaced' /\ CallSkips' /\ CallDeletes'
<1>1. UNCHANGED << store, del, head, job >>
  BY DEF vars, docVars
<1>2. Authors' = Authors
  BY <1>1 DEF Authors
<1>3. \A x : Root(x)' = Root(x)
  BY <1>1 DEF Root
<1>4. \A k, x : WrittenFor(k, x)' <=> WrittenFor(k, x)
  BY <1>2, <1>3 DEF WrittenFor
<1>5. \A p, k, y : Rival(p, k, y)' <=> Rival(p, k, y)
  BY <1>1, <1>3 DEF Rival
<1>6. ASSUME NEW p \in Clients, NEW k \in Keys PROVE KeyOK(p, k)'
  <2>1. LiveAt(p, k)' /\ FlaggedAt(p, k)'
    BY <1>1, <1>2, <1>3, <1>4 DEF KeysPlaced, KeyOK, LiveAt, FlaggedAt
  <2>2. LostAt(p, k)'
    BY <1>1, <1>2, <1>3, <1>5 DEF KeysPlaced, KeyOK, LostAt
  <2> QED
    BY <2>1, <2>2 DEF KeyOK
<1>7. CallSkips'
  BY <1>1, <1>2, <1>3, <1>5 DEF CallSkips
<1>8. CallDeletes'
  BY <1>1, <1>2, <1>4, <1>5 DEF CallDeletes
<1> QED
  BY <1>6, <1>7, <1>8 DEF KeysPlaced

LEMMA InitPlaced == Init => KeysPlaced /\ CallSkips /\ CallDeletes
<1> SUFFICES ASSUME Init PROVE KeysPlaced /\ CallSkips /\ CallDeletes
  OBVIOUS
<1>1. job = NoJob
  BY DEF Init
<1>2. CallSkips /\ CallDeletes
  BY <1>1 DEF CallSkips, CallDeletes
<1> SUFFICES ASSUME NEW p \in Clients, NEW k \in Keys PROVE KeyOK(p, k)
  BY <1>2 DEF KeysPlaced
<1>3. head[p][k] = NoId /\ del[p] = {} /\ \A c \in Clients : DOMAIN store[p][c] = {}
  BY DEF Init
<1>4. \A x : ~Exact(store[p], x)
  BY <1>3 DEF Exact, Ids
<1> QED
  BY <1>3, <1>4 DEF KeyOK, LiveAt, FlaggedAt, LostAt

-----------------------------------------------------------------------------
(* One live value, and the same one everywhere.                            *)

\* Heads are stored and were written for their keys.
LEMMA HeadEmitted ==
  ASSUME IInv, AllRooted, Flagging, AuthorsFit, NEW p \in Clients, NEW k \in Keys,
         NEW h, h = head[p][k], h # NoId
  PROVE  /\ Exact(store[p], h) /\ Root(h) = k
         /\ WrittenFor(k, h) /\ Orderly(Authors, h)
<1>1. Exact(store[p], h) /\ Root(h) = k
  BY DEF Flagging, KeysOK, AllRooted, ShownRooted
<1>2. WrittenFor(k, h) /\ WellStored(Authors)
  BY <1>1, HeldWritten
<1>3. Exact(Authors, h) /\ Full(Authors, h)
  BY <1>2 DEF WrittenFor, AuthorsFit
<1> QED
  BY <1>1, <1>2, <1>3, ExactOrderly

\* A head that were flagged would be left of itself.
LEMMA LiveOne ==
  IInv /\ AllRooted /\ Flagging /\ AuthorsFit /\ KeysPlaced => OneLiveValue
<1> SUFFICES ASSUME IInv, AllRooted, Flagging, AuthorsFit, KeysPlaced,
                    NEW p \in Clients, NEW k \in Keys, head[p][k] # NoId
             PROVE  { it.id : it \in OfKey(p, k) } \ del[p] = {head[p][k]}
  BY DEF OneLiveValue
<1>1. PICK h : h = head[p][k]
  OBVIOUS
<1>2. DocOK /\ store[p] \in Stores
  BY InvariantParts DEF DocOK
<1>3. \A x : IsValue(store[p], k, x) <=> x \in { it.id : it \in OfKey(p, k) }
  BY <1>2, ValueOfKey
<1>4. h \in { it.id : it \in OfKey(p, k) }
  BY <1>1, <1>3 DEF KeysPlaced, KeyOK, LiveAt
<1>5. h \notin del[p]
  <2> SUFFICES ASSUME h \in del[p] PROVE FALSE
    OBVIOUS
  <2>1. Root(h) = k /\ Orderly(Authors, h)
    BY <1>1, HeadEmitted
  <2>2. LeftOf(Authors, h, h)
    BY <1>1, <2>1 DEF KeysPlaced, KeyOK, FlaggedAt
  <2> QED
    BY <2>1, <2>2, LeftIrreflexive
<1>6. ASSUME NEW x, IsValue(store[p], k, x), x \notin del[p] PROVE x = h
  BY <1>1, <1>6 DEF IsValue, Flagging, KeysOK
<1> QED
  BY <1>1, <1>3, <1>4, <1>5, <1>6

\* What a document shows for a key is shown or surpassed by every document
\* that holds the same items.
LEMMA Surpassed ==
  ASSUME IInv, AllRooted, Flagging, AuthorsFit, KeysPlaced, job = NoJob,
         NEW p \in Clients, NEW q \in Clients, NEW k \in Keys,
         StateVector(store[p]) = StateVector(store[q]),
         NEW g, g = head[p][k], g # NoId, NEW h, h = head[q][k]
  PROVE  h # NoId /\ (g = h \/ LeftOf(Authors, g, h))
<1>1. DocOK /\ History
  BY InvariantParts
<1>2. Exact(store[p], g) /\ Root(g) = k /\ g[1] \in Clients
  BY HeadEmitted DEF Exact, Ids
<1>3. PICK c \in Clients : c = g[1]
  BY <1>2
<1>4. PICK i \in DOMAIN store[p][c] : store[p][c][i].id = g
  BY <1>2, <1>3 DEF Exact
<1>5. i \in DOMAIN store[q][c]
  BY <1>1, SameVectors, VectorDomain
<1>6. store[q][c][i].id = g
  BY <1>1, <1>4, <1>5 DEF History, SameHistory, Core
<1>7. Exact(store[q], g)
  BY <1>2, <1>3, <1>5, <1>6 DEF Exact
<1>8. KeyOK(q, k)
  BY DEF KeysPlaced
<1>9. CASE IsValue(store[q], k, g)
  <2>1. g = h \/ g \in del[q]
    BY <1>9 DEF IsValue, Flagging, KeysOK
  <2> QED
    BY <1>2, <1>8, <2>1 DEF KeyOK, FlaggedAt
<1>10. CASE ~IsValue(store[q], k, g)
  <2>1. PICK y : Rival(q, k, y) /\ Beside(Authors, g, y)
    BY <1>2, <1>7, <1>8, <1>10 DEF KeyOK, LostAt
  <2> QED
    BY <2>1 DEF Rival, LeftOf
<1> QED
  BY <1>9, <1>10

\* Two heads of which each surpasses the other are one.
LEMMA SameHeads ==
  IInv /\ AllRooted /\ Flagging /\ AuthorsFit /\ KeysPlaced => HeadsAgree
<1> SUFFICES ASSUME IInv, AllRooted, Flagging, AuthorsFit, KeysPlaced, job = NoJob,
                    NEW p \in Clients, NEW q \in Clients,
                    StateVector(store[p]) = StateVector(store[q])
             PROVE  head[p] = head[q]
  BY DEF HeadsAgree
<1>1. DocOK
  BY InvariantParts
<1>2. ASSUME NEW k \in Keys PROVE head[p][k] = head[q][k]
  <2>1. PICK g : g = head[p][k]
    OBVIOUS
  <2>2. PICK h : h = head[q][k]
    OBVIOUS
  <2>3. g # NoId => h # NoId /\ (g = h \/ LeftOf(Authors, g, h))
    BY <2>1, <2>2, Surpassed
  <2>4. h # NoId => g # NoId /\ (h = g \/ LeftOf(Authors, h, g))
    BY <2>1, <2>2, Surpassed
  <2>5. g # NoId => Orderly(Authors, g)
    BY <2>1, HeadEmitted
  <2>6. h # NoId => Orderly(Authors, h)
    BY <2>2, HeadEmitted
  <2>7. g = h
    BY <2>3, <2>4, <2>5, <2>6, LeftTransitive, LeftIrreflexive
  <2> QED
    BY <2>1, <2>2, <2>7
<1> QED
  BY <1>1, <1>2 DEF DocOK

LEMMA AuthorsFitHolds ==
  ASSUME IInv, IInv', WellWritten', WellKept', AllRooted, AuthorsFit, KeysFit', [Next]_vars
  PROVE  AuthorsFit'
<1>1. CASE UNCHANGED vars
  BY <1>1 DEF vars, docVars, AuthorsFit, WrittenFor, Authors, Root
<1>2. CASE Next
  <2>1. Grown
    BY StepGrown
  <2>2. RootStays
    BY <1>2, DocumentsRooted
  <2> QED
    BY <1>2, <2>1, <2>2, AuthorsFitStep
<1> QED
  BY <1>1, <1>2

\* What holds of the keys, given that no chain is cut.
Placed == KeysPlaced /\ CallSkips /\ CallDeletes

LEMMA PlacedHolds ==
  ASSUME Publishers = {}, NoneSent, IInv, AllRooted, Flagging, Deleted, KeysFit, HeadTop,
         AuthorsFit, RivalsWritten, Placed,
         IInv', AllRooted', KeysFit', WellKept', WellWritten', AuthorsFit', RivalsWritten',
         [Next]_vars, [~Fails]_vars, [~GiveUp]_vars
  PROVE  Placed'
<1>1. CASE UNCHANGED vars
  BY <1>1, StutterPlaced DEF Placed
<1>2. CASE Next /\ ~(UNCHANGED vars)
  <2>1. Grown
    BY StepGrown
  <2>2. RootStays
    BY <1>2, DocumentsRooted
  <2>3. Steady
    BY <2>1, <2>2 DEF Steady
  <2> QED
    BY <1>2, <2>3, PlacedStep DEF Placed
<1> QED
  BY <1>1, <1>2

\* What the two theorems below rest on.
Settled == IInv /\ AllRooted /\ Flagging /\ AuthorsFit /\ KeysPlaced

LEMMA AlwaysSettled ==
  ASSUME Publishers = {}
  PROVE  Spec /\ [][~Fails]_vars /\ []ChainsFit => []Settled
<1>1. Init => HeadTop /\ AllRooted /\ Flagging /\ Deleted /\ CallCovers /\ NoneSent
              /\ AuthorsFit /\ Placed
  <2>1. Init => CallCovers /\ NoneSent
    BY DEF Init, CallCovers, NoneSent
  <2> QED
    BY <2>1, InitHead, InitRooted, InitFlagging, InitAuthors, InitPlaced DEF Placed
<1>2. IInv => WellKept /\ WellWritten
  BY StoreWell, AuthorsWell
<1>3. IInv /\ ChainsFit => KeysFit
  BY KeysFitIs
<1>4. IInv /\ AllRooted /\ Flagging => RivalsWritten
  BY RivalsKnown
<1>5. IInv /\ WellKept /\ WellKept' /\ KeysFit /\ KeysFit' /\ HeadTop /\ [Next]_vars
      => HeadTop'
  BY HeadStep
<1>6. IInv /\ IInv' /\ AllRooted /\ [Next]_vars => AllRooted'
  BY RootedStep
<1>7. IInv /\ Flagging /\ Deleted /\ CallCovers /\ NoneSent /\ [Next]_vars
      => Flagging' /\ Deleted' /\ CallCovers' /\ NoneSent'
  BY DeletedStep
<1>8. IInv /\ IInv' /\ WellWritten' /\ WellKept' /\ AllRooted /\ AuthorsFit /\ KeysFit'
      /\ [Next]_vars => AuthorsFit'
  BY AuthorsFitHolds
<1>9. NoneSent /\ IInv /\ AllRooted /\ Flagging /\ Deleted /\ KeysFit /\ HeadTop
      /\ AuthorsFit /\ RivalsWritten /\ Placed
      /\ IInv' /\ AllRooted' /\ KeysFit' /\ WellKept' /\ WellWritten' /\ AuthorsFit'
      /\ RivalsWritten' /\ [Next]_vars /\ [~Fails]_vars /\ [~GiveUp]_vars
      => Placed'
  BY PlacedHolds
<1>10. Spec => [][~GiveUp]_vars
  BY NoCallGivesUp
<1>11. IInv /\ AllRooted /\ Flagging /\ AuthorsFit /\ Placed => Settled
  BY DEF Settled, Placed
<1> QED
  BY Invariance, <1>1, <1>2, <1>3, <1>4, <1>5, <1>6, <1>7, <1>8, <1>9, <1>10, <1>11, PTL
     DEF Spec

\* Each key that was ever written shows exactly one value, the head: every
\* value that lost was flagged, wherever it lost, and none that won was,
\* whichever documents hold placeholders (install_into_map, compact,
\* apply_update_v1).  Broadcasts are left out, and so are updates that a
\* failed integration cuts short: both lose the items behind a deletion.
THEOREM OneValueLives ==
  ASSUME Publishers = {}
  PROVE  Spec /\ [][~Fails]_vars /\ []ChainsFit => []OneLiveValue
<1>1. Settled => OneLiveValue
  BY LiveOne DEF Settled
<1> QED
  BY AlwaysSettled, <1>1, PTL

\* Documents that hold the same items show the same value for every key,
\* whatever each of them compacted and whenever.
THEOREM HeadsAlwaysAgree ==
  ASSUME Publishers = {}
  PROVE  Spec /\ [][~Fails]_vars /\ []ChainsFit => []HeadsAgree
<1>1. Settled => HeadsAgree
  BY SameHeads DEF Settled
<1> QED
  BY AlwaysSettled, <1>1, PTL

-----------------------------------------------------------------------------
(* Lists: what splicing an element keeps.                                  *)

NoRepeats(l) == \A i, j \in DOMAIN l : l[i] = l[j] => i = j

\* Where the i-th element stands after a splice behind the first at.
Shifted(at, i) == IF i <= at THEN i ELSE i + 1

LEMMA SplicedAt ==
  ASSUME NEW l \in Seq(Ids), NEW u \in Seq(Ids), NEW at \in 0 .. Len(l), NEW x,
         Spliced(u, l, at, x)
  PROVE  /\ \A i \in DOMAIN l : Shifted(at, i) \in DOMAIN u /\ u[Shifted(at, i)] = l[i]
         /\ at + 1 \in DOMAIN u /\ u[at + 1] = x
         /\ \A k \in DOMAIN u : k = at + 1 \/ \E i \in DOMAIN l : k = Shifted(at, i)
<1>1. DOMAIN l = 1 .. Len(l) /\ DOMAIN u = 1 .. Len(l) + 1 /\ Len(l) \in Nat
  BY DEF Spliced
<1>2. at + 1 \in DOMAIN u /\ u[at + 1] = x
  BY <1>1 DEF Spliced
<1>3. ASSUME NEW i \in DOMAIN l
      PROVE  Shifted(at, i) \in DOMAIN u /\ u[Shifted(at, i)] = l[i]
  <2>1. CASE i <= at
    BY <1>1, <2>1 DEF Shifted, Spliced
  <2>2. CASE ~(i <= at)
    <3>1. i \in (at + 1) .. Len(l) /\ Shifted(at, i) = i + 1
      BY <1>1, <2>2 DEF Shifted
    <3> QED
      BY <1>1, <3>1 DEF Spliced
  <2> QED
    BY <2>1, <2>2
<1>4. ASSUME NEW k \in DOMAIN u, k # at + 1
      PROVE  \E i \in DOMAIN l : k = Shifted(at, i)
  <2>1. CASE k <= at
    BY <1>1, <2>1 DEF Shifted
  <2>2. CASE ~(k <= at)
    <3>1. k - 1 \in DOMAIN l /\ k = Shifted(at, k - 1)
      BY <1>1, <1>4, <2>2 DEF Shifted
    <3> QED
      BY <3>1
  <2> QED
    BY <2>1, <2>2
<1> QED
  BY <1>2, <1>3, <1>4

LEMMA SpliceOrder ==
  ASSUME NEW l \in Seq(Ids), NEW u \in Seq(Ids), NEW at \in 0 .. Len(l), NEW x,
         Spliced(u, l, at, x)
  PROVE  /\ ToSet(u) = ToSet(l) \cup {x}
         /\ \A a, b : Before(l, a, b) => Before(u, a, b)
         /\ \A i \in 1 .. at : Before(u, l[i], x)
         /\ \A i \in (at + 1) .. Len(l) : Before(u, x, l[i])
         /\ NoRepeats(l) /\ x \notin ToSet(l) => NoRepeats(u)
<1>1. /\ \A i \in DOMAIN l : Shifted(at, i) \in DOMAIN u /\ u[Shifted(at, i)] = l[i]
      /\ at + 1 \in DOMAIN u /\ u[at + 1] = x
      /\ \A k \in DOMAIN u : k = at + 1 \/ \E i \in DOMAIN l : k = Shifted(at, i)
  BY SplicedAt
<1>2. DOMAIN l = 1 .. Len(l) /\ Len(l) \in Nat
  OBVIOUS
<1>3. \A i, j \in DOMAIN l : i < j => Shifted(at, i) < Shifted(at, j)
  BY <1>2 DEF Shifted
<1>4. ToSet(u) = ToSet(l) \cup {x}
  BY <1>1 DEF ToSet
<1>5. ASSUME NEW a, NEW b, Before(l, a, b) PROVE Before(u, a, b)
  <2>1. PICK i \in DOMAIN l, j \in DOMAIN l : i < j /\ l[i] = a /\ l[j] = b
    BY <1>5 DEF Before
  <2> QED
    BY <1>1, <1>3, <2>1 DEF Before
<1>6. ASSUME NEW i \in 1 .. at PROVE Before(u, l[i], x)
  <2>1. i \in DOMAIN l /\ Shifted(at, i) < at + 1
    BY <1>2 DEF Shifted
  <2> QED
    BY <1>1, <2>1 DEF Before
<1>7. ASSUME NEW i \in (at + 1) .. Len(l) PROVE Before(u, x, l[i])
  <2>1. i \in DOMAIN l /\ at + 1 < Shifted(at, i)
    BY <1>2 DEF Shifted
  <2> QED
    BY <1>1, <2>1 DEF Before
<1>8. ASSUME NoRepeats(l), x \notin ToSet(l), NEW i \in DOMAIN u, NEW j \in DOMAIN u, u[i] = u[j]
      PROVE  i = j
  <2>1. \A k \in DOMAIN l : l[k] # x
    BY <1>8 DEF ToSet
  <2>2. CASE i = at + 1 \/ j = at + 1
    BY <1>1, <1>8, <2>1, <2>2
  <2>3. CASE i # at + 1 /\ j # at + 1
    <3>1. PICK a \in DOMAIN l, b \in DOMAIN l : i = Shifted(at, a) /\ j = Shifted(at, b)
      BY <1>1, <2>3
    <3>2. l[a] = l[b]
      BY <1>1, <1>8, <3>1
    <3> QED
      BY <1>8, <3>1, <3>2 DEF NoRepeats
  <2> QED
    BY <2>2, <2>3
<1> QED
  BY <1>4, <1>5, <1>6, <1>7, <1>8 DEF NoRepeats

\* In a list without repeats the order is that of the places.
LEMMA BeforeIs ==
  ASSUME NEW l \in Seq(Ids), NoRepeats(l), NEW i \in DOMAIN l, NEW j \in DOMAIN l
  PROVE  /\ Before(l, l[i], l[j]) <=> i < j
         /\ \A z : Before(l, l[i], l[j]) /\ Before(l, l[j], z) => Before(l, l[i], z)
<1>1. DOMAIN l = 1 .. Len(l) /\ Len(l) \in Nat
  OBVIOUS
<1>2. ASSUME NEW m \in DOMAIN l, NEW n \in DOMAIN l
      PROVE  Before(l, l[m], l[n]) <=> m < n
  BY DEF Before, NoRepeats
<1>3. ASSUME NEW z, Before(l, l[i], l[j]), Before(l, l[j], z) PROVE Before(l, l[i], z)
  <2>1. PICK k \in DOMAIN l : l[k] = z
    BY <1>3 DEF Before
  <2>2. i < j /\ j < k
    BY <1>2, <1>3, <2>1
  <2>3. i < k
    BY <1>1, <2>2
  <2> QED
    BY <2>1, <2>3 DEF Before
<1> QED
  BY <1>2, <1>3

-----------------------------------------------------------------------------
(* Lists: functions that follow their own last value, as the loops of      *)
(* integrate and for_each do.                                              *)


\* f starts at first with start, and each later value comes from the last.
Follows(f, V, G, start, first, last) ==
  /\ f \in [first .. last -> V]
  /\ f[first] = start
  /\ \A n \in (first + 1) .. last : f[n] = G[<< n, f[n - 1] >>]

LEMMA FollowsOn ==
  ASSUME NEW first \in Nat, NEW m \in Nat, first <= m, NEW last \in Nat, m + 1 <= last,
         NEW V, NEW start \in V, NEW G \in [((first + 1) .. last) \X V -> V],
         NEW f, Follows(f, V, G, start, first, m)
  PROVE  \E g : Follows(g, V, G, start, first, m + 1)
<1>1. m \in first .. m /\ m + 1 \in (first + 1) .. last /\ first \in first .. m
  OBVIOUS
<1>2. f \in [first .. m -> V] /\ f[m] \in V
  BY <1>1 DEF Follows
<1>3. << m + 1, f[m] >> \in ((first + 1) .. last) \X V
  BY <1>1, <1>2
<1>4. PICK v \in V : v = G[<< m + 1, f[m] >>]
  BY <1>3
<1> DEFINE g == [ n \in first .. (m + 1) |-> IF n = m + 1 THEN v ELSE f[n] ]
<1>5. g \in [first .. (m + 1) -> V]
  <2>1. \A n \in first .. (m + 1) : n = m + 1 \/ n \in first .. m
    OBVIOUS
  <2> QED
    BY <1>2, <2>1
<1>6. g[m + 1] = v /\ \A n \in first .. m : g[n] = f[n]
  OBVIOUS
<1> HIDE DEF g
<1>7. g[first] = start
  BY <1>1, <1>6 DEF Follows
<1>8. ASSUME NEW n \in (first + 1) .. (m + 1) PROVE g[n] = G[<< n, g[n - 1] >>]
  <2>1. n - 1 \in first .. m /\ g[n - 1] = f[n - 1]
    BY <1>6
  <2>2. CASE n = m + 1
    <3>1. n - 1 = m
      BY <2>2
    <3> QED
      BY <1>4, <1>6, <2>1, <2>2, <3>1
  <2>3. CASE n # m + 1
    <3>1. n \in (first + 1) .. m /\ n \in first .. m
      BY <2>3
    <3> QED
      BY <1>6, <2>1, <3>1 DEF Follows
  <2> QED
    BY <2>2, <2>3
<1> QED
  BY <1>5, <1>7, <1>8 DEF Follows

LEMMA Following ==
  ASSUME NEW first \in Nat, NEW last \in Nat, first <= last, NEW V, NEW start \in V,
         NEW G \in [((first + 1) .. last) \X V -> V]
  PROVE  \E f : Follows(f, V, G, start, first, last)
<1> DEFINE T == { n \in Nat : first + n <= last =>
                                \E f : Follows(f, V, G, start, first, first + n) }
<1>1. 0 \in T
  <2> DEFINE f == [ n \in first .. first |-> start ]
  <2>1. f \in [first .. first -> V] /\ f[first] = start /\ first + 0 = first
    OBVIOUS
  <2>2. Follows(f, V, G, start, first, first)
    BY <2>1 DEF Follows
  <2> QED
    BY <2>1, <2>2
<1>2. ASSUME NEW k \in Nat, k \in T PROVE k + 1 \in T
  <2> SUFFICES ASSUME first + (k + 1) <= last
               PROVE  \E f : Follows(f, V, G, start, first, first + (k + 1))
    OBVIOUS
  <2>1. PICK m \in Nat : m = first + k
    OBVIOUS
  <2>2. first + (k + 1) = m + 1 /\ m + 1 <= last /\ m <= last /\ first <= m
    BY <2>1
  <2>3. PICK f : Follows(f, V, G, start, first, m)
    BY <1>2, <2>1, <2>2
  <2>4. \E g : Follows(g, V, G, start, first, m + 1)
    BY <2>2, <2>3, FollowsOn
  <2> QED
    BY <2>2, <2>4
<1>3. last - first \in Nat /\ first + (last - first) = last
  OBVIOUS
<1>4. last - first \in T
  <2> HIDE DEF T
  <2> QED
    BY <1>1, <1>2, <1>3, SetInduction
<1> QED
  BY <1>3, <1>4

-----------------------------------------------------------------------------
(* Lists: where integrate puts an item.                                    *)

LEMMA PosIs ==
  ASSUME NEW l \in Seq(Ids), NoRepeats(l), NEW st, NEW y
  PROVE  /\ Pos(l, st, y) \in 0 .. Len(l) /\ Len(l) \in Nat
         /\ Pos(l, st, y) # 0 => /\ Has(st, y) /\ Pos(l, st, y) \in DOMAIN l
                                 /\ l[Pos(l, st, y)] = Find(st, y).id
         /\ \A i \in DOMAIN l : Has(st, y) /\ l[i] = Find(st, y).id => Pos(l, st, y) = i
<1>1. DOMAIN l = 1 .. Len(l) /\ Len(l) \in Nat
  OBVIOUS
<1>2. PICK w : w = Find(st, y).id
  OBVIOUS
<1>3. CASE Has(st, y) /\ w \in ToSet(l)
  <2>1. PICK i \in DOMAIN l : l[i] = w
    BY <1>3 DEF ToSet
  <2>2. Pos(l, st, y) = CHOOSE j \in DOMAIN l : l[j] = w
    BY <1>2, <1>3 DEF Pos
  <2>3. Pos(l, st, y) \in DOMAIN l /\ l[Pos(l, st, y)] = w
    BY <2>1, <2>2
  <2> QED
    BY <1>1, <1>2, <1>3, <2>3 DEF NoRepeats
<1>4. CASE ~(Has(st, y) /\ w \in ToSet(l))
  <2>1. Pos(l, st, y) = 0
    BY <1>2, <1>4 DEF Pos
  <2>2. \A i \in DOMAIN l : ~(Has(st, y) /\ l[i] = w)
    BY <1>4 DEF ToSet
  <2> QED
    BY <1>1, <1>2, <2>1, <2>2
<1> QED
  BY <1>3, <1>4

\* The conflict zone ends behind its start and not behind its limit.
LEMMA ZoneIs ==
  ASSUME NEW l \in Seq(Ids), NoRepeats(l), NEW st, NEW it
  PROVE  /\ ZoneStart(l, st, it) \in Nat /\ ZoneLimit(l, st, it) \in Nat
         /\ ZoneEnd(l, st, it) \in Nat
         /\ ZoneStart(l, st, it) < ZoneEnd(l, st, it)
         /\ ZoneEnd(l, st, it) <= ZoneLimit(l, st, it)
<1> DEFINE a == ZoneStart(l, st, it)
           b == ZoneLimit(l, st, it)
           zone == (a + 1) .. (b - 1)
           stops == { q \in zone : Stops(l, st, it, q) }
<1>1. a \in 0 .. Len(l) /\ Len(l) \in Nat
  BY PosIs DEF ZoneStart
<1>2. b \in Nat /\ a < b
  <2>1. Pos(l, st, it.origin_right) \in 0 .. Len(l)
    BY PosIs
  <2> HIDE DEF a
  <2>2. b = IF Pos(l, st, it.origin_right) > a THEN Pos(l, st, it.origin_right)
            ELSE Len(l) + 1
    BY DEF ZoneLimit, a
  <2> QED
    BY <1>1, <2>1, <2>2
<1>3. ZoneEnd(l, st, it) = IF stops = {} THEN b
                           ELSE CHOOSE q \in stops : \A r \in stops : q <= r
  BY Zenon DEF ZoneEnd
<1>4. stops \subseteq zone
  OBVIOUS
<1> HIDE DEF stops, a, b
<1>5. CASE stops = {}
  BY <1>1, <1>2, <1>3, <1>5 DEF a, b
<1>6. CASE stops # {}
  <2>1. stops \in SUBSET Nat
    BY <1>1, <1>2, <1>4
  <2>2. \E q \in stops : \A r \in stops : q <= r
    BY <1>6, <2>1, NatLeast
  <2>3. ZoneEnd(l, st, it) \in stops
    BY <1>3, <1>6, <2>2
  <2>4. ZoneEnd(l, st, it) \in zone
    BY <1>4, <2>3
  <2>5. a \in Nat
    BY <1>1
  <2>6. ZoneEnd(l, st, it) \in Nat /\ a < ZoneEnd(l, st, it) /\ ZoneEnd(l, st, it) <= b
    BY <1>2, <2>4, <2>5
  <2> QED
    BY <1>2, <2>5, <2>6 DEF a, b
<1> QED
  BY <1>5, <1>6

\* The walk of integrate: where the new item would go, position by position.
Walks(l, st, it, first, last, f) ==
  f = [ q \in first .. last |->
          IF q = first THEN first
          ELSE IF Precedes(l, st, it, q, f[q - 1]) THEN q
          ELSE f[q - 1] ]

LEMMA WalkExists ==
  ASSUME NEW l, NEW st, NEW it, NEW first \in Nat, NEW last \in Nat, first <= last
  PROVE  \E f : Walks(l, st, it, first, last, f)
<1> DEFINE D == ((first + 1) .. last) \X Nat
           G == [ d \in D |-> IF Precedes(l, st, it, d[1], d[2]) THEN d[1] ELSE d[2] ]
<1>1. G \in [((first + 1) .. last) \X Nat -> Nat]
  OBVIOUS
<1>2. \A n \in (first + 1) .. last, v \in Nat :
        G[<< n, v >>] = IF Precedes(l, st, it, n, v) THEN n ELSE v
  OBVIOUS
<1> HIDE DEF G
<1>f. PICK f : Follows(f, Nat, G, first, first, last)
  BY <1>1, Following
<1>3. /\ f \in [first .. last -> Nat] /\ f[first] = first
      /\ \A n \in (first + 1) .. last : f[n] = G[<< n, f[n - 1] >>]
  BY <1>f DEF Follows
<1>4. ASSUME NEW q \in first .. last
      PROVE  f[q] = IF q = first THEN first
                    ELSE IF Precedes(l, st, it, q, f[q - 1]) THEN q
                    ELSE f[q - 1]
  <2>1. CASE q = first
    BY <1>3, <2>1
  <2>2. CASE q # first
    <3>1. q \in (first + 1) .. last /\ q - 1 \in first .. last
      BY <2>2
    <3>2. f[q - 1] \in Nat
      BY <1>3, <3>1
    <3> QED
      BY <1>2, <1>3, <2>2, <3>1, <3>2
  <2> QED
    BY <2>1, <2>2
<1>5. Walks(l, st, it, first, last, f)
  BY <1>3, <1>4 DEF Walks
<1> QED
  BY <1>5

LEMMA WalkBounds ==
  ASSUME NEW l, NEW st, NEW it, NEW first \in Nat, NEW last \in Nat, first <= last,
         NEW f, Walks(l, st, it, first, last, f)
  PROVE  f[last] \in first .. last
<1>1. \A q \in first .. last :
        f[q] = IF q = first THEN first
               ELSE IF Precedes(l, st, it, q, f[q - 1]) THEN q
               ELSE f[q - 1]
  BY DEF Walks
<1> DEFINE T == { n \in Nat : first + n <= last => f[first + n] \in first .. last }
<1>2. 0 \in T
  BY <1>1
<1>3. ASSUME NEW n \in Nat, n \in T PROVE n + 1 \in T
  <2> SUFFICES ASSUME first + (n + 1) <= last PROVE f[first + (n + 1)] \in first .. last
    OBVIOUS
  <2>1. PICK q \in first .. last : q = first + (n + 1)
    OBVIOUS
  <2>2. q # first /\ q - 1 = first + n
    BY <2>1
  <2>3. f[q - 1] \in first .. last
    BY <1>3, <2>1, <2>2
  <2>4. f[q] = q \/ f[q] = f[q - 1]
    BY <1>1, <2>2
  <2> QED
    BY <2>1, <2>3, <2>4
<1>4. last - first \in Nat /\ first + (last - first) = last
  OBVIOUS
<1>5. last - first \in T
  <2> HIDE DEF T
  <2> QED
    BY <1>2, <1>3, <1>4, SetInduction
<1> QED
  BY <1>4, <1>5

\* An item goes behind its left origin, and in front of its right origin
\* when that is ahead.
LEMMA SpliceWithin ==
  ASSUME NEW l \in Seq(Ids), NoRepeats(l), NEW st, NEW it
  PROVE  /\ SplicePoint(l, st, it) \in Nat
         /\ ZoneStart(l, st, it) <= SplicePoint(l, st, it)
         /\ SplicePoint(l, st, it) < ZoneLimit(l, st, it)
<1> DEFINE first == ZoneStart(l, st, it)
           last == ZoneEnd(l, st, it) - 1
           left == CHOOSE f : Walks(l, st, it, first, last, f)
<1>1. /\ first \in Nat /\ last \in Nat /\ first <= last
      /\ ZoneEnd(l, st, it) \in Nat /\ ZoneLimit(l, st, it) \in Nat
      /\ ZoneEnd(l, st, it) <= ZoneLimit(l, st, it) /\ last < ZoneEnd(l, st, it)
  BY ZoneIs
<1>2. SplicePoint(l, st, it) = left[last]
  BY Zenon DEF SplicePoint, Walks
<1> HIDE DEF first, last
<1>3. Walks(l, st, it, first, last, left)
  BY <1>1, WalkExists
<1> HIDE DEF left
<1>4. left[last] \in first .. last
  BY <1>1, <1>3, WalkBounds
<1> QED
  BY <1>1, <1>2, <1>4 DEF first

-----------------------------------------------------------------------------
(* Lists: what a step does to them.                                        *)

\* The document puts the item into its list, behind the first at.
Inserts(p, it, at) ==
  LET t == it.parent IN
  /\ Extends(p, it) /\ t \in Texts
  /\ at \in 0 .. Len(list[p][t])
  /\ at = SplicePoint(list[p][t], store'[p], it)
  /\ ~Detached(list[p][t], store'[p], it)
  /\ list' = [list EXCEPT ![p][t] = InsertAt(list[p][t], at + 1, it.id)]

LEMMA ExtendList ==
  ASSUME DocOK, NEW p \in Clients, NEW it, Extends(p, it)
  PROVE  UNCHANGED list \/ \E at : Inserts(p, it, at)
<1>1. store'[p] = Appended(store[p], it)
  BY DEF Extends, StoreItem, DocOK
<1>2. ASSUME it.parent \in Texts, InstallIntoArray(p, it)
      PROVE  UNCHANGED list \/ \E at : Inserts(p, it, at)
  <2>1. ASSUME NEW at \in 0 .. Len(list[p][it.parent]),
               ~Detached(list[p][it.parent], Appended(store[p], it), it),
               at = SplicePoint(list[p][it.parent], Appended(store[p], it), it),
               list' = [list EXCEPT ![p][it.parent] =
                          InsertAt(list[p][it.parent], at + 1, it.id)]
        PROVE  Inserts(p, it, at)
    BY <1>1, <1>2, <2>1 DEF Inserts
  <2> QED
    BY <1>2, <2>1 DEF InstallIntoArray
<1>3. ASSUME \/ InstallIntoMap(p, it)
             \/ FailToIntegrate(p, it)
             \/ InstallBare(p, it)
      PROVE  UNCHANGED list
  BY <1>3 DEF InstallIntoMap, FailToIntegrate, InstallBare
<1> QED
  BY <1>2, <1>3 DEF Extends, Installs

LEMMA ListKinds ==
  ASSUME IInv, [Next]_vars
  PROVE  UNCHANGED list \/ \E p \in Clients : \E it, at : Inserts(p, it, at)
<1>1. DocOK
  BY InvariantParts
<1>2. ASSUME \/ \E p \in Clients : Compact(p)
             \/ \E p \in Clients : \E t \in Texts : \E i \in Nat : ArrayDeleteAt(p, t, i)
             \/ ApplyDeletes
      PROVE  UNCHANGED list
  BY <1>2 DEF Compact, ArrayDeleteAt, ApplyDeletes
<1> QED
  BY <1>1, <1>2, StepKinds, ExtendList DEF vars, docVars

\* One list gains one id that it did not hold.
LEMMA InsertIs ==
  ASSUME DocOK, History, Flagging, NEW p \in Clients, NEW it, NEW at, Inserts(p, it, at),
         NEW t, t = it.parent
  PROVE  /\ t \in Texts /\ it \in Items /\ it.id \in Ids
         /\ list[p][t] \in Seq(Ids) /\ list'[p][t] \in Seq(Ids)
         /\ at \in 0 .. Len(list[p][t])
         /\ Spliced(list'[p][t], list[p][t], at, it.id)
         /\ it.id \notin ToSet(list[p][t])
         /\ \A q \in Clients, v \in Texts : q # p \/ v # t => list'[q][v] = list[q][v]
<1>1. /\ t \in Texts /\ it \in Items /\ it.id \in Ids /\ Covers(it, it.id)
      /\ at \in 0 .. Len(list[p][t]) /\ list[p][t] \in Seq(Ids)
      /\ CanAppend(store[p], it)
  BY ItemIds DEF Inserts, Extends, DocOK
<1>2. list' = [list EXCEPT ![p][t] = InsertAt(list[p][t], at + 1, it.id)]
  BY DEF Inserts
<1>3. list'[p][t] = InsertAt(list[p][t], at + 1, it.id)
  BY <1>1, <1>2 DEF DocOK
<1>4. \A q \in Clients, v \in Texts : q # p \/ v # t => list'[q][v] = list[q][v]
  BY <1>1, <1>2 DEF DocOK
<1>5. /\ InsertAt(list[p][t], at + 1, it.id) \in Seq(Ids)
      /\ Spliced(InsertAt(list[p][t], at + 1, it.id), list[p][t], at, it.id)
  BY <1>1, Splice
<1>6. it.id \notin ToSet(list[p][t])
  <2>1. store[p] \in Stores /\ Sorted(store[p])
    BY StoreSorted
  <2>2. ~Has(store[p], it.id)
    BY <1>1, <2>1, AppendFresh
  <2>3. \A x \in ToSet(list[p][t]) : Has(store[p], x)
    BY <1>1, <2>1, ExactFound DEF Flagging, ListsOK
  <2> QED
    BY <2>2, <2>3
<1> QED
  BY <1>1, <1>3, <1>4, <1>5, <1>6

LEMMA InsertStored ==
  ASSUME DocOK, NEW p \in Clients, NEW it, NEW at, Inserts(p, it, at),
         NEW st, st = store'[p]
  PROVE  \E c \in Clients : \E i \in DOMAIN st[c] : it = st[c][i]
<1>1. Client(it) \in Clients /\ store'[p][Client(it)] = Append(store[p][Client(it)], it)
  BY ExtendStore DEF Inserts
<1>2. store[p][Client(it)] \in Seq(Items)
  BY <1>1, VectorType DEF DocOK
<1>3. it \in Items
  BY DEF Inserts, Extends
<1>4. /\ Len(store[p][Client(it)]) + 1 \in DOMAIN store'[p][Client(it)]
      /\ store'[p][Client(it)][Len(store[p][Client(it)]) + 1] = it
  BY <1>1, <1>2, <1>3, AppendProperties
<1> QED
  BY <1>1, <1>4

-----------------------------------------------------------------------------
(* Lists: no element leaves, moves or comes twice.                         *)

Distinct == \A p \in Clients, t \in Texts : NoRepeats(list[p][t])

\* What stood before another element stays before it.
OrderStays ==
  \A p \in Clients, t \in Texts : \A x, y :
    Before(list[p][t], x, y) => Before(list'[p][t], x, y)

LEMMA DistinctStep ==
  ASSUME IInv, Flagging, Distinct, [Next]_vars
  PROVE  Distinct' /\ OrderStays
<1>1. DocOK /\ History
  BY InvariantParts
<1>2. CASE UNCHANGED list
  BY <1>2 DEF Distinct, OrderStays
<1>3. ASSUME NEW p \in Clients, NEW it, NEW at, Inserts(p, it, at)
      PROVE  Distinct' /\ OrderStays
  <2>1. PICK t : t = it.parent
    OBVIOUS
  <2>2. /\ t \in Texts
        /\ list[p][t] \in Seq(Ids) /\ list'[p][t] \in Seq(Ids)
        /\ at \in 0 .. Len(list[p][t])
        /\ Spliced(list'[p][t], list[p][t], at, it.id)
        /\ it.id \notin ToSet(list[p][t])
        /\ \A q \in Clients, v \in Texts : q # p \/ v # t => list'[q][v] = list[q][v]
    BY <1>1, <1>3, <2>1, InsertIs
  <2>3. NoRepeats(list[p][t])
    BY <2>2 DEF Distinct
  <2>4. /\ \A x, y : Before(list[p][t], x, y) => Before(list'[p][t], x, y)
        /\ NoRepeats(list'[p][t])
    BY <2>2, <2>3, SpliceOrder
  <2> QED
    BY <2>2, <2>4 DEF Distinct, OrderStays
<1> QED
  BY <1>2, <1>3, ListKinds

LEMMA InitDistinct == Init => Distinct
BY DEF Init, Distinct, NoRepeats

\* Once an element stands before another it does so for ever, and no element
\* is in a list twice: later edits, updates in any order, deletions and
\* compaction only ever put new elements between those that are there
\* (YArray::integrate).
ListsKeepOrder == [][OrderStays]_vars

THEOREM ListsOnlyGrow == Spec => []Distinct /\ ListsKeepOrder
<1>1. Init => Flagging /\ Distinct
  BY InitFlagging, InitDistinct
<1>2. IInv /\ Flagging /\ Distinct /\ [Next]_vars => Flagging' /\ Distinct' /\ [OrderStays]_vars
  BY FlaggingStep, DistinctStep
<1> QED
  BY Invariance, <1>1, <1>2, PTL DEF Spec, ListsKeepOrder

-----------------------------------------------------------------------------
(* Lists: every element stands behind its left origin.                     *)

Behind(st, l) ==
  \A x \in ToSet(l) : OriginOf(st, x) # NoId => Before(l, OriginOf(st, x), x)

BehindOrigins == \A p \in Clients, t \in Texts : Behind(store[p], list[p][t])

\* Where the walk for an item begins.
LEMMA ZoneStartIs ==
  ASSUME NEW st, WellStored(st), NEW l \in Seq(Ids), NoRepeats(l),
         NEW c \in Clients, NEW i \in DOMAIN st[c], NEW it, it = st[c][i],
         ~Detached(l, st, it), OriginOf(st, it.id) # NoId
  PROVE  /\ ZoneStart(l, st, it) \in DOMAIN l
         /\ l[ZoneStart(l, st, it)] = OriginOf(st, it.id)
<1>1. it.origin_left # NoId
  BY OriginIs
<1>2. ZoneStart(l, st, it) # 0
  BY <1>1 DEF Detached, ZoneStart
<1>3. /\ ZoneStart(l, st, it) \in DOMAIN l /\ Has(st, it.origin_left)
      /\ l[ZoneStart(l, st, it)] = Find(st, it.origin_left).id
  BY <1>2, PosIs DEF ZoneStart
<1>4. Find(st, it.id) = it
  BY OriginIs
<1>5. OriginOf(st, it.id) = Find(st, it.origin_left).id
  BY <1>1, <1>3, <1>4 DEF OriginOf
<1> QED
  BY <1>3, <1>5

LEMMA BehindStep ==
  ASSUME IInv, WellKept, WellKept', Flagging, Distinct, BehindOrigins, [Next]_vars
  PROVE  BehindOrigins'
<1>1. DocOK /\ History /\ Grown
  BY InvariantParts, StepGrown
<1>2. ASSUME NEW p \in Clients, NEW t \in Texts, NEW x \in ToSet(list[p][t])
      PROVE  OriginOf(store'[p], x) = OriginOf(store[p], x)
  <2>1. WellStored(store[p]) /\ WellStored(store'[p]) /\ Exact(store[p], x)
    BY <1>1 DEF WellKept, Flagging, ListsOK
  <2>2. Within(store[p], store'[p])
    BY <1>1 DEF Grown, Within
  <2> QED
    BY <2>1, <2>2, OriginKept
<1>3. ASSUME NEW p \in Clients, NEW t \in Texts, list'[p][t] = list[p][t]
      PROVE  Behind(store'[p], list'[p][t])
  BY <1>2, <1>3 DEF Behind, BehindOrigins
<1>4. ASSUME NEW p \in Clients, NEW it, NEW at, Inserts(p, it, at), NEW t, t = it.parent
      PROVE  t \in Texts /\ Behind(store'[p], list'[p][t])
  <2>1. PICK l : l = list[p][t]
    OBVIOUS
  <2>2. PICK u : u = list'[p][t]
    OBVIOUS
  <2>3. /\ t \in Texts /\ l \in Seq(Ids) /\ u \in Seq(Ids) /\ it \in Items
        /\ at \in 0 .. Len(l) /\ Spliced(u, l, at, it.id)
    BY <1>1, <1>4, <2>1, <2>2, InsertIs
  <2>4. NoRepeats(l) /\ Behind(store[p], l)
    BY <2>1, <2>3 DEF Distinct, BehindOrigins
  <2>5. /\ ToSet(u) = ToSet(l) \cup {it.id}
        /\ \A a, b : Before(l, a, b) => Before(u, a, b)
        /\ \A i \in 1 .. at : Before(u, l[i], it.id)
    BY <2>3, SpliceOrder
  <2>6. ASSUME NEW x \in ToSet(l), OriginOf(store'[p], x) # NoId
        PROVE  Before(u, OriginOf(store'[p], x), x)
    BY <1>2, <2>1, <2>3, <2>4, <2>5, <2>6 DEF Behind
  <2>7. ASSUME OriginOf(store'[p], it.id) # NoId
        PROVE  Before(u, OriginOf(store'[p], it.id), it.id)
    <3>1. PICK st : st = store'[p]
      OBVIOUS
    <3>2. WellStored(st)
      BY <1>1, <3>1 DEF WellKept
    <3>3. PICK c \in Clients : \E i \in DOMAIN st[c] : it = st[c][i]
      BY <1>1, <1>4, <3>1, InsertStored
    <3>4. PICK i \in DOMAIN st[c] : it = st[c][i]
      BY <3>3
    <3>5. ~Detached(l, st, it) /\ at = SplicePoint(l, st, it)
      BY <1>4, <2>1, <3>1 DEF Inserts
    <3>6. /\ ZoneStart(l, st, it) \in DOMAIN l
          /\ l[ZoneStart(l, st, it)] = OriginOf(st, it.id)
      BY <2>3, <2>4, <2>7, <3>1, <3>2, <3>4, <3>5, ZoneStartIs
    <3>7. ZoneStart(l, st, it) <= at
      BY <2>3, <2>4, <3>5, SpliceWithin
    <3>8. ZoneStart(l, st, it) \in 1 .. at
      BY <2>3, <3>6, <3>7
    <3> QED
      BY <2>5, <3>1, <3>6, <3>8
  <2> QED
    BY <2>2, <2>3, <2>5, <2>6, <2>7 DEF Behind
<1>5. CASE UNCHANGED list
  BY <1>3, <1>5 DEF BehindOrigins
<1>6. ASSUME NEW p \in Clients, NEW it, NEW at, Inserts(p, it, at) PROVE BehindOrigins'
  <2>1. PICK t : t = it.parent
    OBVIOUS
  <2>2. \A q \in Clients, v \in Texts : q # p \/ v # t => list'[q][v] = list[q][v]
    BY <1>1, <1>6, <2>1, InsertIs
  <2>3. t \in Texts /\ Behind(store'[p], list'[p][t])
    BY <1>4, <1>6, <2>1
  <2> QED
    BY <1>3, <2>2, <2>3 DEF BehindOrigins
<1> QED
  BY <1>5, <1>6, ListKinds

LEMMA InitBehind == Init => BehindOrigins
BY DEF Init, BehindOrigins, Behind, ToSet

\* In every list each element stands behind the element it was inserted
\* behind, whatever arrived in between and whatever was deleted or compacted
\* since: an element whose left origin is not in the list is not in it either
\* (YArray::integrate).
BehindLeftOrigin ==
  \A p \in Clients, t \in Texts : \A x \in ToSet(list[p][t]) :
    LET ol == Find(store[p], x).origin_left IN
    ol # NoId => Before(list[p][t], Find(store[p], ol).id, x)

THEOREM ElementsStandBehindTheirOrigins == Spec => []BehindLeftOrigin
<1>1. Init => Flagging /\ Distinct /\ BehindOrigins
  BY InitFlagging, InitDistinct, InitBehind
<1>2. IInv => WellKept
  BY StoreWell
<1>3. IInv /\ Flagging /\ Distinct /\ [Next]_vars => Flagging' /\ Distinct'
  BY FlaggingStep, DistinctStep
<1>4. IInv /\ WellKept /\ WellKept' /\ Flagging /\ Distinct /\ BehindOrigins /\ [Next]_vars
      => BehindOrigins'
  BY BehindStep
<1>5. WellKept /\ Flagging /\ BehindOrigins => BehindLeftOrigin
  <2> SUFFICES ASSUME WellKept, Flagging, BehindOrigins, NEW p \in Clients, NEW t \in Texts,
                      NEW x \in ToSet(list[p][t]), NEW ol,
                      ol = Find(store[p], x).origin_left, ol # NoId
               PROVE  Before(list[p][t], Find(store[p], ol).id, x)
    BY DEF BehindLeftOrigin
  <2>1. WellStored(store[p]) /\ Exact(store[p], x)
    BY DEF WellKept, Flagging, ListsOK
  <2>2. PICK c \in Clients : \E i \in DOMAIN store[p][c] :
               Find(store[p], x) = store[p][c][i] /\ store[p][c][i].id = x
    BY <2>1, ExactFound DEF WellStored
  <2>3. Has(store[p], ol)
    BY <2>1, <2>2 DEF WellStored
  <2>4. OriginOf(store[p], x) = Find(store[p], ol).id
    BY <2>3 DEF OriginOf
  <2>5. Find(store[p], ol).id # NoId
    <3>1. ol \in Ids /\ store[p] \in Stores
      BY <2>1, <2>2, EntryIs DEF WellStored, Items, OptIds
    <3>2. Find(store[p], ol) \in Items
      BY <2>3, <3>1, FindStored
    <3> QED
      BY <3>2, ItemIds, IdsSet
  <2> QED
    BY <2>4, <2>5 DEF BehindOrigins, Behind
<1> QED
  BY Invariance, <1>1, <1>2, <1>3, <1>4, <1>5, PTL DEF Spec

-----------------------------------------------------------------------------
(* Lists: the live elements.                                               *)

\* f[n] are the live elements among the first n.
LiveOf(l, dead, f) ==
  /\ f \in [0 .. Len(l) -> Seq(Ids)]
  /\ f[0] = << >>
  /\ \A n \in 1 .. Len(l) :
       f[n] = IF l[n] \in dead THEN f[n - 1] ELSE Append(f[n - 1], l[n])

\* The equation that the function of Live solves.
Lives(l, dead, f) ==
  f = [ n \in 0 .. Len(l) |->
          IF n = 0 THEN << >>
          ELSE IF l[n] \in dead THEN f[n - 1]
          ELSE Append(f[n - 1], l[n]) ]

LEMMA LivesExists ==
  ASSUME NEW l \in Seq(Ids), NEW dead
  PROVE  \E f : Lives(l, dead, f)
<1> DEFINE D == (1 .. Len(l)) \X Seq(Ids)
           G == [ d \in D |-> IF l[d[1]] \in dead THEN d[2] ELSE Append(d[2], l[d[1]]) ]
<1>1. ASSUME NEW n \in 1 .. Len(l), NEW v \in Seq(Ids)
      PROVE  /\ << n, v >> \in D
             /\ G[<< n, v >>] = IF l[n] \in dead THEN v ELSE Append(v, l[n])
             /\ G[<< n, v >>] \in Seq(Ids)
  <2>1. << n, v >> \in D
    OBVIOUS
  <2>2. G[<< n, v >>] = IF l[n] \in dead THEN v ELSE Append(v, l[n])
    BY <2>1
  <2>3. l[n] \in Ids /\ Append(v, l[n]) \in Seq(Ids)
    OBVIOUS
  <2> QED
    BY <2>1, <2>2, <2>3
<1>2. \A d \in D : G[d] \in Seq(Ids)
  <2> SUFFICES ASSUME NEW d \in D PROVE G[d] \in Seq(Ids)
    OBVIOUS
  <2>1. PICK n \in 1 .. Len(l), v \in Seq(Ids) : d = << n, v >>
    OBVIOUS
  <2> HIDE DEF G, D
  <2> QED
    BY <1>1, <2>1
<1>3. G = [ d \in D |-> G[d] ]
  OBVIOUS
<1>4. Len(l) \in Nat /\ 0 + 1 = 1
  OBVIOUS
<1> HIDE DEF G
<1>5. G \in [((0 + 1) .. Len(l)) \X Seq(Ids) -> Seq(Ids)]
  BY <1>2, <1>3, <1>4
<1>6. PICK f : Follows(f, Seq(Ids), G, << >>, 0, Len(l))
  <2>0. << >> \in Seq(Ids)
    OBVIOUS
  <2>1. PICK V : V = Seq(Ids)
    OBVIOUS
  <2>2. PICK e \in V : e = << >>
    <3>1. << >> \in V
      BY <2>0, <2>1, Zenon
    <3> QED
      BY <3>1, Zenon
  <2>3. PICK n \in Nat : n = Len(l)
    BY <1>4
  <2>4. PICK z \in Nat : z = 0
    OBVIOUS
  <2>5. z <= n /\ G \in [((z + 1) .. n) \X V -> V]
    BY <1>5, <2>1, <2>3, <2>4
  <2>6. \E f : Follows(f, V, G, e, z, n)
    BY <2>5, Following
  <2> QED
    BY <2>1, <2>2, <2>3, <2>4, <2>6, Zenon
<1>7. /\ f \in [0 .. Len(l) -> Seq(Ids)] /\ f[0] = << >>
      /\ \A n \in 1 .. Len(l) : f[n] = G[<< n, f[n - 1] >>]
  BY <1>4, <1>6 DEF Follows
<1>8. ASSUME NEW n \in 0 .. Len(l)
      PROVE  f[n] = IF n = 0 THEN << >>
                    ELSE IF l[n] \in dead THEN f[n - 1]
                    ELSE Append(f[n - 1], l[n])
  <2>1. CASE n = 0
    BY <1>7, <2>1
  <2>2. CASE n # 0
    <3>1. n \in 1 .. Len(l) /\ n - 1 \in 0 .. Len(l)
      BY <1>4, <2>2
    <3>2. f[n - 1] \in Seq(Ids)
      BY <1>7, <3>1
    <3> QED
      BY <1>1, <1>7, <2>2, <3>1, <3>2
  <2> QED
    BY <2>1, <2>2
<1>9. Lives(l, dead, f)
  BY <1>7, <1>8 DEF Lives
<1> QED
  BY <1>9

LEMMA LiveIs ==
  ASSUME NEW l \in Seq(Ids), NEW dead
  PROVE  \E f : LiveOf(l, dead, f) /\ Live(l, dead) = f[Len(l)]
<1> DEFINE f == CHOOSE g : Lives(l, dead, g)
<1>1. Lives(l, dead, f)
  BY LivesExists
<1>2. Live(l, dead) = f[Len(l)]
  BY Zenon DEF Live, Lives
<1> HIDE DEF f
<1>3. /\ DOMAIN f = 0 .. Len(l) /\ f = [ n \in 0 .. Len(l) |-> f[n] ]
      /\ \A n \in 0 .. Len(l) :
           f[n] = IF n = 0 THEN << >>
                  ELSE IF l[n] \in dead THEN f[n - 1]
                  ELSE Append(f[n - 1], l[n])
  BY <1>1 DEF Lives
<1>4. Len(l) \in Nat /\ \A n \in 1 .. Len(l) : l[n] \in Ids
  OBVIOUS
<1> DEFINE T == { n \in Nat : n <= Len(l) => f[n] \in Seq(Ids) }
<1>5. 0 \in T
  BY <1>3, <1>4
<1>6. ASSUME NEW n \in Nat, n \in T PROVE n + 1 \in T
  <2> SUFFICES ASSUME n + 1 <= Len(l) PROVE f[n + 1] \in Seq(Ids)
    OBVIOUS
  <2>1. PICK m \in 0 .. Len(l) : m = n + 1
    BY <1>4
  <2>2. m # 0 /\ m - 1 = n /\ m \in 1 .. Len(l) /\ f[n] \in Seq(Ids)
    BY <1>4, <1>6, <2>1
  <2>3. f[m] = IF l[m] \in dead THEN f[n] ELSE Append(f[n], l[m])
    BY <1>3, <2>2
  <2>4. Append(f[n], l[m]) \in Seq(Ids)
    BY <1>4, <2>2
  <2> QED
    BY <2>1, <2>2, <2>3, <2>4
<1>7. Nat \subseteq T
  <2> HIDE DEF T
  <2> QED
    BY <1>5, <1>6, SetInduction
<1>8. \A n \in 0 .. Len(l) : f[n] \in Seq(Ids)
  BY <1>4, <1>7
<1>9. f \in [0 .. Len(l) -> Seq(Ids)]
  BY <1>3, <1>8
<1>10. ASSUME NEW n \in 1 .. Len(l)
       PROVE  f[n] = IF l[n] \in dead THEN f[n - 1] ELSE Append(f[n - 1], l[n])
  <2>1. n \in 0 .. Len(l) /\ n # 0
    BY <1>4
  <2> QED
    BY <1>3, <2>1
<1>11. f[0] = << >>
  BY <1>3, <1>4
<1> QED
  BY <1>2, <1>9, <1>10, <1>11 DEF LiveOf

\* The live elements of the first n, given those of the first n - 1.
LEMMA LiveNext ==
  ASSUME NEW l \in Seq(Ids), NEW dead, NEW f, LiveOf(l, dead, f), NEW n \in 1 .. Len(l),
         NEW m, m = n - 1, NEW x, x = l[n]
  PROVE  /\ f[m] \in Seq(Ids) /\ f[n] \in Seq(Ids) /\ x \in Ids
         /\ x \in dead => f[n] = f[m]
         /\ x \notin dead => /\ f[n] = Append(f[m], x)
                             /\ Len(f[n]) = Len(f[m]) + 1
                             /\ f[n][Len(f[n])] = x
                             /\ \A k \in 1 .. Len(f[m]) : f[n][k] = f[m][k]
<1>1. m \in 0 .. Len(l) /\ n \in 0 .. Len(l) /\ x \in Ids
  OBVIOUS
<1>2. f[m] \in Seq(Ids) /\ f[n] \in Seq(Ids)
  BY <1>1 DEF LiveOf
<1>3. f[n] = IF x \in dead THEN f[m] ELSE Append(f[m], x)
  BY DEF LiveOf
<1>4. PICK s \in Seq(Ids) : s = f[m]
  BY <1>2
<1>5. /\ Len(Append(s, x)) = Len(s) + 1 /\ Append(s, x)[Len(s) + 1] = x
      /\ \A k \in 1 .. Len(s) : Append(s, x)[k] = s[k]
  BY <1>1, AppendProperties
<1> QED
  BY <1>1, <1>2, <1>3, <1>4, <1>5

\* The live elements keep their order: the k-th of them is where the k-th is
\* found.
LEMMA LivePlaces ==
  ASSUME NEW l \in Seq(Ids), NEW dead, NEW f, LiveOf(l, dead, f), NEW n \in 0 .. Len(l)
  PROVE  /\ f[n] \in Seq(Ids) /\ Len(f[n]) \in Nat
         /\ \A m \in 0 .. n : Len(f[m]) <= Len(f[n])
         /\ \A k \in 1 .. Len(f[n]) : \E m \in 1 .. n :
              /\ l[m] = f[n][k] /\ l[m] \notin dead
              /\ Len(f[m]) = k /\ Len(f[m - 1]) = k - 1
<1> DEFINE Good(j) ==
             /\ \A m \in 0 .. j : Len(f[m]) <= Len(f[j])
             /\ \A k \in 1 .. Len(f[j]) : \E m \in 1 .. j :
                  /\ l[m] = f[j][k] /\ l[m] \notin dead
                  /\ Len(f[m]) = k /\ Len(f[m - 1]) = k - 1
           T == { j \in Nat : j <= Len(l) => Good(j) }
<1>1. \A j \in 0 .. Len(l) : f[j] \in Seq(Ids) /\ Len(f[j]) \in Nat
  <2>1. \A j \in 0 .. Len(l) : f[j] \in Seq(Ids)
    BY DEF LiveOf
  <2> QED
    BY <2>1
<1>2. 0 \in T
  <2>1. f[0] = << >> /\ Len(f[0]) = 0
    BY DEF LiveOf
  <2> QED
    BY <2>1
<1>3. ASSUME NEW i \in Nat, i \in T PROVE i + 1 \in T
  <2> SUFFICES ASSUME i + 1 <= Len(l) PROVE Good(i + 1)
    OBVIOUS
  <2>1. PICK j \in 1 .. Len(l) : j = i + 1
    OBVIOUS
  <2>2. j - 1 = i /\ i \in 0 .. Len(l) /\ j \in 0 .. Len(l) /\ Good(i)
    BY <1>3, <2>1
  <2>3. /\ f[i] \in Seq(Ids) /\ f[j] \in Seq(Ids)
        /\ l[j] \in dead => f[j] = f[i]
        /\ l[j] \notin dead => /\ Len(f[j]) = Len(f[i]) + 1
                               /\ f[j][Len(f[j])] = l[j]
                               /\ \A k \in 1 .. Len(f[i]) : f[j][k] = f[i][k]
    BY <2>2, LiveNext
  <2>4. Len(f[i]) \in Nat /\ Len(f[j]) \in Nat /\ Len(f[i]) <= Len(f[j])
    BY <2>3
  <2>5. ASSUME NEW m \in 0 .. j PROVE Len(f[m]) <= Len(f[j])
    <3>1. m \in 0 .. i \/ m = j
      BY <2>1
    <3>2. m \in 0 .. Len(l)
      OBVIOUS
    <3> QED
      BY <1>1, <2>2, <2>4, <3>1, <3>2
  <2>6. ASSUME NEW k \in 1 .. Len(f[j])
        PROVE  \E m \in 1 .. j : /\ l[m] = f[j][k] /\ l[m] \notin dead
                                 /\ Len(f[m]) = k /\ Len(f[m - 1]) = k - 1
    <3>1. CASE k \in 1 .. Len(f[i])
      <4>1. f[j][k] = f[i][k]
        BY <2>3, <3>1
      <4>2. PICK m \in 1 .. i : /\ l[m] = f[i][k] /\ l[m] \notin dead
                                /\ Len(f[m]) = k /\ Len(f[m - 1]) = k - 1
        BY <2>2, <3>1
      <4>3. m \in 1 .. j
        BY <2>1
      <4> QED
        BY <4>1, <4>2, <4>3
    <3>2. CASE k \notin 1 .. Len(f[i])
      <4>0. l[j] \notin dead
        BY <2>3, <3>2
      <4>n. Len(f[j]) = Len(f[i]) + 1
        BY <2>3, <4>0
      <4>1. l[j] \notin dead /\ k = Len(f[j]) /\ Len(f[i]) = k - 1
        BY <2>4, <3>2, <4>0, <4>n
      <4>2. f[j][k] = l[j] /\ j \in 1 .. j
        BY <2>3, <4>1
      <4> QED
        BY <2>2, <4>1, <4>2
    <3> QED
      BY <3>1, <3>2
  <2>7. Good(j)
    BY <2>5, <2>6
  <2> HIDE DEF Good
  <2> QED
    BY <2>1, <2>7
<1>4. Nat \subseteq T
  <2> HIDE DEF T
  <2> QED
    BY <1>2, <1>3, SetInduction
<1>5. Good(n)
  BY <1>4
<1> QED
  BY <1>1, <1>5

\* Splices of the same element at the same place are the same.
LEMMA SplicedOnce ==
  ASSUME NEW l \in Seq(Ids), NEW at \in 0 .. Len(l), NEW x,
         NEW u \in Seq(Ids), Spliced(u, l, at, x), NEW v \in Seq(Ids), Spliced(v, l, at, x)
  PROVE  u = v
<1>1. Len(u) = Len(v)
  BY DEF Spliced
<1>2. ASSUME NEW k \in DOMAIN u PROVE u[k] = v[k]
  <2>1. CASE k = at + 1
    BY <2>1 DEF Spliced
  <2>2. CASE k # at + 1
    <3>1. PICK i \in DOMAIN l : k = Shifted(at, i)
      BY <2>2, SplicedAt
    <3>2. u[Shifted(at, i)] = l[i] /\ v[Shifted(at, i)] = l[i]
      BY SplicedAt
    <3> QED
      BY <3>1, <3>2
  <2> QED
    BY <2>1, <2>2
<1> QED
  BY <1>1, <1>2

LEMMA SpliceEnd ==
  ASSUME NEW s \in Seq(Ids), NEW x \in Ids
  PROVE  Spliced(Append(s, x), s, Len(s), x)
BY AppendProperties DEF Spliced

LEMMA SpliceNext ==
  ASSUME NEW s \in Seq(Ids), NEW r \in Seq(Ids), NEW at \in 0 .. Len(s), NEW x \in Ids,
         Spliced(r, s, at, x), NEW y \in Ids
  PROVE  Spliced(Append(r, y), Append(s, y), at, x)
<1> DEFINE a == Append(s, y)
           b == Append(r, y)
<1>1. Len(a) = Len(s) + 1 /\ a[Len(s) + 1] = y /\ \A i \in 1 .. Len(s) : a[i] = s[i]
  BY AppendProperties
<1>2. Len(b) = Len(r) + 1 /\ b[Len(r) + 1] = y /\ \A i \in 1 .. Len(r) : b[i] = r[i]
  BY AppendProperties
<1>3. /\ Len(r) = Len(s) + 1 /\ r[at + 1] = x
      /\ \A i \in 1 .. at : r[i] = s[i]
      /\ \A i \in (at + 1) .. Len(s) : r[i + 1] = s[i]
  BY DEF Spliced
<1>n. Len(s) \in Nat
  OBVIOUS
<1> HIDE DEF a, b
<1>4. Len(b) = Len(a) + 1
  BY <1>1, <1>2, <1>3
<1>5. \A i \in 1 .. at : b[i] = a[i]
  BY <1>1, <1>2, <1>3, <1>n
<1>6. b[at + 1] = x
  BY <1>2, <1>3, <1>n
<1>7. ASSUME NEW i \in (at + 1) .. Len(a) PROVE b[i + 1] = a[i]
  <2>1. CASE i = Len(a)
    BY <1>1, <1>2, <1>3, <2>1
  <2>2. CASE i # Len(a)
    <3>1. i \in (at + 1) .. Len(s) /\ i + 1 \in 1 .. Len(r) /\ i \in 1 .. Len(s)
      BY <1>1, <1>3, <1>n, <2>2
    <3> QED
      BY <1>1, <1>2, <1>3, <3>1
  <2> QED
    BY <2>1, <2>2
<1>8. Spliced(b, a, at, x)
  BY <1>4, <1>5, <1>6, <1>7 DEF Spliced
<1> QED
  BY <1>8 DEF a, b

\* A live element spliced into the list is spliced into the live elements.
LEMMA LiveSpliced ==
  ASSUME NEW l \in Seq(Ids), NEW u \in Seq(Ids), NEW at \in 0 .. Len(l), NEW x \in Ids,
         Spliced(u, l, at, x), NEW dead, x \notin dead,
         NEW f, LiveOf(l, dead, f), NEW g, LiveOf(u, dead, g)
  PROVE  Spliced(g[Len(u)], f[Len(l)], Len(f[at]), x)
<1>1. /\ Len(u) = Len(l) + 1 /\ u[at + 1] = x
      /\ \A i \in 1 .. at : u[i] = l[i]
      /\ \A i \in (at + 1) .. Len(l) : u[i + 1] = l[i]
  BY DEF Spliced
<1>n. Len(l) \in Nat /\ at \in Nat /\ at <= Len(l)
  OBVIOUS
<1> DEFINE T == { n \in Nat : n <= at => g[n] = f[n] }
<1>2. 0 \in T
  BY DEF LiveOf
<1>3. ASSUME NEW n \in Nat, n \in T PROVE n + 1 \in T
  <2> SUFFICES ASSUME n + 1 <= at PROVE g[n + 1] = f[n + 1]
    OBVIOUS
  <2>1. PICK m \in 1 .. at : m = n + 1
    BY <1>n
  <2>2. m \in 1 .. Len(l) /\ m \in 1 .. Len(u) /\ m - 1 = n /\ u[m] = l[m]
    BY <1>1, <1>n, <2>1
  <2>3. g[n] = f[n]
    BY <1>3, <1>n, <2>1
  <2>4. PICK y : y = l[m]
    OBVIOUS
  <2>y. m \in 1 .. Len(l) /\ m \in 1 .. Len(u) /\ n = m - 1 /\ y = l[m] /\ y = u[m]
    BY <2>2, <2>4
  <2> HIDE DEF T
  <2>5. f[m] = IF l[m] \in dead THEN f[m - 1] ELSE Append(f[m - 1], l[m])
    BY <2>y DEF LiveOf
  <2>6. g[m] = IF u[m] \in dead THEN g[m - 1] ELSE Append(g[m - 1], u[m])
    BY <2>y DEF LiveOf
  <2> QED
    BY <2>1, <2>3, <2>5, <2>6, <2>y
<1>4. g[at] = f[at]
  <2>1. at \in T
    <3> HIDE DEF T
    <3> QED
      BY <1>n, <1>2, <1>3, SetInduction
  <2> QED
    BY <1>n, <2>1
<1> HIDE DEF T
<1> DEFINE k == Len(f[at])
           S == { n \in Nat : at + n <= Len(l) => Spliced(g[at + n + 1], f[at + n], k, x) }
<1>5. 0 \in S
  <2>1. PICK m \in 1 .. Len(u) : m = at + 1
    BY <1>1, <1>n
  <2>2. m - 1 = at /\ at + 0 = at
    BY <1>n, <2>1
  <2>3. f[at] \in Seq(Ids)
    BY LivePlaces
  <2>4. g[m] = Append(f[at], x)
    <3>1. x = u[m] /\ at = m - 1
      BY <1>1, <2>1, <2>2
    <3>2. g[m] = Append(g[at], x)
      BY <3>1, LiveNext
    <3> QED
      BY <1>4, <3>2
  <2>5. Spliced(g[m], f[at], k, x)
    BY <2>3, <2>4, SpliceEnd
  <2> QED
    BY <2>1, <2>2, <2>5
<1>6. ASSUME NEW n \in Nat, n \in S PROVE n + 1 \in S
  <2> SUFFICES ASSUME at + (n + 1) <= Len(l)
               PROVE  Spliced(g[at + (n + 1) + 1], f[at + (n + 1)], k, x)
    OBVIOUS
  <2>1. PICK i \in (at + 1) .. Len(l) : i = at + (n + 1)
    BY <1>n
  <2>2. i \in 1 .. Len(l) /\ i - 1 = at + n /\ i + 1 = at + (n + 1) + 1
        /\ i - 1 \in 0 .. Len(l) /\ at \in 0 .. (i - 1)
    BY <1>n, <2>1
  <2>3. PICK j \in 1 .. Len(u) : j = i + 1
    BY <1>1, <1>n, <2>1
  <2>4. j - 1 = i /\ i = at + n + 1 /\ u[j] = l[i]
    BY <1>1, <1>n, <2>1, <2>3
  <2>5. Spliced(g[i], f[i - 1], k, x)
    BY <1>6, <1>n, <2>1, <2>2, <2>4
  <2>6. /\ f[i - 1] \in Seq(Ids) /\ k \in Nat /\ k <= Len(f[i - 1])
    BY <2>2, LivePlaces
  <2>7. /\ g[i] \in Seq(Ids) /\ l[i] \in Ids
        /\ l[i] \in dead => f[i] = f[i - 1] /\ g[j] = g[i]
        /\ l[i] \notin dead => f[i] = Append(f[i - 1], l[i]) /\ g[j] = Append(g[i], l[i])
    <3>1. /\ l[i] \in Ids
          /\ l[i] \in dead => f[i] = f[i - 1]
          /\ l[i] \notin dead => f[i] = Append(f[i - 1], l[i])
      BY <2>2, LiveNext
    <3>2. PICK y : y = l[i]
      OBVIOUS
    <3>3. i = j - 1 /\ y = u[j]
      BY <2>4, <3>2
    <3>4. /\ g[i] \in Seq(Ids)
          /\ y \in dead => g[j] = g[i]
          /\ y \notin dead => g[j] = Append(g[i], y)
      BY <3>3, LiveNext
    <3> QED
      BY <3>1, <3>2, <3>4
  <2>8. Spliced(g[j], f[i], k, x)
    <3>1. CASE l[i] \in dead
      BY <2>5, <2>7, <3>1
    <3>2. CASE l[i] \notin dead
      <4>1. Spliced(Append(g[i], l[i]), Append(f[i - 1], l[i]), k, x)
        <5>1. PICK a \in Seq(Ids) : a = f[i - 1]
          BY <2>6
        <5>2. PICK b \in Seq(Ids) : b = g[i]
          BY <2>7
        <5>3. PICK y \in Ids : y = l[i]
          BY <2>7
        <5>4. k \in 0 .. Len(a) /\ Spliced(b, a, k, x)
          BY <2>5, <2>6, <5>1, <5>2
        <5>5. Spliced(Append(b, y), Append(a, y), k, x)
          BY <5>4, SpliceNext
        <5> QED
          BY <5>1, <5>2, <5>3, <5>5
      <4> QED
        BY <2>7, <3>2, <4>1
    <3> QED
      BY <3>1, <3>2
  <2> QED
    BY <2>1, <2>2, <2>3, <2>8
<1>7. PICK n \in Nat : n = Len(l) - at
  BY <1>n
<1>8. n \in S
  <2> HIDE DEF S
  <2> QED
    BY <1>5, <1>6, SetInduction
<1>9. at + n = Len(l) /\ at + n + 1 = Len(u)
  BY <1>1, <1>n, <1>7
<1> QED
  BY <1>8, <1>9

-----------------------------------------------------------------------------
(* Lists: where a local edit puts its element.                             *)

\* left is the j-th live element, right the next one.
Neighbours(live, j, left, right) ==
  /\ j \in 0 .. Len(live)
  /\ left = IF j = 0 THEN NoId ELSE live[j]
  /\ right = IF j = Len(live) THEN NoId ELSE live[j + 1]

LEMMA LiveLength ==
  ASSUME NEW l \in Seq(Ids), NEW dead
  PROVE  Live(l, dead) \in Seq(Ids) /\ Len(Live(l, dead)) \in Nat
<1>1. PICK f : LiveOf(l, dead, f) /\ Live(l, dead) = f[Len(l)]
  BY LiveIs
<1>2. Len(l) \in 0 .. Len(l)
  OBVIOUS
<1> QED
  BY <1>1, <1>2, LivePlaces

\* array_insert_at and text_append name the neighbours of the index asked for.
LEMMA AskedAt ==
  ASSUME DocOK, NEW p \in Clients, NEW t \in Texts, NEW n \in Lens,
         NEW live, live = Live(list[p][t], del[p]), NEW index \in 0 .. Len(live),
         \/ ArrayInsertAt(p, t, index, n)
         \/ TextAppend(p, t, n) /\ index = Len(live)
  PROVE  \E left, right \in ToSet(list[p][t]) \cup {NoId} :
           EmitArrayItem(p, t, n, left, right) /\ Neighbours(live, index, left, right)
<1>1. Len(live) \in Nat /\ live \in Seq(Ids)
  BY LiveLength DEF DocOK
<1>2. CASE ArrayInsertAt(p, t, index, n)
  <2>1. PICK left \in ToSet(list[p][t]) \cup {NoId}, right \in ToSet(list[p][t]) \cup {NoId} :
          /\ left = IF index = 0 THEN NoId ELSE IF index <= Len(live) THEN live[index]
                    ELSE live[Len(live)]
          /\ right = IF index < Len(live) THEN live[index + 1] ELSE NoId
          /\ EmitArrayItem(p, t, n, left, right)
    BY <1>2 DEF ArrayInsertAt
  <2>2. Neighbours(live, index, left, right)
    BY <1>1, <2>1 DEF Neighbours
  <2> QED
    BY <2>1, <2>2
<1>3. CASE TextAppend(p, t, n) /\ index = Len(live)
  <2>1. PICK left \in ToSet(list[p][t]) \cup {NoId} :
          /\ left = IF live = << >> THEN NoId ELSE live[Len(live)]
          /\ EmitArrayItem(p, t, n, left, NoId)
    BY <1>3 DEF TextAppend
  <2>2. live = << >> <=> Len(live) = 0
    BY <1>1
  <2>3. Neighbours(live, index, left, NoId)
    BY <1>1, <1>3, <2>1, <2>2 DEF Neighbours
  <2> QED
    BY <2>1, <2>3
<1> QED
  BY <1>2, <1>3

\* Every local edit of a list names two neighbours.
LEMMA EditNeighbours ==
  ASSUME DocOK, NEW p \in Clients, LocalEdit(p), ~(UNCHANGED list)
  PROVE  \E t \in Texts, n \in Lens : \E left, right \in ToSet(list[p][t]) \cup {NoId} :
           /\ EmitArrayItem(p, t, n, left, right)
           /\ \E j : Neighbours(Live(list[p][t], del[p]), j, left, right)
<1> DEFINE Good == \E t \in Texts, n \in Lens :
                     \E left, right \in ToSet(list[p][t]) \cup {NoId} :
                       /\ EmitArrayItem(p, t, n, left, right)
                       /\ \E j : Neighbours(Live(list[p][t], del[p]), j, left, right)
<1>1. ASSUME NEW t \in Texts, NEW n \in Lens, TextAppend(p, t, n) PROVE Good
  <2>1. PICK live : live = Live(list[p][t], del[p])
    OBVIOUS
  <2>2. Len(live) \in 0 .. Len(live)
    BY <2>1, LiveLength DEF DocOK
  <2>3. \E left, right \in ToSet(list[p][t]) \cup {NoId} :
          EmitArrayItem(p, t, n, left, right) /\ Neighbours(live, Len(live), left, right)
    BY <1>1, <2>1, <2>2, AskedAt
  <2> QED
    BY <2>1, <2>3
<1>2. ASSUME NEW t \in Texts, NEW n \in Lens, NEW i \in Nat, ArrayInsertAt(p, t, i, n)
      PROVE  Good
  <2>1. PICK live : live = Live(list[p][t], del[p])
    OBVIOUS
  <2>2. Len(live) \in Nat /\ live \in Seq(Ids)
    BY <2>1, LiveLength DEF DocOK
  <2>3. CASE i <= Len(live)
    <3>1. PICK index \in 0 .. Len(live) : index = i
      BY <2>2, <2>3
    <3>2. ArrayInsertAt(p, t, index, n)
      BY <1>2, <3>1
    <3>3. \E left, right \in ToSet(list[p][t]) \cup {NoId} :
            EmitArrayItem(p, t, n, left, right) /\ Neighbours(live, index, left, right)
      BY <2>1, <3>2, AskedAt
    <3> QED
      BY <2>1, <3>3
  <2>4. CASE ~(i <= Len(live))
    <3>1. PICK left \in ToSet(list[p][t]) \cup {NoId}, right \in ToSet(list[p][t]) \cup {NoId} :
            /\ left = IF i = 0 THEN NoId ELSE IF i <= Len(live) THEN live[i]
                      ELSE live[Len(live)]
            /\ right = IF i < Len(live) THEN live[i + 1] ELSE NoId
            /\ EmitArrayItem(p, t, n, left, right)
      BY <1>2, <2>1 DEF ArrayInsertAt
    <3>2. i \in AcceptedIndices(live)
      BY <1>2, <2>1 DEF ArrayInsertAt
    <3>3. Len(live) # 0 /\ i # 0 /\ ~(i < Len(live))
      BY <2>2, <2>4, <3>2 DEF AcceptedIndices
    <3>4. Neighbours(live, Len(live), left, right)
      BY <2>2, <2>4, <3>1, <3>3 DEF Neighbours
    <3> QED
      BY <2>1, <3>1, <3>4
  <2> QED
    BY <2>2, <2>3, <2>4
<1>3. ASSUME NEW k \in Keys, NEW n \in Lens, MapSet(p, k, n) PROVE UNCHANGED list
  BY <1>3 DEF MapSet, InstallIntoMap
<1>4. ASSUME NEW t \in Texts, NEW i, ArrayDeleteAt(p, t, i) PROVE UNCHANGED list
  BY <1>4 DEF ArrayDeleteAt
<1>5. ASSUME NEW t \in Texts PROVE Len(list[p][t]) \in Nat
  BY DEF DocOK
<1> HIDE DEF Good
<1>6. Good
  <2>1. ASSUME NEW t \in Texts, NEW n \in Lens, NEW i \in 0 .. Len(list[p][t]) + 1,
               ArrayInsertAt(p, t, i, n)
        PROVE  Good
    <3>1. i \in Nat
      BY <1>5
    <3> QED
      BY <1>2, <2>1, <3>1
  <2> QED
    BY <1>1, <1>3, <1>4, <2>1 DEF LocalEdit
<1> QED
  BY <1>6 DEF Good

\* The last clock of an item is found at the item, however the store grows.
LEMMA LastFound ==
  ASSUME NEW st \in Stores, Sorted(st), NEW u \in Stores, Sorted(u), Within(st, u),
         NEW x, Exact(st, x), NEW y, y = LastId(Find(st, x))
  PROVE  Has(u, y) /\ Find(u, y).id = x /\ y # NoId /\ LastId(Find(u, y)) = y
<1>1. PICK c \in Clients : \E i \in DOMAIN st[c] :
        Find(st, x) = st[c][i] /\ st[c][i].id = x
  BY ExactFound
<1>m. PICK i \in DOMAIN st[c] : Find(st, x) = st[c][i] /\ st[c][i].id = x
  BY <1>1
<1>2. i \in DOMAIN u[c] /\ Core(u[c][i]) = Core(st[c][i])
  BY DEF Within
<1>3. PICK it : it = st[c][i]
  OBVIOUS
<1>4. it \in Items /\ it.id = x /\ y = LastId(it) /\ it.id[1] = c
  BY <1>m, <1>3, EntryIs DEF Sorted, Client
<1>5. /\ y \in Ids /\ it.id[2] \in Nat /\ it.length \in Nat /\ it.length >= 1
      /\ y[1] = it.id[1] /\ y[2] = it.id[2] + (it.length - 1) /\ y # NoId
  BY <1>4, ItemIds DEF LastId, NoId
<1>6. Covers(it, y)
  BY <1>5 DEF Covers, End
<1>7. Covers(u[c][i], y) /\ u[c][i].id = x
  BY <1>2, <1>3, <1>4, <1>6 DEF Core, Covers, End
<1>8. Has(u, y) /\ Find(u, y) = u[c][i]
  BY <1>2, <1>4, <1>5, <1>7, FoundIs
<1>9. LastId(u[c][i]) = y
  BY <1>2, <1>3, <1>4 DEF Core, LastId
<1> QED
  BY <1>5, <1>7, <1>8, <1>9

\* The item was made from left and right.
Names(st, it, left, right) ==
  /\ left = NoId => it.origin_left = NoId
  /\ left # NoId => Has(st, it.origin_left) /\ Find(st, it.origin_left).id = left
  /\ it.origin_right = right
  /\ right # NoId => Has(st, right) /\ Find(st, right).id = right

\* Behind left, and with no live element between it and the new one; nor
\* between the new one and right.
LEMMA PlaceBetween ==
  ASSUME NEW l \in Seq(Ids), NoRepeats(l), NEW dead, NEW st, NEW it,
         NEW left, NEW right, NEW j, Neighbours(Live(l, dead), j, left, right),
         Names(st, it, left, right),
         NEW at \in 0 .. Len(l), at = SplicePoint(l, st, it),
         NEW f, LiveOf(l, dead, f), Live(l, dead) = f[Len(l)]
  PROVE  /\ Len(f[at]) = j
         /\ left # NoId => \E i \in 1 .. at : l[i] = left
         /\ right # NoId => \E i \in (at + 1) .. Len(l) : l[i] = right
<1> DEFINE live == Live(l, dead)
<1>n. /\ Len(l) \in Nat /\ Len(l) \in 0 .. Len(l) /\ at \in Nat
      /\ \A i \in 1 .. Len(l) : l[i] # NoId
  <2>1. \A i \in 1 .. Len(l) : l[i] \in Ids
    OBVIOUS
  <2> QED
    BY <2>1, IdsSet
<1>1. live \in Seq(Ids) /\ Len(live) \in Nat /\ live = f[Len(l)]
  BY LiveLength
<1>2. \A k \in 1 .. Len(live) : \E m \in 1 .. Len(l) :
        l[m] = live[k] /\ Len(f[m]) = k /\ Len(f[m - 1]) = k - 1
  BY <1>n, <1>1, LivePlaces
<1>3. \A m \in 0 .. Len(l), n \in 0 .. Len(l) :
        Len(f[m]) \in Nat /\ (m <= n => Len(f[m]) <= Len(f[n]))
  BY <1>n, LivePlaces
<1> HIDE DEF live
<1>4. /\ j \in 0 .. Len(live)
      /\ left = IF j = 0 THEN NoId ELSE live[j]
      /\ right = IF j = Len(live) THEN NoId ELSE live[j + 1]
  BY DEF Neighbours, live
<1>5. /\ ZoneStart(l, st, it) <= at /\ at < ZoneLimit(l, st, it)
      /\ ZoneStart(l, st, it) \in 0 .. Len(l) /\ ZoneLimit(l, st, it) \in Nat
  BY SpliceWithin, PosIs, ZoneIs DEF ZoneStart
<1>6. CASE j = 0
  <2>1. left = NoId /\ it.origin_left = NoId
    BY <1>4, <1>6 DEF Names
  <2>2. ~Has(st, it.origin_left)
    BY <2>1 DEF Has
  <2>3. ZoneStart(l, st, it) = 0
    BY <2>2, PosIs DEF ZoneStart
  <2>4. CASE j = Len(live)
    <3>1. right = NoId
      BY <1>4, <2>4
    <3>2. Len(f[at]) <= Len(f[Len(l)]) /\ Len(f[at]) \in Nat
      BY <1>n, <1>3
    <3> QED
      BY <1>1, <1>6, <2>1, <2>4, <3>1, <3>2
  <2>5. CASE j # Len(live)
    <3>1. PICK m \in 1 .. Len(l) : l[m] = live[1] /\ Len(f[m]) = 1 /\ Len(f[m - 1]) = 0
      <4>1. 1 \in 1 .. Len(live)
        BY <1>1, <1>4, <1>6, <2>5
      <4>2. 1 - 1 = 0
        OBVIOUS
      <4> QED
        BY <1>2, <4>1, <4>2
    <3>2. right = l[m]
      BY <1>4, <1>6, <2>5, <3>1
    <3>3. Pos(l, st, it.origin_right) = m
      BY <1>n, <3>2, PosIs DEF Names
    <3>4. ZoneLimit(l, st, it) = m
      BY <2>3, <3>3 DEF ZoneLimit
    <3>5. at <= m - 1 /\ m - 1 \in 0 .. Len(l)
      BY <1>n, <1>5, <3>4
    <3>6. Len(f[at]) = 0
      BY <1>3, <3>1, <3>5
    <3>7. m \in (at + 1) .. Len(l)
      BY <1>n, <3>5
    <3> QED
      BY <1>6, <2>1, <3>2, <3>6, <3>7
  <2> QED
    BY <2>4, <2>5
<1>7. CASE j # 0
  <2>1. PICK m \in 1 .. Len(l) : l[m] = live[j] /\ Len(f[m]) = j /\ Len(f[m - 1]) = j - 1
    BY <1>1, <1>2, <1>4, <1>7
  <2>2. left = l[m] /\ left # NoId
    BY <1>4, <1>7, <1>n, <2>1
  <2>3. ZoneStart(l, st, it) = m
    BY <2>2, PosIs DEF ZoneStart, Names
  <2>4. m \in 1 .. at /\ j <= Len(f[at])
    BY <1>n, <1>3, <1>5, <2>1, <2>3
  <2>5. CASE j = Len(live)
    <3>1. right = NoId
      BY <1>4, <2>5
    <3>2. Len(f[at]) <= Len(f[Len(l)]) /\ Len(f[at]) \in Nat
      BY <1>n, <1>3
    <3> QED
      BY <1>1, <1>4, <2>2, <2>4, <2>5, <3>1, <3>2
  <2>6. CASE j # Len(live)
    <3>1. PICK k \in 1 .. Len(l) :
            l[k] = live[j + 1] /\ Len(f[k]) = j + 1 /\ Len(f[k - 1]) = (j + 1) - 1
      <4>1. j + 1 \in 1 .. Len(live)
        BY <1>1, <1>4, <2>6
      <4> QED
        BY <1>2, <4>1
    <3>2. right = l[k] /\ right # NoId
      BY <1>4, <1>n, <2>6, <3>1
    <3>3. Pos(l, st, it.origin_right) = k
      BY <1>n, <3>2, PosIs DEF Names
    <3>4. m < k
      <4>1. k <= m => Len(f[k]) <= Len(f[m])
        BY <1>n, <1>3
      <4>2. Len(f[m]) = j /\ Len(f[k]) = j + 1 /\ j \in Nat
        BY <1>1, <1>4, <2>1, <3>1
      <4> QED
        BY <1>n, <4>1, <4>2
    <3>5. ZoneLimit(l, st, it) = k
      BY <2>3, <3>3, <3>4 DEF ZoneLimit
    <3>6. at <= k - 1 /\ k - 1 \in 0 .. Len(l)
      BY <1>n, <1>5, <3>5
    <3>7. Len(f[at]) <= Len(f[k - 1]) /\ Len(f[at]) \in Nat
      BY <1>3, <3>6
    <3>8. Len(f[at]) = j
      BY <1>1, <1>4, <2>4, <3>1, <3>7
    <3>9. k \in (at + 1) .. Len(l)
      BY <1>n, <3>6
    <3> QED
      BY <2>2, <2>4, <3>2, <3>8, <3>9
  <2> QED
    BY <2>5, <2>6
<1> QED
  BY <1>6, <1>7

\* A local edit makes its element from two neighbours.
Asks(p, it, j, left, right) ==
  /\ Extends(p, it) /\ Client(it) = p /\ it.parent \in Texts
  /\ left \in ToSet(list[p][it.parent]) \cup {NoId}
  /\ right \in ToSet(list[p][it.parent]) \cup {NoId}
  /\ Neighbours(Live(list[p][it.parent], del[p]), j, left, right)
  /\ it.origin_left = LastOf(p, left) /\ it.origin_right = right

\* A local edit that changes a list puts one element between two neighbours
\* and flags nothing.
Edits(p, it, at, j, left, right) ==
  Inserts(p, it, at) /\ del' = del /\ Asks(p, it, j, left, right)

LEMMA EditIs ==
  ASSUME DocOK, NEW p \in Clients, LocalEdit(p), ~(UNCHANGED list)
  PROVE  \E it, at, j, left, right : Edits(p, it, at, j, left, right)
<1>1. PICK t \in Texts, n \in Lens : \E left, right \in ToSet(list[p][t]) \cup {NoId} :
        /\ EmitArrayItem(p, t, n, left, right)
        /\ \E j : Neighbours(Live(list[p][t], del[p]), j, left, right)
  BY EditNeighbours
<1>2. PICK left \in ToSet(list[p][t]) \cup {NoId}, right \in ToSet(list[p][t]) \cup {NoId} :
        /\ EmitArrayItem(p, t, n, left, right)
        /\ \E j : Neighbours(Live(list[p][t], del[p]), j, left, right)
  BY <1>1
<1>3. PICK j : Neighbours(Live(list[p][t], del[p]), j, left, right)
  BY <1>2
<1>4. PICK it : /\ Emits(p, it) /\ it.parent = t
                /\ it.origin_left = LastOf(p, left) /\ it.origin_right = right
  BY <1>2, EmitArrayItemOK
<1>5. Extends(p, it) /\ Client(it) = p
  BY <1>4 DEF Emits
<1>6. PICK at : Inserts(p, it, at)
  BY <1>5, ExtendList
<1>7. del' = del
  <2>1. it.parent \notin Keys
    BY <1>4, ParentAssumption
  <2>2. ~IsMapValue(it)
    BY <2>1 DEF IsMapValue
  <2> QED
    BY <1>5, <2>2 DEF Extends, Installs, InstallIntoArray, FailToIntegrate, InstallBare
<1>8. Edits(p, it, at, j, left, right)
  BY <1>2, <1>3, <1>4, <1>5, <1>6, <1>7 DEF Edits, Asks
<1> QED
  BY <1>8

\* The neighbours are found in the store that holds the new item.
LEMMA AskOrigins ==
  ASSUME DocOK, History, Flagging, NEW p \in Clients,
         NEW it, NEW j, NEW left, NEW right, Asks(p, it, j, left, right)
  PROVE  Names(store'[p], it, left, right) /\ it.id \notin del[p]
<1>1. /\ Extends(p, it) /\ it \in Items /\ it.parent \in Texts
      /\ CanAppend(store[p], it) /\ store' = [store EXCEPT ![p] = Appended(store[p], it)]
      /\ it.origin_left = LastOf(p, left)
      /\ left \in ToSet(list[p][it.parent]) \cup {NoId}
      /\ right \in ToSet(list[p][it.parent]) \cup {NoId}
  BY DEF Asks, Extends, StoreItem
<1>2. PICK u : u = Appended(store[p], it)
  OBVIOUS
<1>3. store'[p] = u
  BY <1>1, <1>2 DEF DocOK
<1>4. store[p] \in Stores /\ Sorted(store[p])
  BY StoreSorted
<1>5. u \in Stores /\ Sorted(u)
  BY <1>1, <1>2, <1>4, AppendSorted
<1>6. Within(store[p], u)
  <2>1. Grown
    BY <1>1, ExtendGrown
  <2> QED
    BY <1>3, <2>1 DEF Grown, Within
<1>7. \A x \in ToSet(list[p][it.parent]) : Exact(store[p], x)
  BY <1>1 DEF Flagging, ListsOK
<1>8. ASSUME left # NoId
      PROVE  Has(u, it.origin_left) /\ Find(u, it.origin_left).id = left
  <2>1. Exact(store[p], left) /\ it.origin_left = LastId(Find(store[p], left))
    BY <1>1, <1>7, <1>8 DEF LastOf
  <2> QED
    BY <1>4, <1>5, <1>6, <2>1, LastFound
<1>9. ASSUME right # NoId PROVE Has(u, right) /\ Find(u, right).id = right
  <2>1. Exact(u, right)
    BY <1>1, <1>2, <1>4, <1>7, <1>9, AppendExact
  <2> QED
    BY <1>5, <2>1, ExactFound
<1>10. it.id \notin del[p]
  <2>1. it.id \in Ids /\ Covers(it, it.id)
    BY <1>1, ItemIds
  <2>2. ~Has(store[p], it.id)
    BY <1>1, <1>4, <2>1, AppendFresh
  <2> QED
    BY <2>2 DEF Flagging, FlagsOK
<1>11. (left = NoId => it.origin_left = NoId) /\ it.origin_right = right
  BY <1>1 DEF LastOf, Asks
<1> QED
  BY <1>3, <1>8, <1>9, <1>10, <1>11 DEF Names

LEMMA EditOrigins ==
  ASSUME DocOK, History, Flagging, NEW p \in Clients,
         NEW it, NEW at, NEW j, NEW left, NEW right, Edits(p, it, at, j, left, right)
  PROVE  Names(store'[p], it, left, right) /\ it.id \notin del[p]
<1>1. Asks(p, it, j, left, right)
  BY DEF Edits
<1> QED
  BY <1>1, AskOrigins

\* The new element stands between the neighbours, and among the live
\* elements right behind the left one.
LEMMA EditPlace ==
  ASSUME DocOK, History, Flagging, Distinct, NEW p \in Clients,
         NEW it, NEW at, NEW j, NEW left, NEW right, Edits(p, it, at, j, left, right),
         NEW t, t = it.parent
  PROVE  /\ t \in Texts /\ it.id \in Ids /\ list'[p][t] \in Seq(Ids)
         /\ right # NoId => Before(list'[p][t], it.id, right)
         /\ j \in 0 .. Len(Live(list[p][t], del[p]))
         /\ Live(list'[p][t], del[p]) \in Seq(Ids)
         /\ Spliced(Live(list'[p][t], del[p]), Live(list[p][t], del[p]), j, it.id)
<1>1. PICK l : l = list[p][t]
  OBVIOUS
<1>2. PICK u : u = list'[p][t]
  OBVIOUS
<1>3. PICK st : st = store'[p]
  OBVIOUS
<1>4. PICK dead : dead = del[p]
  OBVIOUS
<1>5. /\ t \in Texts /\ it.id \in Ids /\ l \in Seq(Ids) /\ u \in Seq(Ids)
      /\ at \in 0 .. Len(l) /\ Spliced(u, l, at, it.id)
  BY <1>1, <1>2, InsertIs DEF Edits, Asks
<1>6. NoRepeats(l) /\ at = SplicePoint(l, st, it)
  BY <1>1, <1>3, <1>5 DEF Distinct, Edits, Asks, Inserts
<1>7. Names(st, it, left, right) /\ it.id \notin dead
  BY <1>3, <1>4, EditOrigins
<1>8. Neighbours(Live(l, dead), j, left, right)
  BY <1>1, <1>4 DEF Edits, Asks
<1>9. PICK f : LiveOf(l, dead, f) /\ Live(l, dead) = f[Len(l)]
  BY <1>5, LiveIs
<1>10. PICK g : LiveOf(u, dead, g) /\ Live(u, dead) = g[Len(u)]
  BY <1>5, LiveIs
<1>11. Len(f[at]) = j /\ (right # NoId => \E i \in (at + 1) .. Len(l) : l[i] = right)
  BY <1>5, <1>6, <1>7, <1>8, <1>9, PlaceBetween
<1>12. Spliced(Live(u, dead), Live(l, dead), j, it.id)
  <2>1. Spliced(g[Len(u)], f[Len(l)], Len(f[at]), it.id)
    BY <1>5, <1>7, <1>9, <1>10, LiveSpliced
  <2> QED
    BY <1>9, <1>10, <1>11, <2>1
<1>13. right # NoId => Before(u, it.id, right)
  BY <1>5, <1>11, SpliceOrder
<1>14. j \in 0 .. Len(Live(l, dead)) /\ Live(u, dead) \in Seq(Ids)
  BY <1>5, <1>8, LiveLength DEF Neighbours
<1> QED
  BY <1>1, <1>2, <1>4, <1>5, <1>12, <1>13, <1>14

LEMMA EditInserts ==
  ASSUME DocOK, History, Flagging, Distinct, NEW p \in Clients,
         NEW it, NEW at, NEW j, NEW left, NEW right, Edits(p, it, at, j, left, right),
         NEW t, t = it.parent
  PROVE  LandsAt(p, t, j)
<1>1. PICK live : live = Live(list[p][t], del[p])
  OBVIOUS
<1>2. PICK new : new = Live(list'[p][t], del[p])
  OBVIOUS
<1>3. /\ t \in Texts /\ it.id \in Ids /\ j \in 0 .. Len(live)
      /\ new \in Seq(Ids) /\ Spliced(new, live, j, it.id)
  BY <1>1, <1>2, EditPlace
<1>4. live \in Seq(Ids) /\ Len(live) \in Nat
  BY <1>1, <1>3, LiveLength DEF DocOK
<1>5. new = InsertAt(live, j + 1, it.id)
  <2>1. /\ InsertAt(live, j + 1, it.id) \in Seq(Ids)
        /\ Spliced(InsertAt(live, j + 1, it.id), live, j, it.id)
    BY <1>3, <1>4, Splice
  <2> QED
    BY <1>3, <1>4, <2>1, SplicedOnce
<1>6. /\ left = IF j = 0 THEN NoId ELSE live[j]
      /\ right = IF j = Len(live) THEN NoId ELSE live[j + 1]
      /\ it.origin_left = LastOf(p, left) /\ it.origin_right = right /\ del' = del
  BY <1>1 DEF Edits, Asks, Neighbours
<1>8. it.origin_left = IF j = 0 THEN NoId ELSE LastId(Find(store[p], live[j]))
  <2>1. CASE j = 0
    BY <1>6, <2>1 DEF LastOf
  <2>2. CASE j # 0
    <3>1. left = live[j] /\ live[j] # NoId
      BY <1>3, <1>4, <1>6, <2>2, IdsSet
    <3> QED
      BY <1>6, <2>2, <3>1 DEF LastOf
  <2> QED
    BY <2>1, <2>2
<1>10. store'[p][p][Len(store'[p][p])] = it
  <2>1. Extends(p, it) /\ Client(it) = p
    BY DEF Edits, Asks, Inserts
  <2>2. /\ Len(store'[p][p]) = Len(store[p][p]) + 1
        /\ store'[p][p][Len(store[p][p]) + 1] = it
    BY <2>1, ExtendStore
  <2> QED
    BY <2>2
<1> QED
  BY <1>1, <1>2, <1>5, <1>6, <1>8, <1>10 DEF LandsAt

\* A local insert that moves the clock is spliced into the list: its left
\* origin is an element of it, so the item is not detached.
LEMMA EmitLands ==
  ASSUME DocOK, History, Flagging, Distinct, NEW p \in Clients, NEW t \in Texts,
         NEW n \in Lens, NEW left \in ToSet(list[p][t]) \cup {NoId},
         NEW right \in ToSet(list[p][t]) \cup {NoId}, EmitArrayItem(p, t, n, left, right),
         NEW j, Neighbours(Live(list[p][t], del[p]), j, left, right), clock' # clock
  PROVE  LandsAt(p, t, j)
<1>1. PICK it : /\ Emits(p, it) /\ it.parent = t
                /\ it.origin_left = LastOf(p, left) /\ it.origin_right = right
  BY EmitArrayItemOK
<1>2. Extends(p, it) /\ Client(it) = p /\ it.content_kind = "string"
  BY <1>1 DEF Emits
<1>3. Asks(p, it, j, left, right)
  BY <1>1, <1>2 DEF Asks
<1>4. store'[p] = Appended(store[p], it)
  BY <1>2 DEF Extends, StoreItem, DocOK
<1>5. InstallIntoArray(p, it) /\ del' = del
  <2>1. it.parent \notin Keys /\ IsArrayItem(it) /\ ~IsMapValue(it)
    BY <1>1, <1>2, ParentAssumption DEF IsArrayItem, IsMapValue
  <2>2. ~FailToIntegrate(p, it)
    BY DEF FailToIntegrate
  <2> QED
    BY <1>2, <2>1, <2>2 DEF Extends, Installs, InstallIntoArray
<1>6. ~Detached(list[p][t], store'[p], it)
  <2>1. CASE left = NoId
    BY <1>1, <2>1 DEF LastOf, Detached
  <2>2. CASE left # NoId
    <3>1. PICK i \in DOMAIN list[p][t] : list[p][t][i] = left
      BY <2>2 DEF ToSet
    <3>2. Has(store'[p], it.origin_left) /\ Find(store'[p], it.origin_left).id = left
      BY <1>3, <2>2, AskOrigins DEF Names
    <3>3. list[p][t] \in Seq(Ids) /\ NoRepeats(list[p][t])
      BY DEF DocOK, Distinct
    <3>4. Pos(list[p][t], store'[p], it.origin_left) = i /\ i # 0
      BY <3>1, <3>2, <3>3, PosIs
    <3> QED
      BY <3>4 DEF Detached
  <2> QED
    BY <2>1, <2>2
<1>7. PICK at : Inserts(p, it, at)
  BY <1>1, <1>2, <1>4, <1>5, <1>6 DEF InstallIntoArray, Inserts
<1>8. Edits(p, it, at, j, left, right)
  BY <1>3, <1>5, <1>7 DEF Edits
<1> QED
  BY <1>1, <1>8, EditInserts

\* Whatever was deleted, merged in or compacted, a local insert that returns
\* kOk shows the new element at the index asked for, and an append shows it
\* last; its origins are its live neighbours and nothing else moves
\* (array_insert_at and text_append, down to where YArray::integrate splices).
THEOREM InsertsLandWhereAsked == Spec => InsertsWhereAsked
<1> DEFINE Step ==
      \A p \in Clients, t \in Texts, n \in Lens : clock' # clock =>
        LET live == Live(list[p][t], del[p]) IN
        /\ \A index \in 0 .. Len(live) :
             ArrayInsertAt(p, t, index, n) => LandsAt(p, t, index)
        /\ TextAppend(p, t, n) => LandsAt(p, t, Len(live))
<1>1. Init => Flagging /\ Distinct
  BY InitFlagging, InitDistinct
<1>2. IInv /\ Flagging /\ Distinct /\ [Next]_vars => Flagging' /\ Distinct'
  BY FlaggingStep, DistinctStep
<1>3. ASSUME IInv, Flagging, Distinct PROVE Step
  <2> SUFFICES ASSUME NEW p \in Clients, NEW t \in Texts, NEW n \in Lens, clock' # clock,
                      NEW live, live = Live(list[p][t], del[p])
               PROVE  /\ \A index \in 0 .. Len(live) :
                           ArrayInsertAt(p, t, index, n) => LandsAt(p, t, index)
                      /\ TextAppend(p, t, n) => LandsAt(p, t, Len(live))
    OBVIOUS
  <2>1. DocOK /\ History
    BY <1>3, InvariantParts
  <2>2. ASSUME NEW index \in 0 .. Len(live),
               \/ ArrayInsertAt(p, t, index, n)
               \/ TextAppend(p, t, n) /\ index = Len(live)
        PROVE  LandsAt(p, t, index)
    <3>1. PICK left \in ToSet(list[p][t]) \cup {NoId}, right \in ToSet(list[p][t]) \cup {NoId} :
            EmitArrayItem(p, t, n, left, right) /\ Neighbours(live, index, left, right)
      BY <2>1, <2>2, AskedAt
    <3> QED
      BY <1>3, <2>1, <3>1, EmitLands
  <2>3. Len(live) \in 0 .. Len(live)
    BY <2>1, LiveLength DEF DocOK
  <2> QED
    BY <2>2, <2>3
<1>4. IInv /\ Flagging /\ Distinct /\ [Next]_vars => [Step]_vars
  BY <1>3
<1> QED
  BY Invariance, <1>1, <1>2, <1>4, PTL DEF Spec, InsertsWhereAsked

-----------------------------------------------------------------------------
(* Lists: a client's own items stand in front of their right origins.      *)

LEMMA ListsChange ==
  ASSUME job = NoJob, Next, ~(UNCHANGED list)
  PROVE  \E p \in Clients : LocalEdit(p)
BY DEF Next, Compact, Publish, Pull, Deliver, Apply, ApplyOne, NextPass, GiveUp,
       ApplyDeletes, PassIsOver, docVars

\* An element comes into a list by a local edit, or from another client.
LEMMA Comings ==
  ASSUME IInv, [Next]_vars, ~(UNCHANGED list)
  PROVE  \E p \in Clients :
           \/ \E it, at, j, left, right : Edits(p, it, at, j, left, right)
           \/ \E it, at : Inserts(p, it, at) /\ Client(it) # p
<1>1. DocOK /\ CallOK /\ History /\ InFlightAuthentic /\ Next
  BY InvariantParts DEF vars, docVars
<1>2. CASE job = NoJob
  <2>1. PICK p \in Clients : LocalEdit(p)
    BY <1>1, <1>2, ListsChange
  <2> QED
    BY <1>1, <2>1, EditIs
<1>3. CASE job # NoJob
  <2>1. \A p \in Clients : ~(LocalEdit(p) \/ Compact(p) \/ Publish(p))
    BY <1>3, CallsAreAlone
  <2>2. Apply
    BY <1>1, <1>3, <2>1 DEF Next, Pull, Deliver
  <2>3. ASSUME \A d \in job.todo : ~ApplyInstalled(d) PROVE UNCHANGED list
    BY <2>2, <2>3 DEF Apply, ApplyOne, ApplyKnown, ApplyDeferred, ApplyRejected,
       NextPass, GiveUp, ApplyDeletes, docVars
  <2>4. PICK d \in job.todo : ApplyInstalled(d)
    BY <2>3
  <2>5. job \in Jobs /\ job.doc \in Clients /\ d \in Items /\ Authentic(d)
    BY <1>1, <1>3 DEF CallOK, Jobs, InFlightAuthentic
  <2>6. d.parent # NoParent => d.origin_left = NoId /\ d.origin_right = NoId
    BY <2>5 DEF Authentic
  <2>7. PICK it : Extends(job.doc, it) /\ Core(it) = Core(d)
    BY <1>1, <2>4, <2>5, <2>6, ApplyInstalledOK
  <2>8. Emitted(it)
    <3>1. Client(it) = Client(d)
      BY <2>7 DEF Core, Client
    <3>2. Emitted(d)
      BY <2>5 DEF Authentic
    <3> QED
      BY <2>7, <3>1, <3>2, Zenon DEF Emitted
  <2>9. Client(it) # job.doc
    BY <1>1, <2>5, <2>7, <2>8, OwnIsNew
  <2>10. PICK at : Inserts(job.doc, it, at)
    BY <1>1, <2>5, <2>7, ExtendList
  <2> QED
    BY <2>5, <2>9, <2>10
<1> QED
  BY <1>2, <1>3

RightOf(st, x) == Find(st, x).origin_right

LEMMA RightKept ==
  ASSUME NEW st, NEW u, WellStored(st), WellStored(u), Within(st, u),
         NEW x, Exact(st, x)
  PROVE  RightOf(u, x) = RightOf(st, x)
<1>1. u \in Stores /\ Sorted(u) /\ st \in Stores /\ Sorted(st)
  BY DEF WellStored
<1>2. PICK c \in Clients : \E i \in DOMAIN st[c] :
        Find(st, x) = st[c][i] /\ st[c][i].id = x
  BY <1>1, ExactFound
<1>3. PICK i \in DOMAIN st[c] : Find(st, x) = st[c][i] /\ st[c][i].id = x
  BY <1>2
<1>4. i \in DOMAIN u[c] /\ Core(u[c][i]) = Core(st[c][i])
  BY DEF Within
<1>5. u[c][i].id = x /\ u[c][i].origin_right = st[c][i].origin_right
  BY <1>3, <1>4 DEF Core
<1>6. Find(u, x) = u[c][i]
  BY <1>4, <1>5, OriginIs
<1> QED
  BY <1>3, <1>5, <1>6 DEF RightOf

\* In its author's list an element stands in front of its right origin.
OwnInFront ==
  \A p \in Clients, t \in Texts : \A x \in ToSet(list[p][t]) :
    x[1] = p /\ RightOf(store[p], x) # NoId => Before(list[p][t], x, RightOf(store[p], x))

LEMMA OwnInFrontStep ==
  ASSUME IInv, WellKept, WellKept', Flagging, Distinct, OwnInFront, [Next]_vars
  PROVE  OwnInFront'
<1>1. DocOK /\ History /\ Grown
  BY InvariantParts, StepGrown
<1>2. ASSUME NEW p \in Clients, NEW t \in Texts, NEW x \in ToSet(list[p][t])
      PROVE  RightOf(store'[p], x) = RightOf(store[p], x)
  <2>1. WellStored(store[p]) /\ WellStored(store'[p]) /\ Exact(store[p], x)
    BY <1>1 DEF WellKept, Flagging, ListsOK
  <2>2. Within(store[p], store'[p])
    BY <1>1 DEF Grown, Within
  <2> QED
    BY <2>1, <2>2, RightKept
<1>3. OrderStays
  BY DistinctStep
\* The elements that were there.
<1>4. ASSUME NEW p \in Clients, NEW t \in Texts, NEW x \in ToSet(list[p][t]),
             x[1] = p, RightOf(store'[p], x) # NoId
      PROVE  Before(list'[p][t], x, RightOf(store'[p], x))
  <2>1. Before(list[p][t], x, RightOf(store[p], x))
    BY <1>2, <1>4 DEF OwnInFront
  <2> QED
    BY <1>2, <1>3, <2>1 DEF OrderStays
\* The one that came.
<1>5. ASSUME NEW p \in Clients, NEW it, NEW at, Inserts(p, it, at),
             Client(it) = p /\ RightOf(store'[p], it.id) # NoId =>
               Before(list'[p][it.parent], it.id, RightOf(store'[p], it.id))
      PROVE  OwnInFront'
  <2>1. PICK v : v = it.parent
    OBVIOUS
  <2>2. /\ v \in Texts /\ list[p][v] \in Seq(Ids) /\ list'[p][v] \in Seq(Ids)
        /\ at \in 0 .. Len(list[p][v])
        /\ Spliced(list'[p][v], list[p][v], at, it.id)
        /\ \A q \in Clients, w \in Texts : q # p \/ w # v => list'[q][w] = list[q][w]
    BY <1>1, <1>5, <2>1, InsertIs
  <2>3. ToSet(list'[p][v]) = ToSet(list[p][v]) \cup {it.id}
    BY <2>2, SpliceOrder
  <2>4. \A q \in Clients, w \in Texts : \A x \in ToSet(list'[q][w]) :
          x \in ToSet(list[q][w]) \/ (q = p /\ w = v /\ x = it.id)
    BY <2>2, <2>3
  <2>5. p = it.id[1] <=> Client(it) = p
    BY DEF Client
  <2> QED
    BY <1>4, <1>5, <2>1, <2>4, <2>5 DEF OwnInFront
<1>6. ASSUME NEW p \in Clients, NEW it, NEW at, NEW j, NEW left, NEW right,
             Edits(p, it, at, j, left, right)
      PROVE  OwnInFront'
  <2>1. Inserts(p, it, at) /\ it.origin_right = right
    BY <1>6 DEF Edits, Asks
  <2>2. RightOf(store'[p], it.id) = right
    <3>1. PICK st : st = store'[p]
      OBVIOUS
    <3>2. WellStored(st)
      BY <1>1, <3>1 DEF WellKept
    <3>3. PICK c \in Clients : \E i \in DOMAIN st[c] : it = st[c][i]
      BY <1>1, <2>1, <3>1, InsertStored
    <3>4. PICK i \in DOMAIN st[c] : it = st[c][i]
      BY <3>3
    <3>5. Find(st, it.id) = it
      BY <3>2, <3>4, OriginIs
    <3> QED
      BY <2>1, <3>1, <3>5 DEF RightOf
  <2>3. right # NoId => Before(list'[p][it.parent], it.id, right)
    BY <1>1, <1>6, EditPlace
  <2> QED
    BY <1>5, <2>1, <2>2, <2>3
<1>7. CASE UNCHANGED list
  BY <1>4, <1>7 DEF OwnInFront
<1> QED
  BY <1>5, <1>6, <1>7, Comings

LEMMA InitOwnInFront == Init => OwnInFront
BY DEF Init, OwnInFront, ToSet

\* In the list of its author every element stands between the two elements
\* it was inserted between, whatever was merged in since.
OwnBetween ==
  \A p \in Clients, t \in Texts : \A x \in ToSet(list[p][t]) : x[1] = p =>
    LET it == Find(store[p], x)
        ol == it.origin_left
        or == it.origin_right
    IN  /\ ol # NoId => Before(list[p][t], Find(store[p], ol).id, x)
        /\ or # NoId => Before(list[p][t], x, Find(store[p], or).id)

\* What stands in a list is found at the element itself.
LEMMA ListedFound ==
  ASSUME WellKept, Flagging, NEW p \in Clients, NEW t \in Texts,
         NEW a, NEW b, Before(list[p][t], a, b)
  PROVE  /\ a \in ToSet(list[p][t]) /\ b \in ToSet(list[p][t])
         /\ Exact(store[p], a) /\ Exact(store[p], b)
         /\ Has(store[p], b) /\ Find(store[p], b).id = b
<1>1. a \in ToSet(list[p][t]) /\ b \in ToSet(list[p][t])
  BY DEF Before, ToSet
<1>2. Exact(store[p], a) /\ Exact(store[p], b)
  BY <1>1 DEF Flagging, ListsOK
<1>3. store[p] \in Stores /\ Sorted(store[p])
  BY DEF WellKept, WellStored
<1> QED
  BY <1>1, <1>2, <1>3, ExactFound

LEMMA OwnBetweenIs ==
  ASSUME WellKept, Flagging, BehindLeftOrigin, OwnInFront
  PROVE  OwnBetween
<1> SUFFICES ASSUME NEW p \in Clients, NEW t \in Texts, NEW x \in ToSet(list[p][t]), x[1] = p,
                    NEW or, or = Find(store[p], x).origin_right, or # NoId
             PROVE  Before(list[p][t], x, Find(store[p], or).id)
  BY DEF OwnBetween, BehindLeftOrigin
<1>1. Before(list[p][t], x, or)
  BY DEF OwnInFront, RightOf
<1> QED
  BY <1>1, ListedFound

THEOREM OwnElementsStandBetween == Spec => []OwnBetween
<1>1. Init => Flagging /\ Distinct /\ OwnInFront
  BY InitFlagging, InitDistinct, InitOwnInFront
<1>2. IInv => WellKept
  BY StoreWell
<1>3. IInv /\ Flagging /\ Distinct /\ [Next]_vars => Flagging' /\ Distinct'
  BY FlaggingStep, DistinctStep
<1>4. IInv /\ WellKept /\ WellKept' /\ Flagging /\ Distinct /\ OwnInFront /\ [Next]_vars
      => OwnInFront'
  BY OwnInFrontStep
<1>5. WellKept /\ Flagging /\ BehindLeftOrigin /\ OwnInFront => OwnBetween
  BY OwnBetweenIs
<1> QED
  BY Invariance, ElementsStandBehindTheirOrigins, <1>1, <1>2, <1>3, <1>4, <1>5, PTL DEF Spec

-----------------------------------------------------------------------------
(* Lists: what a document stores it shows.                                 *)

\* Every item of a list that a document stores is in that list, deleted or
\* not: integration leaves none out (install_into_array).
AllListed ==
  \A p, c \in Clients : \A i \in DOMAIN store[p][c] :
    store[p][c][i].parent \in Texts =>
      store[p][c][i].id \in ToSet(list[p][store[p][c][i].parent])

\* An item and the one on its left have the same parent.
LeftAtHome ==
  \A p, c \in Clients : \A i \in DOMAIN store[p][c] :
    store[p][c][i].origin_left # NoId =>
      Find(store[p], store[p][c][i].origin_left).parent = store[p][c][i].parent

LEMMA LeftIsHome == IInv /\ AllRooted /\ AllWhole => LeftAtHome
<1> SUFFICES ASSUME IInv, AllRooted, AllWhole,
                    NEW p \in Clients, NEW c \in Clients, NEW i \in DOMAIN store[p][c],
                    NEW it, it = store[p][c][i], it.origin_left # NoId
             PROVE  Find(store[p], it.origin_left).parent = it.parent
  BY DEF LeftAtHome
<1>1. DocOK /\ History /\ StoredRooted /\ StoredWhole
  BY InvariantParts DEF AllRooted, AllWhole
<1>2. it \in Items /\ WellStored(store[p])
  BY <1>1, EntryIs, StoreWell DEF DocOK, WellKept
<1>3. PICK x : x = it.origin_left
  OBVIOUS
<1>4. x \in Ids /\ Has(store[p], x)
  BY <1>2, <1>3 DEF Items, OptIds, WellStored
<1>5. /\ x[1] \in Clients /\ Root(x) = Root(Find(store[p], x).id)
      /\ \E j \in DOMAIN store[p][x[1]] : Find(store[p], x) = store[p][x[1]][j]
  BY <1>1, <1>4, AuthorHas
<1>6. PICK o : o = Find(store[p], x)
  OBVIOUS
<1>7. Rooted(o) /\ Rooted(it) /\ o.parent # NoParent /\ it.parent # NoParent
  BY <1>1, <1>5, <1>6 DEF StoredRooted, StoredWhole
<1>8. o.parent = Root(o.id) /\ it.parent = Root(it.id)
  BY <1>7 DEF Rooted
<1>9. Root(x) = Root(it.id)
  BY <1>3, <1>7 DEF Rooted, Source
<1> QED
  BY <1>3, <1>5, <1>6, <1>8, <1>9

\* Storing an item of a list puts it there.
LEMMA ExtendListed ==
  ASSUME DocOK, History, Flagging, Distinct, AllListed, WellKept, WellKept',
         LeftAtHome', StoredWhole', ~Fails,
         NEW p \in Clients, NEW it, Extends(p, it), it.parent \in Texts
  PROVE  \E at : Inserts(p, it, at)
<1>1. PICK l : l = list[p][it.parent]
  OBVIOUS
<1>2. PICK st : st = store'[p]
  OBVIOUS
<1>3. /\ it \in Items /\ st = Appended(store[p], it) /\ l \in Seq(Ids) /\ NoRepeats(l)
  BY <1>1, <1>2 DEF Extends, StoreItem, DocOK, Distinct
<1>4. WellStored(st) /\ WellStored(store[p])
  BY <1>2 DEF WellKept
<1>5. PICK c \in Clients : \E i \in DOMAIN st[c] : it = st[c][i]
  <2>1. Client(it) \in Clients /\ store'[p][Client(it)] = Append(store[p][Client(it)], it)
    BY ExtendStore
  <2>2. store[p][Client(it)] \in Seq(Items)
    BY <2>1, VectorType DEF DocOK
  <2>3. /\ Len(store[p][Client(it)]) + 1 \in DOMAIN store'[p][Client(it)]
        /\ store'[p][Client(it)][Len(store[p][Client(it)]) + 1] = it
    BY <1>3, <2>1, <2>2, AppendProperties
  <2> QED
    BY <1>2, <2>1, <2>3
<1>6. PICK i \in DOMAIN st[c] : it = st[c][i]
  BY <1>5
<1>7. it.content_kind = "string"
  BY <1>2, <1>6 DEF StoredWhole
<1>8. ~Detached(l, st, it)
  <2> SUFFICES ASSUME it.origin_left # NoId PROVE Pos(l, st, it.origin_left) # 0
    BY DEF Detached
  <2>1. PICK x : x = it.origin_left
    OBVIOUS
  <2>2. x \in Ids /\ Has(store[p], x)
    BY <1>3, <2>1 DEF Extends, Items, OptIds
  <2>3. PICK d \in Clients : d = x[1]
    BY <2>2 DEF Ids
  <2>4. PICK m \in DOMAIN store[p][d] : Covers(store[p][d][m], x)
    BY <2>2, <2>3 DEF Has
  <2>5. /\ m \in DOMAIN st[d] /\ Core(st[d][m]) = Core(store[p][d][m])
        /\ st[d][m].parent = store[p][d][m].parent
    BY <1>2, ExtendRoots DEF KeptRoots
  <2>6. Covers(st[d][m], x) /\ st[d][m].id = store[p][d][m].id
    BY <2>4, <2>5 DEF Core, Covers, End
  <2>7. Has(st, x) /\ Find(st, x) = st[d][m]
    BY <1>4, <2>2, <2>3, <2>5, <2>6, FoundIs DEF WellStored
  <2>8. st[d][m].parent = it.parent
    BY <1>2, <1>6, <2>1, <2>7 DEF LeftAtHome
  <2>9. store[p][d][m].id \in ToSet(l)
    BY <1>1, <2>4, <2>5, <2>8 DEF AllListed
  <2>10. PICK k \in DOMAIN l : l[k] = Find(st, x).id
    BY <2>6, <2>7, <2>9 DEF ToSet
  <2>11. Pos(l, st, x) = k
    BY <1>3, <2>7, <2>10, PosIs
  <2> QED
    BY <1>3, <2>1, <2>11
<1>9. InstallIntoArray(p, it)
  <2>1. it.parent \notin Keys
    BY ParentAssumption
  <2>2. ~IsMapValue(it) /\ IsArrayItem(it)
    BY <1>7, <2>1 DEF IsMapValue, IsArrayItem
  <2>3. ~FailToIntegrate(p, it)
    BY <1>3 DEF Fails
  <2> QED
    BY <2>2, <2>3 DEF Extends, Installs
<1>10. PICK at \in 0 .. Len(l) :
         /\ at = SplicePoint(l, st, it)
         /\ list' = [list EXCEPT ![p][it.parent] = InsertAt(l, at + 1, it.id)]
  BY <1>1, <1>3, <1>8, <1>9 DEF InstallIntoArray
<1>11. Inserts(p, it, at)
  BY <1>1, <1>2, <1>8, <1>10 DEF Inserts
<1> QED
  BY <1>11

LEMMA AllListedStep ==
  ASSUME IInv, Flagging, Distinct, AllListed, WellKept, WellKept', LeftAtHome', AllWhole',
         [Next]_vars, ~Compacts, ~Fails
  PROVE  AllListed'
<1>1. DocOK /\ History /\ StoredWhole'
  BY InvariantParts DEF AllWhole
<1>2. CASE UNCHANGED << store, list >>
  BY <1>2 DEF AllListed
<1>3. ASSUME NEW p \in Clients, NEW it, NEW at, Inserts(p, it, at),
             NEW q \in Clients, NEW t \in Texts
      PROVE  /\ ToSet(list[q][t]) \subseteq ToSet(list'[q][t])
             /\ q = p /\ t = it.parent => it.id \in ToSet(list'[q][t])
  <2>1. PICK v : v = it.parent
    OBVIOUS
  <2>2. /\ v \in Texts /\ list[p][v] \in Seq(Ids) /\ list'[p][v] \in Seq(Ids)
        /\ at \in 0 .. Len(list[p][v])
        /\ Spliced(list'[p][v], list[p][v], at, it.id)
        /\ \A r \in Clients, w \in Texts : r # p \/ w # v => list'[r][w] = list[r][w]
    BY <1>1, <1>3, <2>1, InsertIs
  <2>3. ToSet(list'[p][v]) = ToSet(list[p][v]) \cup {it.id}
    BY <2>2, SpliceOrder
  <2> QED
    BY <2>1, <2>2, <2>3
<1>4. ASSUME NEW p \in Clients, NEW it, Extends(p, it)
      PROVE  AllListed'
  <2>1. it.parent \in Texts => \E at : Inserts(p, it, at)
    BY <1>1, <1>4, ExtendListed
  <2>2. /\ \A q \in Clients, t \in Texts : ToSet(list[q][t]) \subseteq ToSet(list'[q][t])
        /\ \A t \in Texts : t = it.parent => it.id \in ToSet(list'[p][t])
    <3>1. UNCHANGED list \/ \E at : Inserts(p, it, at)
      BY <1>1, <1>4, ExtendList
    <3> QED
      BY <1>3, <2>1, <3>1
  <2> SUFFICES ASSUME NEW q \in Clients, NEW c \in Clients, NEW i \in DOMAIN store'[q][c],
                      NEW e, e = store'[q][c][i], NEW t \in Texts, t = e.parent
               PROVE  e.id \in ToSet(list'[q][t])
    BY DEF AllListed
  <2>3. CASE i \in DOMAIN store[q][c]
    <3>1. e.id = store[q][c][i].id /\ e.parent = store[q][c][i].parent
      BY <1>1, <1>4, <2>3, ExtendRoots DEF KeptRoots, Core
    <3>2. e.id \in ToSet(list[q][t])
      BY <2>3, <3>1 DEF AllListed
    <3> QED
      BY <2>2, <3>2
  <2>4. CASE i \notin DOMAIN store[q][c]
    <3>1. q = p /\ c = Client(it)
      BY <1>1, <1>4, <2>4, ExtendStore
    <3>2. /\ store'[q][c] = Append(store[q][c], it)
      BY <1>1, <1>4, <3>1, ExtendStore
    <3>3. store[q][c] \in Seq(Items) /\ it \in Items
      BY <1>1, <1>4, VectorType DEF DocOK, Extends
    <3>4. e = it
      BY <2>4, <3>2, <3>3, AppendProperties
    <3> QED
      BY <2>2, <3>1, <3>4
  <2> QED
    BY <2>3, <2>4
<1>5. ASSUME \/ \E p \in Clients : \E t \in Texts : \E i \in Nat : ArrayDeleteAt(p, t, i)
             \/ ApplyDeletes
      PROVE  UNCHANGED << store, list >>
  BY <1>5 DEF ArrayDeleteAt, ApplyDeletes
<1> QED
  BY <1>2, <1>4, <1>5, StepKinds DEF vars, docVars, Compacts

LEMMA InitAllListed == Init => AllListed
BY DEF Init, AllListed

\* What the theorems below rest on.
Shown ==
  /\ IInv /\ AllRooted /\ AllWhole /\ WellKept /\ Flagging /\ Distinct
  /\ OwnInFront /\ AllListed

LEMMA AlwaysShown == Spec /\ [][~Compacts]_vars /\ [][~Fails]_vars => []Shown
<1>1. Init => AllRooted /\ AllWhole /\ Flagging /\ Distinct /\ OwnInFront /\ AllListed
  BY InitRooted, InitWhole, InitFlagging, InitDistinct, InitOwnInFront, InitAllListed
<1>2. IInv => WellKept
  BY StoreWell
<1>3. IInv /\ IInv' /\ AllRooted /\ [Next]_vars => AllRooted'
  BY RootedStep
<1>4. IInv /\ AllRooted /\ AllWhole /\ [Next]_vars /\ [~Compacts]_vars => AllWhole'
  <2>1. UNCHANGED vars /\ AllWhole => AllWhole'
    BY DEF vars, docVars, AllWhole, StoredWhole, SentWhole
  <2> QED
    BY <2>1, WholeStep
<1>5. IInv /\ Flagging /\ Distinct /\ [Next]_vars => Flagging' /\ Distinct'
  BY FlaggingStep, DistinctStep
<1>6. IInv /\ WellKept /\ WellKept' /\ Flagging /\ Distinct /\ OwnInFront /\ [Next]_vars
      => OwnInFront'
  BY OwnInFrontStep
<1>7. IInv /\ AllRooted /\ AllWhole => LeftAtHome
  BY LeftIsHome
<1>8. IInv /\ Flagging /\ Distinct /\ AllListed /\ WellKept /\ WellKept' /\ LeftAtHome'
      /\ AllWhole' /\ [Next]_vars /\ [~Compacts]_vars /\ [~Fails]_vars => AllListed'
  <2>1. UNCHANGED vars /\ AllListed => AllListed'
    BY DEF vars, docVars, AllListed
  <2> QED
    BY <2>1, AllListedStep
<1>9. IInv /\ AllRooted /\ AllWhole /\ WellKept /\ Flagging /\ Distinct /\ OwnInFront
      /\ AllListed => Shown
  BY DEF Shown
<1> QED
  BY Invariance, <1>1, <1>2, <1>3, <1>4, <1>5, <1>6, <1>7, <1>8, <1>9, PTL DEF Spec

\* Where nobody compacts and no zone overflows, no document stores an element
\* without showing it in the list it was written for.
THEOREM NoElementIsHidden == Spec /\ [][~Compacts]_vars /\ [][~Fails]_vars => []AllListed
<1>1. Shown => AllListed
  BY DEF Shown
<1> QED
  BY AlwaysShown, <1>1, PTL

-----------------------------------------------------------------------------
(* Lists: what documents share.                                            *)

\* An element is stored wherever an item names it.
LEMMA RightStored ==
  ASSUME DocOK, History, NEW p \in Clients, NEW c \in Clients, NEW y, Exact(store[c], y),
         Has(store[p], y)
  PROVE  \E d \in Clients : \E m \in DOMAIN store[p][d] : store[p][d][m].id = y
<1>1. y \in Ids
  BY DEF Exact
<1>2. PICK d \in Clients : d = y[1]
  BY <1>1 DEF Ids
<1>3. PICK k \in DOMAIN store[c][d] : store[c][d][k].id = y
  BY <1>2 DEF Exact
<1>4. PICK m \in DOMAIN store[p][d] : Covers(store[p][d][m], y)
  BY <1>2 DEF Has
<1>5. /\ k \in DOMAIN store[d][d] /\ Core(store[d][d][k]) = Core(store[c][d][k])
      /\ m \in DOMAIN store[d][d] /\ Core(store[d][d][m]) = Core(store[p][d][m])
  BY <1>3, <1>4 DEF History, SameHistory
<1>6. store[d] \in Stores /\ Sorted(store[d])
  BY StoreSorted
<1>7. store[d][d][k].id = y /\ Covers(store[d][d][m], y)
  BY <1>3, <1>4, <1>5 DEF Core, Covers, End
<1>8. Covers(store[d][d][k], y)
  BY <1>5, <1>6, <1>7, EntryIs
<1>9. k = m
  BY <1>1, <1>5, <1>6, <1>7, <1>8, Apart
<1> QED
  BY <1>4, <1>5, <1>7, <1>9 DEF Core

\* An item of a list is in it wherever it is stored.
LEMMA ListedWhereStored ==
  ASSUME Shown, NEW p \in Clients, NEW d \in Clients, NEW m \in DOMAIN store[p][d],
         NEW y, y = store[p][d][m].id, NEW t \in Texts, Root(y) = t
  PROVE  y \in ToSet(list[p][t])
<1>1. store[p][d][m].parent = t
  BY DEF Shown, AllRooted, StoredRooted, AllWhole, StoredWhole, Rooted
<1> QED
  BY <1>1 DEF Shown, AllListed

\* An element's right origin is behind it at its author, and in every list
\* that has the element.
LEMMA RightListed ==
  ASSUME Shown, NEW p \in Clients, NEW t \in Texts, NEW x \in ToSet(list[p][t]),
         NEW or, or = RightOf(store[p], x), or # NoId
  PROVE  /\ x[1] \in Clients /\ x \in ToSet(list[x[1]][t])
         /\ Before(list[x[1]][t], x, or) /\ or \in ToSet(list[x[1]][t])
         /\ or \in ToSet(list[p][t])
<1>1. /\ DocOK /\ History /\ WellKept /\ Flagging /\ ShownRooted
  BY InvariantParts DEF Shown, AllRooted
<1>2. WellStored(store[p]) /\ Exact(store[p], x) /\ Root(x) = t
  BY <1>1 DEF WellKept, Flagging, ListsOK, ShownRooted
<1>3. PICK c \in Clients : \E i \in DOMAIN store[p][c] :
        Find(store[p], x) = store[p][c][i] /\ store[p][c][i].id = x
  BY <1>2, ExactFound DEF WellStored
<1>4. PICK i \in DOMAIN store[p][c] :
        Find(store[p], x) = store[p][c][i] /\ store[p][c][i].id = x
  BY <1>3
<1>5. x[1] = c /\ store[p][c][i].origin_right = or
  BY <1>2, <1>4 DEF WellStored, Sorted, Client, RightOf
\* x at its author
<1>6. /\ i \in DOMAIN store[c][c] /\ store[c][c][i].id = x
      /\ store[c][c][i].origin_right = or
  BY <1>1, <1>4, <1>5 DEF History, SameHistory, Core
<1>7. x \in ToSet(list[c][t])
  BY <1>2, <1>6, ListedWhereStored
<1>8. RightOf(store[c], x) = or
  <2>1. WellStored(store[c])
    BY <1>1 DEF WellKept
  <2> QED
    BY <1>6, <2>1, OriginIs DEF RightOf
<1>9. Before(list[c][t], x, or)
  BY <1>5, <1>7, <1>8 DEF Shown, OwnInFront
<1>10. or \in ToSet(list[c][t]) /\ Exact(store[c], or) /\ Root(or) = t
  <2>1. or \in ToSet(list[c][t]) /\ Exact(store[c], or)
    BY <1>1, <1>9, ListedFound
  <2> QED
    BY <1>1, <2>1 DEF ShownRooted
\* or at p
<1>11. Has(store[p], or)
  <2>1. store[p][c][i] \in Stored(store[p])
    BY <1>1, <1>4 DEF Stored, ToSet, DocOK, Stores
  <2> QED
    BY <1>1, <1>5, <2>1 DEF History, OriginsStored
<1>12. PICK d \in Clients : \E m \in DOMAIN store[p][d] : store[p][d][m].id = or
  BY <1>1, <1>10, <1>11, RightStored
<1>13. or \in ToSet(list[p][t])
  BY <1>10, <1>12, ListedWhereStored
<1> QED
  BY <1>5, <1>7, <1>9, <1>10, <1>13

-----------------------------------------------------------------------------
(* Lists: one order of all elements of a text.                             *)

\* lt orders U strictly and linearly, and NoId comes first.
Chained(U, lt) ==
  /\ NoId \in U
  /\ \A a \in U : << a, a >> \notin lt /\ (a = NoId \/ << NoId, a >> \in lt)
  /\ \A a, b \in U : a = b \/ << a, b >> \in lt \/ << b, a >> \in lt
  /\ \A a, b, c \in U : << a, b >> \in lt /\ << b, c >> \in lt => << a, c >> \in lt

\* What one insertion says: y stands between the elements it names.
Apt(U, lt, lo, ro) ==
  \A y \in U \ {NoId} :
    /\ lo[y] \in U /\ << lo[y], y >> \in lt
    /\ ro[y] \in U /\ (ro[y] # NoId => << y, ro[y] >> \in lt)

\* What stands between y and its left origin hangs off an element there too,
\* or has the same left origin.
Nested(U, lt, lo) ==
  \A y, e \in U \ {NoId} :
    << lo[y], e >> \in lt /\ << e, y >> \in lt => << lo[e], lo[y] >> \notin lt

\* The right origin hangs off the left origin, or off an element before it.
Hung(U, lt, lo, ro) ==
  \A y \in U \ {NoId} : ro[y] # NoId => << lo[y], lo[ro[y]] >> \notin lt

\* Of two elements with one left origin the one of the smaller client comes
\* first, unless its author had put the other one in front of an element with
\* that left origin too.
InTurn(U, lt, lo, ro) ==
  \A y, z \in U \ {NoId} :
    << y, z >> \in lt /\ lo[y] = lo[z] /\ y[1] >= z[1] =>
      ro[y] # NoId /\ lo[ro[y]] = lo[y] /\ << z, ro[y] >> \notin lt

Weave(U, lt, lo, ro) ==
  /\ Chained(U, lt) /\ Apt(U, lt, lo, ro) /\ Nested(U, lt, lo)
  /\ Hung(U, lt, lo, ro) /\ InTurn(U, lt, lo, ro)

\* ll orders U as lt does.
Agrees(U, lt, ll) == \A a, b \in U : << a, b >> \in ll <=> << a, b >> \in lt

\* The order gains x between what kl and kr say of it, and stays a weave.
Gains(U, lt, x, kl, kr, ll) ==
  /\ Agrees(U, lt, ll)
  /\ Weave(U \cup {x}, ll, kl, kr)

\* What x's author knew: l and r are neighbours among the elements A.
Known(U, lt, lo, A, x, l, r) ==
  /\ A \subseteq U /\ NoId \in A /\ l \in A /\ r \in A
  /\ \A a \in A \ {NoId} : lo[a] \in A
  /\ \A y \in U \ {NoId} : y[1] = x[1] => y \in A
  /\ r # NoId => << l, r >> \in lt
  /\ \A a \in A : << l, a >> \in lt => r # NoId /\ << a, r >> \notin lt

\* The element x of client x[1] goes right behind the elements of low, where
\* A are the elements x's author knew, l and r its neighbours among them.
LEMMA WeaveGrows ==
  ASSUME NEW U, NEW lt, NEW lo, NEW ro, Weave(U, lt, lo, ro),
         \A y \in U \ {NoId} : y[1] \in Nat,
         NEW x, x \notin U, x[1] \in Nat,
         NEW A, NEW l, NEW r, Known(U, lt, lo, A, x, l, r),
         NEW kl, NEW kr, \A y \in U \ {NoId} : kl[y] = lo[y] /\ kr[y] = ro[y],
         kl[x] = l, kr[x] = r
  PROVE  \E ll : Gains(U, lt, x, kl, kr, ll)
<1> DEFINE T == { z \in U \ {NoId} : /\ lo[z] = l /\ z[1] < x[1]
                                     /\ r = NoId \/ lo[r] # l \/ << z, r >> \in lt }
           Below(u, z) == \A n \in U : << z, n >> \in lt /\ << u, n >> \notin lt
                             => << lo[n], z >> \notin lt
           low == { u \in U : << l, u >> \notin lt \/ \E z \in T : Below(u, z) }
           ll == { d \in (U \cup {x}) \X (U \cup {x}) :
                     \/ d \in lt /\ d[1] # x /\ d[2] # x
                     \/ d[1] \in low /\ d[2] = x
                     \/ d[1] = x /\ d[2] \in U \ low }
<1>0. /\ A \subseteq U /\ NoId \in A /\ l \in A /\ r \in A
      /\ \A a \in A \ {NoId} : lo[a] \in A
      /\ \A y \in U \ {NoId} : y[1] = x[1] => y \in A
      /\ r # NoId => << l, r >> \in lt
      /\ \A a \in A : << l, a >> \in lt => r # NoId /\ << a, r >> \notin lt
  BY DEF Known
<1>1. /\ NoId \in U /\ x # NoId /\ l \in U /\ r \in U
      /\ \A a \in U : << a, a >> \notin lt /\ (a = NoId \/ << NoId, a >> \in lt)
      /\ \A a, b \in U : a = b \/ << a, b >> \in lt \/ << b, a >> \in lt
  BY <1>0 DEF Weave, Chained
<1>2. \A a, b, c \in U : << a, b >> \in lt /\ << b, c >> \in lt => << a, c >> \in lt
  BY DEF Weave, Chained
<1>3. \A y \in U \ {NoId} :
        /\ lo[y] \in U /\ << lo[y], y >> \in lt
        /\ ro[y] \in U /\ (ro[y] # NoId => << y, ro[y] >> \in lt)
  BY DEF Weave, Apt
<1>4. \A y, e \in U \ {NoId} :
        << lo[y], e >> \in lt /\ << e, y >> \in lt => << lo[e], lo[y] >> \notin lt
  BY DEF Weave, Nested
<1>5. \A y \in U \ {NoId} : ro[y] # NoId => << lo[y], lo[ro[y]] >> \notin lt
  BY DEF Weave, Hung
<1>6. \A y, z \in U \ {NoId} :
        << y, z >> \in lt /\ lo[y] = lo[z] /\ y[1] >= z[1] =>
          ro[y] # NoId /\ lo[ro[y]] = lo[y] /\ << z, ro[y] >> \notin lt
  BY DEF Weave, InTurn
\* What stands behind x.
<1>7. \A z \in T : /\ z \in U \ {NoId} /\ lo[z] = l /\ z[1] < x[1] /\ << l, z >> \in lt
                   /\ r = NoId \/ lo[r] # l \/ << z, r >> \in lt
  BY <1>3
<1>8. \A u \in low : u \in U /\ (<< l, u >> \in lt => \E z \in T : Below(u, z))
  OBVIOUS
<1>9. \A u \in U : << l, u >> \notin lt => u \in low
  OBVIOUS
<1>10. \A z \in T, u \in U : << z, u >> \notin lt => u \in low
  <2> SUFFICES ASSUME NEW z \in T, NEW u \in U, << z, u >> \notin lt PROVE Below(u, z)
    OBVIOUS
  <2>1. ASSUME NEW n \in U, << z, n >> \in lt PROVE << u, n >> \in lt
    <3>1. z \in U
      OBVIOUS
    <3> HIDE DEF T
    <3> QED
      BY <1>1, <1>2, <2>1, <3>1
  <2> QED
    BY <2>1
<1>11. \A u \in low, v \in U : << v, u >> \in lt => v \in low
  <2> SUFFICES ASSUME NEW u \in low, NEW v \in U, << v, u >> \in lt PROVE v \in low
    OBVIOUS
  <2>1. CASE << l, v >> \in lt
    <3>1. u \in U /\ l \in U
      BY <1>1
    <3>2. << l, u >> \in lt
      BY <1>2, <2>1, <3>1
    <3>3. PICK z \in T : Below(u, z)
      BY <1>8, <3>2
    <3>4. \A n \in U : << v, n >> \notin lt => << u, n >> \notin lt
      BY <1>2, <3>1
    <3>5. Below(v, z)
      BY <3>3, <3>4
    <3> QED
      BY <3>5
  <2> QED
    BY <1>9, <2>1
<1>12. \A z \in T, u \in U : Below(u, z) => \A n \in U :
         << z, n >> \in lt /\ << u, n >> \notin lt => << lo[n], z >> \notin lt
  OBVIOUS
<1>13. \A z \in T, u \in U : u \notin low =>
         \E n \in U : << z, n >> \in lt /\ << u, n >> \notin lt /\ << lo[n], z >> \in lt
  OBVIOUS
<1>14. /\ \A a, b \in U : << a, b >> \in ll <=> << a, b >> \in lt
       /\ \A a \in U : (<< a, x >> \in ll <=> a \in low) /\ (<< x, a >> \in ll <=> a \notin low)
       /\ << x, x >> \notin ll
  BY <1>8
<1> HIDE DEF T, low, ll, Below
<1>15. r # NoId => << l, lo[r] >> \notin lt
  <2> SUFFICES ASSUME r # NoId, << l, lo[r] >> \in lt PROVE FALSE
    OBVIOUS
  <2>1. << lo[r], r >> \in lt
    BY <1>1, <1>3
  <2>2. lo[r] \in A
    BY <1>0
  <2> QED
    BY <1>0, <2>1, <2>2
<1>16. r # NoId => r \notin low
  <2> SUFFICES ASSUME r # NoId, r \in low PROVE FALSE
    OBVIOUS
  <2>1. << l, r >> \in lt /\ << lo[r], r >> \in lt /\ lo[r] \in U
    BY <1>0, <1>1, <1>3
  <2>2. PICK z \in T : Below(r, z)
    BY <1>8, <2>1
  <2>3. z \in U \ {NoId} /\ lo[z] = l /\ << l, z >> \in lt
    BY <1>7
  <2>4. << z, r >> \in lt
    <3>1. CASE lo[r] = l
      BY <1>7, <3>1
    <3>2. CASE lo[r] # l
      <4>1. << lo[r], l >> \in lt
        BY <1>1, <1>15, <2>1, <3>2
      <4>2. << r, z >> \notin lt
        BY <1>1, <1>4, <2>1, <2>3, <4>1
      <4>3. r # z
        BY <2>3, <3>2
      <4> QED
        BY <1>1, <2>3, <4>2, <4>3
    <3> QED
      BY <3>1, <3>2
  <2>5. << lo[r], z >> \notin lt
    BY <1>1, <1>12, <2>2, <2>4
  <2>6. << lo[r], z >> \in lt
    <3>1. lo[r] = l \/ << lo[r], l >> \in lt
      BY <1>1, <1>15, <2>1
    <3> QED
      BY <1>1, <1>2, <2>1, <2>3, <3>1
  <2> QED
    BY <2>5, <2>6
<1>17. Chained(U \cup {x}, ll)
  <2>1. ASSUME NEW a \in U \cup {x}
        PROVE  << a, a >> \notin ll /\ (a = NoId \/ << NoId, a >> \in ll)
    <3>1. NoId \in low
      <4>1. l = NoId \/ << NoId, l >> \in lt
        BY <1>1
      <4>2. << l, NoId >> \notin lt
        BY <1>1, <1>2, <4>1
      <4> QED
        BY <1>1, <1>9, <4>2
    <3>2. << x, x >> \notin ll /\ << NoId, x >> \in ll
      BY <1>1, <1>14, <3>1
    <3>3. CASE a \in U
      <4>1. << a, a >> \notin lt /\ (a = NoId \/ << NoId, a >> \in lt) /\ NoId \in U
        BY <1>1, <3>3
      <4>2. \A b \in U : << b, a >> \in ll <=> << b, a >> \in lt
        BY <1>14, <3>3
      <4> QED
        BY <3>3, <4>1, <4>2
    <3>4. CASE a = x
      BY <3>2, <3>4
    <3> QED
      BY <3>3, <3>4
  <2>2. ASSUME NEW a \in U \cup {x}, NEW b \in U \cup {x}, a # b
        PROVE  << a, b >> \in ll \/ << b, a >> \in ll
    <3>1. CASE a = x
      BY <1>14, <2>2, <3>1
    <3>2. CASE b = x
      BY <1>14, <2>2, <3>2
    <3>3. CASE a # x /\ b # x
      BY <1>1, <1>14, <2>2, <3>3
    <3> QED
      BY <3>1, <3>2, <3>3
  <2>3. ASSUME NEW a \in U \cup {x}, NEW b \in U \cup {x}, NEW c \in U \cup {x},
               << a, b >> \in ll, << b, c >> \in ll
        PROVE  << a, c >> \in ll
    <3>1. CASE a = x
      <4>1. b \in U /\ b \notin low
        BY <1>14, <2>3, <3>1
      <4>2. c \in U /\ << b, c >> \in lt
        BY <1>14, <2>3, <4>1
      <4>3. c \notin low
        BY <1>11, <4>1, <4>2
      <4> QED
        BY <1>14, <3>1, <4>2, <4>3
    <3>2. CASE b = x
      <4>1. a \in U /\ a \in low /\ c \in U /\ c \notin low
        BY <1>14, <2>3, <3>2
      <4>2. << a, c >> \in lt
        BY <1>1, <1>11, <4>1
      <4> QED
        BY <1>14, <4>1, <4>2
    <3>3. CASE c = x /\ a # x /\ b # x
      BY <1>11, <1>14, <2>3, <3>3
    <3>4. CASE a # x /\ b # x /\ c # x
      BY <1>2, <1>14, <2>3, <3>4
    <3> QED
      BY <3>1, <3>2, <3>3, <3>4
  <2> QED
    BY <1>1, <2>1, <2>2, <2>3 DEF Chained
<1>18. Apt(U \cup {x}, ll, kl, kr)
  <2>1. << l, x >> \in ll
    BY <1>1, <1>9, <1>14
  <2>2. r # NoId => << x, r >> \in ll
    BY <1>1, <1>14, <1>16
  <2>3. ASSUME NEW y \in U \ {NoId}
        PROVE  /\ kl[y] \in U /\ << kl[y], y >> \in ll
               /\ kr[y] \in U /\ (kr[y] # NoId => << y, kr[y] >> \in ll)
    BY <1>3, <1>14
  <2> QED
    BY <1>1, <2>1, <2>2, <2>3 DEF Apt
\* x does not stand where Nested forbids.
<1>19. ASSUME NEW e \in U \ {NoId}, << l, e >> \in lt, e \in low
       PROVE  << lo[e], l >> \notin lt
  <2>1. PICK z \in T : Below(e, z)
    BY <1>8, <1>19
  <2>2. z \in U \ {NoId} /\ lo[z] = l /\ << l, z >> \in lt
    BY <1>7
  <2>3. CASE << z, e >> \in lt
    <3>1. << lo[e], z >> \notin lt
      BY <1>1, <1>12, <2>1, <2>3
    <3>2. lo[e] \in U
      BY <1>3
    <3> QED
      BY <1>1, <1>2, <2>2, <3>1, <3>2
  <2>4. CASE z = e
    BY <1>1, <2>2, <2>4
  <2>5. CASE << e, z >> \in lt
    BY <1>4, <1>19, <2>2, <2>5
  <2> QED
    BY <1>1, <2>2, <2>3, <2>4, <2>5
<1>20. ASSUME NEW y \in U \ {NoId}, lo[y] \in low, y \notin low
       PROVE  << l, lo[y] >> \notin lt
  <2> SUFFICES ASSUME << l, lo[y] >> \in lt PROVE FALSE
    OBVIOUS
  <2>1. PICK f \in U : f = lo[y] /\ f # NoId /\ << f, y >> \in lt
    <3>1. << l, NoId >> \notin lt
      <4>1. l = NoId \/ << NoId, l >> \in lt
        BY <1>1
      <4> QED
        BY <1>1, <1>2, <4>1
    <3> QED
      BY <1>3, <3>1
  <2>2. PICK z \in T : Below(f, z)
    BY <1>8, <1>20, <2>1
  <2>3. z \in U \ {NoId} /\ lo[z] = l /\ << l, z >> \in lt
    BY <1>7
  <2>4. << z, y >> \in lt
    BY <1>10, <1>20
  <2>5. << f, z >> \notin lt
    BY <1>4, <2>1, <2>3, <2>4
  <2>6. PICK n \in U : << z, n >> \in lt /\ << y, n >> \notin lt /\ << lo[n], z >> \in lt
    BY <1>13, <1>20
  <2>7. n # NoId /\ lo[n] \in U
    <3>1. n # NoId
      BY <1>1, <1>2, <2>3, <2>6
    <3> QED
      BY <1>3, <3>1
  <2>8. << f, n >> \in lt
    <3>1. ~(<< f, n >> \notin lt)
      BY <1>12, <2>2, <2>6
    <3> QED
      BY <3>1
  <2>9. << lo[n], f >> \in lt
    BY <1>1, <1>2, <2>3, <2>5, <2>6, <2>7
  <2>10. n # y
    BY <1>1, <2>1, <2>9
  <2>11. << n, y >> \in lt
    BY <1>1, <2>6, <2>10
  <2> QED
    BY <1>4, <2>1, <2>7, <2>8, <2>9, <2>11
<1>21. Nested(U \cup {x}, ll, kl)
  <2> SUFFICES ASSUME NEW y \in (U \cup {x}) \ {NoId}, NEW e \in (U \cup {x}) \ {NoId},
                      << kl[y], e >> \in ll, << e, y >> \in ll
               PROVE  << kl[e], kl[y] >> \notin ll
    BY DEF Nested
  <2>1. CASE y = x
    <3>1. e \in U \ {NoId} /\ e \in low
      BY <1>14, <2>1
    <3>2. << l, e >> \in lt /\ kl[e] = lo[e] /\ lo[e] \in U
      BY <1>1, <1>3, <1>14, <2>1, <3>1
    <3> QED
      BY <1>1, <1>14, <1>19, <2>1, <3>1, <3>2
  <2>2. CASE e = x
    <3>1. y \in U \ {NoId} /\ y \notin low /\ kl[y] = lo[y] /\ lo[y] \in U
      BY <1>3, <1>14, <2>2
    <3>2. lo[y] \in low
      BY <1>14, <2>2, <3>1
    <3> QED
      BY <1>1, <1>14, <1>20, <2>2, <3>1, <3>2
  <2>3. CASE y # x /\ e # x
    <3>1. /\ y \in U \ {NoId} /\ e \in U \ {NoId} /\ kl[y] = lo[y] /\ kl[e] = lo[e]
          /\ lo[y] \in U /\ lo[e] \in U
      BY <1>3, <2>3
    <3> QED
      BY <1>4, <1>14, <3>1
  <2> QED
    BY <2>1, <2>2, <2>3
<1>22. Hung(U \cup {x}, ll, kl, kr)
  <2>1. kr[x] # NoId => << kl[x], kl[kr[x]] >> \notin ll
    BY <1>1, <1>3, <1>14, <1>15
  <2>2. ASSUME NEW y \in U \ {NoId}, kr[y] # NoId PROVE << kl[y], kl[kr[y]] >> \notin ll
    <3>1. /\ kr[y] = ro[y] /\ ro[y] \in U \ {NoId} /\ kl[y] = lo[y] /\ kl[ro[y]] = lo[ro[y]]
          /\ lo[y] \in U /\ lo[ro[y]] \in U
      BY <1>3, <2>2
    <3> QED
      BY <1>5, <1>14, <3>1
  <2> QED
    BY <2>1, <2>2 DEF Hung
<1>23. InTurn(U \cup {x}, ll, kl, kr)
  <2>1. ASSUME NEW y \in U \ {NoId}, y \in low, lo[y] = l, y[1] >= x[1]
        PROVE  ro[y] # NoId /\ lo[ro[y]] = l /\ ro[y] \in low
    <3>1. << l, y >> \in lt
      BY <1>3, <2>1
    <3>2. PICK z \in T : Below(y, z)
      BY <1>8, <2>1, <3>1
    <3>3. z \in U \ {NoId} /\ lo[z] = l /\ z[1] < x[1] /\ << l, z >> \in lt
      BY <1>7
    <3>4. << z, y >> \notin lt
      <4>1. << y, y >> \notin lt
        BY <1>1
      <4>2. << z, y >> \in lt => << lo[y], z >> \notin lt
        BY <1>12, <3>2, <4>1
      <4> QED
        BY <2>1, <3>3, <4>2
    <3>5. z # y /\ y[1] >= z[1]
      BY <2>1, <3>3
    <3>6. << y, z >> \in lt
      BY <1>1, <3>3, <3>4, <3>5
    <3>7. ro[y] # NoId /\ lo[ro[y]] = lo[y] /\ << z, ro[y] >> \notin lt
      BY <1>6, <2>1, <3>3, <3>5, <3>6
    <3> QED
      BY <1>3, <1>10, <2>1, <3>7
  <2>2. ASSUME NEW y \in U \ {NoId}, y \notin low, lo[y] = l, x[1] >= y[1]
        PROVE  r # NoId /\ lo[r] = l /\ << y, r >> \notin lt
    <3>1. << l, y >> \in lt
      BY <1>3, <2>2
    <3>2. CASE y[1] < x[1]
      <4>1. y \notin T
        BY <1>1, <1>10, <2>2
      <4> QED
        BY <2>2, <3>2, <4>1 DEF T
    <3>3. CASE y[1] = x[1]
      <4>1. y \in A /\ r # NoId /\ << y, r >> \notin lt
        BY <1>0, <3>1, <3>3
      <4>2. CASE y = r
        BY <2>2, <4>1, <4>2
      <4>3. CASE y # r
        <5>1. << r, y >> \in lt /\ << l, r >> \in lt /\ lo[r] \in U
          BY <1>0, <1>1, <1>3, <4>1, <4>3
        <5>2. << lo[r], l >> \notin lt
          BY <1>1, <1>4, <2>2, <4>1, <5>1
        <5>3. lo[r] = l
          BY <1>1, <1>15, <4>1, <5>1, <5>2
        <5> QED
          BY <4>1, <5>3
      <4> QED
        BY <4>2, <4>3
    <3>4. y[1] \in Nat
      OBVIOUS
    <3> QED
      BY <2>2, <3>2, <3>3, <3>4
  <2> SUFFICES ASSUME NEW y \in (U \cup {x}) \ {NoId}, NEW z \in (U \cup {x}) \ {NoId},
                      << y, z >> \in ll, kl[y] = kl[z], y[1] >= z[1]
               PROVE  kr[y] # NoId /\ kl[kr[y]] = kl[y] /\ << z, kr[y] >> \notin ll
    BY DEF InTurn
  <2>3. CASE y = x
    <3>1. z \in U \ {NoId} /\ z \notin low /\ lo[z] = l
      BY <1>14, <2>3
    <3>2. r # NoId /\ lo[r] = l /\ << z, r >> \notin lt
      BY <2>2, <2>3, <3>1
    <3> QED
      BY <1>1, <1>14, <2>3, <3>1, <3>2
  <2>4. CASE z = x
    <3>1. y \in U \ {NoId} /\ y \in low /\ lo[y] = l
      BY <1>14, <2>4
    <3>2. ro[y] # NoId /\ lo[ro[y]] = l /\ ro[y] \in low /\ ro[y] \in U
      BY <1>3, <2>1, <2>4, <3>1
    <3> QED
      BY <1>14, <2>4, <3>1, <3>2
  <2>5. CASE y # x /\ z # x
    <3>1. /\ y \in U \ {NoId} /\ z \in U \ {NoId} /\ lo[y] = lo[z] /\ ro[y] \in U
          /\ << y, z >> \in lt
      BY <1>3, <1>14, <2>5
    <3>2. ro[y] # NoId /\ lo[ro[y]] = lo[y] /\ << z, ro[y] >> \notin lt
      BY <1>6, <3>1
    <3> QED
      BY <1>14, <3>1, <3>2
  <2> QED
    BY <2>3, <2>4, <2>5
<1> QED
  BY <1>14, <1>17, <1>18, <1>21, <1>22, <1>23 DEF Weave, Agrees, Gains

-----------------------------------------------------------------------------
(* Lists: the walk of integrate puts an element where the order has it.    *)

LEMMA NatGreatest ==
  ASSUME NEW T \in SUBSET Nat, T # {}, NEW b \in Nat, \A k \in T : k <= b
  PROVE  \E m \in T : \A k \in T : k <= m
<1> DEFINE H == { i \in Nat : \E k \in T : i = b - k }
<1>1. ASSUME NEW k \in T PROVE b - k \in H
  BY k \in Nat, b - k \in Nat
<1>2. PICK i \in H : \A j \in H : i <= j
  <2>1. H # {} /\ H \in SUBSET Nat
    BY <1>1
  <2> HIDE DEF H
  <2> QED
    BY <2>1, NatLeast
<1>3. PICK m \in T : i = b - m
  BY <1>2
<1>4. ASSUME NEW k \in T PROVE k <= m
  <2>1. i <= b - k
    BY <1>1, <1>2
  <2>2. k \in Nat /\ m \in Nat
    OBVIOUS
  <2> QED
    BY <1>3, <2>1, <2>2
<1> QED
  BY <1>4

\* The elements of u stand in the order lt.
Along(u, lt) == \A i, j \in DOMAIN u : i < j => << u[i], u[j] >> \in lt

\* The element at k, NoId in front of the first.
ElementAt(u, k) == IF k = 0 THEN NoId ELSE u[k]

\* The walk's own left is where it last found an item to put in front.
Rests(f, first, last) ==
  \A q \in first .. last : f[q] \in first .. q /\ \A k \in f[q] .. q : f[k] = f[q]

LEMMA WalkRests ==
  ASSUME NEW l, NEW st, NEW it, NEW first \in Nat, NEW last \in Nat, first <= last,
         NEW f, Walks(l, st, it, first, last, f)
  PROVE  Rests(f, first, last)
<1>1. \A q \in first .. last :
        f[q] = IF q = first THEN first
               ELSE IF Precedes(l, st, it, q, f[q - 1]) THEN q
               ELSE f[q - 1]
  BY DEF Walks
<1> DEFINE At(q) == f[q] \in first .. q /\ \A k \in f[q] .. q : f[k] = f[q]
           T == { n \in Nat : first + n <= last => At(first + n) }
<1>2. 0 \in T
  BY <1>1
<1>3. ASSUME NEW n \in Nat, n \in T PROVE n + 1 \in T
  <2> SUFFICES ASSUME first + (n + 1) <= last PROVE At(first + (n + 1))
    OBVIOUS
  <2>1. PICK q \in first .. last : q = first + (n + 1)
    OBVIOUS
  <2>2. q # first /\ q - 1 = first + n /\ q - 1 \in first .. last
    BY <2>1
  <2>3. At(q - 1)
    BY <1>3, <2>2
  <2>4. CASE f[q] = q
    BY <2>1, <2>4
  <2>5. CASE f[q] # q
    <3>1. f[q] = f[q - 1]
      BY <1>1, <2>2, <2>5
    <3>2. f[q] \in first .. q
      BY <2>1, <2>2, <2>3, <3>1
    <3>3. ASSUME NEW k \in f[q] .. q PROVE f[k] = f[q]
      <4>1. k = q \/ k \in f[q - 1] .. (q - 1)
        BY <2>1, <3>1, <3>2
      <4> QED
        BY <2>3, <3>1, <4>1
    <3> QED
      BY <2>1, <3>2, <3>3
  <2> QED
    BY <2>4, <2>5
<1>4. ASSUME NEW q \in first .. last PROVE At(q)
  <2>1. q - first \in Nat /\ first + (q - first) = q
    OBVIOUS
  <2>2. q - first \in T
    <3> HIDE DEF T
    <3> QED
      BY <1>2, <1>3, <2>1, SetInduction
  <2> QED
    BY <2>1, <2>2
<1> QED
  BY <1>4 DEF Rests

\* What the document sees of the items is what lo and ro say.
Mirrors(u, st, it, lo, ro) ==
  LET x == it.id IN
  /\ x[1] = Client(it) /\ it.origin_right = ro[x]
  /\ ElementAt(u, Pos(u, st, it.origin_left)) = lo[x]
  /\ ElementAt(u, Pos(u, st, it.origin_right)) = ro[x]
  /\ \A q \in DOMAIN u :
       /\ Client(Find(st, u[q])) = u[q][1]
       /\ Find(st, u[q]).origin_right = ro[u[q]]
       /\ ElementAt(u, Pos(u, st, Find(st, u[q]).origin_left)) = lo[u[q]]
       /\ SameLeft(u, st, it, q) <=> lo[u[q]] = lo[x]

\* The elements of the list and NoId, by their places.
LEMMA PlacesAlong ==
  ASSUME NEW U, NEW lt, Chained(U, lt),
         NEW u \in Seq(Ids), ToSet(u) \subseteq U \ {NoId}, Along(u, lt)
  PROVE  /\ NoRepeats(u) /\ Len(u) \in Nat
         /\ \A i \in 0 .. Len(u) : ElementAt(u, i) \in U
         /\ \A i, j \in 0 .. Len(u) :
              /\ i < j <=> << ElementAt(u, i), ElementAt(u, j) >> \in lt
              /\ i = j <=> ElementAt(u, i) = ElementAt(u, j)
<1>1. /\ NoId \in U
      /\ \A a \in U : << a, a >> \notin lt /\ (a = NoId \/ << NoId, a >> \in lt)
      /\ \A a, b, c \in U : << a, b >> \in lt /\ << b, c >> \in lt => << a, c >> \in lt
  BY DEF Chained
<1>2. Len(u) \in Nat /\ DOMAIN u = 1 .. Len(u)
  OBVIOUS
<1>3. \A i \in DOMAIN u : u[i] \in U \ {NoId}
  BY DEF ToSet
<1>4. \A i \in 0 .. Len(u) : ElementAt(u, i) \in U
  BY <1>1, <1>2, <1>3 DEF ElementAt
<1>5. ASSUME NEW i \in 0 .. Len(u), NEW j \in 0 .. Len(u), i < j
      PROVE  << ElementAt(u, i), ElementAt(u, j) >> \in lt
  <2>1. j \in DOMAIN u /\ ElementAt(u, j) = u[j] /\ u[j] \in U \ {NoId}
    BY <1>2, <1>3, <1>5 DEF ElementAt
  <2>2. CASE i = 0
    BY <1>1, <2>1, <2>2 DEF ElementAt
  <2>3. CASE i # 0
    <3>1. i \in DOMAIN u /\ ElementAt(u, i) = u[i]
      BY <1>2, <2>3 DEF ElementAt
    <3> QED
      BY <1>5, <2>1, <3>1 DEF Along
  <2> QED
    BY <2>2, <2>3
<1>6. ASSUME NEW i \in 0 .. Len(u), NEW j \in 0 .. Len(u)
      PROVE  /\ i < j <=> << ElementAt(u, i), ElementAt(u, j) >> \in lt
             /\ i = j <=> ElementAt(u, i) = ElementAt(u, j)
  <2>1. ElementAt(u, i) \in U /\ ElementAt(u, j) \in U
    BY <1>4
  <2>2. CASE i < j
    BY <1>1, <1>2, <1>5, <2>1, <2>2
  <2>3. CASE i = j
    <3> DEFINE e == ElementAt(u, i)
    <3>1. ElementAt(u, j) = e
      BY <2>3
    <3>2. << e, e >> \notin lt
      BY <1>1, <2>1
    <3>3. ~(i < j)
      BY <1>2, <2>3
    <3> HIDE DEF e
    <3>4. ~(<< e, ElementAt(u, j) >> \in lt)
      BY <3>1, <3>2
    <3> QED
      BY <2>3, <3>1, <3>3, <3>4 DEF e
  <2>4. CASE j < i
    BY <1>1, <1>2, <1>5, <2>1, <2>4
  <2> QED
    BY <1>2, <2>2, <2>3, <2>4
<1>7. NoRepeats(u)
  <2> SUFFICES ASSUME NEW i \in DOMAIN u, NEW j \in DOMAIN u, u[i] = u[j] PROVE i = j
    BY DEF NoRepeats
  <2>1. i \in 0 .. Len(u) /\ j \in 0 .. Len(u) /\ ElementAt(u, i) = ElementAt(u, j)
    BY <1>2 DEF ElementAt
  <2> QED
    BY <1>6, <2>1
<1> QED
  BY <1>2, <1>4, <1>6, <1>7

\* Where the walk goes, in terms of the order.
LEMMA ZoneAlong ==
  ASSUME NEW U, NEW lt, NEW lo, NEW ro, Weave(U, lt, lo, ro),
         NEW u \in Seq(Ids), ToSet(u) \subseteq U \ {NoId}, Along(u, lt),
         NEW st, NEW it, NEW x \in U \ {NoId}, x = it.id, x \notin ToSet(u),
         Mirrors(u, st, it, lo, ro),
         NEW first, first = ZoneStart(u, st, it),
         NEW limit, limit = ZoneLimit(u, st, it)
  PROVE  /\ first \in 0 .. Len(u) /\ limit \in 1 .. (Len(u) + 1) /\ first < limit
         /\ \A q \in 0 .. Len(u) : first < q <=> << lo[x], ElementAt(u, q) >> \in lt
         /\ \A q \in 0 .. Len(u) : q < limit <=>
              ro[x] = NoId \/ << ElementAt(u, q), ro[x] >> \in lt
         /\ \A q \in 0 .. Len(u) : << ElementAt(u, q), x >> \in lt => q < limit
         /\ \A q \in 1 .. Len(u) : \A k : k = Pos(u, st, Find(st, u[q]).origin_left) =>
              /\ k \in 0 .. Len(u) /\ k < q /\ ElementAt(u, k) = lo[u[q]]
              /\ first < k <=> << lo[x], lo[u[q]] >> \in lt
<1>1. /\ NoId \in U
      /\ \A a \in U : << a, a >> \notin lt /\ (a = NoId \/ << NoId, a >> \in lt)
      /\ \A a, b, c \in U : << a, b >> \in lt /\ << b, c >> \in lt => << a, c >> \in lt
  BY DEF Weave, Chained
<1>2. /\ NoRepeats(u) /\ Len(u) \in Nat /\ DOMAIN u = 1 .. Len(u)
      /\ \A i \in 0 .. Len(u) : ElementAt(u, i) \in U
  BY PlacesAlong DEF Weave
<1>3. \A i, j \in 0 .. Len(u) : i < j <=> << ElementAt(u, i), ElementAt(u, j) >> \in lt
  BY PlacesAlong DEF Weave
<1>4. \A y \in U \ {NoId} :
        /\ lo[y] \in U /\ << lo[y], y >> \in lt
        /\ ro[y] \in U /\ (ro[y] # NoId => << y, ro[y] >> \in lt)
  BY DEF Weave, Apt
<1>5. /\ first = Pos(u, st, it.origin_left) /\ ElementAt(u, first) = lo[x]
      /\ first \in 0 .. Len(u)
  BY <1>2, PosIs DEF ZoneStart, Mirrors
<1>6. PICK k \in 0 .. Len(u) : k = Pos(u, st, it.origin_right) /\ ElementAt(u, k) = ro[x]
  BY <1>2, PosIs DEF Mirrors
<1>7. limit = IF k > first THEN k ELSE Len(u) + 1
  BY <1>5, <1>6 DEF ZoneLimit, ZoneStart
<1>8. ro[x] # NoId => k > first
  <2> SUFFICES ASSUME ro[x] # NoId PROVE << lo[x], ro[x] >> \in lt
    BY <1>3, <1>5, <1>6
  <2> QED
    BY <1>1, <1>4
<1>9. ro[x] = NoId => ~(k > first)
  <2>1. ASSUME NEW a \in U PROVE << a, NoId >> \notin lt
    BY <1>1
  <2>2. k > first => << ElementAt(u, first), ro[x] >> \in lt
    BY <1>2, <1>3, <1>5, <1>6
  <2> QED
    BY <1>2, <1>5, <2>1, <2>2
<1>10. /\ limit \in 1 .. (Len(u) + 1) /\ first < limit
       /\ ro[x] # NoId => limit = k
       /\ ro[x] = NoId => limit = Len(u) + 1
  BY <1>2, <1>5, <1>6, <1>7, <1>8, <1>9
<1>11. \A q \in 0 .. Len(u) : q < limit <=>
         ro[x] = NoId \/ << ElementAt(u, q), ro[x] >> \in lt
  BY <1>2, <1>3, <1>6, <1>10
<1>12. ASSUME NEW q \in 0 .. Len(u), << ElementAt(u, q), x >> \in lt PROVE q < limit
  <2>1. ro[x] # NoId => << ElementAt(u, q), ro[x] >> \in lt
    BY <1>1, <1>2, <1>4, <1>12
  <2> QED
    BY <1>11, <2>1
<1>13. ASSUME NEW q \in 1 .. Len(u), NEW j, j = Pos(u, st, Find(st, u[q]).origin_left)
       PROVE  /\ j \in 0 .. Len(u) /\ j < q /\ ElementAt(u, j) = lo[u[q]]
              /\ first < j <=> << lo[x], lo[u[q]] >> \in lt
  <2>1. j \in 0 .. Len(u)
    BY <1>2, <1>13, PosIs
  <2>2. ElementAt(u, j) = lo[u[q]]
    BY <1>2, <1>13 DEF Mirrors
  <2>3. u[q] \in U \ {NoId} /\ ElementAt(u, q) = u[q] /\ q \in 0 .. Len(u)
    BY <1>2 DEF ToSet, ElementAt
  <2>4. j < q
    BY <1>3, <1>4, <2>1, <2>2, <2>3
  <2> QED
    BY <1>3, <1>5, <2>1, <2>2, <2>4
<1> QED
  BY <1>3, <1>5, <1>10, <1>11, <1>12, <1>13

\* The walk puts the new element where the order has it.
LEMMA SpliceAlong ==
  ASSUME NEW U, NEW lt, NEW lo, NEW ro, Weave(U, lt, lo, ro),
         \A y \in U \ {NoId} : y[1] \in Nat,
         NEW u \in Seq(Ids), ToSet(u) \subseteq U \ {NoId}, Along(u, lt),
         \A y \in ToSet(u) : ro[y] \in ToSet(u) \cup {NoId},
         NEW st, NEW it, NEW x \in U \ {NoId}, x = it.id, x \notin ToSet(u),
         Mirrors(u, st, it, lo, ro),
         NEW at, at = SplicePoint(u, st, it)
  PROVE  /\ at \in 0 .. Len(u)
         /\ \A q \in 1 .. at : << u[q], x >> \in lt
         /\ \A q \in (at + 1) .. Len(u) : << x, u[q] >> \in lt
<1>1. /\ NoId \in U
      /\ \A a \in U : << a, a >> \notin lt /\ (a = NoId \/ << NoId, a >> \in lt)
      /\ \A a, b \in U : a = b \/ << a, b >> \in lt \/ << b, a >> \in lt
      /\ \A a, b, c \in U : << a, b >> \in lt /\ << b, c >> \in lt => << a, c >> \in lt
  BY DEF Weave, Chained
<1>2. \A y \in U \ {NoId} :
        /\ lo[y] \in U /\ << lo[y], y >> \in lt
        /\ ro[y] \in U /\ (ro[y] # NoId => << y, ro[y] >> \in lt)
  BY DEF Weave, Apt
<1>3. \A y, e \in U \ {NoId} :
        << lo[y], e >> \in lt /\ << e, y >> \in lt => << lo[e], lo[y] >> \notin lt
  BY DEF Weave, Nested
<1>4. \A y, z \in U \ {NoId} :
        << y, z >> \in lt /\ lo[y] = lo[z] /\ y[1] >= z[1] =>
          ro[y] # NoId /\ lo[ro[y]] = lo[y] /\ << z, ro[y] >> \notin lt
  BY DEF Weave, InTurn
<1>5. /\ NoRepeats(u) /\ Len(u) \in Nat /\ DOMAIN u = 1 .. Len(u)
      /\ \A i \in 0 .. Len(u) : ElementAt(u, i) \in U
      /\ \A i, j \in 0 .. Len(u) : i < j <=> << ElementAt(u, i), ElementAt(u, j) >> \in lt
      /\ \A q \in 1 .. Len(u) : /\ u[q] \in U \ {NoId} /\ u[q] # x /\ u[q] = ElementAt(u, q)
                                /\ u[q] \in ToSet(u)
  <2>1. \A q \in 1 .. Len(u) : u[q] \in ToSet(u) /\ u[q] = ElementAt(u, q)
    BY DEF ToSet, ElementAt
  <2>2. /\ NoRepeats(u) /\ Len(u) \in Nat
        /\ \A i \in 0 .. Len(u) : ElementAt(u, i) \in U
        /\ \A i, j \in 0 .. Len(u) : i < j <=> << ElementAt(u, i), ElementAt(u, j) >> \in lt
    BY PlacesAlong DEF Weave
  <2>3. \A q \in 1 .. Len(u) : u[q] \in U \ {NoId} /\ u[q] # x
    BY <2>1
  <2> QED
    BY <2>1, <2>2, <2>3
<1> DEFINE v(q) == ElementAt(u, q)
           left(q) == Pos(u, st, Find(st, u[q]).origin_left)
<1>6. PICK first, limit, end : /\ first = ZoneStart(u, st, it) /\ limit = ZoneLimit(u, st, it)
                               /\ end = ZoneEnd(u, st, it)
  OBVIOUS
<1>7. /\ first \in 0 .. Len(u) /\ limit \in 1 .. (Len(u) + 1) /\ first < limit
      /\ v(first) = lo[x]
      /\ \A q \in 0 .. Len(u) : first < q <=> << lo[x], v(q) >> \in lt
      /\ \A q \in 0 .. Len(u) : q < limit <=> ro[x] = NoId \/ << v(q), ro[x] >> \in lt
      /\ \A q \in 0 .. Len(u) : << v(q), x >> \in lt => q < limit
      /\ \A q \in 1 .. Len(u) :
              /\ left(q) \in 0 .. Len(u) /\ left(q) < q /\ v(left(q)) = lo[u[q]]
              /\ first < left(q) <=> << lo[x], lo[u[q]] >> \in lt
  BY <1>6, ZoneAlong DEF Mirrors, ZoneStart
<1>8. /\ end \in Nat /\ first < end /\ end <= limit
      /\ end < limit => Stops(u, st, it, end)
      /\ first \in Nat /\ limit \in Nat
  <2> DEFINE stops == { q \in (first + 1) .. (limit - 1) : Stops(u, st, it, q) }
  <2>1. end \in Nat /\ first < end /\ end <= limit /\ first \in Nat /\ limit \in Nat
    BY <1>5, <1>6, ZoneIs
  <2>2. end = IF stops = {} THEN limit
              ELSE CHOOSE q \in stops : \A r \in stops : q <= r
    BY <1>6 DEF ZoneEnd
  <2>3. ASSUME stops # {} PROVE end \in stops
    <3>1. stops \in SUBSET Nat
      BY <2>1
    <3>2. \E q \in stops : \A r \in stops : q <= r
      BY <2>3, <3>1, NatLeast
    <3> QED
      BY <2>2, <2>3, <3>2
  <2> QED
    BY <2>1, <2>2, <2>3
<1>9. PICK f : Walks(u, st, it, first, end - 1, f) /\ at = f[end - 1]
  <2> DEFINE w == CHOOSE f : Walks(u, st, it, first, end - 1, f)
  <2>1. at = w[end - 1]
    BY <1>6, Zenon DEF SplicePoint, Walks
  <2>2. end - 1 \in Nat /\ first <= end - 1
    BY <1>8
  <2>3. Walks(u, st, it, first, end - 1, w)
    <3> HIDE DEF w
    <3>1. \E f : Walks(u, st, it, first, end - 1, f)
      BY <1>8, <2>2, WalkExists
    <3> QED
      BY <3>1 DEF w
  <2> HIDE DEF w
  <2> QED
    BY <2>1, <2>3
<1>10. PICK last \in first .. Len(u) : last = end - 1 /\ last < limit
  BY <1>5, <1>7, <1>8
<1>11. \A q \in first .. last :
         f[q] = IF q = first THEN first
                ELSE IF Precedes(u, st, it, q, f[q - 1]) THEN q
                ELSE f[q - 1]
  BY <1>9, <1>10, Zenon DEF Walks
<1>12. \A q \in first .. last : f[q] \in first .. q /\ \A k \in f[q] .. q : f[k] = f[q]
  <2>1. first \in Nat
    BY <1>8
  <2>2. last \in Nat /\ first <= last
    BY <1>8, <1>10
  <2>3. Walks(u, st, it, first, last, f)
    BY <1>9, <1>10
  <2>4. Rests(f, first, last)
    BY <2>1, <2>2, <2>3, WalkRests
  <2> QED
    BY <2>4 DEF Rests
<1>13. at \in first .. last /\ at = f[last] /\ last \in first .. last
  BY <1>8, <1>9, <1>10, <1>12
<1>14. ASSUME NEW q \in (at + 1) .. last PROVE ~Precedes(u, st, it, q, at)
  <2>1. q \in first .. last /\ q # first /\ q - 1 \in at .. last /\ q \in at .. last /\ q # at
    BY <1>8, <1>13
  <2>2. f[q] = at /\ f[q - 1] = at
    BY <1>12, <1>13, <2>1
  <2> QED
    BY <1>11, <2>1, <2>2
\* The breaks and the order of the walk.
<1>15. ASSUME NEW q \in 1 .. Len(u)
       PROVE  /\ Stops(u, st, it, q) <=>
                   \/ lo[u[q]] = lo[x] /\ u[q][1] >= x[1] /\ ro[u[q]] = ro[x]
                   \/ lo[u[q]] # lo[x] /\ << lo[x], lo[u[q]] >> \notin lt
              /\ \A m : Precedes(u, st, it, q, m) <=>
                   \/ lo[u[q]] = lo[x] /\ u[q][1] < x[1]
                   \/ lo[u[q]] # lo[x] /\ << lo[x], lo[u[q]] >> \in lt /\ left(q) <= m
  <2>1. /\ x[1] = Client(it) /\ it.origin_right = ro[x]
        /\ Client(Find(st, u[q])) = u[q][1] /\ Find(st, u[q]).origin_right = ro[u[q]]
        /\ SameLeft(u, st, it, q) <=> lo[u[q]] = lo[x]
    BY <1>5 DEF Mirrors
  <2>2. OriginWalked(u, st, it, q) <=> << lo[x], lo[u[q]] >> \in lt
    <3>1. PICK k : k = left(q)
      OBVIOUS
    <3>2. k \in 0 .. Len(u) /\ k < q /\ (first < k <=> << lo[x], lo[u[q]] >> \in lt)
      BY <1>7, <3>1
    <3>3. OriginWalked(u, st, it, q) <=> k \in (first + 1) .. q
      BY <1>6, <3>1 DEF OriginWalked
    <3>4. k \in (first + 1) .. q <=> first < k
      BY <1>5, <1>8, <3>2
    <3> QED
      BY <3>2, <3>3, <3>4
  <2> QED
    BY <2>1, <2>2 DEF Stops, Precedes
<1> HIDE DEF left
<1>16. ASSUME NEW q \in 1 .. Len(u), first < q, << u[q], x >> \in lt
       PROVE  ~Stops(u, st, it, q) /\ << lo[u[q]], lo[x] >> \notin lt
  <2>1. << lo[x], u[q] >> \in lt
    BY <1>5, <1>7, <1>16
  <2>2. << lo[u[q]], lo[x] >> \notin lt
    BY <1>3, <1>5, <1>16, <2>1
  <2>3. lo[u[q]] \in U /\ lo[x] \in U
    BY <1>2, <1>5
  <2>4. lo[u[q]] # lo[x] => << lo[x], lo[u[q]] >> \in lt
    BY <1>1, <2>2, <2>3
  <2>5. ASSUME lo[u[q]] = lo[x], u[q][1] >= x[1], ro[u[q]] = ro[x] PROVE FALSE
    <3>1. ro[u[q]] # NoId /\ << x, ro[u[q]] >> \notin lt
      BY <1>4, <1>5, <1>16, <2>5
    <3> QED
      BY <1>2, <2>5, <3>1
  <2> QED
    BY <1>15, <2>2, <2>4, <2>5
<1>17. ASSUME NEW q \in 1 .. Len(u), << u[q], x >> \in lt PROVE q <= last
  <2> SUFFICES ASSUME ~(q <= last) PROVE FALSE
    OBVIOUS
  <2>1. q < limit /\ end <= q /\ end < limit
    BY <1>5, <1>7, <1>8, <1>10, <1>17
  <2>2. end \in 1 .. Len(u) /\ first < end
    BY <1>5, <1>7, <1>8, <2>1
  <2>3. end = q \/ << u[end], u[q] >> \in lt
    BY <1>5, <1>8, <2>1, <2>2
  <2>4. << u[end], x >> \in lt
    BY <1>1, <1>5, <1>17, <2>2, <2>3
  <2> QED
    BY <1>8, <1>16, <2>1, <2>2, <2>4
\* What is put in front belongs there.
<1>18. ASSUME NEW q \in (first + 1) .. last, NEW m \in 0 .. (q - 1), << v(m), x >> \in lt,
              Precedes(u, st, it, q, m)
       PROVE  << u[q], x >> \in lt
  <2> SUFFICES ASSUME << u[q], x >> \notin lt PROVE FALSE
    OBVIOUS
  <2>1. q \in 1 .. Len(u) /\ q < limit /\ m \in 0 .. Len(u)
    BY <1>5, <1>8, <1>10
  <2>2. << x, u[q] >> \in lt
    BY <1>1, <1>5, <2>1
  <2>3. CASE lo[u[q]] = lo[x] /\ u[q][1] < x[1]
    <3>1. x[1] >= u[q][1]
      BY <1>5, <2>1, <2>3
    <3>2. ro[x] # NoId /\ << u[q], ro[x] >> \notin lt
      BY <1>4, <1>5, <2>1, <2>2, <2>3, <3>1
    <3> QED
      BY <1>5, <1>7, <2>1, <3>2
  <2>4. CASE << lo[x], lo[u[q]] >> \in lt /\ left(q) <= m
    <3>1. PICK j \in 0 .. Len(u) : j = left(q) /\ v(j) = lo[u[q]] /\ j <= m
      BY <1>7, <2>1, <2>4
    <3>2. j = m \/ << v(j), v(m) >> \in lt
      BY <1>5, <2>1, <3>1
    <3>3. << lo[u[q]], x >> \in lt
      BY <1>1, <1>5, <1>18, <2>1, <3>1, <3>2
    <3> QED
      BY <1>3, <1>5, <2>1, <2>2, <2>4, <3>3
  <2> QED
    BY <1>15, <1>18, <2>1, <2>3, <2>4
<1>19. ASSUME NEW q \in first .. last PROVE << v(f[q]), x >> \in lt
  <2> DEFINE T == { n \in Nat : first + n <= last => << v(f[first + n]), x >> \in lt }
  <2>1. 0 \in T
    <3>1. f[first] = first /\ first + 0 = first
      BY <1>8, <1>11, <1>13
    <3> QED
      BY <1>2, <1>7, <3>1
  <2>2. ASSUME NEW n \in Nat, n \in T PROVE n + 1 \in T
    <3> SUFFICES ASSUME first + (n + 1) <= last PROVE << v(f[first + (n + 1)]), x >> \in lt
      OBVIOUS
    <3>1. PICK k \in (first + 1) .. last : k = first + (n + 1)
      BY <1>8, <1>10
    <3>2. k - 1 = first + n /\ k - 1 \in first .. last /\ k \in first .. last /\ k # first
      BY <1>8, <3>1
    <3>3. << v(f[k - 1]), x >> \in lt
      BY <1>10, <2>2, <3>2
    <3> HIDE DEF T
    <3>4. CASE Precedes(u, st, it, k, f[k - 1])
      <4>1. f[k] = k
        BY <1>11, <3>2, <3>4
      <4>2. f[k - 1] \in 0 .. (k - 1)
        BY <1>8, <1>12, <3>2
      <4>3. << u[k], x >> \in lt
        BY <1>18, <3>3, <3>4, <4>2
      <4>4. k \in 1 .. Len(u)
        BY <1>8, <1>10, <3>1
      <4> QED
        BY <1>5, <3>1, <4>1, <4>3, <4>4
    <3>5. CASE ~Precedes(u, st, it, k, f[k - 1])
      <4>1. f[k] = f[k - 1]
        BY <1>11, <3>2, <3>5
      <4> QED
        BY <3>1, <3>3, <4>1
    <3> QED
      BY <3>4, <3>5
  <2>3. q - first \in Nat /\ first + (q - first) = q /\ q <= last
    BY <1>8, <1>10
  <2>4. q - first \in T
    <3> HIDE DEF T
    <3> QED
      BY <2>1, <2>2, <2>3, SetInduction
  <2> QED
    BY <2>3, <2>4
<1>20. ASSUME NEW q \in 1 .. at PROVE << u[q], x >> \in lt
  <2>1. << v(at), x >> \in lt /\ at \in 0 .. Len(u) /\ q \in 1 .. Len(u)
    BY <1>8, <1>10, <1>13, <1>19
  <2>2. q = at \/ << v(q), v(at) >> \in lt
    BY <1>5, <2>1
  <2> QED
    BY <1>1, <1>5, <2>1, <2>2
\* What is not belongs behind.
<1>21. ASSUME NEW q \in (at + 1) .. Len(u), << u[q], x >> \in lt PROVE FALSE
  <2>1. PICK n \in 1 .. Len(u) : n = at + 1 /\ n <= q /\ q \in 1 .. Len(u) /\ first < n
    BY <1>8, <1>10, <1>13
  <2>2. << u[n], x >> \in lt
    <3>1. n = q \/ << u[n], u[q] >> \in lt
      BY <1>5, <2>1
    <3> QED
      BY <1>1, <1>5, <1>21, <2>1, <3>1
  <2>3. n \in (at + 1) .. last /\ ~Precedes(u, st, it, n, at)
    BY <1>10, <1>13, <1>14, <1>17, <2>1, <2>2
  <2>4. << lo[u[n]], lo[x] >> \notin lt /\ lo[u[n]] \in U /\ lo[x] \in U
    BY <1>2, <1>5, <1>16, <2>1, <2>2
  <2>5. lo[u[n]] = lo[x]
    <3> SUFFICES ASSUME lo[u[n]] # lo[x] PROVE FALSE
      OBVIOUS
    <3>1. << lo[x], lo[u[n]] >> \in lt
      BY <1>1, <2>4
    <3>2. left(n) <= at
      <4>1. PICK j \in 0 .. Len(u) : j = left(n) /\ j < n
        BY <1>7, <2>1
      <4> QED
        BY <1>5, <1>8, <1>10, <1>13, <2>1, <4>1
    <3> QED
      BY <1>15, <2>1, <2>3, <3>1, <3>2
  <2> DEFINE G == { m \in n .. Len(u) : lo[u[m]] = lo[x] /\ << u[m], x >> \in lt }
  <2>6. PICK m \in G : \A k \in G : k <= m
    <3>1. n \in G
      BY <2>1, <2>2, <2>5
    <3>2. G \in SUBSET Nat /\ \A k \in G : k <= Len(u)
      BY <2>1
    <3> HIDE DEF G
    <3> QED
      BY <1>5, <3>1, <3>2, NatGreatest
  <2>7. m \in 1 .. Len(u) /\ lo[u[m]] = lo[x] /\ << u[m], x >> \in lt /\ m > at
    BY <1>5, <1>8, <1>13, <2>1, <2>6
  <2>8. m \in (at + 1) .. last
    BY <1>8, <1>10, <1>13, <1>17, <2>7
  <2>9. u[m][1] >= x[1]
    <3>1. ~(u[m][1] < x[1])
      BY <1>14, <1>15, <2>7, <2>8
    <3>2. u[m][1] \in Nat /\ x[1] \in Nat
      BY <1>5, <2>7
    <3> QED
      BY <3>1, <3>2
  <2>10. ro[u[m]] # NoId /\ lo[ro[u[m]]] = lo[x] /\ << x, ro[u[m]] >> \notin lt
    BY <1>4, <1>5, <2>7, <2>9
  <2>11. ro[u[m]] \in ToSet(u)
    BY <1>5, <2>7, <2>10
  <2>12. PICK k \in 1 .. Len(u) : u[k] = ro[u[m]]
    BY <1>5, <2>11 DEF ToSet
  <2>13. << u[k], x >> \in lt
    BY <1>1, <1>5, <2>10, <2>12
  <2>14. << u[m], u[k] >> \in lt
    BY <1>2, <1>5, <2>7, <2>10, <2>12
  <2>15. m < k
    BY <1>5, <2>7, <2>12, <2>14
  <2>16. k \in G
    BY <1>5, <2>1, <2>6, <2>7, <2>10, <2>12, <2>13, <2>15
  <2> QED
    BY <2>6, <2>7, <2>15, <2>16
<1> QED
  <2>1. at \in 0 .. Len(u)
    BY <1>8, <1>10, <1>13
  <2>2. ASSUME NEW q \in (at + 1) .. Len(u) PROVE << x, u[q] >> \in lt
    <3>1. q \in 1 .. Len(u)
      BY <1>5, <2>1
    <3>2. << u[q], x >> \notin lt
      BY <1>21
    <3> QED
      BY <1>1, <1>5, <3>1, <3>2
  <2> QED
    BY <1>20, <2>1, <2>2

-----------------------------------------------------------------------------
(* Lists: the origins as elements of the list.                             *)

\* A left origin is the last clock of an item (id_after).
Ended(st) ==
  \A c \in Clients : \A i \in DOMAIN st[c] :
    LET ol == st[c][i].origin_left IN ol # NoId => ol = LastId(Find(st, ol))

OwnEnded ==
  \A c \in Clients : \A i \in DOMAIN store[c][c] :
    LET ol == store[c][c][i].origin_left IN ol # NoId => ol = LastId(Find(store[c], ol))

\* Where both stores have an item they have the same one.
Alike(st, u) ==
  \A c \in Clients : \A i \in DOMAIN st[c] \cap DOMAIN u[c] : Core(st[c][i]) = Core(u[c][i])

LEMMA FoundAlike ==
  ASSUME NEW st, NEW u, st \in Stores, Sorted(st), u \in Stores, Sorted(u), Alike(st, u),
         NEW x \in Ids, Has(st, x), Has(u, x)
  PROVE  Core(Find(st, x)) = Core(Find(u, x))
<1>1. PICK c \in Clients : c = x[1]
  BY DEF Ids
<1>2. PICK i \in DOMAIN st[c] : Find(st, x) = st[c][i] /\ Covers(st[c][i], x)
  BY <1>1, FindStored
<1>3. PICK j \in DOMAIN u[c] : Find(u, x) = u[c][j] /\ Covers(u[c][j], x)
  BY <1>1, FindStored
<1>4. /\ i \in 1 .. Len(st[c]) /\ Len(st[c]) \in Nat /\ DOMAIN st[c] = 1 .. Len(st[c])
      /\ j \in 1 .. Len(u[c]) /\ Len(u[c]) \in Nat /\ DOMAIN u[c] = 1 .. Len(u[c])
  <2>1. st[c] \in Seq(Items) /\ u[c] \in Seq(Items)
    BY DEF Stores
  <2> QED
    BY <2>1
<1>5. CASE i <= j
  <2>1. i \in DOMAIN u[c]
    BY <1>4, <1>5
  <2>2. Covers(u[c][i], x)
    BY <1>2, <2>1 DEF Alike, Core, Covers, End
  <2>3. i = j
    BY <1>3, <2>1, <2>2, Apart
  <2> QED
    BY <1>2, <1>3, <2>1, <2>3 DEF Alike
<1>6. CASE j <= i
  <2>1. j \in DOMAIN st[c]
    BY <1>4, <1>6
  <2>2. Covers(st[c][j], x)
    BY <1>3, <2>1 DEF Alike, Core, Covers, End
  <2>3. i = j
    BY <1>2, <2>1, <2>2, Apart
  <2> QED
    BY <1>2, <1>3, <2>1, <2>3 DEF Alike
<1> QED
  BY <1>4, <1>5, <1>6

\* What an element stands between is the same in both stores.
LEMMA SidesAlike ==
  ASSUME NEW st, NEW u, WellStored(st), WellStored(u), Alike(st, u),
         NEW y, Exact(st, y), Exact(u, y)
  PROVE  OriginOf(u, y) = OriginOf(st, y) /\ RightOf(u, y) = RightOf(st, y)
<1>1. st \in Stores /\ Sorted(st) /\ u \in Stores /\ Sorted(u)
  BY DEF WellStored
<1>2. y \in Ids /\ Has(st, y) /\ Has(u, y)
  BY <1>1, ExactFound
<1>3. Core(Find(st, y)) = Core(Find(u, y))
  BY <1>1, <1>2, FoundAlike
<1>4. PICK c \in Clients : \E i \in DOMAIN st[c] : Find(st, y) = st[c][i]
  BY <1>1, ExactFound
<1>5. PICK d \in Clients : \E i \in DOMAIN u[d] : Find(u, y) = u[d][i]
  BY <1>1, ExactFound
<1>6. PICK ol : ol = Find(st, y).origin_left /\ ol = Find(u, y).origin_left
  BY <1>3 DEF Core
<1>7. RightOf(u, y) = RightOf(st, y)
  BY <1>3 DEF RightOf, Core
<1>8. CASE ol = NoId
  BY <1>6, <1>7, <1>8 DEF OriginOf
<1>9. CASE ol # NoId
  <2>1. Has(st, ol) /\ Has(u, ol)
    BY <1>4, <1>5, <1>6, <1>9 DEF WellStored
  <2>2. ol \in Ids
    <3>1. Find(st, y) \in Items
      BY <1>1, <1>2, FindStored
    <3> QED
      BY <1>6, <1>9, <3>1 DEF Items, OptIds
  <2>3. Core(Find(st, ol)) = Core(Find(u, ol))
    BY <1>1, <2>1, <2>2, FoundAlike
  <2>4. Find(st, ol).id = Find(u, ol).id
    BY <2>3 DEF Core
  <2>5. OriginOf(u, y) = OriginOf(st, y)
    BY <1>6, <1>9, <2>1, <2>4 DEF OriginOf
  <2> QED
    BY <1>7, <2>5
<1> QED
  BY <1>8, <1>9

\* The document finds each element between the two it stands between.
LEMMA FoundBetween ==
  ASSUME NEW st, WellStored(st), NEW u \in Seq(Ids), NoRepeats(u),
         NEW y, Exact(st, y), NEW it, it = Find(st, y),
         NEW a \in ToSet(u) \cup {NoId}, a = OriginOf(st, y)
  PROVE  /\ it.id = y /\ Client(it) = y[1] /\ it.origin_right = RightOf(st, y)
         /\ ElementAt(u, Pos(u, st, it.origin_left)) = a
<1>1. st \in Stores /\ Sorted(st)
  BY DEF WellStored
<1>2. PICK c \in Clients : \E i \in DOMAIN st[c] : it = st[c][i] /\ it.id = y
  BY <1>1, ExactFound
<1>3. it.id = y /\ Client(it) = y[1] /\ it.origin_right = RightOf(st, y)
  BY <1>2 DEF Client, RightOf
<1>4. PICK ol : ol = it.origin_left
  OBVIOUS
<1>5. CASE ol = NoId
  <2>1. a = NoId
    BY <1>4, <1>5 DEF OriginOf
  <2>2. ~Has(st, ol)
    BY <1>5 DEF Has, Covers
  <2>3. Pos(u, st, ol) = 0
    BY <2>2 DEF Pos
  <2> QED
    BY <1>3, <1>4, <2>1, <2>3 DEF ElementAt
<1>6. CASE ol # NoId
  <2>1. Has(st, ol) /\ ol \in Ids
    BY <1>1, <1>2, <1>4, <1>6, EntryIs DEF WellStored, Items, OptIds
  <2>2. a = Find(st, ol).id
    BY <1>4, <1>6, <2>1 DEF OriginOf
  <2>3. a # NoId
    <3>1. Find(st, ol) \in Items
      BY <1>1, <2>1, FindStored
    <3> QED
      BY <2>2, <3>1, ItemIds, IdsSet
  <2>4. PICK i \in DOMAIN u : u[i] = a
    BY <2>3 DEF ToSet
  <2>5. Pos(u, st, ol) = i /\ i # 0
    BY <2>1, <2>2, <2>4, PosIs
  <2> QED
    BY <1>3, <1>4, <2>4, <2>5 DEF ElementAt
<1> QED
  BY <1>5, <1>6

\* Two items name the same left origin when they stand behind the same element.
LEMMA SameOrigin ==
  ASSUME NEW st, WellStored(st), Ended(st), NEW x, Exact(st, x), NEW y, Exact(st, y)
  PROVE  Find(st, x).origin_left = Find(st, y).origin_left <=> OriginOf(st, x) = OriginOf(st, y)
<1> SUFFICES ASSUME OriginOf(st, x) = OriginOf(st, y)
             PROVE  Find(st, x).origin_left = Find(st, y).origin_left
  BY DEF OriginOf
<1>1. st \in Stores /\ Sorted(st)
  BY DEF WellStored
<1>2. ASSUME NEW z, Exact(st, z), NEW ol, ol = Find(st, z).origin_left
      PROVE  /\ ol = NoId => OriginOf(st, z) = NoId
             /\ ol # NoId => /\ OriginOf(st, z) # NoId
                             /\ ol = LastId(Find(st, OriginOf(st, z)))
  <2>1. PICK c \in Clients : \E i \in DOMAIN st[c] : Find(st, z) = st[c][i]
    BY <1>1, <1>2, ExactFound
  <2>2. CASE ol = NoId
    BY <1>2, <2>2 DEF OriginOf
  <2>3. CASE ol # NoId
    <3>1. Has(st, ol) /\ ol \in Ids /\ ol = LastId(Find(st, ol))
      BY <1>1, <1>2, <2>1, <2>3, EntryIs DEF WellStored, Items, OptIds, Ended
    <3>2. OriginOf(st, z) = Find(st, ol).id
      BY <1>2, <2>3, <3>1 DEF OriginOf
    <3>3. Find(st, ol) \in Items /\ \E m \in DOMAIN st[ol[1]] : Find(st, ol) = st[ol[1]][m]
      BY <1>1, <3>1, FindStored
    <3>4. ol[1] \in Clients
      BY <3>1 DEF Ids
    <3>5. Find(st, Find(st, ol).id) = Find(st, ol)
      BY <3>3, <3>4, OriginIs
    <3>6. Find(st, ol).id # NoId
      BY <3>3, ItemIds, IdsSet
    <3> QED
      BY <2>3, <3>1, <3>2, <3>5, <3>6
  <2> QED
    BY <2>2, <2>3
<1> QED
  BY <1>2

LEMMA EndedHome ==
  ASSUME OwnEnded, History, WellKept, NEW p \in Clients
  PROVE  Ended(store[p])
<1> SUFFICES ASSUME NEW c \in Clients, NEW i \in DOMAIN store[p][c], NEW ol,
                    ol = store[p][c][i].origin_left, ol # NoId
             PROVE  ol = LastId(Find(store[p], ol))
  BY DEF Ended
<1>1. /\ WellStored(store[p]) /\ WellStored(store[c])
      /\ store[p] \in Stores /\ Sorted(store[p]) /\ store[c] \in Stores /\ Sorted(store[c])
  BY DEF WellKept, WellStored
<1>2. i \in DOMAIN store[c][c] /\ store[c][c][i].origin_left = ol
  BY DEF History, SameHistory, Core
<1>3. ol = LastId(Find(store[c], ol))
  BY <1>2 DEF OwnEnded
<1>4. Has(store[p], ol) /\ Has(store[c], ol) /\ ol \in Ids
  <2>1. ol \in Ids
    BY <1>1, EntryIs DEF Items, OptIds
  <2> QED
    BY <1>1, <1>2, <2>1 DEF WellStored
<1>5. Alike(store[p], store[c])
  BY DEF Alike, History, SameHistory
<1>6. Core(Find(store[p], ol)) = Core(Find(store[c], ol))
  BY <1>1, <1>4, <1>5, FoundAlike
<1> QED
  BY <1>3, <1>6 DEF Core, LastId

LEMMA KeepsEnded ==
  ASSUME WellKept, WellKept', Grown, OwnEnded, NEW c \in Clients, NEW i \in DOMAIN store[c][c],
         i \in DOMAIN store'[c][c], NEW ol, ol = store'[c][c][i].origin_left, ol # NoId
  PROVE  ol = LastId(Find(store'[c], ol))
<1>1. PICK st : st = store[c]
  OBVIOUS
<1>2. PICK u : u = store'[c]
  OBVIOUS
<1>3. /\ WellStored(st) /\ WellStored(u)
      /\ st \in Stores /\ Sorted(st) /\ u \in Stores /\ Sorted(u)
  BY <1>1, <1>2 DEF WellKept, WellStored
<1>4. Alike(st, u)
  BY <1>1, <1>2 DEF Alike, Grown
<1>5. st[c][i].origin_left = ol /\ i \in DOMAIN st[c] /\ i \in DOMAIN u[c]
  BY <1>1, <1>2 DEF Grown, Core
<1>6. ol = LastId(Find(st, ol))
  BY <1>1, <1>5 DEF OwnEnded
<1>7. Has(st, ol) /\ Has(u, ol) /\ ol \in Ids
  <2>1. ol \in Ids
    BY <1>3, <1>5, EntryIs DEF Items, OptIds
  <2> QED
    BY <1>2, <1>3, <1>5, <2>1 DEF WellStored
<1>8. Core(Find(st, ol)) = Core(Find(u, ol))
  BY <1>3, <1>4, <1>7, FoundAlike
<1> QED
  BY <1>2, <1>6, <1>8 DEF Core, LastId

LEMMA EmitEnded ==
  ASSUME DocOK, History, Flagging, Grown, WellKept, WellKept', NEW p \in Clients,
         NEW it, Emits(p, it), NEW ol, ol = it.origin_left, ol # NoId
  PROVE  ol = LastId(Find(store'[p], ol))
<1>1. PICK st : st = store[p]
  OBVIOUS
<1>2. PICK u : u = store'[p]
  OBVIOUS
<1>3. PICK x : ol = LastOf(p, x) /\ (x = NoId \/ Exact(st, x))
  <2>1. CASE WritesKey(p, it)
    BY <1>1, <2>1 DEF WritesKey, Flagging, KeysOK
  <2>2. CASE WritesText(p, it)
    BY <1>1, <2>2 DEF WritesText, Flagging, ListsOK
  <2> QED
    BY <2>1, <2>2 DEF Emits
<1>4. Exact(st, x) /\ ol = LastId(Find(st, x))
  BY <1>1, <1>3 DEF LastOf
<1>5. st \in Stores /\ Sorted(st) /\ u \in Stores /\ Sorted(u) /\ Within(st, u)
  BY <1>1, <1>2 DEF WellKept, WellStored, Grown, Within
<1> QED
  BY <1>2, <1>4, <1>5, LastFound

LEMMA EndedStep ==
  ASSUME IInv, WellKept, WellKept', Flagging, OwnEnded, [Next]_vars
  PROVE  OwnEnded'
<1>1. DocOK /\ History /\ Grown
  BY InvariantParts, StepGrown
<1>2. ASSUME SameWritten PROVE OwnEnded'
  <2> SUFFICES ASSUME NEW c \in Clients, NEW i \in DOMAIN store'[c][c], NEW ol,
                      ol = store'[c][c][i].origin_left, ol # NoId
               PROVE  ol = LastId(Find(store'[c], ol))
    BY DEF OwnEnded
  <2>1. i \in DOMAIN store[c][c]
    BY <1>2 DEF SameWritten
  <2> QED
    BY <1>1, <2>1, KeepsEnded
<1>3. ASSUME UNCHANGED store PROVE SameWritten
  BY <1>3 DEF SameWritten
<1>4. CASE UNCHANGED vars
  BY <1>2, <1>3, <1>4 DEF vars, docVars
<1>5. CASE Next
  <2>1. ASSUME NEW p \in Clients, NEW it, Emits(p, it) PROVE OwnEnded'
    <3> SUFFICES ASSUME NEW c \in Clients, NEW i \in DOMAIN store'[c][c], NEW ol,
                        ol = store'[c][c][i].origin_left, ol # NoId
                 PROVE  ol = LastId(Find(store'[c], ol))
      BY DEF OwnEnded
    <3>1. Extends(p, it) /\ Client(it) = p
      BY <2>1 DEF Emits
    <3>2. CASE i \in DOMAIN store[c][c]
      BY <1>1, <3>2, KeepsEnded
    <3>3. CASE i \notin DOMAIN store[c][c]
      <4>1. c = p /\ store'[p][p] = Append(store[p][p], it)
        BY <1>1, <3>1, <3>3, ExtendStore
      <4>2. store[p][p] \in Seq(Items) /\ it \in Items
        BY <1>1, <3>1, VectorType DEF DocOK, Extends
      <4>3. store'[p][p][i] = it
        BY <3>3, <4>1, <4>2, AppendProperties
      <4> QED
        BY <1>1, <2>1, <4>1, <4>3, EmitEnded
    <3> QED
      BY <3>2, <3>3
  <2>2. ASSUME NEW p \in Clients, NEW it, Extends(p, it), Client(it) # p PROVE OwnEnded'
    <3>1. \A c \in Clients : store'[c][c] = store[c][c]
      BY <1>1, <2>2, ExtendStore
    <3>2. SameWritten
      BY <3>1 DEF SameWritten
    <3> QED
      BY <1>2, <3>2
  <2>3. ASSUME NEW p \in Clients, Compact(p) PROVE OwnEnded'
    <3>1. SameWritten
      BY <1>1, <2>3, CompactOK DEF SameWritten
    <3> QED
      BY <1>2, <3>1
  <2> QED
    BY <1>2, <1>3, <1>5, <2>1, <2>2, <2>3, StepWrites
<1> QED
  BY <1>4, <1>5

LEMMA InitEnded == Init => OwnEnded
BY DEF Init, OwnEnded

-----------------------------------------------------------------------------
(* Lists: every list is ordered by the one order.                          *)

\* The elements that x stands between, from its author's items.
LeftAt(x) == OriginOf(store[x[1]], x)
RightAt(x) == RightOf(store[x[1]], x)

\* A list is closed: its elements are in their authors' lists, and what they
\* stand between is in this list.
Sided ==
  \A p \in Clients, t \in Texts : \A x \in ToSet(list[p][t]) :
    /\ x[1] \in Clients /\ x \in ToSet(list[x[1]][t])
    /\ OriginOf(store[p], x) = LeftAt(x) /\ RightOf(store[p], x) = RightAt(x)
    /\ LeftAt(x) # NoId => LeftAt(x) # x /\ LeftAt(x) \in ToSet(list[p][t])
    /\ RightAt(x) # NoId => RightAt(x) # x /\ RightAt(x) \in ToSet(list[p][t])

LEMMA SidedIs ==
  ASSUME Shown, BehindLeftOrigin
  PROVE  Sided
<1> SUFFICES ASSUME NEW p \in Clients, NEW t \in Texts, NEW x \in ToSet(list[p][t])
             PROVE  /\ x[1] \in Clients /\ x \in ToSet(list[x[1]][t])
                    /\ OriginOf(store[p], x) = LeftAt(x) /\ RightOf(store[p], x) = RightAt(x)
                    /\ LeftAt(x) # NoId => LeftAt(x) # x /\ LeftAt(x) \in ToSet(list[p][t])
                    /\ RightAt(x) # NoId => RightAt(x) # x /\ RightAt(x) \in ToSet(list[p][t])
  BY DEF Sided
<1>1. /\ DocOK /\ History /\ WellKept /\ Flagging /\ ShownRooted /\ Distinct
  BY InvariantParts DEF Shown, AllRooted
<1>2. WellStored(store[p]) /\ Exact(store[p], x) /\ Root(x) = t /\ x \in Ids
  BY <1>1 DEF WellKept, Flagging, ListsOK, ShownRooted, Exact
<1>3. PICK c \in Clients : c = x[1]
  BY <1>2 DEF Ids
<1>4. PICK i \in DOMAIN store[p][c] : store[p][c][i].id = x
  BY <1>2, <1>3 DEF Exact
<1>5. i \in DOMAIN store[c][c] /\ store[c][c][i].id = x
  BY <1>1, <1>4 DEF History, SameHistory, Core
<1>6. x \in ToSet(list[c][t]) /\ Exact(store[c], x) /\ WellStored(store[c])
  <2>1. x \in ToSet(list[c][t])
    BY <1>2, <1>5, ListedWhereStored
  <2> QED
    BY <1>1, <2>1 DEF WellKept, Flagging, ListsOK
<1>7. Alike(store[p], store[c])
  BY <1>1 DEF Alike, History, SameHistory
<1>8. OriginOf(store[p], x) = LeftAt(x) /\ RightOf(store[p], x) = RightAt(x)
  BY <1>2, <1>3, <1>6, <1>7, SidesAlike DEF LeftAt, RightAt
<1>9. ASSUME NEW q \in Clients, NEW a, NEW b, Before(list[q][t], a, b)
      PROVE  a # b /\ a \in ToSet(list[q][t]) /\ b \in ToSet(list[q][t])
  <2>1. PICK l : l = list[q][t]
    OBVIOUS
  <2>2. l \in Seq(Ids) /\ NoRepeats(l)
    BY <1>1, <2>1 DEF DocOK, Distinct
  <2>3. PICK j \in DOMAIN l, k \in DOMAIN l : j < k /\ l[j] = a /\ l[k] = b
    BY <1>9, <2>1 DEF Before
  <2>4. j # k
    BY <2>2, <2>3
  <2> QED
    BY <2>1, <2>2, <2>3, <2>4 DEF NoRepeats, ToSet
<1>10. ASSUME LeftAt(x) # NoId PROVE Before(list[p][t], LeftAt(x), x)
  <2>1. PICK ol : ol = Find(store[p], x).origin_left
    OBVIOUS
  <2>2. ol # NoId /\ OriginOf(store[p], x) = Find(store[p], ol).id
    BY <1>8, <1>10, <2>1 DEF OriginOf
  <2> QED
    BY <1>8, <2>1, <2>2 DEF BehindLeftOrigin
<1>11. ASSUME RightAt(x) # NoId
       PROVE  Before(list[c][t], x, RightAt(x)) /\ RightAt(x) \in ToSet(list[p][t])
  BY <1>3, <1>8, <1>11, RightListed
<1> QED
  BY <1>3, <1>6, <1>8, <1>9, <1>10, <1>11

-----------------------------------------------------------------------------

\* All elements of a text.
Elems(t) == UNION { ToSet(list[p][t]) : p \in Clients }

\* One order of all elements, in which every list is ordered.
LinedAt(t, lt, lo, ro) ==
  /\ Weave(Elems(t) \cup {NoId}, lt, lo, ro)
  /\ \A x \in Elems(t) : lo[x] = LeftAt(x) /\ ro[x] = RightAt(x)
  /\ \A p \in Clients : Along(list[p][t], lt)

Lined == \A t \in Texts : \E lt, lo, ro : LinedAt(t, lt, lo, ro)

LEMMA InitLined == Init => Lined
<1> SUFFICES ASSUME Init, NEW t \in Texts PROVE \E lt, lo, ro : LinedAt(t, lt, lo, ro)
  BY DEF Lined
<1>1. \A p \in Clients : list[p][t] = << >>
  BY DEF Init
<1>2. Elems(t) = {}
  BY <1>1 DEF Elems, ToSet
<1>3. PICK lt : lt = {}
  OBVIOUS
<1>4. Weave({NoId}, lt, << >>, << >>)
  BY <1>3 DEF Weave, Chained, Apt, Nested, Hung, InTurn
<1>5. LinedAt(t, lt, << >>, << >>)
  BY <1>1, <1>2, <1>4 DEF LinedAt, Along
<1> QED
  BY <1>5

LEMMA ElemIs ==
  ASSUME Sided, Flagging, NEW t \in Texts, NEW x \in Elems(t)
  PROVE  /\ x[1] \in Clients /\ x[1] \in Nat /\ x # NoId /\ x \in Ids
         /\ x \in ToSet(list[x[1]][t]) /\ Exact(store[x[1]], x)
<1>1. PICK p \in Clients : x \in ToSet(list[p][t])
  BY DEF Elems
<1>2. x[1] \in Clients /\ x \in ToSet(list[x[1]][t])
  BY <1>1 DEF Sided
<1>3. Exact(store[x[1]], x)
  BY <1>2 DEF Flagging, ListsOK
<1> QED
  BY <1>2, <1>3, ClientsAssumption, IdsSet DEF Exact

\* What an element stands between stays.
LEMMA SidesStay ==
  ASSUME Sided, Flagging, WellKept, WellKept', Grown, NEW t \in Texts, NEW x \in Elems(t)
  PROVE  LeftAt(x)' = LeftAt(x) /\ RightAt(x)' = RightAt(x)
<1>1. PICK c \in Clients : c = x[1]
  BY ElemIs
<1>2. PICK st : st = store[c]
  OBVIOUS
<1>3. PICK u : u = store'[c]
  OBVIOUS
<1>4. Exact(st, x) /\ WellStored(st) /\ WellStored(u) /\ Within(st, u)
  BY <1>1, <1>2, <1>3, ElemIs DEF WellKept, Grown, Within
<1>5. OriginOf(u, x) = OriginOf(st, x) /\ RightOf(u, x) = RightOf(st, x)
  BY <1>4, OriginKept, RightKept
<1> QED
  BY <1>1, <1>2, <1>3, <1>5 DEF LeftAt, RightAt

LEMMA LinedSame ==
  ASSUME Sided, Flagging, WellKept, WellKept', Grown, NEW t \in Texts,
         \A p \in Clients : list'[p][t] = list[p][t],
         NEW lt, NEW lo, NEW ro, LinedAt(t, lt, lo, ro)
  PROVE  LinedAt(t, lt, lo, ro)'
<1>1. Elems(t)' = Elems(t)
  BY DEF Elems
<1>2. \A x \in Elems(t) : lo[x] = LeftAt(x)' /\ ro[x] = RightAt(x)'
  BY SidesStay DEF LinedAt
<1>3. \A p \in Clients : Along(list'[p][t], lt)
  BY DEF LinedAt
<1> QED
  BY <1>1, <1>2, <1>3 DEF LinedAt

LEMMA AlongSplice ==
  ASSUME NEW l \in Seq(Ids), NEW u \in Seq(Ids), NEW at \in 0 .. Len(l), NEW x,
         Spliced(u, l, at, x), NEW lt, Along(l, lt),
         \A q \in 1 .. at : << l[q], x >> \in lt,
         \A q \in (at + 1) .. Len(l) : << x, l[q] >> \in lt
  PROVE  Along(u, lt)
<1> SUFFICES ASSUME NEW i \in DOMAIN u, NEW j \in DOMAIN u, i < j
             PROVE  << u[i], u[j] >> \in lt
  BY DEF Along
<1>1. /\ Len(l) \in Nat /\ DOMAIN l = 1 .. Len(l) /\ DOMAIN u = 1 .. (Len(l) + 1)
      /\ at \in Nat /\ at <= Len(l) /\ u[at + 1] = x
      /\ \A k \in 1 .. at : u[k] = l[k]
      /\ \A k \in (at + 1) .. Len(l) : u[k + 1] = l[k]
  BY DEF Spliced
<1>2. ASSUME NEW k \in (at + 2) .. (Len(l) + 1)
      PROVE  k - 1 \in (at + 1) .. Len(l) /\ u[k] = l[k - 1] /\ k - 1 \in DOMAIN l
  BY <1>1
<1>3. CASE j <= at
  BY <1>1, <1>3 DEF Along
<1>4. CASE j = at + 1
  BY <1>1, <1>4
<1>5. CASE j > at + 1
  <2>1. j - 1 \in (at + 1) .. Len(l) /\ u[j] = l[j - 1] /\ j - 1 \in DOMAIN l
    BY <1>1, <1>2, <1>5
  <2>2. CASE i <= at
    <3>1. i \in DOMAIN l /\ i < j - 1 /\ u[i] = l[i]
      BY <1>1, <1>5, <2>2
    <3> QED
      BY <2>1, <3>1 DEF Along
  <2>3. CASE i = at + 1
    BY <1>1, <2>1, <2>3
  <2>4. CASE i > at + 1
    <3>1. i - 1 \in DOMAIN l /\ i - 1 < j - 1 /\ u[i] = l[i - 1]
      BY <1>1, <1>2, <2>4
    <3> QED
      BY <2>1, <3>1 DEF Along
  <2> QED
    BY <1>1, <2>2, <2>3, <2>4
<1> QED
  BY <1>1, <1>3, <1>4, <1>5

Ends == \A p \in Clients : Ended(store[p])

\* All that the order rests on.
Laid == Shown /\ Sided /\ Ends

\* An element arrives from another document: the order knows it already, and
\* the walk puts it where the order has it.
LEMMA LinedCopy ==
  ASSUME Laid, Laid', Grown, NEW p \in Clients, NEW it, NEW at, Inserts(p, it, at),
         Client(it) # p, NEW t, t = it.parent,
         NEW lt, NEW lo, NEW ro, LinedAt(t, lt, lo, ro)
  PROVE  LinedAt(t, lt, lo, ro)'
<1>1. PICK l : l = list[p][t]
  OBVIOUS
<1>2. PICK u : u = list'[p][t]
  OBVIOUS
<1>3. PICK st : st = store'[p]
  OBVIOUS
<1>4. PICK x : x = it.id
  OBVIOUS
<1>5. /\ DocOK /\ History /\ WellKept /\ Flagging /\ Distinct /\ Sided
      /\ WellKept' /\ Flagging' /\ Sided' /\ Ends'
  BY InvariantParts DEF Laid, Shown
<1>6. /\ t \in Texts /\ it \in Items /\ x \in Ids /\ x # NoId
      /\ l \in Seq(Ids) /\ u \in Seq(Ids) /\ NoRepeats(l)
      /\ at \in 0 .. Len(l) /\ Spliced(u, l, at, x) /\ x \notin ToSet(l)
      /\ \A q \in Clients, v \in Texts : q # p \/ v # t => list'[q][v] = list[q][v]
  BY <1>1, <1>2, <1>4, <1>5, InsertIs, IdsSet DEF Distinct
<1>7. at = SplicePoint(l, st, it)
  BY <1>1, <1>3 DEF Inserts
<1>8. ToSet(u) = ToSet(l) \cup {x}
  BY <1>6, SpliceOrder
<1>9. WellStored(st) /\ Ended(st) /\ \A y \in ToSet(u) : Exact(st, y)
  BY <1>2, <1>3, <1>5, <1>6 DEF WellKept, Ends, Flagging, ListsOK
<1>10. Find(st, x) = it /\ x[1] = Client(it) /\ x[1] # p
  <2>1. PICK c \in Clients : \E i \in DOMAIN st[c] : it = st[c][i]
    BY <1>3, <1>5, InsertStored
  <2> QED
    BY <1>4, <1>9, <2>1, OriginIs DEF Client
<1>11. x \in Elems(t)
  <2>1. x[1] \in Clients /\ x \in ToSet(list'[x[1]][t])
    BY <1>2, <1>5, <1>6, <1>8 DEF Sided
  <2>2. x \in ToSet(list[x[1]][t])
    BY <1>6, <1>10, <2>1
  <2> QED
    BY <2>1, <2>2 DEF Elems
<1>12. \A y \in ToSet(l) : y \in Elems(t)
  BY <1>1 DEF Elems
<1>13. ASSUME NEW y \in ToSet(u)
       PROVE  /\ OriginOf(st, y) = lo[y] /\ RightOf(st, y) = ro[y]
              /\ lo[y] # NoId => lo[y] # y /\ lo[y] \in ToSet(u)
              /\ ro[y] # NoId => ro[y] # y /\ ro[y] \in ToSet(u)
  <2>1. y \in Elems(t)
    BY <1>8, <1>11, <1>12
  <2>2. LeftAt(y)' = lo[y] /\ RightAt(y)' = ro[y]
    BY <1>5, <1>6, <2>1, SidesStay DEF LinedAt
  <2> QED
    BY <1>2, <1>3, <1>5, <1>6, <2>2 DEF Sided
<1>14. ASSUME NEW y \in ToSet(l)
       PROVE  lo[y] \in ToSet(l) \cup {NoId} /\ ro[y] \in ToSet(l) \cup {NoId}
  <2>1. LeftAt(y) = lo[y] /\ RightAt(y) = ro[y]
    BY <1>12 DEF LinedAt
  <2> QED
    BY <1>1, <1>5, <1>6, <2>1 DEF Sided
<1>15. lo[x] \in ToSet(l) \cup {NoId} /\ ro[x] \in ToSet(l) \cup {NoId}
  BY <1>8, <1>13
<1>16. Mirrors(l, st, it, lo, ro)
  <2>1. Exact(st, x) /\ OriginOf(st, x) = lo[x] /\ RightOf(st, x) = ro[x]
    BY <1>8, <1>9, <1>13
  <2>2. /\ x[1] = Client(it) /\ it.origin_right = ro[x]
        /\ ElementAt(l, Pos(l, st, it.origin_left)) = lo[x]
    BY <1>6, <1>9, <1>10, <1>15, <2>1, FoundBetween
  <2>3. ElementAt(l, Pos(l, st, it.origin_right)) = ro[x]
    <3>1. PICK r : r = ro[x] /\ r = it.origin_right
      BY <2>2
    <3>2. CASE r = NoId
      <4>1. ~Has(st, r)
        BY <3>2 DEF Has, Covers
      <4>2. Pos(l, st, r) = 0
        BY <4>1 DEF Pos
      <4> QED
        BY <3>1, <3>2, <4>2 DEF ElementAt
    <3>3. CASE r # NoId
      <4>1. PICK i \in DOMAIN l : l[i] = r
        BY <1>15, <3>1, <3>3 DEF ToSet
      <4>2. Exact(st, r)
        BY <1>8, <1>9, <1>15, <3>1, <3>3
      <4>3. Has(st, r) /\ Find(st, r).id = r
        BY <1>9, <4>2, ExactFound DEF WellStored
      <4>4. Pos(l, st, r) = i /\ i # 0
        BY <1>6, <4>1, <4>3, PosIs
      <4> QED
        BY <3>1, <4>1, <4>4 DEF ElementAt
    <3> QED
      BY <3>2, <3>3
  <2>4. ASSUME NEW q \in DOMAIN l, NEW y, y = l[q]
        PROVE  /\ Client(Find(st, y)) = y[1] /\ Find(st, y).origin_right = ro[y]
               /\ ElementAt(l, Pos(l, st, Find(st, y).origin_left)) = lo[y]
               /\ Find(st, y).origin_left = it.origin_left <=> lo[y] = lo[x]
    <3>1. y \in ToSet(l) /\ y \in ToSet(u)
      BY <1>8, <2>4 DEF ToSet
    <3>2. /\ Exact(st, y) /\ OriginOf(st, y) = lo[y] /\ RightOf(st, y) = ro[y]
          /\ lo[y] \in ToSet(l) \cup {NoId}
      BY <1>9, <1>13, <1>14, <3>1
    <3>3. /\ Client(Find(st, y)) = y[1] /\ Find(st, y).origin_right = ro[y]
          /\ ElementAt(l, Pos(l, st, Find(st, y).origin_left)) = lo[y]
      BY <1>6, <1>9, <3>2, FoundBetween
    <3>4. Find(st, y).origin_left = it.origin_left <=> lo[y] = lo[x]
      BY <1>9, <1>10, <2>1, <3>2, SameOrigin
    <3> QED
      BY <3>3, <3>4
  <2> QED
    BY <1>4, <2>2, <2>3, <2>4 DEF Mirrors, SameLeft
<1>17. PICK U : U = Elems(t) \cup {NoId}
  OBVIOUS
<1>18. /\ Weave(U, lt, lo, ro) /\ Along(l, lt)
       /\ x \in U \ {NoId} /\ ToSet(l) \subseteq U \ {NoId}
       /\ \A y \in U \ {NoId} : y[1] \in Nat
  <2>1. Weave(U, lt, lo, ro) /\ Along(l, lt)
    BY <1>1, <1>17 DEF LinedAt
  <2>2. \A y \in Elems(t) : y # NoId /\ y[1] \in Nat
    BY <1>5, <1>6, ElemIs
  <2> QED
    BY <1>6, <1>11, <1>12, <1>17, <2>1, <2>2
<1>19. /\ \A q \in 1 .. at : << l[q], x >> \in lt
       /\ \A q \in (at + 1) .. Len(l) : << x, l[q] >> \in lt
  BY <1>4, <1>6, <1>7, <1>14, <1>16, <1>18, SpliceAlong
<1>20. Along(u, lt)
  BY <1>6, <1>18, <1>19, AlongSplice
<1>21. Elems(t)' = Elems(t)
  <2>1. \A q \in Clients : ToSet(list'[q][t]) \subseteq Elems(t)
    <3> SUFFICES ASSUME NEW q \in Clients PROVE ToSet(list'[q][t]) \subseteq Elems(t)
      OBVIOUS
    <3>1. CASE q = p
      BY <1>2, <1>8, <1>11, <1>12, <3>1
    <3>2. CASE q # p
      BY <1>6, <3>2 DEF Elems
    <3> QED
      BY <3>1, <3>2
  <2>2. \A q \in Clients : ToSet(list[q][t]) \subseteq ToSet(list'[q][t])
    BY <1>1, <1>2, <1>6, <1>8
  <2> QED
    BY <2>1, <2>2 DEF Elems
<1>22. \A y \in Elems(t) : lo[y] = LeftAt(y)' /\ ro[y] = RightAt(y)'
  BY <1>5, <1>6, SidesStay DEF LinedAt
<1>23. \A q \in Clients : Along(list'[q][t], lt)
  BY <1>2, <1>6, <1>20 DEF LinedAt
<1> QED
  BY <1>17, <1>18, <1>21, <1>22, <1>23 DEF LinedAt

\* left and right are what stands at both sides of the place behind at.
Gap(l, at, left, right) ==
  /\ at = 0 => left = NoId
  /\ at # 0 => left = l[at]
  /\ at = Len(l) => right = NoId
  /\ at # Len(l) => right = l[at + 1]

\* The neighbours are the elements at two places in a row.
LEMMA GapIs ==
  ASSUME NEW l \in Seq(Ids), NEW at \in 0 .. Len(l), NEW left, NEW right,
         Gap(l, at, left, right)
  PROVE  /\ left = ElementAt(l, at)
         /\ at = Len(l) => right = NoId
         /\ at # Len(l) => at + 1 \in 0 .. Len(l) /\ right = ElementAt(l, at + 1)
<1>1. left = ElementAt(l, at)
  <2>1. CASE at = 0
    <3>1. left = NoId
      BY <2>1 DEF Gap
    <3> QED
      BY <2>1, <3>1 DEF ElementAt
  <2>2. CASE at # 0
    <3>1. left = l[at]
      BY <2>2 DEF Gap
    <3> QED
      BY <2>2, <3>1 DEF ElementAt
  <2> QED
    BY <2>1, <2>2
<1>2. ASSUME at = Len(l) PROVE right = NoId
  BY <1>2 DEF Gap
<1>3. ASSUME at # Len(l) PROVE at + 1 \in 0 .. Len(l) /\ right = ElementAt(l, at + 1)
  <2>1. right = l[at + 1]
    BY <1>3 DEF Gap
  <2>2. PICK n \in Nat : n = Len(l)
    OBVIOUS
  <2>3. at \in 0 .. n /\ at # n
    BY <1>3, <2>2
  <2>4. at + 1 # 0 /\ at + 1 \in 0 .. n
    BY <2>3
  <2> QED
    BY <2>1, <2>2, <2>4 DEF ElementAt
<1> QED
  BY <1>1, <1>2, <1>3

\* v lists NoId and the elements of a list in the order.
Listing(U, lt, l, n, v) ==
  /\ n \in Nat /\ n = Len(l)
  /\ \A i \in 0 .. n : v[i] = ElementAt(l, i) /\ v[i] \in U
  /\ \A i \in 1 .. n : v[i] = l[i] /\ v[i] # NoId
  /\ \A a \in ToSet(l) \cup {NoId} : \E i \in 0 .. n : a = v[i]
  /\ \A i \in 0 .. n : v[i] \in ToSet(l) \cup {NoId}
  /\ \A i, j \in 0 .. n : i < j <=> << v[i], v[j] >> \in lt

LEMMA ListingIs ==
  ASSUME NEW U, NEW lt, Chained(U, lt),
         NEW l \in Seq(Ids), ToSet(l) \subseteq U \ {NoId}, Along(l, lt)
  PROVE  \E n, v : Listing(U, lt, l, n, v)
<1>1. PICK n \in Nat : n = Len(l)
  OBVIOUS
<1>2. PICK v : v = [i \in 0 .. n |-> ElementAt(l, i)]
  OBVIOUS
<1>3. \A i \in 0 .. n : v[i] = ElementAt(l, i)
  BY <1>2
<1> HIDE <1>2
<1>4. /\ \A i \in 0 .. n : ElementAt(l, i) \in U
      /\ \A i, j \in 0 .. n : i < j <=> << ElementAt(l, i), ElementAt(l, j) >> \in lt
  BY <1>1, PlacesAlong
<1>5. DOMAIN l = 1 .. n
  BY <1>1
<1>6. ASSUME NEW i \in 1 .. n PROVE v[i] = l[i] /\ v[i] # NoId /\ v[i] \in ToSet(l)
  <2>1. i \in DOMAIN l /\ i \in 0 .. n /\ i # 0
    BY <1>1, <1>5
  <2>2. l[i] \in ToSet(l)
    BY <2>1 DEF ToSet
  <2>3. v[i] = l[i]
    BY <1>3, <2>1 DEF ElementAt
  <2> QED
    BY <2>2, <2>3
<1>7. 0 \in 0 .. n /\ v[0] = NoId
  <2>1. 0 \in 0 .. n
    BY <1>1
  <2> QED
    BY <1>3, <2>1 DEF ElementAt
<1>8. ASSUME NEW a \in ToSet(l) \cup {NoId} PROVE \E i \in 0 .. n : a = v[i]
  <2>1. CASE a = NoId
    BY <1>7, <2>1
  <2>2. CASE a # NoId
    <3>1. PICK i \in DOMAIN l : a = l[i]
      BY <2>2 DEF ToSet
    <3>2. i \in 1 .. n /\ i \in 0 .. n
      BY <1>5
    <3> QED
      BY <1>6, <3>1, <3>2
  <2> QED
    BY <2>1, <2>2
<1>9. ASSUME NEW i \in 0 .. n PROVE v[i] \in ToSet(l) \cup {NoId}
  <2>1. i = 0 \/ i \in 1 .. n
    OBVIOUS
  <2> QED
    BY <1>6, <1>7, <2>1
<1>10. ASSUME NEW i \in 0 .. n, NEW j \in 0 .. n PROVE i < j <=> << v[i], v[j] >> \in lt
  BY <1>3, <1>4
<1>11. \A i \in 0 .. n : v[i] = ElementAt(l, i) /\ v[i] \in U
  BY <1>3, <1>4
<1>12. \A i \in 1 .. n : v[i] = l[i] /\ v[i] # NoId
  BY <1>6
<1>13. \A i, j \in 0 .. n : i < j <=> << v[i], v[j] >> \in lt
  BY <1>10
<1>14. Listing(U, lt, l, n, v)
  BY <1>1, <1>8, <1>9, <1>11, <1>12, <1>13 DEF Listing
<1> QED
  BY <1>14

\* Nothing of the list is between them.
LEMMA GapAlong ==
  ASSUME NEW U, NEW lt, Chained(U, lt),
         NEW l \in Seq(Ids), ToSet(l) \subseteq U \ {NoId}, Along(l, lt),
         NEW at \in 0 .. Len(l), NEW left, NEW right, Gap(l, at, left, right)
  PROVE  /\ left \in ToSet(l) \cup {NoId} /\ right \in ToSet(l) \cup {NoId}
         /\ right # NoId => << left, right >> \in lt
         /\ \A a \in ToSet(l) \cup {NoId} :
              << left, a >> \in lt => right # NoId /\ << a, right >> \notin lt
<1>1. PICK n, v : Listing(U, lt, l, n, v)
  BY ListingIs
<1>2. PICK k \in 0 .. n : k = at
  BY <1>1 DEF Listing
<1>3. /\ n \in Nat /\ n = Len(l) /\ left = v[k] /\ left \in ToSet(l) \cup {NoId}
      /\ k = n => right = NoId
      /\ k # n => k + 1 \in 0 .. n /\ right = v[k + 1]
  BY <1>1, <1>2, GapIs DEF Listing
<1>4. CASE k = n
  <2>1. ASSUME NEW a \in ToSet(l) \cup {NoId}, << left, a >> \in lt PROVE FALSE
    <3>1. PICK i \in 0 .. n : a = v[i]
      BY <1>1 DEF Listing
    <3>2. k < i
      BY <1>1, <1>3, <2>1, <3>1 DEF Listing
    <3> QED
      BY <1>3, <1>4, <3>2
  <2> QED
    BY <1>3, <1>4, <2>1
<1>5. CASE k # n
  <2>1. PICK m \in 1 .. n : m = k + 1 /\ m \in 0 .. n /\ right = v[m]
    BY <1>3, <1>5
  <2>2. right \in ToSet(l) \cup {NoId} /\ right # NoId /\ << left, right >> \in lt
    BY <1>1, <1>3, <2>1 DEF Listing
  <2>3. ASSUME NEW a \in ToSet(l) \cup {NoId}, << left, a >> \in lt
        PROVE  << a, right >> \notin lt
    <3>1. PICK i \in 0 .. n : a = v[i]
      BY <1>1 DEF Listing
    <3>2. k < i
      BY <1>1, <1>3, <2>3, <3>1 DEF Listing
    <3>3. ~(i < m)
      BY <2>1, <3>2
    <3> QED
      BY <1>1, <2>1, <3>1, <3>3 DEF Listing
  <2> QED
    BY <1>3, <2>2, <2>3
<1> QED
  BY <1>4, <1>5

\* What goes between them goes between all that is in front and all behind.
LEMMA GapFilled ==
  ASSUME NEW U, NEW lt, Chained(U, lt),
         NEW l \in Seq(Ids), ToSet(l) \subseteq U \ {NoId}, Along(l, lt),
         NEW at \in 0 .. Len(l), NEW left, NEW right, Gap(l, at, left, right),
         NEW x \in U, << left, x >> \in lt, right # NoId => << x, right >> \in lt
  PROVE  /\ \A q \in 1 .. at : << l[q], x >> \in lt
         /\ \A q \in (at + 1) .. Len(l) : << x, l[q] >> \in lt
<1>1. PICK n, v : Listing(U, lt, l, n, v)
  BY ListingIs
<1>2. PICK k \in 0 .. n : k = at
  BY <1>1 DEF Listing
<1>3. /\ n \in Nat /\ n = Len(l) /\ left = v[k]
      /\ k = n => right = NoId
      /\ k # n => k + 1 \in 0 .. n /\ right = v[k + 1]
  BY <1>1, <1>2, GapIs DEF Listing
<1>0. \A a, b, c \in U : << a, b >> \in lt /\ << b, c >> \in lt => << a, c >> \in lt
  BY DEF Chained
<1>4. ASSUME NEW q \in 1 .. k PROVE << v[q], x >> \in lt
  <2>1. q \in 0 .. n /\ (q = k \/ q < k)
    BY <1>3
  <2>2. v[q] \in U /\ v[k] \in U /\ (q = k \/ << v[q], v[k] >> \in lt)
    BY <1>1, <2>1 DEF Listing
  <2> QED
    BY <1>0, <1>3, <2>2
<1>5. ASSUME NEW q \in (k + 1) .. n PROVE << x, v[q] >> \in lt
  <2>1. PICK m \in 1 .. n : m = k + 1 /\ m \in 0 .. n /\ right = v[m]
    BY <1>3
  <2>2. q \in 0 .. n /\ (q = m \/ m < q)
    BY <1>3, <2>1
  <2>3. v[q] \in U /\ v[m] \in U /\ v[m] # NoId /\ (q = m \/ << v[m], v[q] >> \in lt)
    BY <1>1, <2>1, <2>2 DEF Listing
  <2> QED
    BY <1>0, <2>1, <2>3
<1>6. \A q \in 1 .. n : v[q] = l[q]
  BY <1>1 DEF Listing
<1>7. ASSUME NEW q \in 1 .. at PROVE << l[q], x >> \in lt
  <2>1. q \in 1 .. k /\ q \in 1 .. n
    BY <1>2, <1>3
  <2> QED
    BY <1>4, <1>6, <2>1
<1>8. ASSUME NEW q \in (at + 1) .. Len(l) PROVE << x, l[q] >> \in lt
  <2>1. q \in (k + 1) .. n /\ q \in 1 .. n
    BY <1>2, <1>3
  <2> QED
    BY <1>5, <1>6, <2>1
<1> QED
  BY <1>7, <1>8

\* A client puts an element of its own next to a deleted one.
BesideTombstone ==
  \E p \in Clients, t \in Texts : \E i, j \in DOMAIN list'[p][t] :
    /\ list'[p][t][i][1] = p /\ list'[p][t][i] \notin ToSet(list[p][t])
    /\ j \in {i - 1, i + 1} /\ list'[p][t][j] \in del[p]

\* The live elements f[n] have e at the number of live elements up to k.
Numbers(f, n, k, m, e) ==
  /\ Len(f[n]) \in Nat /\ Len(f[m]) \in Nat
  /\ Len(f[k]) = Len(f[m]) + 1 /\ Len(f[k]) \in 1 .. Len(f[n])
  /\ f[n][Len(f[k])] = e

\* A live element has the number of live elements up to it.
LEMMA LiveNumbered ==
  ASSUME NEW l \in Seq(Ids), NEW dead, NEW f, LiveOf(l, dead, f),
         NEW k \in 1 .. Len(l), l[k] \notin dead, NEW m, m = k - 1
  PROVE  Numbers(f, Len(l), k, m, l[k])
<1>1. /\ Len(l) \in Nat /\ Len(l) \in 0 .. Len(l)
      /\ k \in 0 .. Len(l) /\ m \in 0 .. Len(l)
  OBVIOUS
<1>2. \A i \in 0 .. Len(l), n \in 0 .. Len(l) :
        Len(f[i]) \in Nat /\ (i <= n => Len(f[i]) <= Len(f[n]))
  BY <1>1, LivePlaces
<1>3. Len(f[k]) = Len(f[m]) + 1
  BY LiveNext
<1>4. PICK n \in 1 .. Len(f[Len(l)]) : n = Len(f[k])
  BY <1>1, <1>2, <1>3
<1>5. PICK i \in 1 .. Len(l) :
        l[i] = f[Len(l)][n] /\ Len(f[i]) = n /\ Len(f[i - 1]) = n - 1
  BY <1>1, LivePlaces
<1>6. ~(i < k)
  <2> SUFFICES ASSUME i < k PROVE FALSE
    OBVIOUS
  <2>1. i \in 0 .. Len(l) /\ i <= m
    BY <1>1
  <2>2. Len(f[i]) <= Len(f[m])
    BY <1>1, <1>2, <2>1
  <2>3. Len(f[m]) \in Nat
    BY <1>1, <1>2
  <2> QED
    BY <1>3, <1>4, <1>5, <2>2, <2>3
<1>7. ~(k < i)
  <2> SUFFICES ASSUME k < i PROVE FALSE
    OBVIOUS
  <2>1. i - 1 \in 0 .. Len(l) /\ k <= i - 1
    BY <1>1
  <2>2. Len(f[k]) <= Len(f[i - 1])
    BY <1>1, <1>2, <2>1
  <2> QED
    BY <1>4, <1>5, <2>2
<1>8. i = k
  BY <1>6, <1>7
<1> QED
  BY <1>1, <1>2, <1>3, <1>4, <1>5, <1>8 DEF Numbers

\* Where nothing deleted is beside the new element it stands right between
\* the live elements it names.
LEMMA EditBetween ==
  ASSUME DocOK, History, Flagging, Distinct, NEW p \in Clients,
         NEW it, NEW at, NEW j, NEW left, NEW right, Edits(p, it, at, j, left, right),
         ~BesideTombstone, NEW t, t = it.parent, NEW l, l = list[p][t]
  PROVE  Gap(l, at, left, right)
<1>1. PICK u : u = list'[p][t]
  OBVIOUS
<1>2. PICK st : st = store'[p]
  OBVIOUS
<1>3. PICK dead : dead = del[p]
  OBVIOUS
<1>4. /\ t \in Texts /\ it.id \in Ids /\ l \in Seq(Ids) /\ u \in Seq(Ids)
      /\ at \in 0 .. Len(l) /\ Spliced(u, l, at, it.id) /\ it.id \notin ToSet(l)
  BY <1>1, InsertIs DEF Edits, Asks
<1>5. NoRepeats(l) /\ at = SplicePoint(l, st, it) /\ it.id[1] = p
  BY <1>2, <1>4 DEF Distinct, Edits, Asks, Inserts, Client
<1>6. Names(st, it, left, right)
  BY <1>2, EditOrigins
<1>7. PICK f : LiveOf(l, dead, f) /\ Live(l, dead) = f[Len(l)]
  BY <1>4, LiveIs
<1>8. Neighbours(Live(l, dead), j, left, right)
  BY <1>3 DEF Edits, Asks
<1>9. Len(f[at]) = j
  BY <1>4, <1>5, <1>6, <1>7, <1>8, PlaceBetween
<1>10. PICK live : live = f[Len(l)] /\ Neighbours(live, j, left, right)
  BY <1>7, <1>8
<1>11. /\ Len(l) \in Nat /\ at \in Nat /\ at <= Len(l)
       /\ DOMAIN l = 1 .. Len(l) /\ DOMAIN u = 1 .. (Len(l) + 1)
       /\ u[at + 1] = it.id /\ at + 1 \in DOMAIN u
  BY <1>4 DEF Spliced
<1>12. ASSUME NEW k \in {at, at + 2}, k \in DOMAIN u PROVE u[k] \notin dead
  <2>1. PICK n \in DOMAIN u : n = at + 1
    BY <1>11
  <2>2. u[n][1] = p /\ u[n] \notin ToSet(l)
    BY <1>4, <1>5, <1>11, <2>1
  <2>3. k \in {n - 1, n + 1}
    BY <1>11, <2>1
  <2> QED
    BY <1>1, <1>3, <1>4, <1>12, <2>2, <2>3 DEF BesideTombstone
<1>13. /\ at # 0 => l[at] \notin dead
       /\ at # Len(l) => l[at + 1] \notin dead
  <2>1. ASSUME at # 0 PROVE l[at] \notin dead
    <3>1. at \in DOMAIN u /\ u[at] = l[at]
      BY <1>4, <1>11, <2>1 DEF Spliced
    <3> QED
      BY <1>12, <3>1
  <2>2. ASSUME at # Len(l) PROVE l[at + 1] \notin dead
    <3>1. at + 2 \in DOMAIN u /\ u[at + 2] = l[at + 1]
      <4>1. at + 1 \in (at + 1) .. Len(l) /\ at + 2 \in DOMAIN u /\ (at + 1) + 1 = at + 2
        BY <1>11, <2>2
      <4> QED
        BY <1>4, <4>1 DEF Spliced
    <3> QED
      BY <1>12, <3>1
  <2> QED
    BY <2>1, <2>2
<1>14. ASSUME NEW k \in 1 .. Len(l), l[k] \notin dead, NEW m, m = k - 1
       PROVE  /\ Len(live) \in Nat /\ Len(f[m]) \in Nat /\ Len(f[k]) = Len(f[m]) + 1
              /\ Len(f[k]) \in 1 .. Len(live) /\ live[Len(f[k])] = l[k]
  <2>1. LiveOf(l, dead, f) /\ live = f[Len(l)]
    BY <1>7, <1>10
  <2>2. Numbers(f, Len(l), k, m, l[k])
    BY <1>4, <1>14, <2>1, LiveNumbered
  <2> QED
    BY <2>1, <2>2 DEF Numbers
<1>15. (at = 0 => left = NoId) /\ (at # 0 => left = l[at])
  <2>1. CASE at = 0
    <3>1. f[0] = << >>
      BY <1>7 DEF LiveOf
    <3>2. j = 0
      BY <1>9, <2>1, <3>1
    <3> QED
      BY <1>10, <2>1, <3>2 DEF Neighbours
  <2>2. CASE at # 0
    <3>1. at \in 1 .. Len(l) /\ l[at] \notin dead
      BY <1>11, <1>13, <2>2
    <3>2. j \in 1 .. Len(live) /\ live[j] = l[at]
      BY <1>9, <1>14, <3>1
    <3> QED
      BY <1>10, <2>2, <3>2 DEF Neighbours
  <2> QED
    BY <2>1, <2>2
<1>16. (at = Len(l) => right = NoId) /\ (at # Len(l) => right = l[at + 1])
  <2>1. CASE at = Len(l)
    <3>1. j = Len(live)
      BY <1>9, <1>10, <2>1
    <3> QED
      BY <1>10, <2>1, <3>1 DEF Neighbours
  <2>2. CASE at # Len(l)
    <3>1. PICK k \in 1 .. Len(l) : k = at + 1 /\ at = k - 1 /\ l[k] \notin dead
      BY <1>11, <1>13, <2>2
    <3>2. Len(f[k]) \in 1 .. Len(live) /\ live[Len(f[k])] = l[k] /\ Len(f[k]) = j + 1
      <4>1. /\ Len(f[k]) = Len(f[at]) + 1 /\ Len(f[k]) \in 1 .. Len(live)
            /\ live[Len(f[k])] = l[k]
        BY <1>14, <3>1
      <4> QED
        BY <1>9, <4>1
    <3>3. j # Len(live) /\ right = live[j + 1]
      <4>1. Len(live) \in Nat
        BY <1>14, <3>1
      <4>2. j \in 0 .. Len(live)
        BY <1>10 DEF Neighbours
      <4>3. j # Len(live)
        BY <3>2, <4>1, <4>2
      <4> QED
        BY <1>10, <4>3 DEF Neighbours
    <3> QED
      BY <2>2, <3>1, <3>2, <3>3
  <2> QED
    BY <2>1, <2>2
<1> QED
  BY <1>15, <1>16 DEF Gap

\* An element is written: the order gains it where the list does.
LEMMA LinedEdit ==
  ASSUME Laid, Laid', Grown, NEW p \in Clients,
         NEW it, NEW at, NEW j, NEW left, NEW right, Edits(p, it, at, j, left, right),
         ~BesideTombstone, NEW t, t = it.parent,
         NEW lt, NEW lo, NEW ro, LinedAt(t, lt, lo, ro)
  PROVE  \E ll, kl, kr : LinedAt(t, ll, kl, kr)'
<1>1. PICK l : l = list[p][t]
  OBVIOUS
<1>2. PICK u : u = list'[p][t]
  OBVIOUS
<1>3. PICK x : x = it.id
  OBVIOUS
<1>4. /\ DocOK /\ History /\ WellKept /\ Flagging /\ Distinct /\ Sided
      /\ WellKept' /\ Flagging' /\ Sided'
  BY InvariantParts DEF Laid, Shown
<1>5. /\ t \in Texts /\ x \in Ids /\ x # NoId /\ x[1] = p /\ x[1] \in Nat
      /\ l \in Seq(Ids) /\ u \in Seq(Ids)
      /\ at \in 0 .. Len(l) /\ Spliced(u, l, at, x) /\ x \notin ToSet(l)
      /\ \A q \in Clients, v \in Texts : q # p \/ v # t => list'[q][v] = list[q][v]
  BY <1>1, <1>2, <1>3, <1>4, InsertIs, IdsSet, ClientsAssumption DEF Edits, Asks, Client
<1>6. ToSet(u) = ToSet(l) \cup {x}
  BY <1>5, SpliceOrder
<1>7. PICK U : U = Elems(t) \cup {NoId}
  OBVIOUS
<1>8. /\ Weave(U, lt, lo, ro) /\ Along(l, lt) /\ ToSet(l) \subseteq U \ {NoId}
      /\ \A y \in U \ {NoId} : y[1] \in Nat /\ (y[1] = p => y \in ToSet(l))
      /\ \A y \in U \ {NoId} : lo[y] = LeftAt(y) /\ ro[y] = RightAt(y)
      /\ x \notin U
  <2>1. Weave(U, lt, lo, ro) /\ Along(l, lt)
    BY <1>1, <1>7 DEF LinedAt
  <2>2. \A y \in Elems(t) : y # NoId /\ y[1] \in Nat /\ y \in ToSet(list[y[1]][t])
    BY <1>4, <1>5, ElemIs
  <2>3. ToSet(l) \subseteq Elems(t)
    BY <1>1 DEF Elems
  <2>4. \A y \in Elems(t) : lo[y] = LeftAt(y) /\ ro[y] = RightAt(y)
    BY DEF LinedAt
  <2> QED
    BY <1>1, <1>5, <1>7, <2>1, <2>2, <2>3, <2>4
<1>9. Gap(l, at, left, right)
  BY <1>1, <1>4, EditBetween
<1>10. PICK A : A = ToSet(l) \cup {NoId}
  OBVIOUS
<1>11. Chained(U, lt)
  BY <1>8 DEF Weave
<1>12. /\ left \in A /\ right \in A /\ (right # NoId => << left, right >> \in lt)
       /\ \A a \in A : << left, a >> \in lt => right # NoId /\ << a, right >> \notin lt
  BY <1>5, <1>8, <1>9, <1>10, <1>11, GapAlong
<1>15. \A a \in A \ {NoId} : lo[a] \in A
  BY <1>1, <1>4, <1>5, <1>8, <1>10 DEF Sided
<1>16. PICK kl : kl = [y \in U \cup {x} |-> IF y = x THEN left ELSE lo[y]]
  OBVIOUS
<1>17. PICK kr : kr = [y \in U \cup {x} |-> IF y = x THEN right ELSE ro[y]]
  OBVIOUS
<1>18. /\ \A y \in U \ {NoId} : kl[y] = lo[y] /\ kr[y] = ro[y]
       /\ kl[x] = left /\ kr[x] = right
  BY <1>8, <1>16, <1>17
<1> HIDE <1>16, <1>17
<1>19. PICK ll : Gains(U, lt, x, kl, kr, ll)
  <2>1. A \subseteq U /\ NoId \in A
    BY <1>8, <1>10, <1>11 DEF Chained
  <2>2. \A y \in U \ {NoId} : y[1] = x[1] => y \in A
    BY <1>5, <1>8, <1>10
  <2>3. Known(U, lt, lo, A, x, left, right)
    BY <1>12, <1>15, <2>1, <2>2 DEF Known
  <2>4. \A y \in U \ {NoId} : y[1] \in Nat
    BY <1>8
  <2>5. \A y \in U \ {NoId} : kl[y] = lo[y] /\ kr[y] = ro[y]
    BY <1>18
  <2>6. x \notin U /\ x[1] \in Nat /\ Weave(U, lt, lo, ro)
    BY <1>5, <1>8
  <2> QED
    BY <1>18, <2>3, <2>4, <2>5, <2>6, WeaveGrows
<1>20. Elems(t)' \cup {NoId} = U \cup {x} /\ Elems(t)' = (U \ {NoId}) \cup {x}
  <2>1. \A q \in Clients : q # p => ToSet(list'[q][t]) = ToSet(list[q][t])
    BY <1>5
  <2>2. ToSet(list'[p][t]) = ToSet(list[p][t]) \cup {x}
    BY <1>1, <1>2, <1>6
  <2>3. Elems(t)' = Elems(t) \cup {x}
    BY <2>1, <2>2 DEF Elems
  <2>4. NoId \notin Elems(t)
    BY <1>4, <1>5, ElemIs
  <2> QED
    BY <1>5, <1>7, <2>3, <2>4
<1>21. ASSUME NEW y \in (U \ {NoId}) \cup {x}
       PROVE  kl[y] = LeftAt(y)' /\ kr[y] = RightAt(y)'
  <2>1. CASE y # x
    <3>1. y \in Elems(t)
      BY <1>7, <1>21, <2>1
    <3>2. LeftAt(y)' = LeftAt(y) /\ RightAt(y)' = RightAt(y)
      BY <1>4, <1>5, <3>1, SidesStay
    <3> QED
      BY <1>8, <1>18, <1>21, <2>1, <3>2
  <2>2. CASE y = x
    <3>1. PICK st : st = store'[p]
      OBVIOUS
    <3>2. Names(st, it, left, right)
      BY <1>4, <3>1, EditOrigins
    <3>3. WellStored(st)
      BY <1>4, <3>1 DEF WellKept
    <3>4. PICK c \in Clients : \E i \in DOMAIN st[c] : it = st[c][i]
      BY <1>4, <3>1, InsertStored DEF Edits
    <3>5. Find(st, x) = it
      BY <1>3, <3>3, <3>4, OriginIs
    <3>6. OriginOf(st, x) = left
      <4>1. CASE left = NoId
        BY <3>2, <3>5, <4>1 DEF Names, OriginOf
      <4>2. CASE left # NoId
        <5>1. Has(st, it.origin_left) /\ Find(st, it.origin_left).id = left
          BY <3>2, <4>2 DEF Names
        <5>2. it.origin_left # NoId
          BY <5>1 DEF Has
        <5> QED
          BY <3>5, <5>1, <5>2 DEF OriginOf
      <4> QED
        BY <4>1, <4>2
    <3>7. RightOf(st, x) = right
      BY <3>2, <3>5 DEF Names, RightOf
    <3>8. LeftAt(x)' = OriginOf(st, x) /\ RightAt(x)' = RightOf(st, x)
      BY <1>5, <3>1 DEF LeftAt, RightAt
    <3> QED
      BY <1>18, <2>2, <3>6, <3>7, <3>8
  <2> QED
    BY <2>1, <2>2
<1>22. ASSUME NEW q \in Clients PROVE Along(list[q][t], ll)
  <2>1. ToSet(list[q][t]) \subseteq U
    BY <1>7 DEF Elems
  <2>2. \A i \in DOMAIN list[q][t] : list[q][t][i] \in U
    BY <2>1 DEF ToSet
  <2>3. Along(list[q][t], lt)
    BY DEF LinedAt
  <2>4. Agrees(U, lt, ll)
    BY <1>19 DEF Gains
  <2> QED
    BY <2>2, <2>3, <2>4 DEF Along, Agrees
<1>23. Along(u, ll)
  <2>1. /\ Chained(U \cup {x}, ll) /\ << left, x >> \in ll
        /\ right # NoId => << x, right >> \in ll
    BY <1>5, <1>8, <1>18, <1>19 DEF Gains, Weave, Apt
  <2>2. ToSet(l) \subseteq (U \cup {x}) \ {NoId} /\ x \in U \cup {x} /\ Along(l, ll)
    BY <1>1, <1>8, <1>22
  <2>3. /\ \A q \in 1 .. at : << l[q], x >> \in ll
        /\ \A q \in (at + 1) .. Len(l) : << x, l[q] >> \in ll
    BY <1>5, <1>9, <2>1, <2>2, GapFilled
  <2> QED
    BY <1>5, <2>2, <2>3, AlongSplice
<1>24. \A q \in Clients : Along(list'[q][t], ll)
  BY <1>2, <1>5, <1>22, <1>23
<1>25. LinedAt(t, ll, kl, kr)'
  BY <1>19, <1>20, <1>21, <1>24 DEF Gains, LinedAt
<1> QED
  BY <1>25

LEMMA LinedStep ==
  ASSUME Laid, Laid', Lined, [Next]_vars, [~BesideTombstone]_vars
  PROVE  Lined'
<1>1. /\ DocOK /\ History /\ IInv /\ Grown /\ WellKept /\ WellKept' /\ Flagging /\ Sided
  BY InvariantParts, StepGrown DEF Laid, Shown
<1>2. ASSUME NEW t \in Texts, \A q \in Clients : list'[q][t] = list[q][t]
      PROVE  \E lt, lo, ro : LinedAt(t, lt, lo, ro)'
  <2>1. PICK lt, lo, ro : LinedAt(t, lt, lo, ro)
    BY DEF Lined
  <2>2. LinedAt(t, lt, lo, ro)'
    BY <1>1, <1>2, <2>1, LinedSame
  <2> QED
    BY <2>2
<1>3. CASE UNCHANGED list
  BY <1>2, <1>3 DEF Lined
<1>4. ASSUME NEW p \in Clients, NEW it, NEW at, Inserts(p, it, at),
             \E lt, lo, ro : LinedAt(it.parent, lt, lo, ro)'
      PROVE  Lined'
  <2>1. \A q \in Clients, t \in Texts : t # it.parent => list'[q][t] = list[q][t]
    <3>1. PICK v : v = it.parent
      OBVIOUS
    <3>2. \A q \in Clients, w \in Texts : q # p \/ w # v => list'[q][w] = list[q][w]
      BY <1>1, <1>4, <3>1, InsertIs
    <3> QED
      BY <3>1, <3>2
  <2>2. ASSUME NEW t \in Texts PROVE \E lt, lo, ro : LinedAt(t, lt, lo, ro)'
    BY <1>2, <1>4, <2>1
  <2> QED
    BY <2>2 DEF Lined
<1>5. ASSUME NEW p \in Clients, NEW it, NEW at, Inserts(p, it, at)
      PROVE  \E lt, lo, ro : LinedAt(it.parent, lt, lo, ro)
  <2>1. it.parent \in Texts
    BY <1>5 DEF Inserts
  <2> QED
    BY <2>1 DEF Lined
<1>6. ASSUME NEW p \in Clients, NEW it, NEW at, Inserts(p, it, at), Client(it) # p
      PROVE  Lined'
  <2>1. PICK lt, lo, ro : LinedAt(it.parent, lt, lo, ro)
    BY <1>5, <1>6
  <2>2. LinedAt(it.parent, lt, lo, ro)'
    BY <1>1, <1>6, <2>1, LinedCopy
  <2> QED
    BY <1>4, <1>6, <2>2
<1>7. ASSUME NEW p \in Clients, NEW it, NEW at, NEW j, NEW left, NEW right,
             Edits(p, it, at, j, left, right), ~BesideTombstone
      PROVE  Lined'
  <2>1. Inserts(p, it, at)
    BY <1>7 DEF Edits
  <2>2. PICK lt, lo, ro : LinedAt(it.parent, lt, lo, ro)
    BY <1>5, <2>1
  <2>3. \E ll, kl, kr : LinedAt(it.parent, ll, kl, kr)'
    BY <1>1, <1>7, <2>2, LinedEdit
  <2> QED
    BY <1>4, <2>1, <2>3
<1>8. UNCHANGED list \/ ~BesideTombstone
  BY DEF vars, docVars
<1> QED
  BY <1>1, <1>3, <1>6, <1>7, <1>8, Comings

LEMMA LinedIs == Laid /\ Lined => ConsistentOrder
<1> SUFFICES ASSUME Laid, Lined, NEW p \in Clients, NEW q \in Clients, NEW t \in Texts,
                    NEW x \in ToSet(list[p][t]) \cap ToSet(list[q][t]),
                    NEW y \in ToSet(list[p][t]) \cap ToSet(list[q][t])
             PROVE  Before(list[p][t], x, y) <=> Before(list[q][t], x, y)
  BY DEF ConsistentOrder
<1>1. PICK lt, lo, ro : LinedAt(t, lt, lo, ro)
  BY DEF Lined
<1>2. Chained(Elems(t) \cup {NoId}, lt)
  BY <1>1 DEF LinedAt, Weave
<1>3. ASSUME NEW r \in Clients, NEW l, l = list[r][t], x \in ToSet(l), y \in ToSet(l)
      PROVE  Before(l, x, y) <=> << x, y >> \in lt
  <2>1. DocOK
    BY InvariantParts DEF Laid, Shown
  <2>2. l \in Seq(Ids) /\ Along(l, lt) /\ x \in Elems(t) /\ y \in Elems(t)
    BY <1>1, <1>3, <2>1 DEF DocOK, LinedAt, Elems
  <2>3. PICK n \in Nat : n = Len(l) /\ DOMAIN l = 1 .. n
    BY <2>2
  <2>4. PICK i \in 1 .. n : l[i] = x
    BY <1>3, <2>3 DEF ToSet
  <2>5. PICK j \in 1 .. n : l[j] = y
    BY <1>3, <2>3 DEF ToSet
  <2>6. << x, x >> \notin lt /\ (<< x, y >> \in lt => << y, x >> \notin lt)
    BY <1>2, <2>2 DEF Chained
  <2>7. ASSUME Before(l, x, y) PROVE << x, y >> \in lt
    BY <2>2, <2>7 DEF Before, Along
  <2>8. ASSUME << x, y >> \in lt PROVE Before(l, x, y)
    <3>1. i # j
      BY <2>4, <2>5, <2>6, <2>8
    <3>2. ~(j < i)
      BY <2>2, <2>3, <2>4, <2>5, <2>6, <2>8 DEF Along
    <3>3. i < j
      BY <3>1, <3>2
    <3> QED
      BY <2>3, <2>4, <2>5, <3>3 DEF Before
  <2> QED
    BY <2>7, <2>8
<1> QED
  BY <1>3

LEMMA AlwaysLaid == Spec /\ [][~Compacts]_vars /\ [][~Fails]_vars => []Laid
<1>1. Init => OwnEnded
  BY InitEnded
<1>2. Shown /\ Shown' /\ OwnEnded /\ [Next]_vars => OwnEnded'
  BY EndedStep DEF Shown
<1>3. Shown /\ BehindLeftOrigin /\ OwnEnded => Laid
  <2> SUFFICES ASSUME Shown, BehindLeftOrigin, OwnEnded PROVE Laid
    OBVIOUS
  <2>1. History /\ WellKept
    BY InvariantParts DEF Shown
  <2>2. Ends
    BY <2>1, EndedHome DEF Ends
  <2> QED
    BY <2>2, SidedIs DEF Laid
<1> QED
  BY AlwaysShown, ElementsStandBehindTheirOrigins, <1>1, <1>2, <1>3, PTL DEF Spec

\* Where nobody compacts, no zone overflows and nobody inserts next to a
\* deleted element, no two documents ever order two elements differently,
\* whatever each of them lacks and whatever order the items came in
\* (YArray::integrate).
THEOREM DocumentsOrderAlike ==
  Spec /\ [][~Compacts]_vars /\ [][~Fails]_vars /\ [][~BesideTombstone]_vars
  => []ConsistentOrder
<1>1. Init => Lined
  BY InitLined
<1>2. Laid /\ Laid' /\ Lined /\ [Next]_vars /\ [~BesideTombstone]_vars => Lined'
  BY LinedStep
<1>3. Laid /\ Lined => ConsistentOrder
  BY LinedIs
<1> QED
  BY AlwaysLaid, <1>1, <1>2, <1>3, PTL DEF Spec

-----------------------------------------------------------------------------
(* Lists: between the origins, in every document.                          *)

LEMMA BetweenIs ==
  ASSUME Shown, BehindLeftOrigin, ConsistentOrder
  PROVE  BetweenOrigins
<1> SUFFICES ASSUME NEW p \in Clients, NEW t \in Texts, NEW x \in ToSet(list[p][t]),
                    NEW or, or = Find(store[p], x).origin_right, or # NoId
             PROVE  Before(list[p][t], x, Find(store[p], or).id)
  BY DEF BetweenOrigins, BehindLeftOrigin
<1>1. /\ x[1] \in Clients /\ x \in ToSet(list[x[1]][t])
      /\ Before(list[x[1]][t], x, or) /\ or \in ToSet(list[x[1]][t])
      /\ or \in ToSet(list[p][t])
  BY RightListed DEF RightOf
<1>2. Before(list[p][t], x, or)
  BY <1>1 DEF ConsistentOrder
<1> QED
  BY <1>2, ListedFound DEF Shown

\* Where nobody compacts, no zone overflows and nobody inserts next to a
\* deleted element, every element stands in every document between the two
\* elements its author inserted it between.
THEOREM ElementsStandBetween ==
  Spec /\ [][~Compacts]_vars /\ [][~Fails]_vars /\ [][~BesideTombstone]_vars
  => []BetweenOrigins
<1>1. Shown /\ BehindLeftOrigin /\ ConsistentOrder => BetweenOrigins
  BY BetweenIs
<1> QED
  BY AlwaysShown, ElementsStandBehindTheirOrigins, DocumentsOrderAlike, <1>1, PTL

-----------------------------------------------------------------------------
(* Lists: documents that hold the same items show the same lists.          *)

\* Sequences without repeats that hold the same elements in the same order.
LEMMA SameSoFar ==
  ASSUME NEW l \in Seq(Ids), NEW u \in Seq(Ids), NoRepeats(l), NoRepeats(u),
         ToSet(l) = ToSet(u), \A x, y \in ToSet(l) : Before(l, x, y) <=> Before(u, x, y)
  PROVE  \A n \in 1 .. Len(l) : n \in DOMAIN u /\ u[n] = l[n]
<1>n. /\ Len(l) \in Nat /\ DOMAIN l = 1 .. Len(l)
      /\ Len(u) \in Nat /\ DOMAIN u = 1 .. Len(u)
  OBVIOUS
<1> DEFINE Same(m) == \A n \in 1 .. m : n \in DOMAIN u /\ u[n] = l[n]
           T == { m \in Nat : m <= Len(l) => Same(m) }
<1>1. 0 \in T
  OBVIOUS
<1>2. ASSUME NEW m \in Nat, m \in T PROVE m + 1 \in T
  <2> SUFFICES ASSUME m + 1 <= Len(l) PROVE m + 1 \in DOMAIN u /\ u[m + 1] = l[m + 1]
    BY <1>2, <1>n
  <2>1. \A n \in 1 .. m : n \in DOMAIN u /\ u[n] = l[n]
    BY <1>2, <1>n
  <2> HIDE DEF T, Same
  <2>2. PICK a \in DOMAIN l : a = m + 1
    BY <1>n
  <2>3. l[a] \in ToSet(l) /\ l[a] \in ToSet(u)
    BY DEF ToSet
  <2>4. PICK k \in DOMAIN u : u[k] = l[a]
    BY <2>3 DEF ToSet
  <2>5. k >= a
    <3> SUFFICES ASSUME k < a PROVE FALSE
      BY <1>n
    <3>1. k \in 1 .. m
      BY <1>n, <2>2
    <3>2. l[k] = l[a] /\ k \in DOMAIN l
      BY <1>n, <2>1, <2>2, <2>4, <3>1
    <3> QED
      BY <1>n, <3>2 DEF NoRepeats
  <2>6. k = a
    <3> SUFFICES ASSUME k > a PROVE FALSE
      BY <1>n, <2>5
    <3>1. a \in DOMAIN u
      BY <1>n
    <3>2. u[a] \in ToSet(u) /\ u[a] \in ToSet(l)
      BY <3>1 DEF ToSet
    <3>3. PICK b \in DOMAIN l : l[b] = u[a]
      BY <3>2 DEF ToSet
    <3>4. Before(u, u[a], l[a])
      BY <2>4, <3>1 DEF Before
    <3>5. Before(l, l[b], l[a])
      BY <2>3, <3>2, <3>3, <3>4
    <3>6. b < a
      <4>1. PICK i \in DOMAIN l : \E j \in DOMAIN l : i < j /\ l[i] = l[b] /\ l[j] = l[a]
        BY <3>5 DEF Before
      <4>2. PICK j \in DOMAIN l : i < j /\ l[i] = l[b] /\ l[j] = l[a]
        BY <4>1
      <4>3. i = b /\ j = a
        BY <4>2 DEF NoRepeats
      <4> QED
        BY <4>2, <4>3
    <3>7. u[b] = l[b] /\ b \in DOMAIN u
      BY <1>n, <2>1, <2>2, <3>6
    <3>8. a = b
      BY <3>1, <3>3, <3>7 DEF NoRepeats
    <3> QED
      BY <1>n, <3>6, <3>8
  <2> QED
    BY <2>2, <2>4, <2>6
<1>3. Len(l) \in T
  <2> HIDE DEF T
  <2> QED
    BY <1>n, <1>1, <1>2, SetInduction
<1>4. Same(Len(l))
  BY <1>n, <1>3
<1> QED
  BY <1>4

LEMMA SameOrder ==
  ASSUME NEW l \in Seq(Ids), NEW u \in Seq(Ids), NoRepeats(l), NoRepeats(u),
         ToSet(l) = ToSet(u), \A x, y \in ToSet(l) : Before(l, x, y) <=> Before(u, x, y)
  PROVE  l = u
<1>1. \A n \in 1 .. Len(l) : n \in DOMAIN u /\ u[n] = l[n]
  BY SameSoFar
<1>2. \A n \in 1 .. Len(u) : n \in DOMAIN l
  BY SameSoFar
<1>n. /\ Len(l) \in Nat /\ DOMAIN l = 1 .. Len(l)
      /\ Len(u) \in Nat /\ DOMAIN u = 1 .. Len(u)
  OBVIOUS
<1>3. Len(l) <= Len(u)
  <2>1. CASE Len(l) = 0
    BY <1>n, <2>1
  <2>2. CASE Len(l) # 0
    <3>1. Len(l) \in DOMAIN u
      BY <1>1, <1>n, <2>2
    <3> QED
      BY <1>n, <3>1
  <2> QED
    BY <2>1, <2>2
<1>4. Len(u) <= Len(l)
  <2>1. CASE Len(u) = 0
    BY <1>n, <2>1
  <2>2. CASE Len(u) # 0
    <3>1. Len(u) \in DOMAIN l
      BY <1>2, <1>n, <2>2
    <3> QED
      BY <1>n, <3>1
  <2> QED
    BY <2>1, <2>2
<1> QED
  BY <1>1, <1>3, <1>4, <1>n

\* What is live depends on the flags of the elements alone.
LEMMA LiveSame ==
  ASSUME NEW l \in Seq(Ids), NEW dead, NEW gone,
         \A x \in ToSet(l) : x \in dead <=> x \in gone
  PROVE  Live(l, dead) = Live(l, gone)
<1>1. PICK f : LiveOf(l, dead, f) /\ Live(l, dead) = f[Len(l)]
  BY LiveIs
<1>2. PICK g : LiveOf(l, gone, g) /\ Live(l, gone) = g[Len(l)]
  BY LiveIs
<1>n. Len(l) \in Nat /\ DOMAIN l = 1 .. Len(l)
  OBVIOUS
<1> DEFINE T == { n \in Nat : n <= Len(l) => f[n] = g[n] }
<1>3. 0 \in T
  BY <1>1, <1>2 DEF LiveOf
<1>4. ASSUME NEW n \in Nat, n \in T PROVE n + 1 \in T
  <2> SUFFICES ASSUME n + 1 <= Len(l) PROVE f[n + 1] = g[n + 1]
    OBVIOUS
  <2>1. f[n] = g[n]
    BY <1>4, <1>n
  <2> HIDE DEF T
  <2>2. PICK m \in 1 .. Len(l) : m = n + 1
    BY <1>n
  <2>3. m - 1 = n /\ l[m] \in ToSet(l)
    BY <1>n, <2>2 DEF ToSet
  <2>4. f[m] = IF l[m] \in dead THEN f[m - 1] ELSE Append(f[m - 1], l[m])
    BY <1>1 DEF LiveOf
  <2>5. g[m] = IF l[m] \in gone THEN g[m - 1] ELSE Append(g[m - 1], l[m])
    BY <1>2 DEF LiveOf
  <2> QED
    BY <2>1, <2>2, <2>3, <2>4, <2>5
<1>5. Len(l) \in T
  <2> HIDE DEF T
  <2> QED
    BY <1>n, <1>3, <1>4, SetInduction
<1> QED
  BY <1>1, <1>2, <1>5, <1>n

LEMMA SameLists ==
  ASSUME Shown, ConsistentOrder, NEW p \in Clients, NEW q \in Clients,
         store[p] = store[q]
  PROVE  list[p] = list[q]
<1>1. DocOK /\ History /\ Flagging /\ ShownRooted /\ Distinct
  BY InvariantParts DEF Shown, AllRooted
<1>2. ASSUME NEW r \in Clients, NEW s \in Clients, store[r] = store[s],
             NEW t \in Texts, NEW x \in ToSet(list[r][t])
      PROVE  x \in ToSet(list[s][t])
  <2>1. Exact(store[s], x) /\ Root(x) = t
    BY <1>1, <1>2 DEF Flagging, ListsOK, ShownRooted
  <2>2. PICK d \in Clients : d = x[1]
    BY <2>1 DEF Exact, Ids
  <2>3. PICK i \in DOMAIN store[s][d] : store[s][d][i].id = x
    BY <2>1, <2>2 DEF Exact
  <2> QED
    BY <2>1, <2>3, ListedWhereStored
<1>3. ASSUME NEW t \in Texts PROVE list[p][t] = list[q][t]
  <2>1. PICK l : l = list[p][t]
    OBVIOUS
  <2>2. PICK u : u = list[q][t]
    OBVIOUS
  <2>3. l \in Seq(Ids) /\ u \in Seq(Ids) /\ NoRepeats(l) /\ NoRepeats(u)
    BY <1>1, <2>1, <2>2 DEF DocOK, Distinct
  <2>4. ToSet(l) = ToSet(u)
    BY <1>2, <2>1, <2>2
  <2>5. \A x, y \in ToSet(l) : Before(l, x, y) <=> Before(u, x, y)
    BY <2>1, <2>2, <2>4 DEF ConsistentOrder
  <2>6. l = u
    BY <2>3, <2>4, <2>5, SameOrder
  <2> QED
    BY <2>1, <2>2, <2>6
<1>4. list[p] \in [Texts -> Seq(Ids)] /\ list[q] \in [Texts -> Seq(Ids)]
  BY <1>1 DEF DocOK
<1> QED
  BY <1>3, <1>4

\* Items that are stored in both documents are deleted in both or in none.
LEMMA SameFlags ==
  ASSUME DocOK, History, DeletedIsFlagged, job = NoJob, NEW p \in Clients, NEW q \in Clients,
         store[p] = store[q], ds[p] = ds[q], NEW x, Exact(store[p], x)
  PROVE  x \in del[p] <=> x \in del[q]
<1>1. PICK d \in Clients : d = x[1]
  BY DEF Exact, Ids
<1>2. PICK i \in DOMAIN store[p][d] : store[p][d][i].id = x
  BY <1>1 DEF Exact
<1>3. PICK it : it = store[p][d][i]
  OBVIOUS
<1>4. it \in Stored(store[p]) /\ it \in Stored(store[q]) /\ it.id = x
  BY <1>2, <1>3 DEF Stored, ToSet, DocOK, Stores
<1> QED
  BY <1>4 DEF DeletedIsFlagged

LEMMA ConvergedIs ==
  ASSUME Shown, ConsistentOrder, HeadsAgree, DeletedIsFlagged
  PROVE  Converged
<1> SUFFICES ASSUME job = NoJob, NEW p \in Clients, NEW q \in Clients,
                    StateVector(store[p]) = StateVector(store[q]), ds[p] = ds[q]
             PROVE  View(p) = View(q)
  BY DEF Converged
<1>1. DocOK /\ History /\ Flagging /\ StoredRooted /\ StoredWhole
  BY InvariantParts DEF Shown, AllRooted, AllWhole
<1>2. store[p] = store[q] /\ head[p] = head[q]
  BY <1>1, SameStores DEF HeadsAgree
<1>3. list[p] = list[q]
  BY <1>2, SameLists
<1>4. \A x : Exact(store[p], x) => (x \in del[p] <=> x \in del[q])
  BY <1>1, <1>2, SameFlags
<1>5. ASSUME NEW t \in Texts PROVE Live(list[p][t], del[p]) = Live(list[q][t], del[q])
  <2>1. PICK l : l = list[p][t]
    OBVIOUS
  <2>2. l \in Seq(Ids) /\ \A x \in ToSet(l) : x \in del[p] <=> x \in del[q]
    BY <1>1, <1>4, <2>1 DEF DocOK, Flagging, ListsOK
  <2>3. Live(l, del[p]) = Live(l, del[q])
    BY <2>2, LiveSame
  <2> QED
    BY <1>3, <2>1, <2>3
<1>6. ASSUME NEW k \in Keys
      PROVE  (IF head[p][k] \in del[p] THEN NoId ELSE head[p][k])
               = (IF head[q][k] \in del[q] THEN NoId ELSE head[q][k])
  <2>1. PICK x : x = head[p][k]
    OBVIOUS
  <2>2. x # NoId => Exact(store[p], x)
    BY <1>1, <2>1 DEF Flagging, KeysOK
  <2> QED
    BY <1>2, <1>4, <2>1, <2>2
<1> QED
  BY <1>5, <1>6 DEF View

\* Documents that ask each other for what they lack, hold the same items and
\* know of the same deletions show the same lists and the same values, given
\* that nobody compacts, no zone overflows, no chain is cut and nobody inserts
\* next to a deleted element.
THEOREM DocumentsConverge ==
  ASSUME Publishers = {}
  PROVE  Spec /\ [][~Compacts]_vars /\ [][~Fails]_vars /\ [][~BesideTombstone]_vars
         /\ []ChainsFit => []Converged
<1>1. Shown /\ ConsistentOrder /\ HeadsAgree /\ DeletedIsFlagged => Converged
  BY ConvergedIs
<1>2. Spec => []DeletedIsFlagged
  BY DeletionsAreFlagged
<1> QED
  BY AlwaysShown, DocumentsOrderAlike, HeadsSettle, <1>1, <1>2, PTL

=============================================================================
