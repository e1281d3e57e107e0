----------------------------- MODULE DocProofs ------------------------------
(***************************************************************************)
(* Type correctness of module Doc; that every document holds a prefix of   *)
(* what each client emitted and forgets none of it; that the clock of the  *)
(* next edit is free; that a call leaves out only what is in want of       *)
(* something; that flags and delete set agree; that documents implement    *)
(* the abstract log of module UpdateLog.                                   *)
(***************************************************************************)
EXTENDS DocProperties, SequenceTheorems, TLAPS

-----------------------------------------------------------------------------
(* Items and stores.                                                       *)

Stores == [Clients -> Seq(Items)]

\* The ids an item yields are ids: its own, that of its last clock, and all
\* of its clocks (ycpp_id.h).
LEMMA ItemIds ==
  ASSUME NEW it \in Items
  PROVE  /\ it.id \in Ids /\ Client(it) \in Clients
         /\ it.id[2] \in Nat /\ it.length \in Nat /\ it.length >= 1
         /\ End(it) \in Nat /\ End(it) > it.id[2]
         /\ LastId(it) \in Ids
         /\ ClocksOf(it) \subseteq Ids
         /\ Covers(it, it.id)
<1>1. it.id \in Clients \X Nat /\ it.length \in Nat \ {0}
  BY LensAssumption DEF Items, Ids
<1>2. PICK c \in Clients, n \in Nat : it.id = << c, n >>
  BY <1>1
<1>3. it.id[1] = c /\ it.id[2] = n /\ it.id # << >>
  BY <1>2
<1>4. /\ End(it) \in Nat /\ End(it) > n
      /\ n + (it.length - 1) \in Nat
  BY <1>1, <1>3 DEF End
<1>5. LastId(it) \in Ids
  BY <1>3, <1>4 DEF LastId, Ids
<1>6. ClocksOf(it) \subseteq Ids
  BY <1>3, <1>4 DEF ClocksOf, Ids
<1>7. Covers(it, it.id)
  BY <1>3, <1>4 DEF Covers, NoId
<1> QED
  BY <1>1, <1>3, <1>4, <1>5, <1>6, <1>7 DEF Client, Ids

\* find_by_id returns a stored item that contains the id.
LEMMA FindStored ==
  ASSUME NEW st \in Stores, NEW x \in Ids, Has(st, x)
  PROVE  /\ Find(st, x) \in Items
         /\ Covers(Find(st, x), x)
         /\ \E i \in DOMAIN st[x[1]] : Find(st, x) = st[x[1]][i]
<1>1. x[1] \in Clients
  BY DEF Ids
<1>2. \E i \in DOMAIN st[x[1]] : Covers(st[x[1]][i], x)
  BY DEF Has
<1>3. PICK i \in DOMAIN st[x[1]] : /\ Covers(st[x[1]][i], x)
                                   /\ Find(st, x) = st[x[1]][i]
  BY <1>2 DEF Find
<1>4. st[x[1]][i] \in Items
  BY <1>1, <1>3 DEF Stores
<1> QED
  BY <1>3, <1>4

\* append adds the item at the end of its client's vector and leaves the
\* rest alone; whatever was stored stays stored (StructStore::append).
LEMMA AppendStored ==
  ASSUME NEW st \in Stores, NEW it \in Items
  PROVE  /\ Appended(st, it) \in Stores
         /\ \A c \in Clients : Appended(st, it)[c] =
              IF c = Client(it) THEN Append(st[c], it) ELSE st[c]
         /\ \A c \in Clients : \A i \in DOMAIN st[c] :
              /\ i \in DOMAIN Appended(st, it)[c]
              /\ Appended(st, it)[c][i] = st[c][i]
         /\ \A x \in Ids : Has(st, x) => Has(Appended(st, it), x)
         /\ Has(Appended(st, it), it.id)
<1> DEFINE c0 == Client(it)
           st2 == Appended(st, it)
<1>1. c0 \in Clients
  BY ItemIds
<1>2. /\ st2 \in Stores
      /\ \A c \in Clients : st2[c] = IF c = c0 THEN Append(st[c], it) ELSE st[c]
  <2>1. Append(st[c0], it) \in Seq(Items)
    BY <1>1 DEF Stores
  <2> QED
    BY <1>1, <2>1 DEF Appended, Stores
<1>3. \A c \in Clients : \A i \in DOMAIN st[c] :
        i \in DOMAIN st2[c] /\ st2[c][i] = st[c][i]
  <2> SUFFICES ASSUME NEW c \in Clients, NEW i \in DOMAIN st[c]
               PROVE  i \in DOMAIN st2[c] /\ st2[c][i] = st[c][i]
    OBVIOUS
  <2>1. st[c] \in Seq(Items) /\ i \in 1 .. Len(st[c])
    BY DEF Stores
  <2>2. CASE c = c0
    <3>1. st2[c] = Append(st[c], it)
      BY <1>2, <2>2
    <3> QED
      BY <2>1, <3>1, AppendProperties
  <2>3. CASE c # c0
    BY <1>2, <2>3
  <2> QED
    BY <2>2, <2>3
<1>4. ASSUME NEW x \in Ids, Has(st, x) PROVE Has(st2, x)
  <2>1. x[1] \in Clients
    BY DEF Ids
  <2>2. PICK i \in DOMAIN st[x[1]] : x # NoId /\ Covers(st[x[1]][i], x)
    BY <1>4 DEF Has
  <2> QED
    BY <1>3, <2>1, <2>2 DEF Has
<1>5. Has(st2, it.id)
  <2>1. st[c0] \in Seq(Items)
    BY <1>1 DEF Stores
  <2>2. Len(st[c0]) + 1 \in DOMAIN st2[c0] /\ st2[c0][Len(st[c0]) + 1] = it
    <3>1. st2[c0] = Append(st[c0], it)
      BY <1>1, <1>2
    <3> QED
      BY <2>1, <3>1, AppendProperties
  <2>3. Covers(it, it.id)
    BY ItemIds
  <2>4. it.id[1] = c0 /\ it.id # NoId
    BY <2>3 DEF Client, Covers
  <2> QED
    BY <2>2, <2>3, <2>4 DEF Has
<1> HIDE DEF c0, st2
<1> QED
  BY <1>2, <1>3, <1>4, <1>5 DEF c0, st2

\* The stored items are the entries of the vectors.
LEMMA StoredItem ==
  ASSUME NEW st \in Stores, NEW s \in Stored(st)
  PROVE  s \in Items /\ \E c \in Clients : \E i \in DOMAIN st[c] : s = st[c][i]
<1>1. DOMAIN st = Clients
  BY DEF Stores
<1>2. PICK c \in Clients : s \in ToSet(st[c])
  BY <1>1 DEF Stored
<1>3. PICK i \in DOMAIN st[c] : s = st[c][i]
  BY <1>2 DEF ToSet
<1> QED
  BY <1>3 DEF Stores

\* u is l with x behind its first at elements.
Spliced(u, l, at, x) ==
  /\ Len(u) = Len(l) + 1
  /\ \A i \in 1 .. at : u[i] = l[i]
  /\ u[at + 1] = x
  /\ \A i \in (at + 1) .. Len(l) : u[i + 1] = l[i]

LEMMA Splice ==
  ASSUME NEW S, NEW l \in Seq(S), NEW at \in 0 .. Len(l), NEW x \in S
  PROVE  /\ InsertAt(l, at + 1, x) \in Seq(S)
         /\ Spliced(InsertAt(l, at + 1, x), l, at, x)
<1> DEFINE a == SubSeq(l, 1, at)
           b == SubSeq(l, at + 1, Len(l))
<1>1. /\ a \in Seq(S) /\ Len(a) = at
      /\ \A i \in 1 .. at : a[i] = l[i]
  BY SubSeqProperties
<1>2. /\ b \in Seq(S) /\ Len(b) = Len(l) - at
      /\ \A i \in 1 .. (Len(l) - at) : b[i] = l[at + i]
  BY SubSeqProperties
<1>3. InsertAt(l, at + 1, x) = (a \o << x >>) \o b
  <2>1. (at + 1) - 1 = at
    OBVIOUS
  <2>2. InsertAt(l, at + 1, x) =
          (SubSeq(l, 1, (at + 1) - 1) \o << x >>) \o SubSeq(l, at + 1, Len(l))
    BY Zenon DEF InsertAt
  <2> QED
    BY <2>1, <2>2, Zenon
<1> HIDE DEF a, b
<1>4. << x >> \in Seq(S) /\ Len(<< x >>) = 1 /\ << x >>[1] = x
  OBVIOUS
<1> DEFINE ax == a \o << x >>
           axb == ax \o b
<1>5. /\ ax \in Seq(S) /\ Len(ax) = at + 1
      /\ \A i \in 1 .. at : ax[i] = l[i]
      /\ ax[at + 1] = x
  <2>1. ax \in Seq(S) /\ Len(ax) = at + 1
    BY <1>1, <1>4, ConcatProperties
  <2>2. \A i \in 1 .. at + 1 : ax[i] = IF i <= at THEN a[i] ELSE << x >>[i - at]
    BY <1>1, <1>4, ConcatProperties
  <2>3. at + 1 \in 1 .. at + 1 /\ ~(at + 1 <= at) /\ (at + 1) - at = 1
    OBVIOUS
  <2>4. ax[at + 1] = x
    BY <2>2, <2>3, <1>4
  <2>5. ASSUME NEW i \in 1 .. at PROVE ax[i] = l[i]
    BY <2>2, <1>1
  <2> QED
    BY <2>1, <2>4, <2>5
<1> HIDE DEF ax
<1>6. /\ axb \in Seq(S) /\ Len(axb) = Len(l) + 1
      /\ \A i \in 1 .. Len(l) + 1 :
           axb[i] = IF i <= at + 1 THEN ax[i] ELSE b[i - (at + 1)]
  <2>1. axb \in Seq(S) /\ Len(axb) = Len(ax) + Len(b)
    BY <1>2, <1>5, ConcatProperties
  <2>2. \A i \in 1 .. Len(ax) + Len(b) :
          axb[i] = IF i <= Len(ax) THEN ax[i] ELSE b[i - Len(ax)]
    BY <1>2, <1>5, ConcatProperties
  <2>3. Len(ax) + Len(b) = Len(l) + 1 /\ Len(ax) = at + 1
    BY <1>2, <1>5
  <2> QED
    BY <2>1, <2>2, <2>3
<1> HIDE DEF axb
<1>7. \A i \in 1 .. at : axb[i] = l[i]
  <2> SUFFICES ASSUME NEW i \in 1 .. at PROVE axb[i] = l[i]
    OBVIOUS
  <2>1. i \in 1 .. Len(l) + 1 /\ i <= at + 1
    OBVIOUS
  <2> QED
    BY <2>1, <1>5, <1>6
<1>8. axb[at + 1] = x
  BY <1>5, <1>6
<1>9. \A i \in (at + 1) .. Len(l) : axb[i + 1] = l[i]
  <2> SUFFICES ASSUME NEW i \in (at + 1) .. Len(l) PROVE axb[i + 1] = l[i]
    OBVIOUS
  <2>1. /\ i + 1 \in 1 .. Len(l) + 1 /\ ~(i + 1 <= at + 1)
        /\ i - at \in 1 .. (Len(l) - at)
        /\ (i + 1) - (at + 1) = i - at /\ at + (i - at) = i
    OBVIOUS
  <2>2. axb[i + 1] = b[i - at]
    BY <2>1, <1>6
  <2>3. b[i - at] = l[at + (i - at)]
    BY <2>1, <1>2
  <2> QED
    BY <2>1, <2>2, <2>3
<1> QED
  BY <1>3, <1>6, <1>7, <1>8, <1>9 DEF ax, axb, Spliced

\* Splicing an id into a list of ids: its ids are those from before and the
\* new one.
LEMMA SpliceType ==
  ASSUME NEW S, NEW l \in Seq(S), NEW at \in 0 .. Len(l), NEW x \in S
  PROVE  /\ InsertAt(l, at + 1, x) \in Seq(S)
         /\ ToSet(InsertAt(l, at + 1, x)) \subseteq ToSet(l) \cup {x}
<1>u. PICK u : u = InsertAt(l, at + 1, x)
  OBVIOUS
<1>0. u \in Seq(S) /\ Spliced(u, l, at, x)
  BY <1>u, Splice
<1>1. /\ u \in Seq(S) /\ Len(u) = Len(l) + 1
      /\ \A i \in 1 .. at : u[i] = l[i]
      /\ u[at + 1] = x
      /\ \A i \in (at + 1) .. Len(l) : u[i + 1] = l[i]
  BY <1>0 DEF Spliced
<1>2. ASSUME NEW i \in 1 .. Len(l) + 1 PROVE u[i] \in ToSet(l) \cup {x}
  <2>1. CASE i <= at
    BY <1>1, <2>1 DEF ToSet
  <2>2. CASE i = at + 1
    BY <1>1, <2>2
  <2>3. CASE i > at + 1
    <3>1. PICK j \in (at + 1) .. Len(l) : i = j + 1
      <4>1. i - 1 \in (at + 1) .. Len(l) /\ i = (i - 1) + 1
        BY <2>3
      <4> QED
        BY <4>1
    <3>2. j \in DOMAIN l
      OBVIOUS
    <3> QED
      BY <1>1, <3>1, <3>2 DEF ToSet
  <2> QED
    BY <2>1, <2>2, <2>3
<1>3. ToSet(u) \subseteq ToSet(l) \cup {x}
  BY <1>1, <1>2 DEF ToSet
<1> QED
  BY <1>u, <1>1, <1>3

-----------------------------------------------------------------------------
(* Type correctness.                                                       *)

DocOK ==
  /\ store \in [Clients -> Stores]
  /\ order \in [Clients -> Seq(Clients)]
  /\ ds \in [Clients -> SUBSET Ids]
  /\ del \in [Clients -> SUBSET Ids]
  /\ list \in [Clients -> [Texts -> Seq(Ids)]]
  /\ head \in [Clients -> [Keys -> OptIds]]
  /\ clock \in [Clients -> Nat]
  /\ ListStored
  /\ HeadStored

CallOK ==
  /\ job \in Jobs \cup {NoJob}
  /\ msgs \subseteq Updates
  /\ sent \in [Clients -> [Clients -> Nat]]

\* The part of IInv that types need.
LEMMA TypeParts ==
  TypeOK /\ ListStored /\ HeadStored <=> DocOK /\ CallOK
BY DEF TypeOK, DocOK, CallOK, Stores

\* Storing an item keeps the store and its client order well formed, and
\* forgets nothing.
LEMMA StoreItemOK ==
  ASSUME DocOK, NEW p \in Clients, NEW it \in Items, StoreItem(p, it)
  PROVE  /\ store' \in [Clients -> Stores]
         /\ order' \in [Clients -> Seq(Clients)]
         /\ \A q \in Clients, x \in Ids : Has(store[q], x) => Has(store'[q], x)
         /\ Has(store'[p], it.id)
<1>1. store[p] \in Stores
  BY DEF DocOK
<1>2. /\ Appended(store[p], it) \in Stores
      /\ \A x \in Ids : Has(store[p], x) => Has(Appended(store[p], it), x)
      /\ Has(Appended(store[p], it), it.id)
  BY <1>1, AppendStored
<1>3. store' = [store EXCEPT ![p] = Appended(store[p], it)]
  BY DEF StoreItem
<1>4. /\ store' \in [Clients -> Stores]
      /\ store'[p] = Appended(store[p], it)
      /\ \A q \in Clients \ {p} : store'[q] = store[q]
  BY <1>2, <1>3 DEF DocOK
<1>5. Registered(order[p], Client(it)) \in Seq(Clients)
  <2>1. Client(it) \in Clients /\ order[p] \in Seq(Clients)
    BY ItemIds DEF DocOK
  <2> QED
    BY <2>1 DEF Registered
<1>6. order' \in [Clients -> Seq(Clients)]
  BY <1>5 DEF StoreItem, DocOK
<1> QED
  BY <1>2, <1>4, <1>6

\* The same lists and heads still name stored items when no store lost any.
LEMMA StillStored ==
  ASSUME DocOK,
         \A q \in Clients, x \in Ids : Has(store[q], x) => Has(store'[q], x)
  PROVE  /\ UNCHANGED list => ListStored'
         /\ UNCHANGED head => HeadStored'
<1>1. ASSUME UNCHANGED list PROVE ListStored'
  <2> SUFFICES ASSUME NEW q \in Clients, NEW t \in Texts, NEW i \in DOMAIN list[q][t]
               PROVE  Has(store'[q], list[q][t][i])
    BY <1>1 DEF ListStored
  <2>1. list[q][t] \in Seq(Ids)
    BY DEF DocOK
  <2>2. list[q][t][i] \in Ids
    BY <2>1
  <2>3. Has(store[q], list[q][t][i])
    BY DEF DocOK, ListStored
  <2> QED
    BY <2>2, <2>3
<1>2. ASSUME UNCHANGED head PROVE HeadStored'
  <2> SUFFICES ASSUME NEW q \in Clients, NEW k \in Keys, head[q][k] # NoId
               PROVE  Has(store'[q], head[q][k])
    BY <1>2 DEF HeadStored
  <2>1. head[q][k] \in OptIds
    BY DEF DocOK
  <2>2. head[q][k] \in Ids
    BY <2>1 DEF OptIds
  <2>3. Has(store[q], head[q][k])
    BY DEF DocOK, HeadStored
  <2> QED
    BY <2>2, <2>3
<1> QED
  BY <1>1, <1>2

\* bump_clock_for keeps next_clock_ a number.
LEMMA BumpedOK ==
  ASSUME DocOK, NEW p \in Clients, NEW it \in Items
  PROVE  Bumped(p, it) \in [Clients -> Nat]
<1>1. End(it) \in Nat
  BY ItemIds
<1> QED
  BY <1>1 DEF Bumped, DocOK

\* An item spliced into its list (install_into_array).
LEMMA InstallIntoArrayOK ==
  ASSUME DocOK, NEW p \in Clients, NEW it \in Items, it.parent \in Texts,
         InstallIntoArray(p, it)
  PROVE  DocOK'
<1> DEFINE t == it.parent
           l == list[p][t]
           st == Appended(store[p], it)
<1>1. StoreItem(p, it)
  BY DEF InstallIntoArray
<1>2. /\ store' \in [Clients -> Stores]
      /\ order' \in [Clients -> Seq(Clients)]
      /\ \A q \in Clients, x \in Ids : Has(store[q], x) => Has(store'[q], x)
      /\ Has(store'[p], it.id)
  BY <1>1, StoreItemOK
<1>3. clock' \in [Clients -> Nat]
  BY BumpedOK DEF InstallIntoArray
<1>4. UNCHANGED << ds, del, head >>
  BY DEF InstallIntoArray
<1>5. HeadStored'
  BY <1>2, <1>4, StillStored
<1>6. list' \in [Clients -> [Texts -> Seq(Ids)]] /\ ListStored'
  <2>1. CASE UNCHANGED list
    BY <1>2, <2>1, StillStored DEF DocOK
  <2>2. ASSUME NEW at \in 0 .. Len(l),
               list' = [list EXCEPT ![p][t] = InsertAt(l, at + 1, it.id)]
        PROVE  list' \in [Clients -> [Texts -> Seq(Ids)]] /\ ListStored'
    <3>1. l \in Seq(Ids) /\ it.id \in Ids
      BY ItemIds DEF DocOK
    <3>2. /\ InsertAt(l, at + 1, it.id) \in Seq(Ids)
          /\ ToSet(InsertAt(l, at + 1, it.id)) \subseteq ToSet(l) \cup {it.id}
      BY <3>1, <2>2, SpliceType
    <3>3. /\ list' \in [Clients -> [Texts -> Seq(Ids)]]
          /\ list'[p][t] = InsertAt(l, at + 1, it.id)
          /\ \A q \in Clients, u \in Texts :
               q # p \/ u # t => list'[q][u] = list[q][u]
      BY <2>2, <3>2 DEF DocOK
    <3> HIDE DEF t, l, st
    <3>4. ASSUME NEW q \in Clients, NEW u \in Texts, NEW i \in DOMAIN list'[q][u]
          PROVE  Has(store'[q], list'[q][u][i])
      <4>1. ASSUME NEW r \in Clients, NEW v \in Texts, NEW x \in ToSet(list[r][v])
            PROVE  Has(store'[r], x)
        <5>1. PICK j \in DOMAIN list[r][v] : x = list[r][v][j]
          BY DEF ToSet
        <5>2. x \in Ids
          <6>1. list[r][v] \in Seq(Ids)
            BY DEF DocOK
          <6> QED
            BY <5>1, <6>1
        <5>3. Has(store[r], x)
          BY <5>1 DEF DocOK, ListStored
        <5> QED
          BY <1>2, <5>2, <5>3
      <4>2. CASE q = p /\ u = t
        <5>1. list'[q][u][i] \in ToSet(l) \cup {it.id}
          <6>1. list'[q][u][i] \in ToSet(list'[q][u])
            BY DEF ToSet
          <6> QED
            BY <4>2, <3>2, <3>3, <6>1
        <5>2. CASE list'[q][u][i] \in ToSet(l)
          BY <4>1, <4>2, <5>2 DEF l
        <5>3. CASE list'[q][u][i] = it.id
          BY <1>2, <4>2, <5>3
        <5> QED
          BY <5>1, <5>2, <5>3
      <4>3. CASE q # p \/ u # t
        <5>1. list'[q][u] = list[q][u]
          BY <3>3, <4>3
        <5>2. list'[q][u][i] \in ToSet(list[q][u])
          BY <5>1 DEF ToSet
        <5> QED
          BY <4>1, <5>2
      <4> QED
        BY <4>2, <4>3
    <3> QED
      BY <3>3, <3>4 DEF ListStored
  <2> QED
    BY <2>1, <2>2 DEF InstallIntoArray
<1> QED
  BY <1>2, <1>3, <1>4, <1>5, <1>6 DEF DocOK

\* An item that joins the store only: a placeholder (install_bare), or one
\* that integration gave up on (install_into_array).
LEMMA StoredOnlyOK ==
  ASSUME DocOK, NEW p \in Clients, NEW it \in Items,
         InstallBare(p, it) \/ FailToIntegrate(p, it)
  PROVE  DocOK'
<1>1. StoreItem(p, it) /\ UNCHANGED << ds, del, list, head >>
  BY DEF InstallBare, FailToIntegrate
<1>2. /\ store' \in [Clients -> Stores]
      /\ order' \in [Clients -> Seq(Clients)]
      /\ \A q \in Clients, x \in Ids : Has(store[q], x) => Has(store'[q], x)
  BY <1>1, StoreItemOK
<1>3. clock' \in [Clients -> Nat]
  BY BumpedOK DEF InstallBare, FailToIntegrate, DocOK
<1>4. ListStored' /\ HeadStored'
  BY <1>1, <1>2, StillStored
<1> QED
  BY <1>1, <1>2, <1>3, <1>4 DEF DocOK

\* An item that becomes, or fails to become, the head of its key
\* (install_into_map).
LEMMA InstallIntoMapOK ==
  ASSUME DocOK, NEW p \in Clients, NEW it \in Items, it.parent \in Keys,
         InstallIntoMap(p, it)
  PROVE  DocOK'
<1> DEFINE k == it.parent
           prior == head[p][k]
<1>1. StoreItem(p, it) /\ UNCHANGED list
  BY DEF InstallIntoMap
<1>2. /\ store' \in [Clients -> Stores]
      /\ order' \in [Clients -> Seq(Clients)]
      /\ \A q \in Clients, x \in Ids : Has(store[q], x) => Has(store'[q], x)
      /\ Has(store'[p], it.id)
  BY <1>1, StoreItemOK
<1>3. clock' \in [Clients -> Nat]
  BY BumpedOK DEF InstallIntoMap
<1>4. ListStored'
  BY <1>1, <1>2, StillStored
<1>5. it.id \in Ids /\ ClocksOf(it) \subseteq Ids
  BY ItemIds
<1>6. ASSUME prior # NoId
      PROVE  prior \in Ids /\ ClocksOf(Find(store[p], prior)) \subseteq Ids
  <2>1. prior \in OptIds /\ store[p] \in Stores
    BY DEF DocOK
  <2>2. prior \in Ids
    BY <1>6, <2>1 DEF OptIds
  <2>3. Has(store[p], prior)
    BY <1>6 DEF DocOK, HeadStored
  <2>4. Find(store[p], prior) \in Items
    BY <2>1, <2>2, <2>3, FindStored
  <2> QED
    BY <2>2, <2>4, ItemIds
<1>7. /\ ds' \in [Clients -> SUBSET Ids]
      /\ del' \in [Clients -> SUBSET Ids]
      /\ UNCHANGED head \/ head' = [head EXCEPT ![p][k] = it.id]
  <2>1. CASE prior = NoId
    BY <2>1 DEF InstallIntoMap, DocOK
  <2>2. CASE prior # NoId /\ SortsRightOf(Appended(store[p], it), prior, it.id)
    <3>1. /\ head' = [head EXCEPT ![p][k] = it.id]
          /\ del' = [del EXCEPT ![p] = @ \cup {prior}]
          /\ ds' = [ds EXCEPT ![p] = @ \cup ClocksOf(Find(store[p], prior))]
      BY <2>2 DEF InstallIntoMap
    <3> QED
      BY <1>6, <2>2, <3>1 DEF DocOK
  <2>3. CASE prior # NoId /\ ~SortsRightOf(Appended(store[p], it), prior, it.id)
    <3>1. /\ UNCHANGED head
          /\ del' = [del EXCEPT ![p] = @ \cup {it.id}]
          /\ ds' = [ds EXCEPT ![p] = @ \cup ClocksOf(it)]
      BY <2>3 DEF InstallIntoMap
    <3> QED
      BY <1>5, <3>1 DEF DocOK
  <2> QED
    BY <2>1, <2>2, <2>3
<1>8. head' \in [Clients -> [Keys -> OptIds]] /\ HeadStored'
  <2>1. CASE UNCHANGED head
    BY <1>2, <2>1, StillStored DEF DocOK
  <2>2. CASE head' = [head EXCEPT ![p][k] = it.id]
    <3>1. /\ head' \in [Clients -> [Keys -> OptIds]]
          /\ head'[p][k] = it.id
          /\ \A q \in Clients, j \in Keys :
               q # p \/ j # k => head'[q][j] = head[q][j]
      BY <1>5, <2>2 DEF DocOK, OptIds
    <3>2. ASSUME NEW q \in Clients, NEW j \in Keys, head[q][j] # NoId
          PROVE  Has(store'[q], head[q][j])
      <4>1. head[q][j] \in Ids
        BY <3>2 DEF DocOK, OptIds
      <4>2. Has(store[q], head[q][j])
        BY <3>2 DEF DocOK, HeadStored
      <4> QED
        BY <1>2, <4>1, <4>2
    <3> QED
      BY <1>2, <3>1, <3>2 DEF HeadStored
  <2> QED
    BY <1>7, <2>1, <2>2
<1> QED
  BY <1>1, <1>2, <1>3, <1>4, <1>7, <1>8 DEF DocOK

-----------------------------------------------------------------------------
(* Each operation keeps the documents well formed, and stores at most one  *)
(* item, at the next clock of its client and after the items of its        *)
(* origins.                                                                *)

Installs(p, it) ==
  \/ IsMapValue(it) /\ InstallIntoMap(p, it)
  \/ it.parent \in Texts /\ InstallIntoArray(p, it)
  \/ it.parent \in Texts /\ FailToIntegrate(p, it)
  \/ ~IsMapValue(it) /\ ~IsArrayItem(it) /\ InstallBare(p, it)

Extends(p, it) ==
  /\ it \in Items
  /\ Installs(p, it)
  /\ StoreItem(p, it)
  /\ CanAppend(store[p], it)
  /\ \A x \in {it.origin_left, it.origin_right} \ {NoId} : Has(store[p], x)

\* A local edit: the new item names the last clock of the key's head, or of
\* the element on its left, and the element on its right.
LastOf(p, x) == IF x = NoId THEN NoId ELSE LastId(Find(store[p], x))

WritesKey(p, it) ==
  /\ it.parent \in Keys
  /\ InstallIntoMap(p, it)
  /\ it.origin_left = LastOf(p, head[p][it.parent])
  /\ it.origin_right = NoId

WritesText(p, it) ==
  /\ it.parent \in Texts
  /\ \E left \in ToSet(list[p][it.parent]) \cup {NoId} : it.origin_left = LastOf(p, left)
  /\ it.origin_right \in ToSet(list[p][it.parent]) \cup {NoId}

Emits(p, it) ==
  /\ Extends(p, it)
  /\ Client(it) = p
  /\ it.content_kind = "string"
  /\ WritesKey(p, it) \/ WritesText(p, it)

\* The last clock of a stored item is stored (id_after, find_by_id).
LEMMA LastIdStored ==
  ASSUME NEW st \in Stores, NEW x \in Ids, Has(st, x)
  PROVE  LastId(Find(st, x)) \in Ids /\ Has(st, LastId(Find(st, x)))
<1> DEFINE it == Find(st, x)
<1>1. it \in Items /\ Covers(it, x)
  BY FindStored
<1>2. PICK i \in DOMAIN st[x[1]] : it = st[x[1]][i]
  BY FindStored
<1> HIDE DEF it
<1>3. LastId(it) \in Ids /\ it.id[2] \in Nat /\ it.length \in Nat /\ it.length >= 1
  BY <1>1, ItemIds
<1>4. LastId(it)[1] = it.id[1] /\ LastId(it)[2] = it.id[2] + (it.length - 1)
  BY DEF LastId
<1>5. it.id[1] = x[1]
  BY <1>1 DEF Covers
<1>6. LastId(it) # NoId
  BY DEF LastId, NoId
<1>7. Covers(it, LastId(it))
  BY <1>3, <1>4, <1>6 DEF Covers, End
<1> QED
  BY <1>2, <1>3, <1>4, <1>5, <1>6, <1>7 DEF Has, it

\* map_set_string
LEMMA MapSetOK ==
  ASSUME DocOK, NEW p \in Clients, NEW k \in Keys, NEW n \in Lens, MapSet(p, k, n)
  PROVE  /\ DocOK'
         /\ \E it : Emits(p, it)
<1> DEFINE prior == head[p][k]
           ol == IF prior = NoId THEN NoId ELSE LastId(Find(store[p], prior))
           it == [ id |-> << p, clock[p] >>, length |-> n,
                   origin_left |-> ol, origin_right |-> NoId,
                   parent |-> k, content_kind |-> "string" ]
<1>1. CanAppend(store[p], it) /\ InstallIntoMap(p, it)
  BY DEF MapSet
<1>2. ol \in OptIds /\ (ol # NoId => Has(store[p], ol))
  <2>1. CASE prior = NoId
    BY <2>1 DEF OptIds
  <2>2. CASE prior # NoId
    <3>1. prior \in Ids /\ store[p] \in Stores /\ Has(store[p], prior)
      BY <2>2 DEF DocOK, OptIds, HeadStored
    <3> QED
      BY <2>2, <3>1, LastIdStored DEF OptIds
  <2> QED
    BY <2>1, <2>2
<1>3. clock[p] \in Nat
  BY DEF DocOK
<1> HIDE DEF ol
<1>4. it \in Items
  BY <1>2, <1>3 DEF Items, Ids, OptIds, Parents, Kinds
<1>5. it.parent \in Keys /\ Client(it) = p /\ IsMapValue(it)
  BY DEF Client, IsMapValue
<1>6. StoreItem(p, it)
  BY <1>1 DEF InstallIntoMap
<1>7. it.origin_left = ol /\ it.origin_right = NoId
  OBVIOUS
<1>l. it.origin_left = LastOf(p, head[p][it.parent]) /\ it.content_kind = "string"
  BY DEF LastOf, ol
<1> HIDE DEF it
<1>8. DocOK'
  BY <1>1, <1>4, <1>5, InstallIntoMapOK
<1>9. Extends(p, it)
  BY <1>1, <1>2, <1>4, <1>5, <1>6, <1>7 DEF Extends, Installs
<1> QED
  BY <1>1, <1>5, <1>7, <1>8, <1>9, <1>l DEF Emits, WritesKey

\* emit_array_item, given the two live neighbours.
LEMMA EmitArrayItemOK ==
  ASSUME DocOK, NEW p \in Clients, NEW t \in Texts, NEW n \in Lens,
         NEW left \in ToSet(list[p][t]) \cup {NoId},
         NEW right \in ToSet(list[p][t]) \cup {NoId},
         EmitArrayItem(p, t, n, left, right)
  PROVE  /\ DocOK'
         /\ \E it : /\ Emits(p, it)
                   /\ it.parent = t
                   /\ it.origin_left = LastOf(p, left) /\ it.origin_right = right
<1> DEFINE ol == IF left = NoId THEN NoId ELSE LastId(Find(store[p], left))
           it == [ id |-> << p, clock[p] >>, length |-> n,
                   origin_left |-> ol, origin_right |-> right,
                   parent |-> t, content_kind |-> "string" ]
<1>1. /\ CanAppend(store[p], it)
      /\ InstallIntoArray(p, it) \/ FailToIntegrate(p, it)
  BY DEF EmitArrayItem
<1>2. ASSUME NEW x \in ToSet(list[p][t])
      PROVE  x \in Ids /\ Has(store[p], x)
  <2>1. PICK i \in DOMAIN list[p][t] : x = list[p][t][i]
    BY DEF ToSet
  <2>2. list[p][t] \in Seq(Ids)
    BY DEF DocOK
  <2> QED
    BY <2>1, <2>2 DEF DocOK, ListStored
<1>3. ol \in OptIds /\ (ol # NoId => Has(store[p], ol))
  <2>1. CASE left = NoId
    BY <2>1 DEF OptIds
  <2>2. CASE left # NoId
    <3>1. left \in Ids /\ store[p] \in Stores /\ Has(store[p], left)
      BY <1>2, <2>2 DEF DocOK
    <3> QED
      BY <2>2, <3>1, LastIdStored DEF OptIds
  <2> QED
    BY <2>1, <2>2
<1>4. right \in OptIds /\ (right # NoId => Has(store[p], right))
  BY <1>2 DEF OptIds
<1>5. clock[p] \in Nat
  BY DEF DocOK
<1> HIDE DEF ol
<1>6. it \in Items
  BY <1>3, <1>4, <1>5 DEF Items, Ids, OptIds, Parents, Kinds
<1>7. it.parent \in Texts /\ Client(it) = p
  BY DEF Client
<1>8. StoreItem(p, it)
  BY <1>1 DEF InstallIntoArray, FailToIntegrate
<1>9. it.origin_left = ol /\ it.origin_right = right
  OBVIOUS
<1>l. it.origin_left = LastOf(p, left) /\ it.content_kind = "string" /\ it.parent = t
  BY DEF LastOf, ol
<1> HIDE DEF it
<1>10. DocOK'
  BY <1>1, <1>6, <1>7, InstallIntoArrayOK, StoredOnlyOK
<1>11. Extends(p, it)
  BY <1>1, <1>3, <1>4, <1>6, <1>7, <1>8, <1>9 DEF Extends, Installs
<1>12. Emits(p, it)
  BY <1>7, <1>9, <1>11, <1>l DEF Emits, WritesText
<1> QED
  BY <1>9, <1>10, <1>12, <1>l

\* array_delete_at
LEMMA ArrayDeleteAtOK ==
  ASSUME DocOK, NEW p \in Clients, NEW t \in Texts, NEW index,
         ArrayDeleteAt(p, t, index)
  PROVE  DocOK' /\ UNCHANGED store
<1>1. PICK x \in ToSet(list[p][t]) :
        /\ del' = [del EXCEPT ![p] = @ \cup {x}]
        /\ ds' = [ds EXCEPT ![p] = @ \cup ClocksOf(Find(store[p], x))]
  BY DEF ArrayDeleteAt
<1>2. UNCHANGED << store, order, list, head, clock >>
  BY DEF ArrayDeleteAt
<1>3. x \in Ids /\ Has(store[p], x)
  <2>1. PICK i \in DOMAIN list[p][t] : x = list[p][t][i]
    BY <1>1 DEF ToSet
  <2>2. list[p][t] \in Seq(Ids)
    BY DEF DocOK
  <2> QED
    BY <2>1, <2>2 DEF DocOK, ListStored
<1>4. ClocksOf(Find(store[p], x)) \subseteq Ids
  <2>1. Find(store[p], x) \in Items
    BY <1>3, FindStored DEF DocOK
  <2> QED
    BY <2>1, ItemIds
<1>5. del' \in [Clients -> SUBSET Ids] /\ ds' \in [Clients -> SUBSET Ids]
  BY <1>1, <1>3, <1>4 DEF DocOK
<1>6. ListStored' /\ HeadStored'
  BY <1>2, StillStored
<1> QED
  BY <1>2, <1>5, <1>6 DEF DocOK

\* compact changes the kind and the parent of nothing but payloads: every
\* item keeps its place, its clocks and its origins.
LEMMA CompactOK ==
  ASSUME DocOK, NEW p \in Clients, Compact(p)
  PROVE  /\ DocOK'
         /\ \A q, c \in Clients :
              /\ DOMAIN store'[q][c] = DOMAIN store[q][c]
              /\ Len(store'[q][c]) = Len(store[q][c])
              /\ \A i \in DOMAIN store[q][c] :
                   Core(store'[q][c][i]) = Core(store[q][c][i])
         /\ \A q \in Clients, x \in Ids : Has(store[q], x) => Has(store'[q], x)
<1> DEFINE Skipped(c, i) ==
             IF Compactable(p, store[p][c][i])
             THEN [store[p][c][i] EXCEPT !.content_kind = "skip"]
             ELSE store[p][c][i]
           st2 == [c \in Clients |-> [i \in DOMAIN store[p][c] |-> Skipped(c, i)]]
<1>1. store' = [store EXCEPT ![p] = st2] /\ UNCHANGED << order, ds, del, list, head, clock >>
  BY DEF Compact
<1>2. ASSUME NEW c \in Clients, NEW i \in DOMAIN store[p][c]
      PROVE  /\ Skipped(c, i) \in Items
             /\ Core(Skipped(c, i)) = Core(store[p][c][i])
  <2>1. store[p][c][i] \in Items
    BY DEF DocOK, Stores
  <2> QED
    BY <2>1 DEF Items, Kinds, Core
<1> HIDE DEF Skipped
<1>3. ASSUME NEW c \in Clients
      PROVE  st2[c] \in Seq(Items) /\ Len(st2[c]) = Len(store[p][c])
  <2>1. Len(store[p][c]) \in Nat /\ DOMAIN store[p][c] = 1 .. Len(store[p][c])
    BY DEF DocOK, Stores
  <2>2. st2[c] \in [1 .. Len(store[p][c]) -> Items]
    BY <1>2, <2>1
  <2> QED
    BY <2>1, <2>2
<1>4. store' \in [Clients -> Stores]
  BY <1>1, <1>3 DEF DocOK, Stores
<1>5. \A q, c \in Clients :
        /\ DOMAIN store'[q][c] = DOMAIN store[q][c]
        /\ Len(store'[q][c]) = Len(store[q][c])
        /\ \A i \in DOMAIN store[q][c] : Core(store'[q][c][i]) = Core(store[q][c][i])
  <2> TAKE q, c \in Clients
  <2>1. CASE q = p
    <3>1. store'[q][c] = st2[c]
      BY <1>1, <2>1 DEF DocOK
    <3> QED
      BY <1>2, <1>3, <2>1, <3>1
  <2>2. CASE q # p
    BY <1>1, <2>2 DEF DocOK
  <2> QED
    BY <2>1, <2>2
<1> HIDE DEF st2
<1>6. \A q \in Clients, x \in Ids : Has(store[q], x) => Has(store'[q], x)
  <2> SUFFICES ASSUME NEW q \in Clients, NEW x \in Ids, Has(store[q], x)
               PROVE  Has(store'[q], x)
    OBVIOUS
  <2>1. x[1] \in Clients
    BY DEF Ids
  <2>2. PICK i \in DOMAIN store[q][x[1]] : x # NoId /\ Covers(store[q][x[1]][i], x)
    BY DEF Has
  <2>3. Core(store'[q][x[1]][i]) = Core(store[q][x[1]][i]) /\ i \in DOMAIN store'[q][x[1]]
    BY <1>5, <2>1, <2>2
  <2>4. /\ store'[q][x[1]][i].id = store[q][x[1]][i].id
        /\ store'[q][x[1]][i].length = store[q][x[1]][i].length
    BY <2>3 DEF Core
  <2> QED
    BY <2>2, <2>3, <2>4 DEF Has, Covers, End
<1>7. ListStored' /\ HeadStored'
  BY <1>1, <1>6, StillStored
<1> QED
  BY <1>1, <1>4, <1>5, <1>6, <1>7 DEF DocOK

\* What goes on the wire is an item again, the same but for its parent, and
\* has a parent only if it has no origins (write_struct).
LEMMA WireOK ==
  ASSUME NEW it \in Items
  PROVE  /\ Wire(it) \in Items /\ Core(Wire(it)) = Core(it)
         /\ Wire(it).parent # NoParent =>
              it.origin_left = NoId /\ it.origin_right = NoId
BY DEF Wire, Items, Parents, Core

\* encode_diff_v1 yields an update, made of stored items.
LEMMA DiffOK ==
  ASSUME DocOK, NEW p \in Clients, NEW since \in [Clients -> Nat]
  PROVE  /\ Diff(p, since) \in Updates
         /\ \A d \in Diff(p, since).structs :
              \E c \in Clients : \E i \in DOMAIN store[p][c] : d = Wire(store[p][c][i])
<1> DEFINE new == { s \in Stored(store[p]) : s.id[2] >= since[Client(s)] }
           m == [ order |-> order[p], structs |-> { Wire(it) : it \in new }, ds |-> ds[p] ]
<1>1. ASSUME NEW s \in Stored(store[p])
      PROVE  s \in Items /\ \E c \in Clients : \E i \in DOMAIN store[p][c] : s = store[p][c][i]
  BY StoredItem DEF DocOK
<1>2. new \subseteq Stored(store[p])
  OBVIOUS
<1>3. Diff(p, since) = m
  BY DEF Diff
<1> HIDE DEF new
<1>4. { Wire(it) : it \in new } \subseteq Items
  BY <1>1, <1>2, WireOK
<1>5. m \in Updates
  BY <1>4 DEF Updates, DocOK
<1>6. \A d \in m.structs : \E it \in new : d = Wire(it)
  OBVIOUS
<1> QED
  BY <1>1, <1>2, <1>3, <1>5, <1>6

\* state_vector yields a clock for every client.
LEMMA StateOK ==
  ASSUME NEW st \in Stores
  PROVE  StateVector(st) \in [Clients -> Nat]
<1> SUFFICES ASSUME NEW c \in Clients PROVE State(st, c) \in Nat
  BY DEF StateVector
<1>1. CASE st[c] = << >>
  BY <1>1 DEF State
<1>2. CASE st[c] # << >>
  <2>1. st[c] \in Seq(Items)
    BY DEF Stores
  <2>2. Len(st[c]) \in 1 .. Len(st[c])
    BY <1>2, <2>1, EmptySeq
  <2>3. st[c][Len(st[c])] \in Items
    BY <2>1, <2>2
  <2> QED
    BY <1>2, <2>3, ItemIds DEF State
<1> QED
  BY <1>1, <1>2

\* The parent an item takes from its origin is a parent, and nothing else of
\* it changes (inherit_parent_from_origin).
LEMMA InheritedOK ==
  ASSUME NEW st \in Stores, NEW d \in Items, ~MissesOrigin(st, d)
  PROVE  Inherited(st, d) \in Items /\ Core(Inherited(st, d)) = Core(d)
<1> DEFINE from == IF d.origin_left # NoId THEN d.origin_left ELSE d.origin_right
<1>1. from \in OptIds
  BY DEF Items
<1>2. CASE d.parent # NoParent \/ from = NoId
  BY <1>2 DEF Inherited
<1>3. CASE d.parent = NoParent /\ from # NoId
  <2>1. Has(st, from) /\ from \in Ids
    BY <1>1, <1>3 DEF MissesOrigin, OptIds
  <2>2. Find(st, from).parent \in Parents
    BY <2>1, FindStored DEF Items
  <2>3. Inherited(st, d) = [d EXCEPT !.parent = Find(st, from).parent]
    BY <1>3 DEF Inherited
  <2> QED
    BY <2>2, <2>3 DEF Items, Core
<1> QED
  BY <1>2, <1>3

\* apply_one, when it installs the struct d.
LEMMA ApplyInstalledOK ==
  ASSUME DocOK, job \in Jobs, NEW d \in Items, ApplyInstalled(d),
         d.parent # NoParent => d.origin_left = NoId /\ d.origin_right = NoId
  PROVE  /\ DocOK'
         /\ \E it : /\ Extends(job.doc, it) /\ Core(it) = Core(d)
                   /\ it = Inherited(store[job.doc], d)
<1> DEFINE p == job.doc
           it == Inherited(store[p], d)
<1>1. p \in Clients /\ store[p] \in Stores
  BY DEF Jobs, DocOK
<1>2. ~MissesOrigin(store[p], d) /\ CanAppend(store[p], d)
  BY DEF ApplyInstalled
<1>3. it \in Items /\ Core(it) = Core(d)
  BY <1>1, <1>2, InheritedOK
<1>i. it = Inherited(store[p], d)
  OBVIOUS
<1>4. Installs(p, it)
  BY DEF ApplyInstalled, IsMapValue, IsArrayItem, Installs
<1> HIDE DEF it, p
<1>5. DocOK'
  BY <1>1, <1>3, <1>4, InstallIntoMapOK, InstallIntoArrayOK, StoredOnlyOK
     DEF Installs, IsMapValue
<1>6. StoreItem(p, it)
  BY <1>4 DEF Installs, InstallIntoMap, InstallIntoArray, FailToIntegrate, InstallBare
<1>7. it.id = d.id /\ it.origin_left = d.origin_left /\ it.origin_right = d.origin_right
  BY <1>3 DEF Core
<1>8. CanAppend(store[p], it)
  BY <1>2, <1>7 DEF CanAppend, Client
<1>9. \A x \in {it.origin_left, it.origin_right} \ {NoId} : Has(store[p], x)
  BY <1>2, <1>7 DEF MissesOrigin
<1>10. Extends(p, it)
  BY <1>3, <1>4, <1>6, <1>8, <1>9 DEF Extends
<1> QED
  BY <1>3, <1>5, <1>10, <1>i DEF p

\* The end of a call: its delete set is added, the items it touches flagged.
LEMMA ApplyDeletesOK ==
  ASSUME DocOK, job \in Jobs, ApplyDeletes
  PROVE  DocOK' /\ UNCHANGED store
<1> DEFINE hit == { s \in Stored(store[job.doc]) : ClocksOf(s) \cap job.ds # {} }
           flagged == { it.id : it \in hit }
<1>1. /\ ds' = [ds EXCEPT ![job.doc] = @ \cup job.ds]
      /\ del' = [del EXCEPT ![job.doc] = @ \cup flagged]
      /\ UNCHANGED << store, order, list, head, clock >>
  BY DEF ApplyDeletes
<1>2. job.doc \in Clients /\ job.ds \subseteq Ids
  BY DEF Jobs
<1>3. ASSUME NEW s \in Stored(store[job.doc]) PROVE s.id \in Ids
  BY <1>2, StoredItem, ItemIds DEF DocOK
<1>4. flagged \subseteq Ids
  BY <1>3
<1> HIDE DEF flagged
<1>5. del' \in [Clients -> SUBSET Ids] /\ ds' \in [Clients -> SUBSET Ids]
  BY <1>1, <1>2, <1>4 DEF DocOK
<1>6. ListStored' /\ HeadStored'
  BY <1>1, StillStored
<1> QED
  BY <1>1, <1>5, <1>6 DEF DocOK

\* A call that begins is well formed.
LEMMA BeginOK ==
  ASSUME NEW p \in Clients, NEW m \in Updates, Begin(p, m)
  PROVE  job' \in Jobs /\ job'.todo = m.structs
BY DEF Begin, Updates, Jobs

-----------------------------------------------------------------------------
(* Histories.                                                              *)

\* What appending does to the vectors, entry by entry.
\* An id is never the unset one.
LEMMA IdsSet ==
  ASSUME NEW x \in Ids
  PROVE  x # NoId
<1>1. PICK c \in Clients, n \in Nat : x = << c, n >>
  BY DEF Ids
<1>2. << c, n >> # << >>
  OBVIOUS
<1> QED
  BY <1>1, <1>2 DEF NoId

LEMMA VectorType ==
  ASSUME NEW st \in [Clients -> Stores], NEW q \in Clients, NEW c \in Clients
  PROVE  st[q] \in Stores /\ st[q][c] \in Seq(Items)
BY DEF Stores

LEMMA ExtendStore ==
  ASSUME DocOK, NEW p \in Clients, NEW it, Extends(p, it)
  PROVE  /\ it \in Items /\ Client(it) \in Clients
         /\ store' \in [Clients -> Stores]
         /\ \A q, c \in Clients :
              q # p \/ c # Client(it) => store'[q][c] = store[q][c]
         /\ LET s == store[p][Client(it)]
                u == store'[p][Client(it)]
            IN  /\ u = Append(s, it) /\ Len(u) = Len(s) + 1
                /\ u[Len(s) + 1] = it
                /\ \A i \in 1 .. Len(s) : u[i] = s[i]
<1>1. it \in Items /\ Client(it) \in Clients
  BY ItemIds DEF Extends
<1>2. store' \in [Clients -> Stores]
  BY <1>1, StoreItemOK DEF Extends
<1>3. store[p] \in Stores /\ store' = [store EXCEPT ![p] = Appended(store[p], it)]
  BY DEF DocOK, Extends, StoreItem
<1>4. \A c \in Clients : store'[p][c] =
        IF c = Client(it) THEN Append(store[p][c], it) ELSE store[p][c]
  <2>1. store'[p] = Appended(store[p], it)
    BY <1>3 DEF DocOK
  <2> QED
    BY <1>1, <1>3, <2>1, AppendStored
<1>5. \A q \in Clients \ {p} : store'[q] = store[q]
  BY <1>3 DEF DocOK
<1>6. \A q, c \in Clients : q # p \/ c # Client(it) => store'[q][c] = store[q][c]
  BY <1>4, <1>5
<1> DEFINE s == store[p][Client(it)]
           u == store'[p][Client(it)]
<1>7. s \in Seq(Items) /\ u = Append(s, it)
  BY <1>1, <1>3, <1>4 DEF Stores
<1> HIDE DEF s, u
<1>8. Len(u) = Len(s) + 1 /\ u[Len(s) + 1] = it /\ \A i \in 1 .. Len(s) : u[i] = s[i]
  BY <1>1, <1>7, AppendProperties
<1> QED
  BY <1>1, <1>2, <1>6, <1>7, <1>8 DEF s, u

\* The clocks a stored item occupies (Dense puts it at the place it claims).
LEMMA StoredEntry ==
  ASSUME DocOK, NEW q \in Clients, NEW c \in Clients, NEW i \in DOMAIN store[q][c]
  PROVE  /\ store[q][c] \in Seq(Items) /\ store[q][c][i] \in Items
         /\ i \in 1 .. Len(store[q][c]) /\ Len(store[q][c]) \in Nat
         /\ store[q][c][i].id[2] \in Nat /\ End(store[q][c][i]) \in Nat
         /\ store[q][c][i].id[2] < End(store[q][c][i])
<1>1. store[q][c] \in Seq(Items)
  BY DEF DocOK, Stores
<1>2. store[q][c][i] \in Items
  BY <1>1
<1> QED
  BY <1>1, <1>2, ItemIds

\* A struct of a client that fits at the end of a document's vector is the
\* very next one its author emitted: this is why the store needs no check
\* beyond the clock (StructStore::append).
LEMMA NextOfAuthor ==
  ASSUME DocOK, Dense, Ascending, SameHistory,
         NEW p \in Clients, NEW it \in Items,
         CanAppend(store[p], it), Emitted(it)
  PROVE  LET c == Client(it)
             n == Len(store[p][c])
         IN  /\ n + 1 \in DOMAIN store[c][c]
             /\ Core(it) = Core(store[c][c][n + 1])
<1> DEFINE c == Client(it)
           s == store[c][c]
           u == store[p][c]
           n == Len(u)
<1>1. c \in Clients
  BY ItemIds
<1>2. PICK j \in DOMAIN s : Core(it) = Core(s[j])
  BY DEF Authentic, Emitted
<1>3. s \in Seq(Items) /\ u \in Seq(Items) /\ n \in Nat /\ j \in 1 .. Len(s)
      /\ Len(s) \in Nat
  BY <1>1, <1>2 DEF DocOK, Stores
<1>4. it.id[2] = State(store[p], c)
  BY DEF CanAppend
<1>5. it.id[2] = s[j].id[2]
  BY <1>2 DEF Core
<1>6. \A i \in 1 .. Len(s) :
        /\ s[i].id[2] \in Nat /\ End(s[i]) \in Nat /\ s[i].id[2] < End(s[i])
        /\ s[i].id[2] = IF i = 1 THEN 0 ELSE End(s[i - 1])
  <2> SUFFICES ASSUME NEW i \in 1 .. Len(s)
               PROVE  /\ s[i].id[2] \in Nat /\ End(s[i]) \in Nat
                      /\ s[i].id[2] < End(s[i])
                      /\ s[i].id[2] = IF i = 1 THEN 0 ELSE End(s[i - 1])
    OBVIOUS
  <2>1. i \in DOMAIN s
    BY <1>3
  <2>2. s[i].id[2] \in Nat /\ End(s[i]) \in Nat /\ s[i].id[2] < End(s[i])
    BY <1>1, <2>1, StoredEntry
  <2>3. s[i].id[2] = IF i = 1 THEN 0 ELSE End(s[i - 1])
    BY <1>1, <2>1 DEF Dense
  <2> QED
    BY <2>2, <2>3
<1>7. \A i, k \in 1 .. Len(s) : i < k => End(s[i]) <= s[k].id[2]
  BY <1>1, <1>3 DEF Ascending
<1> DEFINE lo(i) == s[i].id[2]
           hi(i) == End(s[i])
<1>a. \A i, k \in 1 .. Len(s) : i < k => hi(i) <= lo(k)
  BY <1>7
<1>b. \A i \in 1 .. Len(s) : lo(i) \in Nat /\ hi(i) \in Nat /\ lo(i) < hi(i)
  BY <1>6
<1>8. CASE n = 0
  <2>1. it.id[2] = 0
    BY <1>3, <1>4, <1>8 DEF State
  <2>2. j = 1
    <3> SUFFICES ASSUME j # 1 PROVE FALSE
      OBVIOUS
    <3>1. 1 \in 1 .. Len(s) /\ 1 < j
      BY <1>3
    <3>2. End(s[1]) <= s[j].id[2]
      BY <1>3, <1>7, <3>1
    <3> QED
      BY <1>5, <1>6, <2>1, <3>1, <3>2
  <2> QED
    BY <1>2, <1>3, <1>8, <2>2
<1>9. CASE n # 0
  <2>1. n \in 1 .. n /\ u # << >>
    BY <1>3, <1>9
  <2>2. it.id[2] = End(u[n])
    BY <1>4, <2>1 DEF State
  <2>3. n \in 1 .. Len(s) /\ Core(u[n]) = Core(s[n])
    <3>1. n \in DOMAIN u
      BY <1>3, <2>1
    <3>2. n \in DOMAIN s /\ Core(u[n]) = Core(s[n])
      BY <1>1, <3>1 DEF SameHistory
    <3> QED
      BY <1>3, <3>2
  <2>4. s[j].id[2] = End(s[n])
    BY <1>5, <2>2, <2>3 DEF Core, End
  <2>5. ~(j < n)
    <3> SUFFICES ASSUME j < n PROVE FALSE
      OBVIOUS
    <3> HIDE DEF lo, hi
    <3>1. hi(j) <= lo(n)
      BY <1>3, <1>a, <2>3
    <3>2. hi(n) = lo(j)
      BY <2>4 DEF lo, hi
    <3> QED
      BY <1>3, <1>b, <2>3, <3>1, <3>2
  <2>6. j # n
    BY <1>3, <1>6, <2>3, <2>4
  <2>7. n + 1 \in 1 .. Len(s)
    BY <1>3, <2>5, <2>6
  <2>8. s[n + 1].id[2] = End(s[n])
    <3>1. s[n + 1].id[2] = IF n + 1 = 1 THEN 0 ELSE End(s[(n + 1) - 1])
      BY <1>6, <2>7
    <3>2. n + 1 # 1 /\ (n + 1) - 1 = n
      BY <1>3, <1>9
    <3> QED
      BY <3>1, <3>2
  <2>9. ~(n + 1 < j)
    <3> SUFFICES ASSUME n + 1 < j PROVE FALSE
      OBVIOUS
    <3> HIDE DEF lo, hi
    <3>1. hi(n + 1) <= lo(j)
      BY <1>3, <1>a, <2>7
    <3>2. hi(n) = lo(j) /\ lo(n + 1) = hi(n)
      BY <2>4, <2>8 DEF lo, hi
    <3> QED
      BY <1>3, <1>b, <2>7, <3>1, <3>2
  <2>10. j = n + 1
    BY <1>3, <2>5, <2>6, <2>9
  <2> QED
    BY <1>2, <2>10
<1> QED
  BY <1>8, <1>9

History == Dense /\ Ascending /\ SameHistory /\ OriginsStored

\* Storing an item at the next clock keeps the vectors gapless and sorted.
LEMMA ExtendDense ==
  ASSUME DocOK, Dense, Ascending, NEW p \in Clients, NEW it, Extends(p, it)
  PROVE  Dense' /\ Ascending'
<1> DEFINE a == Client(it)
           s == store[p][a]
           u == store'[p][a]
           n == Len(s)
<1>1. /\ it \in Items /\ a \in Clients
      /\ \A q, c \in Clients : q # p \/ c # a => store'[q][c] = store[q][c]
      /\ u = Append(s, it) /\ Len(u) = n + 1
      /\ u[n + 1] = it /\ \A i \in 1 .. n : u[i] = s[i]
  BY ExtendStore
<1>2. s \in Seq(Items) /\ n \in Nat /\ DOMAIN s = 1 .. n
  BY <1>1 DEF DocOK, Stores
<1>3. DOMAIN u = 1 .. n + 1
  BY <1>1, <1>2
<1>4. it.id[2] = State(store[p], a)
  BY DEF Extends, CanAppend
<1>5. it.id[2] = IF n = 0 THEN 0 ELSE End(s[n])
  BY <1>2, <1>4 DEF State
<1>6. \A i \in 1 .. n : s[i].id[2] \in Nat /\ End(s[i]) \in Nat /\ s[i].id[2] < End(s[i])
  BY <1>1, <1>2, StoredEntry
<1>7. \A i \in 1 .. n :
        Client(s[i]) = a /\ s[i].id[2] = IF i = 1 THEN 0 ELSE End(s[i - 1])
  BY <1>1, <1>2 DEF Dense
<1>8. \A i, k \in 1 .. n : i < k => End(s[i]) <= s[k].id[2]
  BY <1>1, <1>2 DEF Ascending
<1> HIDE DEF s, u, n
<1>9. ASSUME NEW i \in 1 .. n + 1
      PROVE  Client(u[i]) = a /\ u[i].id[2] = IF i = 1 THEN 0 ELSE End(u[i - 1])
  <2>1. CASE i = n + 1
    <3>1. u[i] = it /\ Client(u[i]) = a
      BY <1>1, <2>1
    <3>2. CASE n = 0
      BY <1>5, <2>1, <3>1, <3>2
    <3>3. CASE n # 0
      <4>1. i # 1 /\ i - 1 = n /\ n \in 1 .. n
        BY <1>2, <2>1, <3>3
      <4> QED
        BY <1>1, <1>5, <3>1, <3>3, <4>1
    <3> QED
      BY <3>1, <3>2, <3>3
  <2>2. CASE i # n + 1
    <3>1. i \in 1 .. n /\ (i # 1 => i - 1 \in 1 .. n)
      BY <1>2, <2>2
    <3> QED
      BY <1>1, <1>7, <3>1
  <2> QED
    BY <2>1, <2>2
<1>10. ASSUME NEW i \in 1 .. n + 1, NEW k \in 1 .. n + 1, i < k
       PROVE  End(u[i]) <= u[k].id[2]
  <2>1. i \in 1 .. n /\ u[i] = s[i]
    BY <1>1, <1>2, <1>10
  <2>2. CASE k \in 1 .. n
    BY <1>1, <1>8, <1>10, <2>1, <2>2
  <2>3. CASE k = n + 1
    <3>1. u[k].id[2] = End(s[n]) /\ n \in 1 .. n
      BY <1>1, <1>2, <1>5, <2>1, <2>3
    <3>2. CASE i = n
      BY <1>6, <2>1, <3>1, <3>2
    <3>3. CASE i < n
      <4>1. End(s[i]) <= s[n].id[2] /\ s[n].id[2] < End(s[n])
        BY <1>6, <1>8, <2>1, <3>1, <3>3
      <4> DEFINE x == End(s[i])
                 y == s[n].id[2]
                 z == End(s[n])
      <4>2. x \in Nat /\ y \in Nat /\ z \in Nat /\ x <= y /\ y < z
        BY <1>6, <2>1, <3>1, <4>1
      <4> HIDE DEF x, y, z
      <4>3. x <= z
        BY <4>2
      <4> QED
        BY <2>1, <3>1, <4>3 DEF x, z
    <3> QED
      BY <1>2, <2>1, <3>2, <3>3
  <2> QED
    BY <1>2, <2>2, <2>3
<1> HIDE DEF a
<1>11. ASSUME NEW q \in Clients, NEW c \in Clients
       PROVE  \/ store'[q][c] = store[q][c]
              \/ q = p /\ c = a /\ store'[q][c] = u
  BY <1>1 DEF u
<1>12. Dense'
  <2> SUFFICES ASSUME NEW q \in Clients, NEW c \in Clients, NEW i \in DOMAIN store'[q][c]
               PROVE  /\ Client(store'[q][c][i]) = c
                      /\ store'[q][c][i].id[2] =
                           IF i = 1 THEN 0 ELSE End(store'[q][c][i - 1])
    BY DEF Dense
  <2>1. CASE store'[q][c] = store[q][c]
    BY <2>1 DEF Dense
  <2>2. CASE q = p /\ c = a /\ store'[q][c] = u
    BY <1>3, <1>9, <2>2
  <2> QED
    BY <1>11, <2>1, <2>2
<1>13. Ascending'
  <2> SUFFICES ASSUME NEW q \in Clients, NEW c \in Clients,
                      NEW i \in DOMAIN store'[q][c], NEW k \in DOMAIN store'[q][c], i < k
               PROVE  End(store'[q][c][i]) <= store'[q][c][k].id[2]
    BY DEF Ascending
  <2>1. CASE store'[q][c] = store[q][c]
    BY <2>1 DEF Ascending
  <2>2. CASE q = p /\ c = a /\ store'[q][c] = u
    BY <1>3, <1>10, <2>2
  <2> QED
    BY <1>11, <2>1, <2>2
<1> QED
  BY <1>12, <1>13

\* Each entry that was there stays, so a struct on its way stays authentic.
LEMMA ExtendAuthentic ==
  ASSUME DocOK, NEW p \in Clients, NEW it, Extends(p, it),
         NEW d \in Items, Authentic(d)
  PROVE  Authentic(d)'
<1> DEFINE c == Client(d)
<1>1. c \in Clients
  BY ItemIds
<1>2. PICK j \in DOMAIN store[c][c] : Core(d) = Core(store[c][c][j])
  BY DEF Authentic, Emitted
<1>3. d.parent # NoParent => d.origin_left = NoId /\ d.origin_right = NoId
  BY DEF Authentic, Emitted
<1>4. j \in 1 .. Len(store[c][c]) /\ Len(store[c][c]) \in Nat
  BY <1>1, <1>2, StoredEntry
<1>5. j \in DOMAIN store'[c][c] /\ store'[c][c][j] = store[c][c][j]
  <2>1. CASE p # c \/ Client(it) # c
    <3>1. store'[c][c] = store[c][c]
      BY <1>1, <2>1, ExtendStore
    <3> QED
      BY <1>2, <3>1
  <2>2. CASE p = c /\ Client(it) = c
    <3>0. \A i \in 1 .. Len(store[p][Client(it)]) :
            store'[p][Client(it)][i] = store[p][Client(it)][i]
      BY ExtendStore
    <3>1. /\ store'[c][c] = Append(store[c][c], it)
          /\ \A i \in 1 .. Len(store[c][c]) : store'[c][c][i] = store[c][c][i]
      BY <2>2, <3>0, ExtendStore
    <3>2. store[c][c] \in Seq(Items) /\ it \in Items
      BY <1>1, ExtendStore, VectorType DEF DocOK
    <3>3. DOMAIN store'[c][c] = 1 .. Len(store[c][c]) + 1
      BY <3>1, <3>2
    <3> QED
      BY <1>4, <3>1, <3>3
  <2> QED
    BY <2>1, <2>2
<1> HIDE DEF c
<1>6. Core(d) = Core(store'[c][c][j])
  BY <1>2, <1>5
<1> QED
  BY <1>3, <1>5, <1>6 DEF Authentic, Emitted, c

\* A document's own item opens its history; another client's item continues
\* the copy of that client's history.
LEMMA ExtendSameHistory ==
  ASSUME DocOK, Dense, Ascending, SameHistory,
         NEW p \in Clients, NEW it, Extends(p, it),
         Client(it) = p \/ Emitted(it)
  PROVE  SameHistory'
<1> DEFINE a == Client(it)
           n == Len(store[p][a])
<1>1. it \in Items /\ a \in Clients
  BY ExtendStore
<1>2. /\ \A q, c \in Clients : q # p \/ c # a => store'[q][c] = store[q][c]
      /\ store'[p][a] = Append(store[p][a], it)
      /\ store'[p][a][n + 1] = it
      /\ \A i \in 1 .. n : store'[p][a][i] = store[p][a][i]
  BY ExtendStore
<1>3. /\ \A q, c \in Clients : store[q][c] \in Seq(Items)
      /\ store[p][a] \in Seq(Items) /\ n \in Nat
  BY <1>1 DEF DocOK, Stores
<1>4. DOMAIN store[p][a] = 1 .. n /\ DOMAIN store'[p][a] = 1 .. n + 1
  BY <1>1, <1>2, <1>3
<1>5. CanAppend(store[p], it)
  BY DEF Extends
<1> HIDE DEF a, n
<1>6. ASSUME NEW c \in Clients, NEW i \in DOMAIN store[c][c]
      PROVE  i \in DOMAIN store'[c][c] /\ store'[c][c][i] = store[c][c][i]
  <2>1. CASE c = p /\ c = a
    <3>1. i \in 1 .. n /\ i \in 1 .. n + 1
      BY <1>3, <1>4, <2>1
    <3> QED
      BY <1>2, <1>4, <2>1, <3>1
  <2>2. CASE c # p \/ c # a
    <3>1. store'[c][c] = store[c][c]
      BY <1>2, <2>2
    <3> QED
      BY <3>1
  <2> QED
    BY <2>1, <2>2
<1>7. ASSUME NEW q \in Clients, NEW c \in Clients, NEW i \in DOMAIN store[q][c]
      PROVE  i \in DOMAIN store'[c][c] /\ Core(store[q][c][i]) = Core(store'[c][c][i])
  <2>1. i \in DOMAIN store[c][c] /\ Core(store[q][c][i]) = Core(store[c][c][i])
    BY DEF SameHistory
  <2> QED
    BY <1>6, <2>1
<1>8. n + 1 \in DOMAIN store'[a][a] /\ Core(it) = Core(store'[a][a][n + 1])
  <2>1. CASE a = p
    <3>1. n + 1 \in 1 .. n + 1
      BY <1>3
    <3> QED
      BY <1>2, <1>4, <2>1, <3>1
  <2>2. CASE a # p
    <3>1. Emitted(it)
      BY <2>2 DEF a
    <3>2. n + 1 \in DOMAIN store[a][a] /\ Core(it) = Core(store[a][a][n + 1])
      BY <1>1, <1>5, <3>1, NextOfAuthor DEF a, n
    <3> QED
      BY <1>1, <1>6, <3>2
  <2> QED
    BY <2>1, <2>2
<1> SUFFICES ASSUME NEW q \in Clients, NEW c \in Clients, NEW i \in DOMAIN store'[q][c]
             PROVE  /\ i \in DOMAIN store'[c][c]
                    /\ Core(store'[q][c][i]) = Core(store'[c][c][i])
  BY DEF SameHistory
<1>9. CASE q # p \/ c # a
  <2>1. store'[q][c] = store[q][c]
    BY <1>2, <1>9
  <2> QED
    BY <1>7, <2>1
<1>10. CASE q = p /\ c = a /\ i \in 1 .. n
  <2>1. i \in DOMAIN store[q][c] /\ store'[q][c][i] = store[q][c][i]
    BY <1>2, <1>4, <1>10
  <2> QED
    BY <1>7, <2>1
<1>11. CASE q = p /\ c = a /\ i = n + 1
  BY <1>2, <1>8, <1>11
<1> QED
  BY <1>3, <1>4, <1>9, <1>10, <1>11

\* An item enters a store only after those its origins name.
LEMMA ExtendOrigins ==
  ASSUME DocOK, OriginsStored, NEW p \in Clients, NEW it, Extends(p, it)
  PROVE  OriginsStored'
<1>1. /\ it \in Items /\ Client(it) \in Clients
      /\ store' \in [Clients -> Stores]
      /\ \A q, c \in Clients :
           q # p \/ c # Client(it) => store'[q][c] = store[q][c]
      /\ store'[p][Client(it)] = Append(store[p][Client(it)], it)
  BY ExtendStore
<1>2. \A q \in Clients, x \in Ids : Has(store[q], x) => Has(store'[q], x)
  BY <1>1, StoreItemOK DEF Extends
<1> SUFFICES ASSUME NEW q \in Clients, NEW s \in Stored(store'[q]),
                    NEW x \in {s.origin_left, s.origin_right} \ {NoId}
             PROVE  Has(store'[q], x)
  BY DEF OriginsStored
<1>c. PICK c \in Clients : \E i \in DOMAIN store'[q][c] : s = store'[q][c][i]
  BY <1>1, StoredItem
<1>3. PICK i \in DOMAIN store'[q][c] : s = store'[q][c][i]
  BY <1>c
<1>4. s \in Items
  BY <1>1, StoredItem
<1>5. x \in Ids
  BY <1>4 DEF Items, OptIds
<1>6. ASSUME s \in Stored(store[q]) PROVE Has(store'[q], x)
  <2>1. Has(store[q], x)
    BY <1>6 DEF OriginsStored
  <2> QED
    BY <1>2, <1>5, <2>1
<1>7. ASSUME NEW j \in DOMAIN store[q][c], s = store[q][c][j]
      PROVE  s \in Stored(store[q])
  <2>1. s \in ToSet(store[q][c]) /\ c \in DOMAIN store[q]
    BY <1>7 DEF ToSet, DocOK, Stores
  <2> QED
    BY <2>1 DEF Stored
<1>8. CASE q # p \/ c # Client(it)
  <2>1. store'[q][c] = store[q][c]
    BY <1>1, <1>8
  <2> QED
    BY <1>3, <1>6, <1>7, <2>1
<1>9. CASE q = p /\ c = Client(it)
  <2>1. store[q][c] \in Seq(Items) /\ store'[q][c] = Append(store[q][c], it)
    BY <1>1, <1>9 DEF DocOK, Stores
  <2>2. CASE i \in 1 .. Len(store[q][c])
    <3>1. i \in DOMAIN store[q][c] /\ s = store[q][c][i]
      BY <1>3, <2>1, <2>2, AppendProperties
    <3> QED
      BY <1>6, <1>7, <3>1
  <2>3. CASE i = Len(store[q][c]) + 1
    <3>1. s = it
      BY <1>1, <1>3, <2>1, <2>3, AppendProperties
    <3>2. Has(store[q], x)
      BY <1>9, <3>1 DEF Extends
    <3> QED
      BY <1>2, <1>5, <3>2
  <2>4. Len(store[q][c]) \in Nat /\ DOMAIN store'[q][c] = 1 .. Len(store[q][c]) + 1
    BY <1>1, <2>1
  <2> QED
    BY <1>3, <2>2, <2>3, <2>4
<1> QED
  BY <1>8, <1>9

\* compact rewrites items in place: histories and origins stay.
LEMMA CompactHistory ==
  ASSUME DocOK, History, NEW p \in Clients, Compact(p)
  PROVE  /\ History'
         /\ \A d \in Items : Authentic(d) => Authentic(d)'
<1>1. /\ \A q, c \in Clients :
           /\ DOMAIN store'[q][c] = DOMAIN store[q][c]
           /\ \A i \in DOMAIN store[q][c] :
                Core(store'[q][c][i]) = Core(store[q][c][i])
      /\ \A q \in Clients, x \in Ids : Has(store[q], x) => Has(store'[q], x)
      /\ store' \in [Clients -> Stores]
  BY CompactOK DEF DocOK
<1>2. ASSUME NEW q \in Clients, NEW c \in Clients, NEW i \in DOMAIN store'[q][c]
      PROVE  /\ i \in DOMAIN store[q][c]
             /\ store'[q][c][i].id = store[q][c][i].id
             /\ Client(store'[q][c][i]) = Client(store[q][c][i])
             /\ End(store'[q][c][i]) = End(store[q][c][i])
             /\ store'[q][c][i].origin_left = store[q][c][i].origin_left
             /\ store'[q][c][i].origin_right = store[q][c][i].origin_right
  BY <1>1 DEF Core, Client, End
<1>3. Dense'
  <2> SUFFICES ASSUME NEW q \in Clients, NEW c \in Clients, NEW i \in DOMAIN store'[q][c]
               PROVE  /\ Client(store'[q][c][i]) = c
                      /\ store'[q][c][i].id[2] =
                           IF i = 1 THEN 0 ELSE End(store'[q][c][i - 1])
    BY DEF Dense
  <2>1. /\ Client(store[q][c][i]) = c
        /\ store[q][c][i].id[2] = IF i = 1 THEN 0 ELSE End(store[q][c][i - 1])
    BY <1>2 DEF Dense, History
  <2>2. i # 1 => i - 1 \in DOMAIN store'[q][c]
    <3>0. store[q][c] \in Seq(Items)
      BY VectorType DEF DocOK
    <3>1. i \in 1 .. Len(store[q][c]) /\ Len(store[q][c]) \in Nat
          /\ DOMAIN store'[q][c] = 1 .. Len(store[q][c])
      BY <1>1, <1>2, <3>0
    <3> QED
      BY <3>1
  <2> QED
    BY <1>2, <2>1, <2>2
<1>4. Ascending'
  BY <1>2 DEF Ascending, History
<1>5. SameHistory'
  <2> SUFFICES ASSUME NEW q \in Clients, NEW c \in Clients, NEW i \in DOMAIN store'[q][c]
               PROVE  /\ i \in DOMAIN store'[c][c]
                      /\ Core(store'[q][c][i]) = Core(store'[c][c][i])
    BY DEF SameHistory
  <2>1. i \in DOMAIN store[q][c] /\ i \in DOMAIN store[c][c]
        /\ Core(store[q][c][i]) = Core(store[c][c][i])
    BY <1>2 DEF SameHistory, History
  <2> QED
    BY <1>1, <2>1
<1>6. OriginsStored'
  <2> SUFFICES ASSUME NEW q \in Clients, NEW s \in Stored(store'[q]),
                      NEW x \in {s.origin_left, s.origin_right} \ {NoId}
               PROVE  Has(store'[q], x)
    BY DEF OriginsStored
  <2>c. PICK c \in Clients : \E i \in DOMAIN store'[q][c] : s = store'[q][c][i]
    BY <1>1, StoredItem
  <2>1. PICK i \in DOMAIN store'[q][c] : s = store'[q][c][i]
    BY <2>c
  <2>2. x \in Ids
    BY <1>1, StoredItem DEF Items, OptIds
  <2> DEFINE o == store[q][c][i]
  <2>3. o.origin_left = s.origin_left /\ o.origin_right = s.origin_right
        /\ i \in DOMAIN store[q][c]
    BY <1>2, <2>1
  <2>4. o \in Stored(store[q])
    <3>1. o \in ToSet(store[q][c]) /\ c \in DOMAIN store[q]
      BY <2>3 DEF ToSet, DocOK, Stores
    <3> QED
      BY <3>1 DEF Stored
  <2>5. Has(store[q], x)
    BY <2>3, <2>4 DEF OriginsStored, History
  <2> QED
    BY <1>1, <2>2, <2>5
<1>7. ASSUME NEW d \in Items, Authentic(d) PROVE Authentic(d)'
  <2>1. Client(d) \in Clients
    BY ItemIds
  <2>2. PICK j \in DOMAIN store[Client(d)][Client(d)] :
          Core(d) = Core(store[Client(d)][Client(d)][j])
    BY <1>7 DEF Authentic, Emitted
  <2>3. /\ j \in DOMAIN store'[Client(d)][Client(d)]
        /\ Core(d) = Core(store'[Client(d)][Client(d)][j])
    BY <1>1, <2>1, <2>2
  <2> QED
    BY <1>7, <2>3 DEF Authentic, Emitted
<1> QED
  BY <1>3, <1>4, <1>5, <1>6, <1>7 DEF History

\* Whatever a document encodes is authentic.
LEMMA DiffAuthentic ==
  ASSUME DocOK, History, NEW p \in Clients, NEW since \in [Clients -> Nat]
  PROVE  \A d \in Diff(p, since).structs : Authentic(d)
<1> SUFFICES ASSUME NEW d \in Diff(p, since).structs PROVE Authentic(d)
  OBVIOUS
<1>c. PICK c \in Clients : \E i \in DOMAIN store[p][c] : d = Wire(store[p][c][i])
  BY DiffOK
<1>1. PICK i \in DOMAIN store[p][c] : d = Wire(store[p][c][i])
  BY <1>c
<1>2. /\ store[p][c][i] \in Items
      /\ Client(store[p][c][i]) = c
      /\ i \in DOMAIN store[c][c] /\ Core(store[p][c][i]) = Core(store[c][c][i])
  BY StoredEntry DEF History, Dense, SameHistory
<1>3. /\ Core(d) = Core(store[p][c][i])
      /\ d.parent # NoParent =>
           store[p][c][i].origin_left = NoId /\ store[p][c][i].origin_right = NoId
  BY <1>1, <1>2, WireOK
<1>4. d.id = store[p][c][i].id /\ d.origin_left = store[p][c][i].origin_left
      /\ d.origin_right = store[p][c][i].origin_right
  BY <1>3 DEF Core
<1>5. Client(d) = c
  BY <1>2, <1>4 DEF Client
<1> QED
  BY <1>2, <1>3, <1>4, <1>5 DEF Authentic, Emitted

-----------------------------------------------------------------------------
(* The invariant is inductive.                                             *)

LEMMA InvariantParts ==
  IInv <=> DocOK /\ CallOK /\ History /\ InFlightAuthentic
BY TypeParts DEF IInv, History

\* One step of storing: histories stay histories, whoever wrote the item.
LEMMA ExtendHistory ==
  ASSUME DocOK, History, NEW p \in Clients, NEW it, Extends(p, it),
         Client(it) = p \/ Emitted(it)
  PROVE  History' /\ \A d \in Items : Authentic(d) => Authentic(d)'
<1>1. Dense' /\ Ascending'
  BY ExtendDense DEF History
<1>2. SameHistory'
  BY ExtendSameHistory DEF History
<1>3. OriginsStored'
  BY ExtendOrigins DEF History
<1>4. \A d \in Items : Authentic(d) => Authentic(d)'
  BY ExtendAuthentic
<1> QED
  BY <1>1, <1>2, <1>3, <1>4 DEF History

LEMMA SameStore ==
  ASSUME History, UNCHANGED store
  PROVE  History' /\ \A d \in Items : Authentic(d) => Authentic(d)'
BY DEF History, Dense, Ascending, SameHistory, OriginsStored, Authentic, Emitted

LEMMA SameDocs ==
  ASSUME DocOK, UNCHANGED docVars
  PROVE  DocOK'
BY DEF DocOK, ListStored, HeadStored, docVars

\* Structs stay authentic while no new ones set out.
LEMMA StillInFlight ==
  ASSUME CallOK', \A d \in Items : Authentic(d) => Authentic(d)',
         job' # NoJob => \A d \in job'.todo : Authentic(d),
         \A m \in msgs' : \A d \in m.structs : Authentic(d)
  PROVE  InFlightAuthentic'
<1>1. job' # NoJob => job'.todo \subseteq Items
  BY DEF CallOK, Jobs
<1>2. \A m \in msgs' : m.structs \subseteq Items
  BY DEF CallOK, Updates
<1>3. job' # NoJob => \A d \in job'.todo : Authentic(d)'
  BY <1>1
<1>4. \A m \in msgs' : \A d \in m.structs : Authentic(d)'
  BY <1>2
<1> QED
  BY <1>3, <1>4 DEF InFlightAuthentic

\* A local edit stores an item of the document's own, or deletes one.
LEMMA LocalEditOK ==
  ASSUME DocOK, NEW p \in Clients, LocalEdit(p)
  PROVE  /\ UNCHANGED << job, msgs, sent >>
         /\ DocOK'
         /\ \/ \E it : Emits(p, it)
            \/ UNCHANGED store /\ \E t \in Texts : \E i \in Nat : ArrayDeleteAt(p, t, i)
<1> DEFINE Good == /\ UNCHANGED << job, msgs, sent >>
                   /\ DocOK'
                   /\ \/ \E it : Emits(p, it)
                      \/ /\ UNCHANGED store
                         /\ \E t \in Texts : \E i \in Nat : ArrayDeleteAt(p, t, i)
<1>1. ASSUME NEW n \in Lens, NEW k \in Keys, MapSet(p, k, n)
      PROVE  Good
  BY <1>1, MapSetOK DEF MapSet
<1>2. ASSUME NEW n \in Lens, NEW t \in Texts,
             NEW left \in ToSet(list[p][t]) \cup {NoId},
             NEW right \in ToSet(list[p][t]) \cup {NoId},
             EmitArrayItem(p, t, n, left, right)
      PROVE  Good
  BY <1>2, EmitArrayItemOK DEF EmitArrayItem
<1>3. ASSUME NEW n \in Lens, NEW t \in Texts, TextAppend(p, t, n)
      PROVE  Good
  <2>1. PICK left \in ToSet(list[p][t]) \cup {NoId} : EmitArrayItem(p, t, n, left, NoId)
    BY <1>3 DEF TextAppend
  <2> QED
    BY <1>2, <2>1
<1>4. ASSUME NEW n \in Lens, NEW t \in Texts, NEW i, ArrayInsertAt(p, t, i, n)
      PROVE  Good
  <2>1. PICK left \in ToSet(list[p][t]) \cup {NoId},
             right \in ToSet(list[p][t]) \cup {NoId} :
          EmitArrayItem(p, t, n, left, right)
    BY <1>4 DEF ArrayInsertAt
  <2> QED
    BY <1>2, <2>1
<1>5. ASSUME NEW t \in Texts, NEW i \in Nat, ArrayDeleteAt(p, t, i)
      PROVE  Good
  BY <1>5, ArrayDeleteAtOK DEF ArrayDeleteAt
<1> QED
  BY <1>1, <1>3, <1>4, <1>5 DEF LocalEdit

LEMMA LocalEditStep ==
  ASSUME IInv, NEW p \in Clients, LocalEdit(p)
  PROVE  IInv'
<1>1. DocOK /\ CallOK /\ History /\ InFlightAuthentic
  BY InvariantParts
<1>2. /\ UNCHANGED << job, msgs, sent >>
      /\ DocOK'
      /\ UNCHANGED store \/ \E it : Extends(p, it) /\ Client(it) = p
  BY <1>1, LocalEditOK DEF Emits
<1>3. History' /\ \A d \in Items : Authentic(d) => Authentic(d)'
  BY <1>1, <1>2, ExtendHistory, SameStore
<1>4. CallOK'
  BY <1>1, <1>2 DEF CallOK
<1>5. InFlightAuthentic'
  BY <1>1, <1>2, <1>3, <1>4, StillInFlight DEF InFlightAuthentic
<1> QED
  BY <1>2, <1>3, <1>4, <1>5, InvariantParts, PTL

LEMMA CompactStep ==
  ASSUME IInv, NEW p \in Clients, Compact(p)
  PROVE  IInv'
<1>1. DocOK /\ CallOK /\ History /\ InFlightAuthentic
  BY InvariantParts
<1>2. DocOK' /\ UNCHANGED << job, msgs, sent >>
  BY <1>1, CompactOK DEF Compact
<1>3. History' /\ \A d \in Items : Authentic(d) => Authentic(d)'
  BY <1>1, CompactHistory
<1>4. CallOK'
  BY <1>1, <1>2 DEF CallOK
<1>5. InFlightAuthentic'
  BY <1>1, <1>2, <1>3, <1>4, StillInFlight DEF InFlightAuthentic
<1> QED
  BY <1>2, <1>3, <1>4, <1>5, InvariantParts, PTL

LEMMA ExchangeStep ==
  ASSUME IInv, NEW p \in Clients,
         \/ \E q \in Clients : Pull(p, q)
         \/ Publish(p)
         \/ \E m \in msgs : Deliver(p, m)
  PROVE  IInv'
<1>1. DocOK /\ CallOK /\ History /\ InFlightAuthentic
  BY InvariantParts
<1>2. UNCHANGED docVars
  BY DEF Pull, Publish, Deliver
<1>3. DocOK' /\ History' /\ \A d \in Items : Authentic(d) => Authentic(d)'
  BY <1>1, <1>2, SameDocs, SameStore DEF docVars
<1>4. ASSUME NEW since \in [Clients -> Nat]
      PROVE  Diff(p, since) \in Updates /\ \A d \in Diff(p, since).structs : Authentic(d)
  BY <1>1, DiffOK, DiffAuthentic
<1> DEFINE Good == /\ CallOK'
                   /\ job' # NoJob => \A d \in job'.todo : Authentic(d)
                   /\ \A m \in msgs' : \A d \in m.structs : Authentic(d)
<1>5. Good
  <2>1. ASSUME NEW q \in Clients, Pull(p, q) PROVE Good
    <3>1. StateVector(store[q]) \in [Clients -> Nat]
      BY <1>1, StateOK DEF DocOK
    <3>2. /\ job' \in Jobs
          /\ job'.todo = Diff(p, StateVector(store[q])).structs
      BY <1>4, <2>1, <3>1, BeginOK DEF Pull
    <3> QED
      BY <1>1, <1>4, <2>1, <3>1, <3>2 DEF Pull, CallOK, InFlightAuthentic
  <2>2. ASSUME Publish(p) PROVE Good
    <3>1. sent[p] \in [Clients -> Nat] /\ StateVector(store[p]) \in [Clients -> Nat]
      BY <1>1, StateOK DEF DocOK, CallOK
    <3>2. /\ msgs' = msgs \cup {Diff(p, sent[p])}
          /\ sent' = [sent EXCEPT ![p] = StateVector(store[p])]
          /\ UNCHANGED job
      BY <2>2 DEF Publish
    <3>3. CallOK'
      BY <1>1, <1>4, <3>1, <3>2 DEF CallOK
    <3> QED
      BY <1>1, <1>4, <3>1, <3>2, <3>3 DEF InFlightAuthentic
  <2>3. ASSUME NEW m \in msgs, Deliver(p, m) PROVE Good
    <3>1. m \in Updates /\ job' \in Jobs /\ job'.todo = m.structs
      BY <1>1, <2>3, BeginOK DEF Deliver, CallOK
    <3> QED
      BY <1>1, <2>3, <3>1 DEF Deliver, CallOK, InFlightAuthentic
  <2> QED
    BY <2>1, <2>2, <2>3
<1>6. InFlightAuthentic'
  BY <1>3, <1>5, StillInFlight
<1> QED
  BY <1>3, <1>5, <1>6, InvariantParts, PTL

LEMMA ApplyStep ==
  ASSUME IInv, Apply
  PROVE  IInv'
<1>1. DocOK /\ CallOK /\ History /\ InFlightAuthentic
  BY InvariantParts
<1>2. job # NoJob /\ UNCHANGED << msgs, sent >>
  BY DEF Apply, ApplyOne, NextPass, GiveUp, ApplyDeletes, PassIsOver
<1>3. /\ job \in Jobs /\ job.doc \in Clients /\ job.todo \subseteq Items
      /\ \A d \in job.todo : Authentic(d)
  BY <1>1, <1>2 DEF CallOK, Jobs, InFlightAuthentic
<1> DEFINE Good == /\ job' = NoJob \/ (job' \in Jobs /\ job'.todo \subseteq job.todo)
                   /\ DocOK' /\ History'
                   /\ \A d \in Items : Authentic(d) => Authentic(d)'
<1>4. Good
  <2>1. ASSUME NEW d \in job.todo, ApplyKnown(d) \/ ApplyDeferred(d) PROVE Good
    <3>1. UNCHANGED docVars
      BY <2>1 DEF ApplyKnown, ApplyDeferred
    <3>2. job' \in Jobs /\ job'.todo \subseteq job.todo
      BY <1>3, <2>1 DEF ApplyKnown, ApplyDeferred, Done, Pending, Jobs
    <3> QED
      BY <1>1, <3>1, <3>2, SameDocs, SameStore DEF docVars
  <2>2. ASSUME NEW d \in job.todo, ApplyRejected(d) PROVE Good
    <3>1. job' \in Jobs /\ job'.todo \subseteq job.todo
      BY <1>3, <2>2 DEF ApplyRejected, Pending, Jobs
    <3>2. Registered(order[job.doc], Client(d)) \in Seq(Clients)
      <4>1. Client(d) \in Clients /\ order[job.doc] \in Seq(Clients)
        BY <1>1, <1>3, ItemIds DEF DocOK
      <4> QED
        BY <4>1 DEF Registered
    <3>3. DocOK'
      BY <1>1, <2>2, <3>2 DEF ApplyRejected, DocOK, ListStored, HeadStored
    <3> QED
      BY <1>1, <2>2, <3>1, <3>3, SameStore DEF ApplyRejected
  <2>3. ASSUME NEW d \in job.todo, ApplyInstalled(d) PROVE Good
    <3>1. job' = NoJob \/ (job' \in Jobs /\ job'.todo \subseteq job.todo)
      BY <1>3, <2>3 DEF ApplyInstalled, Done, Jobs
    <3>2. d \in Items /\ Authentic(d)
      BY <1>3
    <3>3. d.parent # NoParent => d.origin_left = NoId /\ d.origin_right = NoId
      BY <3>2 DEF Authentic
    <3>4. DocOK' /\ \E it : Extends(job.doc, it) /\ Core(it) = Core(d)
      BY <1>1, <1>3, <2>3, <3>2, <3>3, ApplyInstalledOK
    <3>5. PICK it : Extends(job.doc, it) /\ Core(it) = Core(d)
      BY <3>4
    <3>6. Emitted(it)
      BY <3>2, <3>5 DEF Authentic, Emitted, Core, Client
    <3>7. History' /\ \A e \in Items : Authentic(e) => Authentic(e)'
      BY <1>1, <1>3, <3>5, <3>6, ExtendHistory
    <3> QED
      BY <3>1, <3>4, <3>7
  <2>4. CASE NextPass
    <3>1. UNCHANGED docVars
      BY <2>4 DEF NextPass
    <3>2. job' \in Jobs /\ job'.todo \subseteq job.todo
      BY <1>3, <2>4 DEF NextPass, Jobs
    <3> QED
      BY <1>1, <3>1, <3>2, SameDocs, SameStore DEF docVars
  <2>5. CASE GiveUp
    <3>1. UNCHANGED docVars /\ job' = NoJob
      BY <2>5 DEF GiveUp
    <3> QED
      BY <1>1, <3>1, SameDocs, SameStore DEF docVars
  <2>6. CASE ApplyDeletes
    <3>1. job' = NoJob
      BY <2>6 DEF ApplyDeletes
    <3>2. DocOK' /\ UNCHANGED store
      BY <1>1, <1>3, <2>6, ApplyDeletesOK
    <3> QED
      BY <1>1, <3>1, <3>2, SameStore
  <2> QED
    BY <2>1, <2>2, <2>3, <2>4, <2>5, <2>6 DEF Apply, ApplyOne
<1>5. CallOK'
  BY <1>1, <1>2, <1>4 DEF CallOK
<1>6. InFlightAuthentic'
  BY <1>1, <1>2, <1>3, <1>4, <1>5, StillInFlight DEF InFlightAuthentic
<1> QED
  BY <1>4, <1>5, <1>6, InvariantParts, PTL

\* The invariant holds at first, and every step keeps it.
LEMMA InitInvariant == Init => IInv
<1> SUFFICES ASSUME Init PROVE IInv
  OBVIOUS
<1>1. TypeOK
  BY DEF Init, TypeOK, OptIds
<1>2. ListStored /\ HeadStored
  BY DEF Init, ListStored, HeadStored
<1>3. \A p, c \in Clients : store[p][c] = << >> /\ DOMAIN store[p] = Clients
  BY DEF Init
<1>4. Dense /\ Ascending /\ SameHistory
  BY <1>3 DEF Dense, Ascending, SameHistory
<1>5. OriginsStored
  BY <1>3 DEF OriginsStored, Stored, ToSet
<1>6. InFlightAuthentic
  BY DEF Init, InFlightAuthentic
<1> QED
  BY <1>1, <1>2, <1>4, <1>5, <1>6 DEF IInv

LEMMA NextInvariant == IInv /\ [Next]_vars => IInv'
<1> SUFFICES ASSUME IInv, [Next]_vars PROVE IInv'
  OBVIOUS
<1>1. ASSUME NEW p \in Clients, LocalEdit(p) PROVE IInv'
  BY <1>1, LocalEditStep
<1>2. ASSUME NEW p \in Clients, Compact(p) PROVE IInv'
  BY <1>2, CompactStep
<1>3. ASSUME NEW p \in Clients,
             \/ \E q \in Clients : Pull(p, q)
             \/ Publish(p)
             \/ \E m \in msgs : Deliver(p, m)
      PROVE  IInv'
  BY <1>3, ExchangeStep
<1>4. ASSUME Apply PROVE IInv'
  BY <1>4, ApplyStep
<1>5. ASSUME UNCHANGED vars PROVE IInv'
  <2>1. UNCHANGED << docVars, job, msgs, sent >>
    BY <1>5 DEF vars
  <2>2. DocOK /\ CallOK /\ History /\ InFlightAuthentic
    BY InvariantParts
  <2>3. DocOK' /\ History' /\ \A d \in Items : Authentic(d) => Authentic(d)'
    BY <2>1, <2>2, SameDocs, SameStore DEF docVars
  <2>4. CallOK'
    BY <2>1, <2>2 DEF CallOK
  <2>5. InFlightAuthentic'
    BY <2>1, <2>2, <2>3, <2>4, StillInFlight DEF InFlightAuthentic
  <2> QED
    BY <2>3, <2>4, <2>5, InvariantParts, PTL
<1> QED
  BY <1>1, <1>2, <1>3, <1>4, <1>5 DEF Next

\* The inductive invariant holds of every behaviour of the documents.
THEOREM Invariance == Spec => []IInv
BY InitInvariant, NextInvariant, PTL DEF Spec

\* Every variable keeps its type: no operation stores an ill-formed item,
\* splices an id that is none, or begins a call with a malformed update.
THEOREM TypeCorrect == Spec => []TypeOK
<1>1. IInv => TypeOK
  BY DEF IInv
<1> QED
  BY Invariance, <1>1, PTL

\* Client vectors are gapless whatever updates are lost, repeated or
\* reordered (StructStore::append, on which find_by_id and the state
\* vectors rest).
THEOREM StoresAreDense == Spec => []Dense
<1>1. IInv => Dense
  BY DEF IInv
<1> QED
  BY Invariance, <1>1, PTL

\* Every document holds, of each client, a prefix of what it emitted.
THEOREM HistoriesAgree == Spec => []SameHistory
<1>1. IInv => SameHistory
  BY DEF IInv
<1> QED
  BY Invariance, <1>1, PTL

\* The items an item's origins name are stored with it, so integration
\* always finds them (apply_one's parent test is enough).
THEOREM OriginsAreStored == Spec => []OriginsStored
<1>1. IInv => OriginsStored
  BY DEF IInv
<1> QED
  BY Invariance, <1>1, PTL

-----------------------------------------------------------------------------
(* What a step can do to the documents.                                    *)

\* Every step stores one item, compacts, deletes, or leaves them alone.
LEMMA StepKinds ==
  ASSUME IInv, Next
  PROVE  \/ \E p \in Clients : \E it :
              Extends(p, it) /\ (Client(it) = p \/ Emitted(it))
         \/ \E p \in Clients : Compact(p)
         \/ \E p \in Clients : \E t \in Texts : \E i \in Nat : ArrayDeleteAt(p, t, i)
         \/ ApplyDeletes
         \/ UNCHANGED << store, ds, del, list, head, clock >>
<1> DEFINE Stores1 == \E p \in Clients : \E it :
                        Extends(p, it) /\ (Client(it) = p \/ Emitted(it))
           Deletes1 == \E p \in Clients : \E t \in Texts : \E i \in Nat :
                         ArrayDeleteAt(p, t, i)
           Stays == UNCHANGED << store, ds, del, list, head, clock >>
<1>1. DocOK /\ CallOK /\ History /\ InFlightAuthentic
  BY InvariantParts
<1>2. ASSUME NEW p \in Clients, LocalEdit(p)
      PROVE  Stores1 \/ Deletes1
  BY <1>1, <1>2, LocalEditOK DEF Emits
<1>3. ASSUME NEW p \in Clients,
             \/ \E q \in Clients : Pull(p, q)
             \/ Publish(p)
             \/ \E m \in msgs : Deliver(p, m)
      PROVE  Stays
  BY <1>3 DEF Pull, Publish, Deliver, docVars
<1>4. ASSUME Apply
      PROVE  Stores1 \/ ApplyDeletes \/ Stays
  <2>1. job # NoJob
    BY <1>4 DEF Apply, ApplyOne, NextPass, GiveUp, ApplyDeletes, PassIsOver
  <2>2. /\ job \in Jobs /\ job.doc \in Clients /\ job.todo \subseteq Items
        /\ \A d \in job.todo : Authentic(d)
    BY <1>1, <2>1 DEF CallOK, Jobs, InFlightAuthentic
  <2>3. ASSUME NEW d \in job.todo, ApplyInstalled(d) PROVE Stores1
    <3>1. d \in Items /\ Authentic(d)
      BY <2>2
    <3>2. d.parent # NoParent => d.origin_left = NoId /\ d.origin_right = NoId
      BY <3>1 DEF Authentic
    <3>3. PICK it : Extends(job.doc, it) /\ Core(it) = Core(d)
      BY <1>1, <2>2, <2>3, <3>1, <3>2, ApplyInstalledOK
    <3>4. Emitted(it)
      BY <3>1, <3>3 DEF Authentic, Emitted, Core, Client
    <3> QED
      BY <2>2, <3>3, <3>4
  <2>4. ASSUME NEW d \in job.todo,
               ApplyKnown(d) \/ ApplyDeferred(d) \/ ApplyRejected(d)
        PROVE  Stays
    BY <2>4 DEF ApplyKnown, ApplyDeferred, ApplyRejected, docVars
  <2>5. ASSUME NextPass \/ GiveUp PROVE Stays
    BY <2>5 DEF NextPass, GiveUp, docVars
  <2> QED
    BY <1>4, <2>3, <2>4, <2>5 DEF Apply, ApplyOne
<1> QED
  BY <1>2, <1>3, <1>4 DEF Next

\* What a step can do to the stores and the clocks.
LEMMA StepShape ==
  ASSUME IInv, Next
  PROVE  \/ \E p \in Clients : \E it :
              Extends(p, it) /\ (Client(it) = p \/ Emitted(it))
         \/ \E p \in Clients : Compact(p)
         \/ UNCHANGED << store, clock >>
<1>1. ASSUME \/ ApplyDeletes
             \/ \E p \in Clients : \E t \in Texts : \E i \in Nat : ArrayDeleteAt(p, t, i)
      PROVE  UNCHANGED << store, clock >>
  BY <1>1 DEF ApplyDeletes, ArrayDeleteAt
<1> QED
  BY <1>1, StepKinds

\* No document loses an item or sees it altered, compaction included.
Grown ==
  \A q, c \in Clients : \A i \in DOMAIN store[q][c] :
    /\ i \in DOMAIN store'[q][c]
    /\ Core(store'[q][c][i]) = Core(store[q][c][i])

LEMMA ExtendGrown ==
  ASSUME DocOK, NEW p \in Clients, NEW it, Extends(p, it)
  PROVE  Grown
<1> SUFFICES ASSUME NEW q \in Clients, NEW c \in Clients, NEW i \in DOMAIN store[q][c]
             PROVE  i \in DOMAIN store'[q][c] /\ store'[q][c][i] = store[q][c][i]
  BY DEF Grown
<1> DEFINE s == store[q][c]
           u == store'[q][c]
<1>1. s \in Seq(Items) /\ u \in Seq(Items)
  BY ExtendStore, VectorType DEF DocOK
<1>2. CASE q # p \/ c # Client(it)
  BY <1>2, ExtendStore
<1>3. CASE q = p /\ c = Client(it)
  <2>1. Len(u) = Len(s) + 1 /\ \A k \in 1 .. Len(s) : u[k] = s[k]
    BY <1>3, ExtendStore
  <2> QED
    BY <1>1, <2>1
<1> QED
  BY <1>2, <1>3

LEMMA StepGrown ==
  ASSUME IInv, [Next]_vars
  PROVE  Grown
<1>1. DocOK
  BY InvariantParts
<1>2. ASSUME NEW p \in Clients, Compact(p) PROVE Grown
  BY <1>1, <1>2, CompactOK DEF Grown
<1>3. ASSUME UNCHANGED store PROVE Grown
  BY <1>3 DEF Grown
<1> QED
  BY <1>1, <1>2, <1>3, StepShape, ExtendGrown DEF vars, docVars

\* What is found stays to be found.
LEMMA GrownHas ==
  ASSUME Grown, NEW q \in Clients, NEW x \in Ids, Has(store[q], x)
  PROVE  Has(store'[q], x)
<1>1. x[1] \in Clients
  BY DEF Ids
<1>2. PICK i \in DOMAIN store[q][x[1]] : x # NoId /\ Covers(store[q][x[1]][i], x)
  BY DEF Has
<1>3. Core(store'[q][x[1]][i]) = Core(store[q][x[1]][i]) /\ i \in DOMAIN store'[q][x[1]]
  BY <1>1, <1>2 DEF Grown
<1>4. /\ store'[q][x[1]][i].id = store[q][x[1]][i].id
      /\ store'[q][x[1]][i].length = store[q][x[1]][i].length
  BY <1>3 DEF Core
<1> QED
  BY <1>2, <1>3, <1>4 DEF Has, Covers, End

\* A document never forgets: an id it can look up once it can look up for
\* ever, so an origin once resolved stays resolvable and a state vector
\* once sent stays true (StructStore, compact).
NeverForgets ==
  [][ \A p \in Clients, x \in Ids : Has(store[p], x) => Has(store'[p], x) ]_vars

THEOREM DocumentsNeverForget == Spec => NeverForgets
<1>1. IInv /\ [Next]_vars =>
        [ \A p \in Clients, x \in Ids : Has(store[p], x) => Has(store'[p], x) ]_vars
  BY StepGrown, GrownHas
<1> QED
  BY Invariance, <1>1, PTL DEF Spec, NeverForgets

-----------------------------------------------------------------------------
(* The clock of the next local edit.                                       *)

\* Storing an item moves the state of its client to its end.
LEMMA ExtendState ==
  ASSUME DocOK, NEW p \in Clients, NEW it, Extends(p, it), NEW q \in Clients,
         NEW c \in Clients
  PROVE  State(store'[q], c) =
           IF q = p /\ c = Client(it) THEN End(it) ELSE State(store[q], c)
<1>1. CASE q # p \/ c # Client(it)
  BY <1>1, ExtendStore DEF State
<1>2. CASE q = p /\ c = Client(it)
  <2> DEFINE s == store[p][c]
             u == store'[p][c]
  <2>1. s \in Seq(Items) /\ u = Append(s, it) /\ Len(u) = Len(s) + 1 /\ u[Len(s) + 1] = it
    <3>1. store \in [Clients -> Stores]
      BY DEF DocOK
    <3>2. s \in Seq(Items)
      BY <3>1, VectorType
    <3>3. Client(it) = c
      BY <1>2
    <3>4. u = Append(s, it) /\ Len(u) = Len(s) + 1 /\ u[Len(s) + 1] = it
      BY <3>3, ExtendStore
    <3> QED
      BY <3>2, <3>4
  <2>2. u # << >> /\ u[Len(u)] = it
    BY <2>1
  <2> QED
    BY <1>2, <2>2 DEF State
<1> QED
  BY <1>1, <1>2

\* What storing does to next_clock_: it is bumped, or integration failed.
LEMMA ExtendClock ==
  ASSUME DocOK, NEW p \in Clients, NEW it, Extends(p, it)
  PROVE  \/ clock' = Bumped(p, it)
         \/ FailToIntegrate(p, it) /\ UNCHANGED clock
BY DEF Extends, Installs, InstallIntoMap, InstallIntoArray, FailToIntegrate, InstallBare

\* Nobody sends a client an item of its own that it does not have.
LEMMA OwnIsNew ==
  ASSUME DocOK, History, NEW p \in Clients, NEW it, Extends(p, it), Emitted(it)
  PROVE  Client(it) # p
<1>1. it \in Items /\ CanAppend(store[p], it) /\ Client(it) \in Clients
  BY ItemIds DEF Extends
<1>2. Len(store[p][Client(it)]) + 1 \in DOMAIN store[Client(it)][Client(it)]
  BY <1>1, NextOfAuthor DEF History
<1>3. store[p][Client(it)] \in Seq(Items)
  BY <1>1 DEF DocOK, Stores
<1> QED
  BY <1>2, <1>3

\* compact leaves state vectors as they are.
LEMMA CompactState ==
  ASSUME DocOK, NEW p \in Clients, Compact(p), NEW q \in Clients, NEW c \in Clients
  PROVE  State(store'[q], c) = State(store[q], c)
<1> DEFINE s == store[q][c]
           u == store'[q][c]
<1>1. /\ Len(u) = Len(s) /\ DOMAIN u = DOMAIN s
      /\ \A i \in DOMAIN s : Core(u[i]) = Core(s[i])
      /\ s \in Seq(Items) /\ u \in Seq(Items)
  <2>1. store \in [Clients -> Stores] /\ store' \in [Clients -> Stores]
    BY CompactOK DEF DocOK
  <2>2. s \in Seq(Items) /\ u \in Seq(Items)
    BY <2>1, VectorType
  <2> QED
    BY <2>2, CompactOK
<1>2. CASE s = << >>
  BY <1>1, <1>2 DEF State
<1>3. CASE s # << >>
  <2>1. Len(s) \in DOMAIN s /\ u # << >>
    BY <1>1, <1>3, EmptySeq
  <2>2. End(u[Len(s)]) = End(s[Len(s)])
    BY <1>1, <2>1 DEF Core, End
  <2> QED
    BY <1>1, <1>3, <2>1, <2>2 DEF State
<1> QED
  BY <1>2, <1>3

\* next_clock_ is never ahead of the store: a clock is not skipped, so the
\* vector of the document's own items stays gapless.
ClockNotAhead == \A p \in Clients : clock[p] <= State(store[p], p)

\* No call of integrate has failed.
Fails == \E p \in Clients, it \in Items : FailToIntegrate(p, it)

LEMMA StateNat ==
  ASSUME DocOK, NEW p \in Clients, NEW c \in Clients
  PROVE  State(store[p], c) \in Nat
BY StateOK DEF DocOK, StateVector

\* The state of its own client after an item of another one, or of its own.
LEMMA ExtendOwnState ==
  ASSUME DocOK, NEW p \in Clients, NEW it, Extends(p, it), NEW q \in Clients
  PROVE  /\ End(it) \in Nat /\ it \in Items
         /\ q # p \/ Client(it) # p =>
              clock'[q] = clock[q] /\ State(store'[q], q) = State(store[q], q)
         /\ q = p /\ Client(it) = p =>
              /\ State(store'[q], q) = End(it) /\ State(store[q], q) < End(it)
              /\ \/ clock'[q] = IF End(it) > clock[q] THEN End(it) ELSE clock[q]
                 \/ FailToIntegrate(p, it) /\ clock'[q] = clock[q]
<1>1. it \in Items /\ End(it) \in Nat /\ it.id[2] \in Nat /\ it.id[2] < End(it)
  BY ItemIds DEF Extends
<1>2. clock \in [Clients -> Nat]
  BY DEF DocOK
<1>3. \/ clock' = Bumped(p, it)
      \/ FailToIntegrate(p, it) /\ UNCHANGED clock
  BY ExtendClock
<1>4. State(store'[q], q) =
        IF q = p /\ q = Client(it) THEN End(it) ELSE State(store[q], q)
  BY ExtendState
<1>5. it.id[2] = State(store[p], Client(it))
  BY DEF Extends, CanAppend
<1>6. ASSUME q # p \/ Client(it) # p
      PROVE  clock'[q] = clock[q] /\ State(store'[q], q) = State(store[q], q)
  BY <1>2, <1>3, <1>4, <1>6 DEF Bumped
<1>7. ASSUME q = p, Client(it) = p
      PROVE  /\ State(store'[q], q) = End(it) /\ State(store[q], q) < End(it)
             /\ \/ clock'[q] = IF End(it) > clock[q] THEN End(it) ELSE clock[q]
                \/ FailToIntegrate(p, it) /\ clock'[q] = clock[q]
  BY <1>1, <1>2, <1>3, <1>4, <1>5, <1>7 DEF Bumped
<1> QED
  BY <1>1, <1>6, <1>7

LEMMA ClockNotAheadStep ==
  ASSUME IInv, ClockNotAhead, [Next]_vars
  PROVE  ClockNotAhead'
<1>1. DocOK /\ History
  BY InvariantParts
<1>2. ASSUME NEW p \in Clients, NEW it, Extends(p, it) PROVE ClockNotAhead'
  <2> SUFFICES ASSUME NEW q \in Clients PROVE clock'[q] <= State(store'[q], q)
    BY DEF ClockNotAhead
  <2>1. clock[q] \in Nat /\ State(store[q], q) \in Nat /\ clock[q] <= State(store[q], q)
    BY <1>1, StateNat DEF DocOK, ClockNotAhead
  <2>2. CASE q # p \/ Client(it) # p
    BY <1>1, <1>2, <2>1, <2>2, ExtendOwnState
  <2>3. CASE q = p /\ Client(it) = p
    <3>1. /\ End(it) \in Nat /\ State(store'[q], q) = End(it)
          /\ State(store[q], q) < End(it)
          /\ \/ clock'[q] = IF End(it) > clock[q] THEN End(it) ELSE clock[q]
             \/ clock'[q] = clock[q]
      BY <1>1, <1>2, <2>3, ExtendOwnState
    <3> QED
      BY <2>1, <3>1
  <2> QED
    BY <2>2, <2>3
<1>3. ASSUME NEW p \in Clients, Compact(p) PROVE ClockNotAhead'
  BY <1>1, <1>3, CompactState DEF ClockNotAhead, Compact
<1>4. ASSUME UNCHANGED << store, clock >> PROVE ClockNotAhead'
  BY <1>4 DEF ClockNotAhead
<1> QED
  BY <1>2, <1>3, <1>4, StepShape DEF vars, docVars

LEMMA NextClockFreeStep ==
  ASSUME IInv, NextClockFree, [Next]_vars, ~Fails
  PROVE  NextClockFree'
<1>1. DocOK /\ History
  BY InvariantParts
<1>2. ASSUME NEW p \in Clients, NEW it, Extends(p, it) PROVE NextClockFree'
  <2> SUFFICES ASSUME NEW q \in Clients PROVE clock'[q] = State(store'[q], q)
    BY DEF NextClockFree
  <2>1. clock[q] \in Nat /\ clock[q] = State(store[q], q)
    BY <1>1 DEF DocOK, NextClockFree
  <2>2. ~FailToIntegrate(p, it)
    BY <1>2 DEF Fails, Extends
  <2>3. CASE q # p \/ Client(it) # p
    BY <1>1, <1>2, <2>1, <2>3, ExtendOwnState
  <2>4. CASE q = p /\ Client(it) = p
    <3>1. /\ End(it) \in Nat /\ State(store'[q], q) = End(it)
          /\ State(store[q], q) < End(it)
          /\ clock'[q] = IF End(it) > clock[q] THEN End(it) ELSE clock[q]
      BY <1>1, <1>2, <2>2, <2>4, ExtendOwnState
    <3> QED
      BY <2>1, <3>1
  <2> QED
    BY <2>3, <2>4
<1>3. ASSUME NEW p \in Clients, Compact(p) PROVE NextClockFree'
  BY <1>1, <1>3, CompactState DEF NextClockFree, Compact
<1>4. ASSUME UNCHANGED << store, clock >> PROVE NextClockFree'
  BY <1>4 DEF NextClockFree
<1> QED
  BY <1>2, <1>3, <1>4, StepShape DEF vars, docVars

LEMMA InitClock == Init => ClockNotAhead /\ NextClockFree
<1> SUFFICES ASSUME Init, NEW p \in Clients
             PROVE  clock[p] = 0 /\ State(store[p], p) = 0
  BY DEF ClockNotAhead, NextClockFree
<1> QED
  BY DEF Init, State

\* next_clock_ never runs ahead of the store, whoever's items arrive and
\* also when integration fails (bump_clock_for).
THEOREM ClockIsNeverAhead == Spec => []ClockNotAhead
<1>1. Init => ClockNotAhead
  BY InitClock
<1>2. IInv /\ ClockNotAhead /\ [Next]_vars => ClockNotAhead'
  BY ClockNotAheadStep
<1> QED
  BY Invariance, <1>1, <1>2, PTL DEF Spec

\* As long as integration does not fail, the next local edit gets exactly
\* the clock the store expects and is not rejected: a failed integration is
\* the only way a document can come to reject its own edits (bump_clock_for,
\* install_into_array).
THEOREM NextClockIsFree == Spec /\ [][~Fails]_vars => []NextClockFree
<1>1. Init => NextClockFree
  BY InitClock
<1>2. IInv /\ NextClockFree /\ [Next]_vars /\ [~Fails]_vars => NextClockFree'
  <2>1. ASSUME UNCHANGED vars, NextClockFree PROVE NextClockFree'
    BY <2>1 DEF NextClockFree, vars, docVars
  <2> QED
    BY <2>1, NextClockFreeStep
<1> QED
  BY Invariance, <1>1, <1>2, PTL DEF Spec
-----------------------------------------------------------------------------
(* What a document has or is sent.                                         *)

\* The document has items of the client up to clock n.
Reached(p, c, n) ==
  n = 0 \/ \E i \in DOMAIN store[p][c] : n = End(store[p][c][i])

\* What can be looked up in a document, or comes with the structs.
Reachable(p, up, x) == Has(store[p], x) \/ \E e \in up : Covers(e, x)

LEMMA VectorDomain ==
  ASSUME DocOK, NEW q \in Clients, NEW c \in Clients
  PROVE  DOMAIN store[q][c] = 1 .. Len(store[q][c]) /\ Len(store[q][c]) \in Nat
<1>1. store[q][c] \in Seq(Items)
  BY DEF DocOK, Stores
<1> QED
  BY <1>1

\* A state vector tells where items end.
LEMMA VectorReached ==
  ASSUME DocOK, NEW p \in Clients, NEW c \in Clients
  PROVE  Reached(p, c, StateVector(store[p])[c])
<1>1. StateVector(store[p])[c] = State(store[p], c)
  BY DEF StateVector
<1>2. CASE store[p][c] = << >>
  BY <1>1, <1>2 DEF State, Reached
<1>3. CASE store[p][c] # << >>
  <2>1. store[p][c] \in Seq(Items)
    BY DEF DocOK, Stores
  <2>2. Len(store[p][c]) \in DOMAIN store[p][c]
    BY <1>3, <2>1, EmptySeq
  <2> QED
    BY <1>1, <1>3, <2>2 DEF State, Reached
<1> QED
  BY <1>2, <1>3

\* What the answering document has, the asking one has or is sent.
LEMMA HeldOrSent ==
  ASSUME DocOK, History, NEW from \in Clients, NEW to \in Clients,
         NEW since \in [Clients -> Nat], NEW c \in Clients, Reached(to, c, since[c]),
         NEW i \in DOMAIN store[from][c], NEW x \in Ids, Covers(store[from][c][i], x)
  PROVE  Reachable(to, Diff(from, since).structs, x)
<1> DEFINE e == store[from][c][i]
<1>1. /\ e \in Items /\ Client(e) = c /\ e.id[2] \in Nat
      /\ i \in DOMAIN store[c][c] /\ Core(e) = Core(store[c][c][i])
  BY StoredEntry DEF History, Dense, SameHistory
<1>2. x[1] = c /\ x # NoId
  BY <1>1 DEF Covers, Client
<1>3. CASE e.id[2] >= since[c]
  <2>1. e \in Stored(store[from])
    <3>1. e \in ToSet(store[from][c]) /\ c \in DOMAIN store[from]
      BY DEF ToSet, DocOK, Stores
    <3> QED
      BY <3>1 DEF Stored
  <2>2. Wire(e) \in Diff(from, since).structs
    BY <1>1, <1>3, <2>1 DEF Diff
  <2>3. Covers(Wire(e), x)
    BY <1>1, WireOK DEF Core, Covers, End
  <2> QED
    BY <2>2, <2>3 DEF Reachable
<1>4. CASE ~(e.id[2] >= since[c])
  <2>1. since[c] \in Nat /\ e.id[2] < since[c]
    BY <1>1, <1>4
  <2>2. PICK j \in DOMAIN store[to][c] : since[c] = End(store[to][c][j])
    BY <1>1, <2>1 DEF Reached
  <2>3. j \in DOMAIN store[c][c] /\ Core(store[to][c][j]) = Core(store[c][c][j])
    BY DEF History, SameHistory
  <2>4. End(store[c][c][j]) = since[c] /\ store[c][c][i].id[2] = e.id[2]
    BY <1>1, <2>2, <2>3 DEF Core, End
  <2>5. /\ i \in 1 .. Len(store[from][c]) /\ Len(store[from][c]) \in Nat
        /\ j \in 1 .. Len(store[to][c]) /\ Len(store[to][c]) \in Nat
        /\ DOMAIN store[to][c] = 1 .. Len(store[to][c])
    BY VectorDomain
  <2>6. ~(j < i)
    BY <1>1, <2>1, <2>3, <2>4 DEF History, Ascending
  <2>7. i \in DOMAIN store[to][c]
    BY <2>5, <2>6
  <2>8. Core(store[to][c][i]) = Core(e)
    BY <1>1, <2>7 DEF History, SameHistory
  <2>9. Covers(store[to][c][i], x)
    BY <2>8 DEF Core, Covers, End
  <2> QED
    BY <1>2, <2>7, <2>9 DEF Reachable, Has
<1> QED
  BY <1>3, <1>4

-----------------------------------------------------------------------------
(* Structs that a call leaves out.                                         *)

\* What came back pending in a pass without progress still does not fit: the
\* pass has changed nothing it depends on.
Unfit(st, d) == ~Has(st, d.id) /\ (MissesOrigin(st, d) \/ ~CanAppend(st, d))
TriedInVain ==
  job # NoJob /\ ~job.progress =>
    \A d \in job.tried : Unfit(store[job.doc], d)

\* Nothing else happens while a call is in progress.
LEMMA CallsAreAlone ==
  ASSUME NEW p \in Clients, LocalEdit(p) \/ Compact(p) \/ Publish(p)
  PROVE  job = NoJob /\ UNCHANGED job
<1>1. ASSUME LocalEdit(p) PROVE job = NoJob /\ UNCHANGED job
  <2>1. ASSUME NEW k, NEW n, MapSet(p, k, n) PROVE job = NoJob /\ UNCHANGED job
    BY <2>1, Zenon DEF MapSet, MayEmit
  <2>2. ASSUME NEW t, NEW n, NEW left, NEW right, EmitArrayItem(p, t, n, left, right)
        PROVE  job = NoJob /\ UNCHANGED job
    BY <2>2, Zenon DEF EmitArrayItem, MayEmit
  <2>3. ASSUME NEW t, NEW i, ArrayDeleteAt(p, t, i) PROVE job = NoJob /\ UNCHANGED job
    BY <2>3, Zenon DEF ArrayDeleteAt
  <2>4. ASSUME NEW t, NEW n, NEW i, ArrayInsertAt(p, t, i, n) PROVE job = NoJob /\ UNCHANGED job
    BY <2>2, <2>4, Zenon DEF ArrayInsertAt
  <2>5. ASSUME NEW t, NEW n, TextAppend(p, t, n) PROVE job = NoJob /\ UNCHANGED job
    BY <2>2, <2>5, Zenon DEF TextAppend
  <2> QED
    BY <1>1, <2>1, <2>3, <2>4, <2>5, Zenon DEF LocalEdit
<1> QED
  BY <1>1 DEF Compact, Publish

LEMMA TriedInVainStep ==
  ASSUME CallOK, TriedInVain, [Next]_vars
  PROVE  TriedInVain'
<1>1. ASSUME NEW p \in Clients, LocalEdit(p) \/ Compact(p) \/ Publish(p)
      PROVE  TriedInVain'
  BY <1>1, CallsAreAlone DEF TriedInVain
<1>2. ASSUME NEW p \in Clients, NEW m, Begin(p, m) PROVE TriedInVain'
  <2>1. job'.tried = {}
    BY <1>2 DEF Begin
  <2> QED
    BY <2>1 DEF TriedInVain
<1>3. ASSUME ApplyOne PROVE TriedInVain'
  <2>1. PICK d \in job.todo : /\ job # NoJob
                              /\ \/ ApplyKnown(d) \/ ApplyDeferred(d)
                                 \/ ApplyRejected(d) \/ ApplyInstalled(d)
    BY <1>3 DEF ApplyOne
  <2>2. job \in Jobs
    BY <2>1 DEF CallOK
  <2>3. CASE Done(d) \/ job' = NoJob
    <3>1. job' = NoJob \/ job'.progress
      BY <2>2, <2>3 DEF Done, Jobs
    <3> QED
      BY <3>1 DEF TriedInVain
  <2>4. CASE Pending(d) /\ UNCHANGED store /\ Unfit(store[job.doc], d)
    <3>1. /\ job'.doc = job.doc /\ job'.progress = job.progress
          /\ job'.tried = job.tried \cup {d}
      BY <2>2, <2>4 DEF Pending, Jobs
    <3>2. UNCHANGED store
      BY <2>4
    <3>3. ASSUME ~job.progress, NEW e \in job.tried \cup {d}
          PROVE  Unfit(store[job.doc], e)
      BY <2>1, <2>4, <3>3 DEF TriedInVain
    <3>4. job' # NoJob /\ ~job'.progress =>
            \A e \in job'.tried : Unfit(store[job'.doc], e)
      BY <3>1, <3>3
    <3> QED
      BY <3>2, <3>4 DEF TriedInVain, Unfit, Has, MissesOrigin, CanAppend, State
  <2> QED
    BY <2>1, <2>3, <2>4
    DEF ApplyKnown, ApplyDeferred, ApplyRejected, ApplyInstalled, Unfit, docVars
<1>4. ASSUME NextPass PROVE TriedInVain'
  <2>1. job \in Jobs
    BY <1>4 DEF NextPass, PassIsOver, CallOK
  <2>2. job'.tried = {}
    BY <1>4, <2>1 DEF NextPass, Jobs
  <2> QED
    BY <2>2 DEF TriedInVain
<1>5. ASSUME GiveUp \/ ApplyDeletes PROVE TriedInVain'
  BY <1>5 DEF GiveUp, ApplyDeletes, TriedInVain
<1>6. ASSUME UNCHANGED vars PROVE TriedInVain'
  BY <1>6 DEF vars, docVars, TriedInVain, Unfit, Has, MissesOrigin, CanAppend, State
<1> QED
  BY <1>1, <1>2, <1>3, <1>4, <1>5, <1>6 DEF Next, Apply, Pull, Deliver

\* A struct that begins below the end of what the document has of its
\* client is one that the document has.
LEMMA BelowIsKnown ==
  ASSUME DocOK, History, NEW p \in Clients, NEW d \in Items, Emitted(d),
         d.id[2] < State(store[p], Client(d))
  PROVE  Has(store[p], d.id)
<1> DEFINE c == Client(d)
           s == store[c][c]
           u == store[p][c]
<1>0. c \in Clients /\ d.id \in Ids /\ d.id[1] = c /\ d.id[2] \in Nat /\ Covers(d, d.id)
  BY ItemIds DEF Client
<1>1. PICK j \in DOMAIN s : Core(d) = Core(s[j])
  BY DEF Emitted
<1> HIDE DEF c
<1>2. /\ DOMAIN u = 1 .. Len(u) /\ Len(u) \in Nat
      /\ DOMAIN s = 1 .. Len(s) /\ Len(s) \in Nat
  BY <1>0, VectorDomain
<1>3. u # << >>
  <2> SUFFICES ASSUME u = << >> PROVE FALSE
    OBVIOUS
  <2>1. State(store[p], c) = 0
    BY DEF State
  <2> QED
    BY <1>0, <2>1 DEF c
<1>4. Len(u) \in DOMAIN u /\ State(store[p], c) = End(u[Len(u)])
  <2>1. u \in Seq(Items)
    BY <1>0 DEF DocOK, Stores
  <2>2. Len(u) # 0
    BY <1>3, <2>1, EmptySeq
  <2> QED
    BY <1>2, <1>3, <2>2 DEF State
<1>5. /\ Len(u) \in DOMAIN s
      /\ End(s[Len(u)]) = State(store[p], c)
  <2>1. Len(u) \in DOMAIN s /\ Core(u[Len(u)]) = Core(s[Len(u)])
    BY <1>0, <1>4 DEF History, SameHistory
  <2> QED
    BY <1>4, <2>1 DEF Core, End
<1>6. s[j].id[2] = d.id[2] /\ s[j].id[2] \in Nat
  BY <1>0, <1>1 DEF Core
<1>7. ~(Len(u) < j)
  <2> SUFFICES ASSUME Len(u) < j PROVE FALSE
    OBVIOUS
  <2>1. End(s[Len(u)]) <= s[j].id[2]
    BY <1>0, <1>1, <1>5 DEF History, Ascending
  <2>2. State(store[p], c) \in Nat
    BY <1>0, StateNat
  <2> QED
    BY <1>0, <1>5, <1>6, <2>1, <2>2 DEF c
<1>8. j \in DOMAIN u
  BY <1>1, <1>2, <1>7
<1>9. Core(u[j]) = Core(d)
  BY <1>0, <1>1, <1>8 DEF History, SameHistory
<1>10. Covers(u[j], d.id)
  BY <1>0, <1>9 DEF Core, Covers, End
<1> QED
  BY <1>0, <1>8, <1>10 DEF Has, Covers

\* A call that gives up leaves out only what is in want of something.
LEMMA LeftOut ==
  ASSUME IInv, TriedInVain, GiveUp, NEW d \in job.todo
  PROVE  \/ d.id[2] > State(store[job.doc], Client(d))
         \/ \E x \in {d.origin_left, d.origin_right} \ {NoId} : ~Has(store[job.doc], x)
<1> DEFINE p == job.doc
<1>1. DocOK /\ CallOK /\ History /\ InFlightAuthentic
  BY InvariantParts
<1>2. job # NoJob /\ ~job.progress /\ d \in job.tried
  BY DEF GiveUp, PassIsOver
<1>3. p \in Clients /\ d \in Items /\ Emitted(d)
  BY <1>1, <1>2 DEF CallOK, Jobs, InFlightAuthentic, Authentic
<1>4. Unfit(store[p], d)
  BY <1>2 DEF TriedInVain
<1> HIDE DEF p
<1>5. ~(d.id[2] < State(store[p], Client(d)))
  BY <1>1, <1>3, <1>4, BelowIsKnown DEF Unfit
<1>6. d.id[2] \in Nat /\ State(store[p], Client(d)) \in Nat
  BY <1>1, <1>3, ItemIds, StateNat
<1>7. CASE MissesOrigin(store[p], d)
  BY <1>7 DEF MissesOrigin, p
<1>8. CASE ~CanAppend(store[p], d)
  BY <1>5, <1>6, <1>8 DEF CanAppend, p
<1> QED
  BY <1>4, <1>7, <1>8 DEF Unfit

\* As long as no integration fails, a call leaves a struct out only for want
\* of one that has not arrived, and takes over the delete set when it leaves
\* none out; the order of the structs, the passes over them and their number
\* do not matter (apply_update_v1).
THEOREM NothingIsDropped == Spec /\ [][~Fails]_vars => NothingDropped
<1>1. Init => TriedInVain
  BY DEF Init, TriedInVain
<1>2. IInv /\ TriedInVain /\ [Next]_vars => TriedInVain'
  BY TriedInVainStep, InvariantParts
<1>3. ASSUME IInv, TriedInVain, Next, ~Fails, job # NoJob, job' = NoJob
      PROVE  /\ \A d \in job.todo :
                  \/ d.id[2] > State(store[job.doc], Client(d))
                  \/ \E x \in {d.origin_left, d.origin_right} \ {NoId} :
                       ~Has(store[job.doc], x)
             /\ job.todo = {} => job.ds \subseteq ds'[job.doc]
  <2>1. DocOK /\ CallOK
    BY <1>3, InvariantParts
  <2>2. job \in Jobs
    BY <1>3, <2>1 DEF CallOK
  <2>3. GiveUp \/ ApplyDeletes
    <3>1. \A p \in Clients : ~(LocalEdit(p) \/ Compact(p) \/ Publish(p))
      BY <1>3, CallsAreAlone
    <3>2. Apply
      BY <1>3, <3>1 DEF Next, Pull, Deliver
    <3>3. ASSUME NEW d \in job.todo, Done(d) \/ Pending(d) PROVE FALSE
      <4>1. job' \in Jobs
        BY <2>2, <3>3 DEF Done, Pending, Jobs
      <4> QED
        BY <1>3, <4>1, NoJobAssumption
    <3>4. ASSUME NextPass PROVE FALSE
      <4>1. job' \in Jobs
        BY <2>2, <3>4 DEF NextPass, Jobs
      <4> QED
        BY <1>3, <4>1, NoJobAssumption
    <3>5. ASSUME NEW d \in job.todo, ApplyInstalled(d) PROVE FALSE
      <4>1. FailToIntegrate(job.doc, Inherited(store[job.doc], d))
        BY <3>3, <3>5 DEF ApplyInstalled
      <4>2. Inherited(store[job.doc], d) \in Items /\ job.doc \in Clients
        BY <2>1, <2>2, <3>5, InheritedOK DEF ApplyInstalled, Jobs, DocOK
      <4> QED
        BY <1>3, <4>1, <4>2 DEF Fails
    <3> QED
      BY <3>2, <3>3, <3>4, <3>5
      DEF Apply, ApplyOne, ApplyKnown, ApplyDeferred, ApplyRejected
  <2>4. CASE GiveUp
    <3>1. job.todo # {}
      BY <2>4 DEF GiveUp
    <3> QED
      BY <1>3, <2>4, <3>1, LeftOut
  <2>5. CASE ApplyDeletes
    <3>1. job.todo = {} /\ ds' = [ds EXCEPT ![job.doc] = @ \cup job.ds]
      BY <2>5 DEF ApplyDeletes
    <3>2. job.doc \in Clients /\ ds \in [Clients -> SUBSET Ids]
      BY <2>1, <2>2 DEF DocOK, Jobs
    <3> QED
      BY <3>1, <3>2
  <2> QED
    BY <2>3, <2>4, <2>5
<1>4. IInv /\ TriedInVain /\ [Next]_vars /\ [~Fails]_vars =>
        [ job # NoJob /\ job' = NoJob =>
            /\ \A d \in job.todo :
                 \/ d.id[2] > State(store[job.doc], Client(d))
                 \/ \E x \in {d.origin_left, d.origin_right} \ {NoId} :
                      ~Has(store[job.doc], x)
            /\ job.todo = {} => job.ds \subseteq ds'[job.doc] ]_vars
  BY <1>3
<1> QED
  BY Invariance, <1>1, <1>2, <1>4, PTL DEF Spec, NothingDropped

-----------------------------------------------------------------------------
(* Deletions and keys: facts about the store, the delete set, the flags    *)
(* and the heads of one document.                                          *)

\* The entries of a vector are its client's, one behind the other.
Sorted(st) ==
  \A c \in Clients : \A i \in DOMAIN st[c] :
    /\ Client(st[c][i]) = c
    /\ \A j \in DOMAIN st[c] : i < j => End(st[c][i]) <= st[c][j].id[2]

LEMMA StoreSorted ==
  ASSUME DocOK, History, NEW p \in Clients
  PROVE  store[p] \in Stores /\ Sorted(store[p])
BY DEF DocOK, History, Dense, Ascending, Sorted

\* The entries of a store.
LEMMA EntryIs ==
  ASSUME NEW st \in Stores, NEW c \in Clients, NEW i \in DOMAIN st[c]
  PROVE  /\ st[c][i] \in Items /\ st[c][i].id \in Ids
         /\ i \in Nat /\ i \in 1 .. Len(st[c]) /\ Len(st[c]) \in Nat
         /\ st[c][i].id[2] \in Nat /\ End(st[c][i]) \in Nat
         /\ Covers(st[c][i], st[c][i].id)
<1>1. st[c] \in Seq(Items)
  BY DEF Stores
<1>2. st[c][i] \in Items /\ i \in 1 .. Len(st[c]) /\ Len(st[c]) \in Nat
  BY <1>1
<1> QED
  BY <1>2, ItemIds

LEMMA ClockCovered ==
  ASSUME NEW it \in Items, NEW x \in Ids
  PROVE  x \in ClocksOf(it) <=> Covers(it, x)
<1>1. PICK c \in Clients, n \in Nat : x = << c, n >>
  BY DEF Ids
<1>2. it.id[2] \in Nat /\ End(it) \in Nat
  BY ItemIds
<1> QED
  BY <1>1, <1>2 DEF ClocksOf, Covers, NoId

\* No clock is in two entries.
LEMMA Apart ==
  ASSUME NEW st \in Stores, Sorted(st),
         NEW c \in Clients, NEW i \in DOMAIN st[c],
         NEW d \in Clients, NEW j \in DOMAIN st[d],
         NEW x \in Ids, Covers(st[c][i], x), Covers(st[d][j], x)
  PROVE  c = d /\ i = j
<1>1. c = d
  <2>1. st[c][i].id[1] = c /\ st[d][j].id[1] = d
    BY DEF Sorted, Client
  <2> QED
    BY <2>1 DEF Covers
<1>2. /\ i \in Nat /\ j \in Nat /\ x[2] \in Nat
      /\ st[c][i].id[2] \in Nat /\ End(st[c][i]) \in Nat
      /\ st[c][j].id[2] \in Nat /\ End(st[c][j]) \in Nat
      /\ st[c][i].id[2] <= x[2] /\ x[2] < End(st[c][i])
      /\ st[c][j].id[2] <= x[2] /\ x[2] < End(st[c][j])
  BY <1>1, EntryIs DEF Covers, Ids
<1>3. ~(i < j)
  <2> SUFFICES ASSUME i < j PROVE FALSE
    OBVIOUS
  <2>1. End(st[c][i]) <= st[c][j].id[2]
    BY <1>1 DEF Sorted
  <2> QED
    BY <1>2, <2>1
<1>4. ~(j < i)
  <2> SUFFICES ASSUME j < i PROVE FALSE
    OBVIOUS
  <2>1. End(st[c][j]) <= st[c][i].id[2]
    BY <1>1 DEF Sorted
  <2> QED
    BY <1>2, <2>1
<1> QED
  BY <1>1, <1>2, <1>3, <1>4

\* An id that is an item's own is found at that item.
Exact(st, x) == x \in Ids /\ \E i \in DOMAIN st[x[1]] : st[x[1]][i].id = x

LEMMA ExactIs ==
  ASSUME NEW st \in Stores, NEW c \in Clients, NEW i \in DOMAIN st[c], Sorted(st)
  PROVE  Exact(st, st[c][i].id)
<1>1. st[c][i].id \in Ids /\ st[c][i].id[1] = c
  BY EntryIs DEF Sorted, Client
<1> QED
  BY <1>1 DEF Exact

LEMMA ExactFound ==
  ASSUME NEW st \in Stores, Sorted(st), NEW x, Exact(st, x)
  PROVE  /\ x \in Ids /\ x # NoId /\ Has(st, x)
         /\ \E c \in Clients : \E i \in DOMAIN st[c] :
              Find(st, x) = st[c][i] /\ st[c][i].id = x
<1>1. x \in Ids /\ x[1] \in Clients
  BY DEF Exact, Ids
<1>2. PICK i \in DOMAIN st[x[1]] : st[x[1]][i].id = x
  BY DEF Exact
<1>3. Covers(st[x[1]][i], x)
  BY <1>1, <1>2, EntryIs
<1>4. x # NoId /\ Has(st, x)
  BY <1>2, <1>3 DEF Has, Covers
<1>5. PICK j \in DOMAIN st[x[1]] : Find(st, x) = st[x[1]][j] /\ Covers(st[x[1]][j], x)
  BY <1>1, <1>4, FindStored
<1>6. i = j
  BY <1>1, <1>3, <1>5, Apart
<1> QED
  BY <1>1, <1>2, <1>4, <1>5, <1>6

\* Flags: every flagged item is stored and in the delete set.
FlagsOK(st, dead, flags) ==
  /\ \A x \in flags : Has(st, x)
  /\ \A c \in Clients : \A i \in DOMAIN st[c] :
       st[c][i].id \in flags => \E x \in dead : Covers(st[c][i], x)

\* Deletions: every clock in the delete set is a stored item's, which is
\* flagged.
DeadOK(st, dead, flags) ==
  /\ \A x \in dead : Has(st, x)
  /\ \A c \in Clients : \A i \in DOMAIN st[c] :
       \A x \in dead : Covers(st[c][i], x) => st[c][i].id \in flags

\* Keys: the head is an item, and every other value of the key is flagged.
KeysOK(st, heads, flags) ==
  \A k \in Keys :
    /\ heads[k] # NoId => Exact(st, heads[k])
    /\ \A c \in Clients : \A i \in DOMAIN st[c] :
         /\ st[c][i].parent = k /\ st[c][i].content_kind = "string"
         /\ st[c][i].id # heads[k]
         => st[c][i].id \in flags

ListsOK(st, lists) ==
  \A t \in Texts : \A x \in ToSet(lists[t]) : Exact(st, x)

-----------------------------------------------------------------------------
(* Deletions and keys: append.                                             *)

LEMMA AppendEntry ==
  ASSUME NEW st \in Stores, NEW it \in Items, NEW c \in Clients,
         NEW i \in DOMAIN Appended(st, it)[c]
  PROVE  \/ i \in DOMAIN st[c] /\ Appended(st, it)[c][i] = st[c][i]
         \/ c = Client(it) /\ i = Len(st[c]) + 1 /\ Appended(st, it)[c][i] = it
<1>1. st[c] \in Seq(Items)
  BY DEF Stores
<1>2. Appended(st, it)[c] = IF c = Client(it) THEN Append(st[c], it) ELSE st[c]
  BY AppendStored
<1>3. CASE c = Client(it)
  <2>1. /\ Len(Append(st[c], it)) = Len(st[c]) + 1
        /\ DOMAIN Append(st[c], it) = 1 .. Len(st[c]) + 1
        /\ Append(st[c], it)[Len(st[c]) + 1] = it
        /\ \A k \in 1 .. Len(st[c]) : Append(st[c], it)[k] = st[c][k]
    BY <1>1, AppendProperties
  <2> QED
    BY <1>1, <1>2, <1>3, <2>1
<1> QED
  BY <1>2, <1>3

\* What is stored ends where the appended item begins.
LEMMA AppendBehind ==
  ASSUME NEW st \in Stores, Sorted(st), NEW it \in Items, CanAppend(st, it),
         NEW i \in DOMAIN st[Client(it)]
  PROVE  End(st[Client(it)][i]) <= it.id[2]
<1> DEFINE c == Client(it)
           s == st[c]
<1>0. c \in Clients
  BY ItemIds
<1> HIDE DEF c
<1>1. s \in Seq(Items) /\ Len(s) \in Nat /\ i \in 1 .. Len(s) /\ DOMAIN s = 1 .. Len(s)
  BY <1>0 DEF Stores, c
<1>2. s # << >> /\ Len(s) \in DOMAIN s
  BY <1>1, EmptySeq
<1>3. it.id[2] = End(s[Len(s)])
  BY <1>2 DEF CanAppend, State, c
<1>4. CASE i = Len(s)
  <2>1. End(s[i]) \in Nat
    BY <1>0, <1>1, EntryIs
  <2> QED
    BY <1>3, <1>4, <2>1 DEF c
<1>5. CASE i < Len(s)
  <2>1. End(s[i]) <= s[Len(s)].id[2]
    BY <1>0, <1>1, <1>2, <1>5 DEF Sorted
  <2>2. /\ End(s[i]) \in Nat /\ s[Len(s)].id[2] \in Nat /\ End(s[Len(s)]) \in Nat
        /\ s[Len(s)].id[2] < End(s[Len(s)])
    BY <1>0, <1>1, <1>2, EntryIs, ItemIds
  <2> QED
    BY <1>3, <2>1, <2>2 DEF c
<1> QED
  BY <1>1, <1>4, <1>5

LEMMA AppendFresh ==
  ASSUME NEW st \in Stores, Sorted(st), NEW it \in Items, CanAppend(st, it),
         NEW x \in Ids, Has(st, x)
  PROVE  ~Covers(it, x)
<1> SUFFICES ASSUME Covers(it, x) PROVE FALSE
  OBVIOUS
<1>1. x[1] = Client(it) /\ x[2] \in Nat /\ it.id[2] <= x[2] /\ it.id[2] \in Nat
  BY ItemIds DEF Covers, Client, Ids
<1>2. PICK i \in DOMAIN st[x[1]] : Covers(st[x[1]][i], x)
  BY DEF Has
<1>3. Client(it) \in Clients
  BY ItemIds
<1>4. End(st[x[1]][i]) <= it.id[2]
  BY <1>1, AppendBehind
<1>5. x[2] < End(st[x[1]][i]) /\ End(st[x[1]][i]) \in Nat
  BY <1>1, <1>2, <1>3, EntryIs DEF Covers
<1> QED
  BY <1>1, <1>4, <1>5

LEMMA AppendSorted ==
  ASSUME NEW st \in Stores, Sorted(st), NEW it \in Items, CanAppend(st, it)
  PROVE  Appended(st, it) \in Stores /\ Sorted(Appended(st, it))
<1> DEFINE u == Appended(st, it)
<1>1. u \in Stores
  BY AppendStored
<1>2. ASSUME NEW c \in Clients, NEW i \in DOMAIN u[c], NEW j \in DOMAIN u[c]
      PROVE  Client(u[c][i]) = c /\ (i < j => End(u[c][i]) <= u[c][j].id[2])
  <2>1. \/ i \in DOMAIN st[c] /\ u[c][i] = st[c][i]
        \/ c = Client(it) /\ i = Len(st[c]) + 1 /\ u[c][i] = it
    BY AppendEntry
  <2>2. \/ j \in DOMAIN st[c] /\ u[c][j] = st[c][j]
        \/ c = Client(it) /\ j = Len(st[c]) + 1 /\ u[c][j] = it
    BY AppendEntry
  <2> HIDE DEF u
  <2>3. DOMAIN st[c] = 1 .. Len(st[c]) /\ Len(st[c]) \in Nat
    BY DEF Stores
  <2>4. Client(u[c][i]) = c
    BY <2>1 DEF Sorted
  <2>5. ASSUME i < j PROVE End(u[c][i]) <= u[c][j].id[2]
    <3>1. i \in DOMAIN st[c] /\ u[c][i] = st[c][i]
      BY <2>1, <2>2, <2>3, <2>5
    <3>2. CASE j \in DOMAIN st[c] /\ u[c][j] = st[c][j]
      BY <2>5, <3>1, <3>2 DEF Sorted
    <3>3. CASE c = Client(it) /\ u[c][j] = it
      BY <3>1, <3>3, AppendBehind
    <3> QED
      BY <2>2, <3>2, <3>3
  <2> QED
    BY <2>4, <2>5
<1> QED
  BY <1>1, <1>2 DEF Sorted

LEMMA AppendExact ==
  ASSUME NEW st \in Stores, NEW it \in Items, NEW x, Exact(st, x)
  PROVE  Exact(Appended(st, it), x)
<1>1. x \in Ids /\ x[1] \in Clients
  BY DEF Exact, Ids
<1>2. PICK i \in DOMAIN st[x[1]] : st[x[1]][i].id = x
  BY DEF Exact
<1>3. /\ i \in DOMAIN Appended(st, it)[x[1]]
      /\ Appended(st, it)[x[1]][i] = st[x[1]][i]
  BY <1>1, <1>2, AppendStored
<1> QED
  BY <1>1, <1>2, <1>3 DEF Exact

LEMMA AppendedExact ==
  ASSUME NEW st \in Stores, NEW it \in Items
  PROVE  Exact(Appended(st, it), it.id)
<1>1. it.id \in Ids /\ it.id[1] = Client(it) /\ Client(it) \in Clients
  BY ItemIds DEF Client
<1>2. st[Client(it)] \in Seq(Items)
  BY <1>1 DEF Stores
<1>3. Appended(st, it)[Client(it)] = Append(st[Client(it)], it)
  BY <1>1, AppendStored
<1>4. /\ Len(st[Client(it)]) + 1 \in DOMAIN Append(st[Client(it)], it)
      /\ Append(st[Client(it)], it)[Len(st[Client(it)]) + 1] = it
  BY <1>2, AppendProperties
<1> QED
  BY <1>1, <1>3, <1>4 DEF Exact

\* An appended item is neither flagged nor deleted before it comes.
LEMMA AppendFlags ==
  ASSUME NEW st \in Stores, Sorted(st), NEW it \in Items, CanAppend(st, it),
         NEW dead \in SUBSET Ids, NEW flags \in SUBSET Ids
  PROVE  /\ FlagsOK(st, dead, flags) => FlagsOK(Appended(st, it), dead, flags)
         /\ DeadOK(st, dead, flags) => DeadOK(Appended(st, it), dead, flags)
<1> DEFINE u == Appended(st, it)
<1>1. \A x \in Ids : Has(st, x) => Has(u, x)
  BY AppendStored
<1>2. \A c \in Clients : \A i \in DOMAIN u[c] :
        (i \in DOMAIN st[c] /\ u[c][i] = st[c][i]) \/ u[c][i] = it
  BY AppendEntry
<1>3. \A x \in Ids : Has(st, x) => ~Covers(it, x)
  BY AppendFresh
<1>4. it.id \in Ids /\ Covers(it, it.id)
  BY ItemIds
<1> HIDE DEF u
<1>5. ASSUME FlagsOK(st, dead, flags) PROVE FlagsOK(u, dead, flags)
  <2>1. \A x \in flags : Has(u, x)
    BY <1>1, <1>5 DEF FlagsOK
  <2>2. it.id \notin flags
    BY <1>3, <1>4, <1>5 DEF FlagsOK
  <2> QED
    BY <1>2, <1>5, <2>1, <2>2 DEF FlagsOK
<1>6. ASSUME DeadOK(st, dead, flags) PROVE DeadOK(u, dead, flags)
  <2>1. \A x \in dead : Has(u, x) /\ ~Covers(it, x)
    BY <1>1, <1>3, <1>6 DEF DeadOK
  <2> QED
    BY <1>2, <1>6, <2>1 DEF DeadOK
<1> QED
  BY <1>5, <1>6 DEF u

-----------------------------------------------------------------------------
(* Deletions and keys: flagging, and the end of a call.                    *)

\* A set of items is flagged and their clocks join the delete set.
LEMMA FlagOne ==
  ASSUME NEW st \in Stores, Sorted(st),
         NEW dead \in SUBSET Ids, NEW flags \in SUBSET Ids,
         NEW c \in Clients, NEW i \in DOMAIN st[c]
  PROVE  /\ FlagsOK(st, dead, flags) =>
              FlagsOK(st, dead \cup ClocksOf(st[c][i]), flags \cup {st[c][i].id})
         /\ DeadOK(st, dead, flags) =>
              DeadOK(st, dead \cup ClocksOf(st[c][i]), flags \cup {st[c][i].id})
<1> DEFINE v == st[c][i]
           more == ClocksOf(v)
<1>1. v \in Items /\ v.id \in Ids /\ Covers(v, v.id) /\ more \subseteq Ids
  BY EntryIs, ItemIds
<1>2. \A x \in Ids : x \in more <=> Covers(v, x)
  BY <1>1, ClockCovered
<1>3. \A x \in Ids : Covers(v, x) => Has(st, x)
  BY DEF Sorted, Client, Has, Covers
<1>4. \A d \in Clients : \A j \in DOMAIN st[d] : \A x \in Ids :
        Covers(v, x) /\ Covers(st[d][j], x) => st[d][j] = v
  BY Apart
<1>5. \A d \in Clients : \A j \in DOMAIN st[d] : st[d][j].id = v.id => st[d][j] = v
  BY <1>1, <1>4, EntryIs
<1> HIDE DEF v, more
<1>6. ASSUME FlagsOK(st, dead, flags) PROVE FlagsOK(st, dead \cup more, flags \cup {v.id})
  <2>1. \A x \in flags \cup {v.id} : Has(st, x)
    BY <1>1, <1>3, <1>6 DEF FlagsOK
  <2>2. v.id \in more
    BY <1>1, <1>2
  <2>3. ASSUME NEW d \in Clients, NEW j \in DOMAIN st[d], st[d][j].id \in flags \cup {v.id}
        PROVE  \E x \in dead \cup more : Covers(st[d][j], x)
    BY <1>1, <1>5, <1>6, <2>2, <2>3 DEF FlagsOK
  <2> QED
    BY <2>1, <2>3 DEF FlagsOK
<1>7. ASSUME DeadOK(st, dead, flags) PROVE DeadOK(st, dead \cup more, flags \cup {v.id})
  <2>1. \A x \in dead \cup more : Has(st, x)
    BY <1>1, <1>2, <1>3, <1>7 DEF DeadOK
  <2>2. ASSUME NEW d \in Clients, NEW j \in DOMAIN st[d], NEW x \in dead \cup more,
               Covers(st[d][j], x)
        PROVE  st[d][j].id \in flags \cup {v.id}
    <3>1. CASE x \in dead
      BY <1>7, <2>2, <3>1 DEF DeadOK
    <3>2. CASE x \in more
      BY <1>1, <1>2, <1>4, <2>2, <3>2
    <3> QED
      BY <2>2, <3>1, <3>2
  <2> QED
    BY <2>1, <2>2 DEF DeadOK
<1> QED
  BY <1>6, <1>7 DEF v, more

\* All items that some new deletions touch are flagged (apply_update_v1).
Touched(st, dead) ==
  { it.id : it \in { s \in Stored(st) : ClocksOf(s) \cap dead # {} } }

LEMMA FlagTouched ==
  ASSUME NEW st \in Stores, Sorted(st),
         NEW dead \in SUBSET Ids, NEW flags \in SUBSET Ids, NEW more \in SUBSET Ids
  PROVE  /\ FlagsOK(st, dead, flags) =>
              FlagsOK(st, dead \cup more, flags \cup Touched(st, more))
         /\ DeadOK(st, dead, flags) /\ (\A x \in more : Has(st, x)) =>
              DeadOK(st, dead \cup more, flags \cup Touched(st, more))
<1> DEFINE hit == Touched(st, more)
<1>1. ASSUME NEW y \in hit
      PROVE  \E c \in Clients : \E i \in DOMAIN st[c] :
               y = st[c][i].id /\ \E x \in more : Covers(st[c][i], x)
  <2>1. PICK s \in Stored(st) : y = s.id /\ ClocksOf(s) \cap more # {}
    BY DEF Touched
  <2>2. PICK x \in more : x \in ClocksOf(s)
    BY <2>1
  <2>3. PICK c \in Clients : \E i \in DOMAIN st[c] : s = st[c][i]
    BY StoredItem
  <2> QED
    BY <2>1, <2>2, <2>3, StoredItem, ClockCovered
<1>2. ASSUME NEW c \in Clients, NEW i \in DOMAIN st[c], NEW x \in more, Covers(st[c][i], x)
      PROVE  st[c][i].id \in hit
  <2>1. st[c][i] \in Stored(st)
    <3>1. st[c][i] \in ToSet(st[c]) /\ c \in DOMAIN st
      BY DEF ToSet, Stores
    <3> QED
      BY <3>1 DEF Stored
  <2>2. x \in ClocksOf(st[c][i])
    BY <1>2, EntryIs, ClockCovered
  <2> QED
    BY <1>2, <2>1, <2>2 DEF Touched
<1> HIDE DEF hit
<1>3. ASSUME FlagsOK(st, dead, flags) PROVE FlagsOK(st, dead \cup more, flags \cup hit)
  <2>1. ASSUME NEW x \in hit PROVE Has(st, x)
    <3>1. PICK c \in Clients : \E i \in DOMAIN st[c] : x = st[c][i].id
      BY <1>1
    <3> QED
      BY <3>1, ExactIs, ExactFound
  <2>2. ASSUME NEW d \in Clients, NEW j \in DOMAIN st[d], st[d][j].id \in hit
        PROVE  \E x \in more : Covers(st[d][j], x)
    <3>1. PICK c \in Clients : \E i \in DOMAIN st[c] :
            st[d][j].id = st[c][i].id /\ \E x \in more : Covers(st[c][i], x)
      BY <1>1, <2>2
    <3>2. PICK i \in DOMAIN st[c] :
            st[d][j].id = st[c][i].id /\ \E x \in more : Covers(st[c][i], x)
      BY <3>1
    <3>3. Covers(st[d][j], st[d][j].id) /\ Covers(st[c][i], st[d][j].id) /\ st[d][j].id \in Ids
      BY <3>2, EntryIs
    <3>4. c = d /\ i = j
      BY <3>3, Apart
    <3> QED
      BY <3>2, <3>4
  <2> QED
    BY <1>3, <2>1, <2>2 DEF FlagsOK
<1>4. ASSUME DeadOK(st, dead, flags), \A x \in more : Has(st, x)
      PROVE  DeadOK(st, dead \cup more, flags \cup hit)
  BY <1>2, <1>4 DEF DeadOK
<1> QED
  BY <1>3, <1>4 DEF hit

\* The same items at the same places, some of them without their payload.
SameButPayload(st, u) ==
  \A c \in Clients : /\ DOMAIN u[c] = DOMAIN st[c]
                     /\ \A i \in DOMAIN st[c] :
                          /\ Core(u[c][i]) = Core(st[c][i])
                          /\ u[c][i].parent = st[c][i].parent
                          /\ u[c][i].content_kind = "string" =>
                               st[c][i].content_kind = "string"

LEMMA SameCores ==
  ASSUME NEW st, NEW u, SameButPayload(st, u),
         NEW dead \in SUBSET Ids, NEW flags \in SUBSET Ids, NEW heads, NEW lists
  PROVE  /\ FlagsOK(st, dead, flags) => FlagsOK(u, dead, flags)
         /\ DeadOK(st, dead, flags) => DeadOK(u, dead, flags)
         /\ KeysOK(st, heads, flags) => KeysOK(u, heads, flags)
         /\ ListsOK(st, lists) => ListsOK(u, lists)
<1>1. \A c \in Clients : \A i \in DOMAIN st[c] :
        /\ i \in DOMAIN u[c] /\ u[c][i].id = st[c][i].id
        /\ \A x : Covers(u[c][i], x) <=> Covers(st[c][i], x)
  BY DEF SameButPayload, Core, Covers, End
<1>2. \A x \in Ids : Has(st, x) => Has(u, x)
  BY <1>1 DEF Has, Ids
<1>3. \A x : Exact(st, x) => Exact(u, x)
  BY <1>1 DEF Exact, Ids
<1>c. \A c \in Clients : DOMAIN u[c] = DOMAIN st[c]
  BY DEF SameButPayload
<1>4. FlagsOK(st, dead, flags) => FlagsOK(u, dead, flags)
  BY <1>1, <1>2, <1>c DEF FlagsOK
<1>5. DeadOK(st, dead, flags) => DeadOK(u, dead, flags)
  BY <1>1, <1>2, <1>c DEF DeadOK
<1>6. KeysOK(st, heads, flags) => KeysOK(u, heads, flags)
  BY <1>1, <1>3, <1>c DEF KeysOK, SameButPayload
<1>7. ListsOK(st, lists) => ListsOK(u, lists)
  BY <1>3 DEF ListsOK
<1> QED
  BY <1>4, <1>5, <1>6, <1>7

-----------------------------------------------------------------------------
(* Deletions and keys: one step of a document.                             *)

Flagging ==
  \A p \in Clients : /\ FlagsOK(store[p], ds[p], del[p])
                     /\ KeysOK(store[p], head[p], del[p])
                     /\ ListsOK(store[p], list[p])
Deleted == \A p \in Clients : DeadOK(store[p], ds[p], del[p])

\* Nothing of the other documents changes.
OnlyAt(p) ==
  \A q \in Clients \ {p} :
    UNCHANGED << store[q], ds[q], del[q], head[q], list[q] >>

LEMMA OnlyAtKeeps ==
  ASSUME NEW p \in Clients, OnlyAt(p), Flagging,
         /\ FlagsOK(store'[p], ds'[p], del'[p])
         /\ KeysOK(store'[p], head'[p], del'[p])
         /\ ListsOK(store'[p], list'[p]),
         Deleted => DeadOK(store'[p], ds'[p], del'[p])
  PROVE  Flagging' /\ (Deleted => Deleted')
<1>1. ASSUME NEW q \in Clients, q # p
      PROVE  /\ store'[q] = store[q] /\ ds'[q] = ds[q] /\ del'[q] = del[q]
             /\ head'[q] = head[q] /\ list'[q] = list[q]
  BY <1>1 DEF OnlyAt
<1>2. ASSUME NEW q \in Clients
      PROVE  /\ FlagsOK(store'[q], ds'[q], del'[q])
             /\ KeysOK(store'[q], head'[q], del'[q])
             /\ ListsOK(store'[q], list'[q])
  <2>1. CASE q = p
    BY <2>1
  <2>2. CASE q # p
    <3>1. /\ FlagsOK(store[q], ds[q], del[q])
          /\ KeysOK(store[q], head[q], del[q])
          /\ ListsOK(store[q], list[q])
      BY DEF Flagging
    <3> QED
      BY <1>1, <2>2, <3>1
  <2> QED
    BY <2>1, <2>2
<1>3. ASSUME Deleted, NEW q \in Clients PROVE DeadOK(store'[q], ds'[q], del'[q])
  <2>1. CASE q = p
    BY <1>3, <2>1
  <2>2. CASE q # p
    <3>1. DeadOK(store[q], ds[q], del[q])
      BY <1>3 DEF Deleted
    <3> QED
      BY <1>1, <2>2, <3>1
  <2> QED
    BY <2>1, <2>2
<1> QED
  BY <1>2, <1>3 DEF Flagging, Deleted

\* A new head, or none: the head it replaces is flagged, or else the item.
NewHeads(it, heads, heads2, flags2) ==
  \A k \in Keys :
    /\ \/ heads2[k] = heads[k]
       \/ heads2[k] = it.id /\ (heads[k] = NoId \/ heads[k] \in flags2)
    /\ it.parent = k /\ it.content_kind = "string" =>
         it.id = heads2[k] \/ it.id \in flags2

LEMMA AppendKeys ==
  ASSUME NEW st \in Stores, NEW it \in Items, NEW heads, NEW flags,
         KeysOK(st, heads, flags),
         NEW heads2, NEW flags2, flags \subseteq flags2,
         NewHeads(it, heads, heads2, flags2)
  PROVE  KeysOK(Appended(st, it), heads2, flags2)
<1> DEFINE u == Appended(st, it)
<1>1. ASSUME NEW k \in Keys, heads2[k] # NoId PROVE Exact(u, heads2[k])
  BY <1>1, AppendExact, AppendedExact DEF KeysOK, NewHeads
<1>2. ASSUME NEW k \in Keys, NEW c \in Clients, NEW i \in DOMAIN u[c],
             u[c][i].parent = k, u[c][i].content_kind = "string", u[c][i].id # heads2[k]
      PROVE  u[c][i].id \in flags2
  <2>1. CASE u[c][i] = it
    BY <1>2, <2>1 DEF NewHeads
  <2>2. CASE i \in DOMAIN st[c] /\ u[c][i] = st[c][i]
    <3>1. st[c][i].id # NoId
      BY <2>2, EntryIs DEF Covers
    <3>2. st[c][i].id # heads[k] => st[c][i].id \in flags
      BY <1>2, <2>2 DEF KeysOK
    <3> QED
      BY <1>2, <2>2, <3>1, <3>2 DEF NewHeads
  <2> QED
    BY <2>1, <2>2, AppendEntry
<1> QED
  BY <1>1, <1>2 DEF KeysOK

LEMMA MoreFlags ==
  ASSUME NEW st, NEW heads, NEW flags, KeysOK(st, heads, flags),
         NEW flags2, flags \subseteq flags2
  PROVE  KeysOK(st, heads, flags2)
BY DEF KeysOK

LEMMA Flagged ==
  ASSUME NEW st \in Stores, Sorted(st),
         NEW dead \in SUBSET Ids, NEW flags \in SUBSET Ids,
         NEW c \in Clients, NEW i \in DOMAIN st[c],
         NEW dead2, NEW flags2,
         dead2 = dead \cup ClocksOf(st[c][i]), flags2 = flags \cup {st[c][i].id}
  PROVE  /\ FlagsOK(st, dead, flags) => FlagsOK(st, dead2, flags2)
         /\ DeadOK(st, dead, flags) => DeadOK(st, dead2, flags2)
BY FlagOne, Zenon

\* Installing an item in its key.
LEMMA MapFlagging ==
  ASSUME DocOK, History, Flagging, NEW p \in Clients, NEW it, Extends(p, it),
         it.parent \in Keys, InstallIntoMap(p, it)
  PROVE  Flagging' /\ (Deleted => Deleted')
<1> DEFINE st == store[p]
           u == Appended(st, it)
           k == it.parent
           prior == head[p][k]
           wins == SortsRightOf(u, prior, it.id)
<1>1. /\ st \in Stores /\ Sorted(st) /\ it \in Items /\ CanAppend(st, it)
      /\ ds[p] \in SUBSET Ids /\ del[p] \in SUBSET Ids
      /\ it.id \in Ids /\ Client(it) \in Clients
  BY StoreSorted, ItemIds DEF Extends, DocOK
<1>2. u \in Stores /\ Sorted(u)
  BY <1>1, AppendSorted
<1>3. /\ FlagsOK(st, ds[p], del[p]) /\ KeysOK(st, head[p], del[p])
      /\ ListsOK(st, list[p])
  BY DEF Flagging
<1>4. /\ FlagsOK(u, ds[p], del[p])
      /\ Deleted => DeadOK(u, ds[p], del[p])
  BY <1>1, <1>3, AppendFlags DEF Deleted
<1>5. ListsOK(u, list[p])
  BY <1>1, <1>3, AppendExact DEF ListsOK
<1>6. /\ store' = [store EXCEPT ![p] = u] /\ UNCHANGED list
      /\ \/ /\ prior = NoId
            /\ head' = [head EXCEPT ![p][k] = it.id]
            /\ UNCHANGED << ds, del >>
         \/ /\ prior # NoId /\ wins
            /\ head' = [head EXCEPT ![p][k] = it.id]
            /\ del' = [del EXCEPT ![p] = @ \cup {prior}]
            /\ ds' = [ds EXCEPT ![p] = @ \cup ClocksOf(Find(st, prior))]
         \/ /\ prior # NoId /\ ~wins
            /\ del' = [del EXCEPT ![p] = @ \cup {it.id}]
            /\ ds' = [ds EXCEPT ![p] = @ \cup ClocksOf(it)]
            /\ UNCHANGED head
  BY DEF InstallIntoMap, StoreItem
<1> HIDE DEF u, wins
<1>7. /\ store'[p] = u /\ OnlyAt(p)
  BY <1>6 DEF OnlyAt, DocOK
<1>8. ASSUME head' = [head EXCEPT ![p][k] = it.id]
      PROVE  head'[p][k] = it.id /\ \A j \in Keys : j # k => head'[p][j] = head[p][j]
  BY <1>8 DEF DocOK
<1>9. CASE prior = NoId
  <2>1. /\ head' = [head EXCEPT ![p][k] = it.id]
        /\ del'[p] = del[p] /\ ds'[p] = ds[p]
    BY <1>6, <1>9
  <2>n. NewHeads(it, head[p], head'[p], del'[p]) /\ del[p] \subseteq del'[p]
    BY <1>8, <1>9, <2>1 DEF NewHeads
  <2>2. KeysOK(u, head'[p], del'[p])
    BY <1>1, <1>3, <2>n, AppendKeys DEF u
  <2> QED
    BY <1>4, <1>5, <1>6, <1>7, <2>1, <2>2, OnlyAtKeeps
<1>10. CASE prior # NoId /\ wins
  <2>1. /\ head' = [head EXCEPT ![p][k] = it.id]
        /\ del'[p] = del[p] \cup {prior} /\ ds'[p] = ds[p] \cup ClocksOf(Find(st, prior))
    BY <1>6, <1>10 DEF DocOK
  <2>2. Exact(st, prior)
    BY <1>3, <1>10 DEF KeysOK
  <2>c. PICK c \in Clients : \E i \in DOMAIN st[c] :
          Find(st, prior) = st[c][i] /\ st[c][i].id = prior
    BY <1>1, <2>2, ExactFound
  <2>3. PICK i \in DOMAIN st[c] : Find(st, prior) = st[c][i] /\ st[c][i].id = prior
    BY <2>c
  <2>4. i \in DOMAIN u[c] /\ u[c][i] = st[c][i]
    BY <1>1, AppendStored DEF u
  <2>5. /\ del'[p] = del[p] \cup {u[c][i].id} /\ ds'[p] = ds[p] \cup ClocksOf(u[c][i])
    BY <2>1, <2>3, <2>4
  <2>6. FlagsOK(u, ds'[p], del'[p]) /\ (Deleted => DeadOK(u, ds'[p], del'[p]))
    BY <1>1, <1>2, <1>4, <2>4, <2>5, Flagged
  <2>n. NewHeads(it, head[p], head'[p], del'[p]) /\ del[p] \subseteq del'[p]
    BY <1>8, <2>1 DEF NewHeads
  <2>7. KeysOK(u, head'[p], del'[p])
    BY <1>1, <1>3, <2>n, AppendKeys DEF u
  <2> QED
    BY <1>5, <1>6, <1>7, <2>6, <2>7, OnlyAtKeeps
<1>11. CASE prior # NoId /\ ~wins
  <2>1. /\ UNCHANGED head
        /\ del'[p] = del[p] \cup {it.id} /\ ds'[p] = ds[p] \cup ClocksOf(it)
    BY <1>6, <1>11 DEF DocOK
  <2>2. \E i \in DOMAIN u[Client(it)] : u[Client(it)][i] = it
    <3>1. st[Client(it)] \in Seq(Items) /\ u[Client(it)] = Append(st[Client(it)], it)
      BY <1>1, AppendStored DEF Stores, u
    <3>2. /\ Len(st[Client(it)]) + 1 \in DOMAIN u[Client(it)]
          /\ u[Client(it)][Len(st[Client(it)]) + 1] = it
      BY <1>1, <3>1, AppendProperties
    <3> QED
      BY <1>1, <3>2
  <2>c. PICK c \in Clients : c = Client(it)
    BY <1>1
  <2>i. PICK i \in DOMAIN u[c] : u[c][i] = it
    BY <2>2, <2>c
  <2>d. /\ del'[p] = del[p] \cup {u[c][i].id}
        /\ ds'[p] = ds[p] \cup ClocksOf(u[c][i])
    BY <2>1, <2>i
  <2>3. FlagsOK(u, ds'[p], del'[p]) /\ (Deleted => DeadOK(u, ds'[p], del'[p]))
    BY <1>1, <1>2, <1>4, <2>d, Flagged
  <2>n. NewHeads(it, head[p], head'[p], del'[p]) /\ del[p] \subseteq del'[p]
    BY <2>1 DEF NewHeads
  <2>4. KeysOK(u, head'[p], del'[p])
    BY <1>1, <1>3, <2>n, AppendKeys DEF u
  <2> QED
    BY <1>5, <1>6, <1>7, <2>3, <2>4, OnlyAtKeeps
<1> QED
  BY <1>9, <1>10, <1>11

\* Installing any other item.
LEMMA OtherFlagging ==
  ASSUME DocOK, History, Flagging, NEW p \in Clients, NEW it, Extends(p, it),
         ~(it.parent \in Keys /\ it.content_kind = "string"),
         UNCHANGED << ds, del, head >>,
         \/ UNCHANGED list
         \/ \E t \in Texts : \E at \in 0 .. Len(list[p][t]) :
              list' = [list EXCEPT ![p][t] = InsertAt(list[p][t], at + 1, it.id)]
  PROVE  Flagging' /\ (Deleted => Deleted')
<1> DEFINE st == store[p]
           u == Appended(st, it)
<1>1. /\ st \in Stores /\ Sorted(st) /\ it \in Items /\ CanAppend(st, it)
      /\ ds[p] \in SUBSET Ids /\ del[p] \in SUBSET Ids /\ it.id \in Ids
  BY StoreSorted, ItemIds DEF Extends, DocOK
<1>2. /\ FlagsOK(st, ds[p], del[p]) /\ KeysOK(st, head[p], del[p])
      /\ ListsOK(st, list[p])
  BY DEF Flagging
<1>3. /\ FlagsOK(u, ds[p], del[p])
      /\ Deleted => DeadOK(u, ds[p], del[p])
  BY <1>1, <1>2, AppendFlags DEF Deleted
<1>n. ~(it.parent \in Keys /\ it.content_kind = "string")
  OBVIOUS
<1>4. KeysOK(u, head[p], del[p])
  <2>1. NewHeads(it, head[p], head[p], del[p])
    BY <1>n DEF NewHeads
  <2> QED
    BY <1>1, <1>2, <2>1, AppendKeys
<1>5. ListsOK(u, list[p]) /\ Exact(u, it.id)
  BY <1>1, <1>2, AppendExact, AppendedExact DEF ListsOK
<1>6. store' = [store EXCEPT ![p] = u]
  BY DEF Extends, StoreItem
<1> HIDE DEF u
<1>7. ListsOK(u, list'[p])
      /\ \A q \in Clients \ {p} : list'[q] = list[q]
  <2>1. CASE UNCHANGED list
    BY <1>5, <2>1
  <2>2. ASSUME NEW t \in Texts, NEW at \in 0 .. Len(list[p][t]),
               list' = [list EXCEPT ![p][t] = InsertAt(list[p][t], at + 1, it.id)]
        PROVE  ListsOK(u, list'[p]) /\ \A q \in Clients \ {p} : list'[q] = list[q]
    <3>1. list[p][t] \in Seq(Ids)
      BY DEF DocOK
    <3>2. ToSet(InsertAt(list[p][t], at + 1, it.id)) \subseteq ToSet(list[p][t]) \cup {it.id}
      BY <1>1, <3>1, SpliceType
    <3>3. /\ list'[p][t] = InsertAt(list[p][t], at + 1, it.id)
          /\ \A v \in Texts : v # t => list'[p][v] = list[p][v]
          /\ \A q \in Clients \ {p} : list'[q] = list[q]
      BY <2>2 DEF DocOK
    <3>4. \A v \in Texts : ToSet(list'[p][v]) \subseteq ToSet(list[p][v]) \cup {it.id}
      BY <3>2, <3>3
    <3> QED
      BY <1>5, <3>3, <3>4 DEF ListsOK
  <2> QED
    BY <2>1, <2>2
<1>8. store'[p] = u /\ OnlyAt(p)
  BY <1>6, <1>7 DEF OnlyAt, DocOK
<1> QED
  BY <1>3, <1>4, <1>7, <1>8, OnlyAtKeeps

LEMMA ExtendFlagging ==
  ASSUME DocOK, History, Flagging, NEW p \in Clients, NEW it, Extends(p, it)
  PROVE  Flagging' /\ (Deleted => Deleted')
<1>1. it \in Items /\ Installs(p, it)
  BY DEF Extends
<1>2. CASE IsMapValue(it) /\ InstallIntoMap(p, it)
  BY <1>2, MapFlagging DEF IsMapValue
<1>3. CASE it.parent \in Texts /\ InstallIntoArray(p, it)
  <2>1. it.parent \notin Keys
    BY <1>3, ParentAssumption
  <2>2. /\ UNCHANGED << ds, del, head >>
        /\ \/ UNCHANGED list
           \/ \E at \in 0 .. Len(list[p][it.parent]) :
                list' = [list EXCEPT ![p][it.parent] =
                           InsertAt(list[p][it.parent], at + 1, it.id)]
    BY <1>3 DEF InstallIntoArray
  <2> QED
    BY <1>3, <2>1, <2>2, OtherFlagging
<1>4. CASE it.parent \in Texts /\ FailToIntegrate(p, it)
  <2>1. it.parent \notin Keys
    BY <1>4, ParentAssumption
  <2>2. UNCHANGED << ds, del, head, list >>
    BY <1>4 DEF FailToIntegrate
  <2> QED
    BY <2>1, <2>2, OtherFlagging
<1>5. CASE ~IsMapValue(it) /\ InstallBare(p, it)
  <2>1. UNCHANGED << ds, del, head, list >> /\ ~(it.parent \in Keys /\ it.content_kind = "string")
    BY <1>5 DEF InstallBare, IsMapValue
  <2> QED
    BY <2>1, OtherFlagging
<1> QED
  BY <1>1, <1>2, <1>3, <1>4, <1>5 DEF Installs

LEMMA DeleteFlagging ==
  ASSUME DocOK, History, Flagging, NEW p \in Clients, NEW t \in Texts, NEW index,
         ArrayDeleteAt(p, t, index)
  PROVE  Flagging' /\ (Deleted => Deleted')
<1>1. PICK x \in ToSet(list[p][t]) :
        /\ del' = [del EXCEPT ![p] = @ \cup {x}]
        /\ ds' = [ds EXCEPT ![p] = @ \cup ClocksOf(Find(store[p], x))]
  BY DEF ArrayDeleteAt
<1>2. UNCHANGED << store, list, head >>
  BY DEF ArrayDeleteAt
<1>3. /\ store[p] \in Stores /\ Sorted(store[p])
      /\ ds[p] \in SUBSET Ids /\ del[p] \in SUBSET Ids
  BY StoreSorted DEF DocOK
<1>4. /\ FlagsOK(store[p], ds[p], del[p]) /\ KeysOK(store[p], head[p], del[p])
      /\ ListsOK(store[p], list[p])
  BY DEF Flagging
<1>5. Exact(store[p], x)
  BY <1>4 DEF ListsOK
<1>c. PICK c \in Clients : \E i \in DOMAIN store[p][c] :
        Find(store[p], x) = store[p][c][i] /\ store[p][c][i].id = x
  BY <1>3, <1>5, ExactFound
<1>6. PICK i \in DOMAIN store[p][c] :
        Find(store[p], x) = store[p][c][i] /\ store[p][c][i].id = x
  BY <1>c
<1>7. /\ del'[p] = del[p] \cup {store[p][c][i].id}
      /\ ds'[p] = ds[p] \cup ClocksOf(store[p][c][i])
      /\ OnlyAt(p)
  BY <1>1, <1>2, <1>6 DEF DocOK, OnlyAt
<1>8. /\ FlagsOK(store[p], ds'[p], del'[p])
      /\ Deleted => DeadOK(store[p], ds'[p], del'[p])
  BY <1>3, <1>4, <1>7, Flagged DEF Deleted
<1>9. KeysOK(store[p], head[p], del'[p])
  BY <1>4, <1>7, MoreFlags
<1> QED
  BY <1>2, <1>4, <1>7, <1>8, <1>9, OnlyAtKeeps

LEMMA ApplyDeletesFlagging ==
  ASSUME DocOK, History, Flagging, job \in Jobs, ApplyDeletes
  PROVE  /\ Flagging'
         /\ Deleted /\ (\A x \in job.ds : Has(store[job.doc], x)) => Deleted'
<1> DEFINE p == job.doc
           hit == Touched(store[p], job.ds)
<1>1. p \in Clients /\ job.ds \in SUBSET Ids
  BY DEF Jobs
<1>2. /\ ds' = [ds EXCEPT ![p] = @ \cup job.ds]
      /\ del' = [del EXCEPT ![p] = @ \cup hit]
      /\ UNCHANGED << store, list, head >>
  BY DEF ApplyDeletes, Touched
<1>3. /\ store[p] \in Stores /\ Sorted(store[p])
      /\ ds[p] \in SUBSET Ids /\ del[p] \in SUBSET Ids
  BY <1>1, StoreSorted DEF DocOK
<1>4. /\ FlagsOK(store[p], ds[p], del[p]) /\ KeysOK(store[p], head[p], del[p])
      /\ ListsOK(store[p], list[p])
  BY <1>1 DEF Flagging
<1>5. /\ FlagsOK(store[p], ds[p] \cup job.ds, del[p] \cup hit)
      /\ Deleted /\ (\A x \in job.ds : Has(store[p], x)) =>
           DeadOK(store[p], ds[p] \cup job.ds, del[p] \cup hit)
  BY <1>1, <1>3, <1>4, FlagTouched DEF Deleted
<1> HIDE DEF p, hit
<1>6. del'[p] = del[p] \cup hit /\ ds'[p] = ds[p] \cup job.ds /\ OnlyAt(p)
  BY <1>1, <1>2 DEF DocOK, OnlyAt
<1>7. KeysOK(store[p], head[p], del'[p])
  BY <1>4, <1>6, MoreFlags
<1>8. /\ FlagsOK(store'[p], ds'[p], del'[p]) /\ KeysOK(store'[p], head'[p], del'[p])
      /\ ListsOK(store'[p], list'[p])
  BY <1>2, <1>4, <1>5, <1>6, <1>7
<1>9. ASSUME Deleted, \A x \in job.ds : Has(store[p], x)
      PROVE  Flagging' /\ Deleted'
  <2>1. DeadOK(store'[p], ds'[p], del'[p])
    BY <1>2, <1>5, <1>6, <1>9
  <2> QED
    BY <1>1, <1>6, <1>8, <1>9, <2>1, OnlyAtKeeps
<1>10. Flagging'
  <2>1. ASSUME NEW q \in Clients
        PROVE  /\ FlagsOK(store'[q], ds'[q], del'[q]) /\ KeysOK(store'[q], head'[q], del'[q])
               /\ ListsOK(store'[q], list'[q])
    <3>1. CASE q = p
      BY <1>8, <3>1
    <3>2. CASE q # p
      <4>1. /\ FlagsOK(store[q], ds[q], del[q]) /\ KeysOK(store[q], head[q], del[q])
            /\ ListsOK(store[q], list[q])
        BY DEF Flagging
      <4>2. /\ store'[q] = store[q] /\ ds'[q] = ds[q] /\ del'[q] = del[q]
            /\ head'[q] = head[q] /\ list'[q] = list[q]
        BY <1>6, <3>2 DEF OnlyAt
      <4> QED
        BY <4>1, <4>2
    <3> QED
      BY <3>1, <3>2
  <2> QED
    BY <2>1 DEF Flagging
<1> QED
  BY <1>9, <1>10 DEF p

\* compact takes payloads away and changes nothing else.
LEMMA CompactPayloads ==
  ASSUME DocOK, NEW p \in Clients, Compact(p)
  PROVE  /\ UNCHANGED << ds, del, list, head >>
         /\ \A q \in Clients : SameButPayload(store[q], store'[q])
<1>1. UNCHANGED << ds, del, list, head >>
  BY DEF Compact
<1>2. ASSUME NEW q \in Clients, NEW c \in Clients, NEW i \in DOMAIN store[q][c]
      PROVE  /\ store'[q][c][i].parent = store[q][c][i].parent
             /\ store'[q][c][i].content_kind = "string" =>
                  store[q][c][i].content_kind = "string"
  <2>1. store[q][c][i] \in Items
    BY EntryIs DEF DocOK
  <2>2. store' = [store EXCEPT ![p] =
          [d \in Clients |-> [j \in DOMAIN store[p][d] |->
             IF Compactable(p, store[p][d][j])
             THEN [store[p][d][j] EXCEPT !.content_kind = "skip"]
             ELSE store[p][d][j]]]]
    BY DEF Compact
  <2>3. \/ store'[q][c][i] = store[q][c][i]
        \/ store'[q][c][i] = [store[q][c][i] EXCEPT !.content_kind = "skip"]
    BY <2>2 DEF DocOK
  <2> QED
    BY <2>1, <2>3 DEF Items
<1>3. ASSUME NEW q \in Clients, NEW c \in Clients
      PROVE  /\ DOMAIN store'[q][c] = DOMAIN store[q][c]
             /\ \A i \in DOMAIN store[q][c] : Core(store'[q][c][i]) = Core(store[q][c][i])
  BY CompactOK
<1> QED
  BY <1>1, <1>2, <1>3 DEF SameButPayload

LEMMA CompactFlagging ==
  ASSUME DocOK, Flagging, NEW p \in Clients, Compact(p)
  PROVE  Flagging' /\ (Deleted => Deleted')
<1>1. ASSUME NEW q \in Clients
      PROVE  /\ FlagsOK(store[q], ds[q], del[q]) => FlagsOK(store'[q], ds[q], del[q])
             /\ DeadOK(store[q], ds[q], del[q]) => DeadOK(store'[q], ds[q], del[q])
             /\ KeysOK(store[q], head[q], del[q]) => KeysOK(store'[q], head[q], del[q])
             /\ ListsOK(store[q], list[q]) => ListsOK(store'[q], list[q])
  <2>1. ds[q] \in SUBSET Ids /\ del[q] \in SUBSET Ids
    BY DEF DocOK
  <2>2. SameButPayload(store[q], store'[q])
    BY CompactPayloads
  <2> QED
    BY <2>1, <2>2, SameCores
<1>2. \A q \in Clients : /\ ds'[q] = ds[q] /\ del'[q] = del[q]
                         /\ list'[q] = list[q] /\ head'[q] = head[q]
  BY CompactPayloads
<1> QED
  BY <1>1, <1>2 DEF Flagging, Deleted

LEMMA InitFlagging == Init => Flagging /\ Deleted
<1> SUFFICES ASSUME Init, NEW p \in Clients
             PROVE  /\ FlagsOK(store[p], ds[p], del[p])
                    /\ KeysOK(store[p], head[p], del[p])
                    /\ ListsOK(store[p], list[p])
                    /\ DeadOK(store[p], ds[p], del[p])
  BY DEF Flagging, Deleted
<1>1. /\ store[p] = [c \in Clients |-> << >>] /\ ds[p] = {} /\ del[p] = {}
      /\ list[p] = [t \in Texts |-> << >>] /\ head[p] = [k \in Keys |-> NoId]
  BY DEF Init
<1>2. \A c \in Clients : DOMAIN store[p][c] = {}
  BY <1>1
<1>3. \A t \in Texts : ToSet(list[p][t]) = {}
  BY <1>1 DEF ToSet
<1> QED
  BY <1>1, <1>2, <1>3 DEF FlagsOK, KeysOK, ListsOK, DeadOK

LEMMA FlaggingStep ==
  ASSUME IInv, Flagging, [Next]_vars
  PROVE  /\ Flagging'
         /\ Deleted /\ ~ApplyDeletes => Deleted'
<1>1. DocOK /\ CallOK /\ History
  BY InvariantParts
<1>2. ASSUME NEW p \in Clients, NEW it, Extends(p, it)
      PROVE  Flagging' /\ (Deleted => Deleted')
  BY <1>1, <1>2, ExtendFlagging
<1>3. ASSUME NEW p \in Clients, Compact(p)
      PROVE  Flagging' /\ (Deleted => Deleted')
  BY <1>1, <1>3, CompactFlagging
<1>4. ASSUME NEW p \in Clients, NEW t \in Texts, NEW i \in Nat, ArrayDeleteAt(p, t, i)
      PROVE  Flagging' /\ (Deleted => Deleted')
  BY <1>1, <1>4, DeleteFlagging
<1>5. ASSUME ApplyDeletes PROVE Flagging'
  <2>1. job \in Jobs
    BY <1>1, <1>5 DEF ApplyDeletes, PassIsOver, CallOK
  <2> QED
    BY <1>1, <1>5, <2>1, ApplyDeletesFlagging
<1>6. ASSUME UNCHANGED << store, ds, del, list, head >>
      PROVE  Flagging' /\ (Deleted => Deleted')
  BY <1>6 DEF Flagging, Deleted
<1> QED
  BY <1>2, <1>3, <1>4, <1>5, <1>6, StepKinds DEF vars, docVars

-----------------------------------------------------------------------------
(* What a call brings and what its delete set names.                       *)

\* Without broadcasts, every clock an update deletes is in the document
\* already or in a struct that the update brings.
CallCovers == job # NoJob => \A x \in job.ds : Reachable(job.doc, job.todo, x)
NoneSent == msgs = {}

\* An item that is found by its id is the one its author emitted.
LEMMA KnownCovers ==
  ASSUME DocOK, History, NEW p \in Clients, NEW d \in Items, Emitted(d),
         Has(store[p], d.id), NEW x \in Ids, Covers(d, x)
  PROVE  Has(store[p], x)
<1> DEFINE c == Client(d)
<1>1. c \in Clients /\ d.id \in Ids /\ d.id[1] = c /\ Covers(d, d.id) /\ x[1] = c
  BY ItemIds DEF Client, Covers
<1>2. PICK j \in DOMAIN store[c][c] : Core(d) = Core(store[c][c][j])
  BY DEF Emitted
<1>3. PICK i \in DOMAIN store[p][c] : Covers(store[p][c][i], d.id)
  BY <1>1 DEF Has
<1> HIDE DEF c
<1>4. i \in DOMAIN store[c][c] /\ Core(store[p][c][i]) = Core(store[c][c][i])
  BY <1>1, <1>3 DEF History, SameHistory
<1>5. Covers(store[c][c][i], d.id) /\ Covers(store[c][c][j], d.id)
  BY <1>1, <1>2, <1>3, <1>4 DEF Core, Covers, End
<1>6. store[c] \in Stores /\ Sorted(store[c])
  BY <1>1, StoreSorted
<1>7. i = j
  BY <1>1, <1>2, <1>4, <1>5, <1>6, Apart
<1>8. Core(store[p][c][i]) = Core(d)
  BY <1>2, <1>4, <1>7
<1>9. Covers(store[p][c][i], x)
  BY <1>8 DEF Core, Covers, End
<1> QED
  BY <1>1, <1>3, <1>9 DEF Has, Covers

\* What a call had or was to get it still has or is to get.
LEMMA ReachableStays ==
  ASSUME IInv, Apply, job' # NoJob, NEW x \in Ids, Reachable(job.doc, job.todo, x)
  PROVE  Reachable(job.doc, job.todo, x)'
<1>1. DocOK /\ CallOK /\ History /\ InFlightAuthentic
  BY InvariantParts
<1>2. job # NoJob
  BY DEF Apply, ApplyOne, NextPass, GiveUp, ApplyDeletes, PassIsOver
<1>3. job \in Jobs /\ job.doc \in Clients /\ job.todo \subseteq Items
  BY <1>1, <1>2 DEF CallOK, Jobs
<1>4. Has(store[job.doc], x) => Has(store'[job.doc], x)
  <2>1. Grown
    BY StepGrown DEF Next
  <2> QED
    BY <1>3, <2>1, GrownHas
<1>5. CASE ApplyOne
  <2>1. PICK d \in job.todo : \/ ApplyKnown(d) \/ ApplyDeferred(d)
                              \/ ApplyRejected(d) \/ ApplyInstalled(d)
    BY <1>5 DEF ApplyOne
  <2>2. d \in Items /\ Authentic(d)
    BY <1>1, <1>2, <1>3 DEF InFlightAuthentic
  <2>3. CASE Pending(d)
    <3>1. job'.doc = job.doc /\ job'.todo = job.todo
      BY <1>3, <2>3 DEF Pending, Jobs
    <3> QED
      BY <1>4, <3>1 DEF Reachable
  <2>4. CASE Done(d) /\ (Covers(d, x) => Has(store'[job.doc], x))
    <3>1. job'.doc = job.doc /\ job'.todo = job.todo \ {d}
      BY <1>3, <2>4 DEF Done, Jobs
    <3> QED
      BY <1>4, <2>4, <3>1 DEF Reachable
  <2>5. ASSUME ApplyKnown(d), Covers(d, x) PROVE Has(store'[job.doc], x)
    <3>1. Has(store[job.doc], d.id) /\ UNCHANGED store
      BY <2>5 DEF ApplyKnown, docVars
    <3>2. Has(store[job.doc], x)
      BY <1>1, <1>3, <2>2, <2>5, <3>1, KnownCovers DEF Authentic
    <3> QED
      BY <3>1, <3>2
  <2>6. ASSUME ApplyInstalled(d), Covers(d, x) PROVE Has(store'[job.doc], x)
    <3>1. d.parent # NoParent => d.origin_left = NoId /\ d.origin_right = NoId
      BY <2>2 DEF Authentic
    <3>2. PICK it : Extends(job.doc, it) /\ Core(it) = Core(d)
      BY <1>1, <1>3, <2>2, <2>6, <3>1, ApplyInstalledOK
    <3>3. PICK p \in Clients : p = job.doc
      BY <1>3
    <3>4. /\ it \in Items /\ Covers(it, x) /\ x[1] = Client(it) /\ x # NoId
          /\ Client(it) \in Clients
      BY <2>6, <3>2, ItemIds DEF Extends, Core, Covers, End, Client
    <3>5. \E i \in DOMAIN store'[p][Client(it)] : store'[p][Client(it)][i] = it
      <4>1. store[p][Client(it)] \in Seq(Items)
        BY <1>1, <3>4 DEF DocOK, Stores
      <4>2. /\ Len(store'[p][Client(it)]) = Len(store[p][Client(it)]) + 1
            /\ store'[p][Client(it)] = Append(store[p][Client(it)], it)
        BY <1>1, <3>2, <3>3, <3>4, ExtendStore
      <4> QED
        BY <3>4, <4>1, <4>2, AppendProperties
    <3> QED
      BY <3>3, <3>4, <3>5 DEF Has
  <2> QED
    BY <2>1, <2>3, <2>4, <2>5, <2>6
    DEF ApplyKnown, ApplyDeferred, ApplyRejected, ApplyInstalled
<1>6. CASE NextPass
  <2>1. job'.doc = job.doc /\ job'.todo = job.todo
    BY <1>3, <1>6 DEF NextPass, Jobs
  <2> QED
    BY <1>4, <2>1 DEF Reachable
<1> QED
  BY <1>5, <1>6 DEF Apply, GiveUp, ApplyDeletes

LEMMA CallCoversStep ==
  ASSUME Publishers = {}, IInv, Deleted, CallCovers, NoneSent, [Next]_vars
  PROVE  CallCovers' /\ NoneSent'
<1>1. DocOK /\ CallOK /\ History /\ InFlightAuthentic
  BY InvariantParts
<1>2. ASSUME NEW p \in Clients, LocalEdit(p) PROVE CallCovers' /\ NoneSent'
  BY <1>1, <1>2, LocalEditOK, CallsAreAlone DEF CallCovers, NoneSent
<1>3. ASSUME NEW p \in Clients, Compact(p) PROVE CallCovers' /\ NoneSent'
  BY <1>3 DEF Compact, CallCovers, NoneSent
<1>4. ASSUME NEW from \in Clients, NEW to \in Clients, Pull(from, to)
      PROVE  CallCovers' /\ NoneSent'
  <2> DEFINE since == StateVector(store[to])
  <2>1. /\ job'.doc = to /\ job'.todo = Diff(from, since).structs /\ job'.ds = ds[from]
        /\ store' = store /\ msgs' = msgs
    BY <1>4 DEF Pull, Begin, Diff, docVars
  <2>2. since \in [Clients -> Nat]
    BY <1>1, StateOK DEF DocOK
  <2>3. ASSUME NEW x \in ds[from] PROVE Reachable(to, Diff(from, since).structs, x)
    <3>1. x \in Ids /\ x[1] \in Clients /\ Has(store[from], x)
      BY <1>1 DEF Deleted, DeadOK, DocOK, Ids
    <3>2. PICK c \in Clients : c = x[1]
      BY <3>1
    <3>3. PICK i \in DOMAIN store[from][c] : Covers(store[from][c][i], x)
      BY <3>1, <3>2 DEF Has
    <3>4. Reached(to, c, since[c])
      BY <1>1, VectorReached
    <3> QED
      BY <1>1, <2>2, <3>1, <3>3, <3>4, HeldOrSent
  <2> HIDE DEF since
  <2> QED
    BY <2>1, <2>3 DEF CallCovers, NoneSent, Reachable, Has
<1>5. ASSUME Apply PROVE CallCovers' /\ NoneSent'
  <2>1. job # NoJob /\ UNCHANGED msgs
    BY <1>5 DEF Apply, ApplyOne, NextPass, GiveUp, ApplyDeletes, PassIsOver
  <2>2. job \in Jobs /\ job.ds \subseteq Ids
    BY <1>1, <2>1 DEF CallOK, Jobs
  <2>3. job' # NoJob => job'.ds = job.ds
    BY <1>5, <2>2 DEF Apply, ApplyOne, ApplyKnown, ApplyDeferred, ApplyRejected, ApplyInstalled,
                      Done, Pending, NextPass, GiveUp, ApplyDeletes, Jobs
  <2>4. ASSUME job' # NoJob, NEW x \in job'.ds PROVE Reachable(job.doc, job.todo, x)'
    <3>1. x \in Ids /\ Reachable(job.doc, job.todo, x)
      BY <2>1, <2>2, <2>3, <2>4 DEF CallCovers
    <3> QED
      BY <1>5, <2>4, <3>1, ReachableStays
  <2> QED
    BY <2>1, <2>4 DEF CallCovers, NoneSent
<1>6. ASSUME UNCHANGED vars PROVE CallCovers' /\ NoneSent'
  BY <1>6 DEF vars, docVars, CallCovers, NoneSent, Reachable
<1>7. ASSUME NEW p \in Clients, Publish(p) \/ \E m \in msgs : Deliver(p, m) PROVE FALSE
  BY <1>7 DEF Publish, NoneSent
<1> QED
  BY <1>2, <1>3, <1>4, <1>5, <1>6, <1>7 DEF Next

LEMMA DeletedStep ==
  ASSUME Publishers = {}, IInv, Flagging, Deleted, CallCovers, NoneSent, [Next]_vars
  PROVE  Flagging' /\ Deleted' /\ CallCovers' /\ NoneSent'
<1>1. Flagging' /\ (~ApplyDeletes => Deleted') /\ CallCovers' /\ NoneSent'
  BY FlaggingStep, CallCoversStep
<1>2. ASSUME ApplyDeletes PROVE Deleted'
  <2>1. DocOK /\ History /\ job # NoJob /\ job \in Jobs /\ job.todo = {}
    BY <1>2, InvariantParts DEF ApplyDeletes, PassIsOver, CallOK
  <2>2. \A x \in job.ds : Has(store[job.doc], x)
    BY <2>1 DEF CallCovers, Reachable
  <2> QED
    BY <1>2, <2>1, <2>2, ApplyDeletesFlagging
<1> QED
  BY <1>1, <1>2

\* The flags and the delete set agree, whatever documents ask each other for
\* and in whatever order: no item is flagged whose deletion would not travel,
\* and no deletion is known whose item is not flagged (install_into_map,
\* array_delete_at, apply_update_v1, encode_diff_v1).  Broadcasts are left
\* out: they carry the deletions of items that the receiver may lack.
THEOREM DeletionsAreFlagged ==
  ASSUME Publishers = {}
  PROVE  Spec => []DeletedIsFlagged
<1> DEFINE DInv == Flagging /\ Deleted /\ CallCovers /\ NoneSent
<1>1. Init => DInv
  BY InitFlagging DEF Init, CallCovers, NoneSent
<1>2. IInv /\ DInv /\ [Next]_vars => DInv'
  BY DeletedStep
<1>3. IInv /\ DInv => DeletedIsFlagged
  <2> SUFFICES ASSUME DocOK, History, Flagging, Deleted,
                      NEW p \in Clients, NEW it \in Stored(store[p])
               PROVE  it.id \in del[p] <=> ClocksOf(it) \cap ds[p] # {}
    BY InvariantParts DEF DeletedIsFlagged
  <2>1. store[p] \in Stores /\ ds[p] \subseteq Ids
    BY DEF DocOK
  <2>2. PICK c \in Clients : \E i \in DOMAIN store[p][c] : it = store[p][c][i]
    BY <2>1, StoredItem
  <2>3. PICK i \in DOMAIN store[p][c] : it = store[p][c][i]
    BY <2>2
  <2>4. it \in Items
    BY <2>1, <2>3, EntryIs
  <2>5. \A x \in ds[p] : x \in ClocksOf(it) <=> Covers(it, x)
    BY <2>1, <2>4, ClockCovered
  <2>6. FlagsOK(store[p], ds[p], del[p]) /\ DeadOK(store[p], ds[p], del[p])
    BY DEF Flagging, Deleted
  <2>7. it.id \in del[p] <=> \E x \in ds[p] : Covers(it, x)
    BY <2>3, <2>6 DEF FlagsOK, DeadOK
  <2> QED
    BY <2>5, <2>7
<1> HIDE DEF DInv
<1> QED
  BY Invariance, <1>1, <1>2, <1>3, PTL DEF Spec

\* Every flag travels, with broadcasts too: an item that a document shows as
\* deleted has a clock in its delete set, hence in every update it sends.
FlagsTravel ==
  \A p \in Clients : \A it \in Stored(store[p]) :
    it.id \in del[p] => ClocksOf(it) \cap ds[p] # {}

THEOREM EveryFlagTravels == Spec => []FlagsTravel
<1>1. Init => Flagging
  BY InitFlagging
<1>2. IInv /\ Flagging /\ [Next]_vars => Flagging'
  BY FlaggingStep
<1>3. IInv /\ Flagging => FlagsTravel
  <2> SUFFICES ASSUME DocOK, Flagging,
                      NEW p \in Clients, NEW it \in Stored(store[p]), it.id \in del[p]
               PROVE  ClocksOf(it) \cap ds[p] # {}
    BY InvariantParts DEF FlagsTravel
  <2>1. store[p] \in Stores /\ ds[p] \subseteq Ids
    BY DEF DocOK
  <2>2. PICK c \in Clients : \E i \in DOMAIN store[p][c] : it = store[p][c][i]
    BY <2>1, StoredItem
  <2>3. PICK i \in DOMAIN store[p][c] : it = store[p][c][i]
    BY <2>2
  <2>4. it \in Items
    BY <2>1, <2>3, EntryIs
  <2>5. PICK x \in ds[p] : Covers(it, x)
    BY <2>3 DEF Flagging, FlagsOK
  <2>6. x \in ClocksOf(it)
    BY <2>1, <2>4, <2>5, ClockCovered
  <2> QED
    BY <2>6
<1> QED
  BY Invariance, <1>1, <1>2, <1>3, PTL DEF Spec

\* A key never shows two values: of all the values ever stored for it, at
\* most the head is not flagged (install_into_map).
OneValueAtMost ==
  \A p \in Clients, k \in Keys :
    { it.id : it \in OfKey(p, k) } \ del[p] \subseteq {head[p][k]}

THEOREM AtMostOneValue == Spec => []OneValueAtMost
<1>1. Init => Flagging
  BY InitFlagging
<1>2. IInv /\ Flagging /\ [Next]_vars => Flagging'
  BY FlaggingStep
<1>3. IInv /\ Flagging => OneValueAtMost
  <2> SUFFICES ASSUME DocOK, Flagging, NEW p \in Clients, NEW k \in Keys,
                      NEW it \in OfKey(p, k), it.id # head[p][k]
               PROVE  it.id \in del[p]
    BY InvariantParts DEF OneValueAtMost
  <2>1. it \in Stored(store[p]) /\ it.parent = k /\ it.content_kind = "string"
    BY DEF OfKey
  <2>2. store[p] \in Stores
    BY DEF DocOK
  <2>3. PICK c \in Clients : \E i \in DOMAIN store[p][c] : it = store[p][c][i]
    BY <2>1, <2>2, StoredItem
  <2>4. PICK i \in DOMAIN store[p][c] : it = store[p][c][i]
    BY <2>3
  <2> QED
    BY <2>1, <2>4 DEF Flagging, KeysOK
<1> QED
  BY Invariance, <1>1, <1>2, <1>3, PTL DEF Spec

-----------------------------------------------------------------------------
(* Documents implement the abstract log.                                   *)

\* Deletions on their way are known to some document already.
DeletesKnown ==
  /\ job # NoJob => job.ds \subseteq UNION { ds[q] : q \in Clients }
  /\ \A m \in msgs : m.ds \subseteq UNION { ds[q] : q \in Clients }

LInv == IInv /\ DeletesKnown

-----------------------------------------------------------------------------
(* What the log says of a store.                                           *)

\* The clocks of a stored item are among those the log says its document
\* holds.
StoredIsHeld ==
  \A p \in Clients : \A s \in Stored(store[p]) : ClocksOf(s) \subseteq Log!Held(p)

LEMMA ItemHeld == DocOK /\ SameHistory => StoredIsHeld
<1> SUFFICES ASSUME DocOK, SameHistory,
                    NEW p \in Clients, NEW s \in Stored(store[p])
             PROVE  ClocksOf(s) \subseteq Log!Held(p)
  BY DEF StoredIsHeld
<1>0. \E c \in Clients : \E i \in DOMAIN store[p][c] : s = store[p][c][i]
  BY StoredItem DEF DocOK
<1>c. PICK c \in Clients : \E i \in DOMAIN store[p][c] : s = store[p][c][i]
  BY <1>0
<1>1. PICK i \in DOMAIN store[p][c] : s = store[p][c][i]
  BY <1>c
<1>2. i \in 1 .. Len(store[p][c])
  BY StoredEntry
<1>3. i \in DOMAIN store[c][c] /\ Core(s) = Core(store[c][c][i])
  BY <1>1 DEF SameHistory
<1>4. Written[c][i] = Core(s) /\ Executed[p][c] = Len(store[p][c])
  BY <1>3 DEF Written, Executed
<1>5. Log!Clocks(Core(s)) = ClocksOf(s)
  BY DEF Log!Clocks, Log!EndOf, Core, ClocksOf, End
<1>6. Log!Clocks(Written[c][i]) \subseteq Log!Held(p)
  BY <1>2, <1>4 DEF Log!Held
<1> QED
  BY <1>4, <1>5, <1>6

\* So is every id that find_by_id finds.
LEMMA IdHeld ==
  ASSUME DocOK, SameHistory, NEW p \in Clients, NEW x \in Ids, Has(store[p], x)
  PROVE  x \in Log!Held(p) /\ Find(store[p], x) \in Stored(store[p])
<1> DEFINE it == Find(store[p], x)
<1>1. /\ store[p] \in Stores
      /\ it \in Items /\ Covers(it, x)
      /\ \E i \in DOMAIN store[p][x[1]] : it = store[p][x[1]][i]
  BY FindStored DEF DocOK
<1>2. x[1] \in Clients /\ x[2] \in Nat /\ x = << x[1], x[2] >>
  BY DEF Ids
<1>3. it \in Stored(store[p])
  <2>1. it \in ToSet(store[p][x[1]]) /\ x[1] \in DOMAIN store[p]
    BY <1>1, <1>2 DEF ToSet, Stores
  <2> QED
    BY <2>1 DEF Stored
<1> HIDE DEF it
<1>4. it.id[2] \in Nat /\ End(it) \in Nat
  BY <1>1, ItemIds
<1>5. x \in ClocksOf(it)
  <2> DEFINE lo == it.id[2]
             hi == End(it)
             n == x[2]
  <2>1. x[1] = it.id[1] /\ lo <= n /\ n < hi
    BY <1>1 DEF Covers
  <2>2. lo \in Nat /\ hi \in Nat /\ n \in Nat
    BY <1>2, <1>4
  <2> HIDE DEF lo, hi, n
  <2>3. n \in lo .. (hi - 1)
    BY <2>1, <2>2
  <2> QED
    BY <1>2, <2>1, <2>3 DEF ClocksOf, lo, hi, n
<1> QED
  BY <1>3, <1>5, ItemHeld DEF it, StoredIsHeld

\* Storing an item keeps the others stored.
LEMMA StoredGrows ==
  ASSUME DocOK, NEW p \in Clients, NEW it \in Items, StoreItem(p, it)
  PROVE  /\ it \in Stored(store'[p])
         /\ Stored(store[p]) \subseteq Stored(store'[p])
<1> DEFINE st == Appended(store[p], it)
<1>1. store[p] \in Stores /\ store'[p] = st
  BY DEF DocOK, StoreItem
<1>2. /\ st \in Stores
      /\ \A c \in Clients : \A i \in DOMAIN store[p][c] :
           i \in DOMAIN st[c] /\ st[c][i] = store[p][c][i]
      /\ st[Client(it)] = Append(store[p][Client(it)], it)
      /\ Client(it) \in Clients
  BY <1>1, AppendStored, ItemIds
<1> HIDE DEF st
<1>3. ASSUME NEW c \in Clients, NEW i \in DOMAIN st[c] PROVE st[c][i] \in Stored(st)
  <2>1. st[c][i] \in ToSet(st[c]) /\ c \in DOMAIN st
    BY <1>2 DEF ToSet, Stores
  <2> QED
    BY <2>1 DEF Stored
<1>4. it \in Stored(st)
  <2> DEFINE s == store[p][Client(it)]
  <2>1. s \in Seq(Items)
    BY <1>1, <1>2 DEF Stores
  <2>2. Len(s) + 1 \in DOMAIN st[Client(it)] /\ st[Client(it)][Len(s) + 1] = it
    BY <1>2, <2>1, AppendProperties
  <2> QED
    BY <1>2, <1>3, <2>2
<1>5. ASSUME NEW s \in Stored(store[p]) PROVE s \in Stored(st)
  <2>1. PICK c \in Clients : \E i \in DOMAIN store[p][c] : s = store[p][c][i]
    BY <1>1, StoredItem
  <2> QED
    BY <1>2, <1>3, <2>1
<1> QED
  BY <1>1, <1>4, <1>5

-----------------------------------------------------------------------------
(* Deletions.                                                              *)

\* The document's deletions grow by clocks of stored items or by deletions
\* that are known.
Grows(p) ==
  /\ ds' = [ds EXCEPT ![p] = ds'[p]]
  /\ ds[p] \subseteq ds'[p]
  /\ \A x \in ds'[p] :
       \/ \E q \in Clients : x \in ds[q]
       \/ \E s \in Stored(store'[p]) : x \in ClocksOf(s)

LEMMA InstallGrows ==
  ASSUME DocOK, NEW p \in Clients, NEW it \in Items, Installs(p, it), StoreItem(p, it)
  PROVE  Grows(p)
<1>0. ds \in [Clients -> SUBSET Ids]
  BY DEF DocOK
<1>1. CASE UNCHANGED ds
  BY <1>0, <1>1 DEF Grows
<1>2. ASSUME NEW s \in Stored(store'[p]),
             ds' = [ds EXCEPT ![p] = @ \cup ClocksOf(s)]
      PROVE  Grows(p)
  <2>1. ds'[p] = ds[p] \cup ClocksOf(s)
    BY <1>0, <1>2
  <2> QED
    BY <1>0, <1>2, <2>1 DEF Grows
<1>3. ASSUME it.parent \in Keys, InstallIntoMap(p, it)
      PROVE  Grows(p)
  <2> DEFINE prior == head[p][it.parent]
  <2>1. it \in Stored(store'[p]) /\ Stored(store[p]) \subseteq Stored(store'[p])
    BY StoredGrows
  <2>2. \/ UNCHANGED ds
        \/ /\ prior # NoId
           /\ ds' = [ds EXCEPT ![p] = @ \cup ClocksOf(Find(store[p], prior))]
        \/ ds' = [ds EXCEPT ![p] = @ \cup ClocksOf(it)]
    BY <1>3 DEF InstallIntoMap
  <2>3. ASSUME prior # NoId PROVE Find(store[p], prior) \in Stored(store'[p])
    <3>1. prior \in Ids /\ Has(store[p], prior) /\ store[p] \in Stores
      BY <1>3, <2>3 DEF DocOK, OptIds, HeadStored
    <3>2. prior[1] \in Clients /\ \E i \in DOMAIN store[p][prior[1]] :
            Find(store[p], prior) = store[p][prior[1]][i]
      BY <3>1, FindStored DEF Ids
    <3>3. /\ prior[1] \in DOMAIN store[p]
          /\ Find(store[p], prior) \in ToSet(store[p][prior[1]])
      BY <3>1, <3>2 DEF ToSet, Stores
    <3> QED
      BY <2>1, <3>3 DEF Stored
  <2> QED
    BY <1>1, <1>2, <2>1, <2>2, <2>3
<1>4. CASE InstallIntoArray(p, it) \/ FailToIntegrate(p, it) \/ InstallBare(p, it)
  BY <1>1, <1>4 DEF InstallIntoArray, FailToIntegrate, InstallBare
<1> QED
  BY <1>3, <1>4 DEF Installs, IsMapValue

\* array_delete_at
LEMMA DeleteGrows ==
  ASSUME DocOK, SameHistory, NEW p \in Clients, NEW t \in Texts, NEW i,
         ArrayDeleteAt(p, t, i)
  PROVE  Grows(p)
<1>1. PICK x \in ToSet(list[p][t]) :
        ds' = [ds EXCEPT ![p] = @ \cup ClocksOf(Find(store[p], x))]
  BY DEF ArrayDeleteAt
<1>2. UNCHANGED store
  BY DEF ArrayDeleteAt
<1>3. x \in Ids /\ Has(store[p], x)
  <2>1. PICK j \in DOMAIN list[p][t] : x = list[p][t][j]
    BY <1>1 DEF ToSet
  <2>2. list[p][t] \in Seq(Ids)
    BY DEF DocOK
  <2> QED
    BY <2>1, <2>2 DEF DocOK, ListStored
<1>4. Find(store[p], x) \in Stored(store'[p])
  BY <1>2, <1>3, IdHeld
<1>5. ds \in [Clients -> SUBSET Ids]
  BY DEF DocOK
<1>6. ds'[p] = ds[p] \cup ClocksOf(Find(store[p], x))
  BY <1>1, <1>5
<1> QED
  BY <1>1, <1>4, <1>5, <1>6 DEF Grows

\* What the abstract log allows (UpdateLog's Delete).
LEMMA GrowsDeletes ==
  ASSUME NEW p \in Clients, Grows(p), (DocOK /\ SameHistory)'
  PROVE  Log!Delete(p)
<1>1. StoredIsHeld'
  BY ItemHeld, PTL
<1>2. \A s \in Stored(store'[p]) : ClocksOf(s) \subseteq Log!Held(p)'
  BY <1>1 DEF StoredIsHeld
<1>3. ds'[p] \subseteq Log!Held(p)' \cup UNION { ds[q] : q \in Clients }
  BY <1>2 DEF Grows
<1> QED
  BY <1>3 DEF Grows, Log!Delete

\* Deletions that were known stay known.
LEMMA KnownStays ==
  ASSUME NEW p \in Clients, Grows(p), DocOK, NEW x, NEW q \in Clients, x \in ds[q]
  PROVE  \E r \in Clients : x \in ds'[r]
<1>1. ds' = [ds EXCEPT ![p] = ds'[p]] /\ ds[p] \subseteq ds'[p]
  BY DEF Grows
<1>2. ds \in [Clients -> SUBSET Ids]
  BY DEF DocOK
<1>3. q # p => ds'[q] = ds[q]
  BY <1>1, <1>2
<1> QED
  BY <1>1, <1>3

-----------------------------------------------------------------------------
(* The logs.                                                               *)

LogEntry == Ids \X Nat \X OptIds \X OptIds

\* Every item is a log entry.
LEMMA CoreEntry ==
  ASSUME NEW it \in Items
  PROVE  /\ Core(it) \in LogEntry
         /\ Core(it)[1] = it.id
         /\ Log!EndOf(Core(it)) = End(it)
         /\ Log!Needs(Core(it)) = {it.origin_left, it.origin_right} \ {NoId}
<1>1. it.id \in Ids /\ it.length \in Nat
      /\ it.origin_left \in OptIds /\ it.origin_right \in OptIds
  BY LensAssumption DEF Items
<1> QED
  BY <1>1 DEF Core, LogEntry, Log!EndOf, Log!Needs, End, NoId

\* Nothing is written or executed when vectors keep their lengths and cores.
LEMMA SameLog ==
  ASSUME \A q, c \in Clients :
           /\ DOMAIN store'[q][c] = DOMAIN store[q][c]
           /\ Len(store'[q][c]) = Len(store[q][c])
           /\ \A i \in DOMAIN store[q][c] : Core(store'[q][c][i]) = Core(store[q][c][i])
  PROVE  UNCHANGED << Written, Executed >>
<1>1. ASSUME NEW c \in Clients
      PROVE  [i \in DOMAIN store'[c][c] |-> Core(store'[c][c][i])] =
             [i \in DOMAIN store[c][c] |-> Core(store[c][c][i])]
  OBVIOUS
<1>2. Written' = Written
  BY <1>1 DEF Written
<1>3. Executed' = Executed
  BY DEF Executed
<1> QED
  BY <1>2, <1>3

\* The shape of a log: as long as its author's vector.
LEMMA WrittenShape ==
  ASSUME DocOK, NEW c \in Clients
  PROVE  /\ Written[c] \in Seq(LogEntry)
         /\ Len(Written[c]) = Len(store[c][c])
         /\ \A i \in 1 .. Len(store[c][c]) : Written[c][i] = Core(store[c][c][i])
<1> DEFINE s == store[c][c]
           w == [i \in DOMAIN s |-> Core(s[i])]
<1>1. s \in Seq(Items)
  BY DEF DocOK, Stores
<1>2. Written[c] = w
  BY DEF Written
<1> HIDE DEF s
<1>3. DOMAIN s = 1 .. Len(s) /\ Len(s) \in Nat
  BY <1>1
<1>4. \A i \in 1 .. Len(s) : w[i] = Core(s[i]) /\ w[i] \in LogEntry
  BY <1>1, <1>3, CoreEntry
<1>5. w \in [1 .. Len(s) -> LogEntry]
  BY <1>3, <1>4
<1> HIDE DEF w
<1>6. w \in Seq(LogEntry) /\ Len(w) = Len(s)
  BY <1>3, <1>5
<1> QED
  BY <1>2, <1>4, <1>6 DEF s

\* Storing the next item of a client is executing the next entry of its log,
\* which the client itself writes in the same step.
LEMMA ExtendExecutes ==
  ASSUME DocOK, NEW p \in Clients, NEW it, Extends(p, it)
  PROVE  Executed' = [Executed EXCEPT ![p][Client(it)] = @ + 1]
<1> DEFINE a == Client(it)
<1>1. /\ a \in Clients
      /\ \A q, c \in Clients : q # p \/ c # a => store'[q][c] = store[q][c]
      /\ Len(store'[p][a]) = Len(store[p][a]) + 1
  BY ExtendStore
<1> HIDE DEF a
<1>2. \A q, c \in Clients :
        Len(store'[q][c]) = IF q = p /\ c = a THEN Len(store[q][c]) + 1
                            ELSE Len(store[q][c])
  BY <1>1
<1>3. Executed' = [q \in Clients |-> [c \in Clients |->
                     IF q = p /\ c = a THEN Len(store[q][c]) + 1 ELSE Len(store[q][c])]]
  BY <1>2, Zenon DEF Executed
<1>4. [Executed EXCEPT ![p][a] = @ + 1] =
        [q \in Clients |-> [c \in Clients |->
           IF q = p /\ c = a THEN Len(store[q][c]) + 1 ELSE Len(store[q][c])]]
  BY <1>1 DEF Executed
<1> QED
  BY <1>3, <1>4 DEF a

LEMMA OwnItemWritten ==
  ASSUME DocOK, NEW p \in Clients, NEW it, Extends(p, it), Client(it) = p
  PROVE  Written' = [Written EXCEPT ![p] = Append(@, Core(it))]
<1>1. /\ it \in Items
      /\ \A c \in Clients : c # p => store'[c][c] = store[c][c]
      /\ store'[p][p] = Append(store[p][p], it)
  BY ExtendStore
<1> DEFINE s == store[p][p]
           u == store'[p][p]
           w == Written[p]
<1>2. s \in Seq(Items)
  BY DEF DocOK, Stores
<1>3. w \in Seq(LogEntry) /\ Len(w) = Len(s) /\ \A i \in 1 .. Len(s) : w[i] = Core(s[i])
  BY WrittenShape
<1>4. u = Append(s, it)
  BY <1>1
<1> HIDE DEF s, u, w
<1>5. /\ DOMAIN u = 1 .. Len(s) + 1 /\ u[Len(s) + 1] = it /\ Len(s) \in Nat
      /\ \A i \in 1 .. Len(s) : u[i] = s[i]
  BY <1>1, <1>2, <1>4, AppendProperties
<1>6. /\ Append(w, Core(it)) \in Seq(LogEntry)
      /\ DOMAIN Append(w, Core(it)) = 1 .. Len(s) + 1
      /\ Append(w, Core(it))[Len(s) + 1] = Core(it)
      /\ \A i \in 1 .. Len(s) : Append(w, Core(it))[i] = w[i]
  BY <1>1, <1>3, <1>5, CoreEntry, AppendProperties
<1>7. [i \in DOMAIN u |-> Core(u[i])] = Append(w, Core(it))
  <2>1. \A i \in 1 .. Len(s) + 1 : Core(u[i]) = Append(w, Core(it))[i]
    <3> SUFFICES ASSUME NEW i \in 1 .. Len(s) + 1
                 PROVE  Core(u[i]) = Append(w, Core(it))[i]
      OBVIOUS
    <3>1. i \in 1 .. Len(s) \/ i = Len(s) + 1
      BY <1>5
    <3> QED
      BY <1>3, <1>5, <1>6, <3>1
  <2>2. Append(w, Core(it)) = [i \in 1 .. Len(s) + 1 |-> Append(w, Core(it))[i]]
    <3> DEFINE w2 == Append(w, Core(it))
    <3>1. w2 \in Seq(LogEntry) /\ DOMAIN w2 = 1 .. Len(s) + 1
      BY <1>6
    <3> HIDE DEF w2
    <3>2. w2 = [i \in DOMAIN w2 |-> w2[i]]
      BY <3>1
    <3> QED
      BY <3>1, <3>2 DEF w2
  <2> QED
    BY <1>5, <2>1, <2>2
<1>8. Written' = [c \in Clients |-> IF c = p THEN Append(w, Core(it)) ELSE Written[c]]
  BY <1>1, <1>7 DEF Written, u
<1> QED
  BY <1>8 DEF Written, w

LEMMA OthersItemUnwritten ==
  ASSUME DocOK, NEW p \in Clients, NEW it, Extends(p, it), Client(it) # p
  PROVE  Written' = Written
<1>1. \A c \in Clients : store'[c][c] = store[c][c]
  BY ExtendStore
<1> QED
  BY <1>1 DEF Written

\* The origins of an item about to be stored are held.
LEMMA NeedsHeld ==
  ASSUME DocOK, SameHistory, NEW p \in Clients, NEW it, Extends(p, it)
  PROVE  Log!Needs(Core(it)) \subseteq Log!Held(p)
<1> SUFFICES ASSUME NEW x \in {it.origin_left, it.origin_right} \ {NoId}
             PROVE  x \in Log!Held(p)
  BY CoreEntry DEF Extends
<1>1. x \in Ids /\ Has(store[p], x)
  BY DEF Extends, Items, OptIds
<1> QED
  BY <1>1, IdHeld

\* A client that stores an item of its own writes the next entry of its log.
LEMMA EmitsOwn ==
  ASSUME DocOK, SameHistory, NEW p \in Clients, NEW it, Extends(p, it), Client(it) = p
  PROVE  Log!Emit(p)
<1> DEFINE s == store[p][p]
           w == Written[p]
<1>1. it \in Items /\ CanAppend(store[p], it)
  BY DEF Extends
<1>2. s \in Seq(Items)
  BY DEF DocOK, Stores
<1>3. w \in Seq(LogEntry) /\ Len(w) = Len(s) /\ \A i \in 1 .. Len(s) : w[i] = Core(s[i])
  BY WrittenShape
<1>4. Core(it) \in LogEntry /\ Core(it)[1] = it.id
  BY <1>1, CoreEntry
<1>5. Written' = [Written EXCEPT ![p] = Append(@, Core(it))]
  BY OwnItemWritten
<1>6. Written'[p] = Append(w, Core(it))
  BY <1>5 DEF Written
<1>7. Executed' = [Executed EXCEPT ![p][p] = @ + 1]
  BY ExtendExecutes
<1>8. Executed[p][p] = Len(s)
  BY DEF Executed
<1>9. Log!NextClock(p) = State(store[p], p)
  <2>1. CASE s = << >>
    <3>1. w = << >>
      BY <1>3, <2>1, EmptySeq
    <3> QED
      BY <2>1, <3>1 DEF Log!NextClock, State
  <2>2. CASE s # << >>
    <3>1. Len(s) \in 1 .. Len(s) /\ Len(w) # 0
      BY <1>2, <1>3, <2>2, EmptySeq
    <3>2. w # << >> /\ w[Len(w)] = Core(s[Len(s)]) /\ s[Len(s)] \in Items
      BY <1>2, <1>3, <3>1
    <3> QED
      BY <2>2, <3>2, CoreEntry DEF Log!NextClock, State
  <2> QED
    BY <2>1, <2>2
<1>10. it.id = << p, Log!NextClock(p) >>
  <2>1. it.id[1] = p /\ it.id[2] = State(store[p], p) /\ it.id \in Ids
    BY <1>1, ItemIds DEF Client, CanAppend
  <2> QED
    BY <1>9, <2>1 DEF Ids
<1>11. Log!Needs(Core(it)) \subseteq Log!Held(p)
  BY NeedsHeld
<1> HIDE DEF s, w
<1>12. /\ Len(Append(w, Core(it))) = Len(w) + 1
       /\ Append(w, Core(it))[Len(w) + 1] = Core(it)
  BY <1>3, <1>4, AppendProperties
<1> QED
  BY <1>3, <1>4, <1>5, <1>6, <1>7, <1>8, <1>10, <1>11, <1>12
  DEF Log!Emit, w, LogEntry

\* A document that stores another client's item executes the next entry of
\* that client's log.
LEMMA ExecutesOthers ==
  ASSUME DocOK, History, NEW p \in Clients, NEW it, Extends(p, it),
         Emitted(it), Client(it) # p
  PROVE  Log!Execute(p, Client(it))
<1> DEFINE c == Client(it)
           n == Len(store[p][c])
<1>1. it \in Items /\ CanAppend(store[p], it) /\ c \in Clients
  BY ExtendStore DEF Extends
<1>2. n + 1 \in DOMAIN store[c][c] /\ Core(it) = Core(store[c][c][n + 1])
  BY <1>1, NextOfAuthor DEF History
<1>3. store[c][c] \in Seq(Items) /\ n \in Nat
  BY <1>1 DEF DocOK, Stores
<1>4. n < Len(store[c][c]) /\ Len(Written[c]) = Len(store[c][c])
  BY <1>1, <1>2, <1>3, WrittenShape
<1>5. Written[c][n + 1] = Core(it) /\ Executed[p][c] = n
  BY <1>1, <1>2 DEF Written, Executed
<1>6. Log!Needs(Core(it)) \subseteq Log!Held(p)
  BY NeedsHeld DEF History
<1>7. Written' = Written /\ Executed' = [Executed EXCEPT ![p][c] = @ + 1]
  BY ExtendExecutes, OthersItemUnwritten
<1> HIDE DEF c, n
<1> QED
  BY <1>4, <1>5, <1>6, <1>7 DEF Log!Execute, c

-----------------------------------------------------------------------------
(* Every step is a step of the log.                                        *)

\* What a step does to the log: document p stores an item or nothing, and
\* learns deletions.
Logged(p) ==
  /\ \/ \E it : Extends(p, it) /\ (Client(it) = p \/ Emitted(it))
     \/ UNCHANGED << Written, Executed >>
  /\ Grows(p)

LEMMA LoggedStep ==
  ASSUME DocOK, History, NEW p \in Clients, Logged(p), DocOK', History'
  PROVE  Log!Next
<1>1. Log!Delete(p)
  BY GrowsDeletes DEF Logged, History
<1>2. \/ Log!Emit(p)
      \/ \E c \in Clients : Log!Execute(p, c)
      \/ UNCHANGED << Written, Executed >>
  <2>1. ASSUME NEW it, Extends(p, it), Client(it) = p \/ Emitted(it)
        PROVE  Log!Emit(p) \/ \E c \in Clients : Log!Execute(p, c)
    <3>1. Client(it) \in Clients
      BY <2>1, ExtendStore
    <3> QED
      BY <2>1, <3>1, EmitsOwn, ExecutesOthers DEF History
  <2> QED
    BY <2>1 DEF Logged
<1> QED
  BY <1>1, <1>2 DEF Log!Next

\* Deletions on their way stay known when no others set out.
LEMMA KnownKept ==
  ASSUME DocOK, NEW p \in Clients, Grows(p),
         job' # NoJob => job'.ds \subseteq UNION { ds[q] : q \in Clients },
         \A m \in msgs' : m.ds \subseteq UNION { ds[q] : q \in Clients }
  PROVE  DeletesKnown'
<1>1. UNION { ds[q] : q \in Clients } \subseteq UNION { ds'[q] : q \in Clients }
  BY KnownStays
<1> QED
  BY <1>1 DEF DeletesKnown

\* A step that leaves the documents' stores and delete sets alone.
LEMMA StillLogged ==
  ASSUME DocOK, NEW p \in Clients, UNCHANGED << store, ds >>
  PROVE  Logged(p) /\ UNCHANGED << Written, Executed, ds >>
<1>1. UNCHANGED << Written, Executed >>
  BY DEF Written, Executed
<1>2. Grows(p)
  BY DEF Grows, DocOK
<1> QED
  BY <1>1, <1>2 DEF Logged

LEMMA LocalEditLogged ==
  ASSUME LInv, NEW p \in Clients, LocalEdit(p)
  PROVE  Logged(p) /\ DeletesKnown'
<1>1. DocOK /\ SameHistory
  BY InvariantParts DEF LInv, History
<1>2. /\ UNCHANGED << job, msgs, sent >>
      /\ \/ \E it : Extends(p, it) /\ Client(it) = p
         \/ UNCHANGED store /\ \E t \in Texts : \E i \in Nat : ArrayDeleteAt(p, t, i)
  BY <1>1, LocalEditOK DEF Emits
<1>3. ASSUME NEW it, Extends(p, it), Client(it) = p PROVE Logged(p)
  BY <1>1, <1>3, InstallGrows DEF Logged, Extends
<1>4. ASSUME NEW t \in Texts, NEW i \in Nat, ArrayDeleteAt(p, t, i), UNCHANGED store
      PROVE  Logged(p)
  <2>1. UNCHANGED << Written, Executed >>
    BY <1>4 DEF Written, Executed
  <2>2. Grows(p)
    BY <1>1, <1>4, DeleteGrows
  <2> QED
    BY <2>1, <2>2 DEF Logged
<1>5. Logged(p)
  BY <1>2, <1>3, <1>4
<1>6. DeletesKnown'
  BY <1>1, <1>2, <1>5, KnownKept DEF Logged, LInv, DeletesKnown
<1> QED
  BY <1>5, <1>6

LEMMA CompactLogged ==
  ASSUME LInv, NEW p \in Clients, Compact(p)
  PROVE  Logged(p) /\ DeletesKnown'
<1>1. DocOK
  BY InvariantParts DEF LInv
<1>2. UNCHANGED << Written, Executed >>
  <2>1. \A q, c \in Clients :
          /\ DOMAIN store'[q][c] = DOMAIN store[q][c]
          /\ Len(store'[q][c]) = Len(store[q][c])
          /\ \A i \in DOMAIN store[q][c] : Core(store'[q][c][i]) = Core(store[q][c][i])
    BY <1>1, CompactOK
  <2> QED
    BY <2>1, SameLog
<1>3. UNCHANGED << ds, job, msgs >>
  BY DEF Compact
<1>4. Grows(p)
  BY <1>1, <1>3 DEF Grows, DocOK
<1>5. DeletesKnown'
  BY <1>1, <1>3, <1>4, KnownKept DEF LInv, DeletesKnown
<1> QED
  BY <1>2, <1>4, <1>5 DEF Logged

LEMMA ExchangeLogged ==
  ASSUME LInv, NEW p \in Clients,
         \/ \E q \in Clients : Pull(p, q)
         \/ Publish(p)
         \/ \E m \in msgs : Deliver(p, m)
  PROVE  Logged(p) /\ DeletesKnown'
<1>1. DocOK
  BY InvariantParts DEF LInv
<1>2. UNCHANGED << store, ds >>
  BY DEF Pull, Publish, Deliver, docVars
<1>3. Logged(p)
  BY <1>1, <1>2, StillLogged
<1>4. \A since : Diff(p, since).ds = ds[p]
  BY DEF Diff
<1>5. /\ job' # NoJob => job'.ds \subseteq UNION { ds[q] : q \in Clients }
      /\ \A m \in msgs' : m.ds \subseteq UNION { ds[q] : q \in Clients }
  <2>1. ASSUME NEW q \in Clients, Pull(p, q)
        PROVE  job'.ds = ds[p] /\ UNCHANGED msgs
    BY <1>4, <2>1 DEF Pull, Begin
  <2>2. CASE Publish(p)
    BY <1>4, <2>2 DEF Publish, LInv, DeletesKnown
  <2>3. ASSUME NEW m \in msgs, Deliver(p, m)
        PROVE  job'.ds = m.ds /\ UNCHANGED msgs
    BY <2>3 DEF Deliver, Begin
  <2> QED
    BY <2>1, <2>2, <2>3 DEF LInv, DeletesKnown
<1>6. DeletesKnown'
  BY <1>1, <1>3, <1>5, KnownKept DEF Logged
<1> QED
  BY <1>3, <1>6

LEMMA ApplyLogged ==
  ASSUME LInv, Apply
  PROVE  job.doc \in Clients /\ Logged(job.doc) /\ DeletesKnown'
<1>1. DocOK /\ CallOK /\ InFlightAuthentic /\ DeletesKnown
  BY InvariantParts DEF LInv
<1>2. job # NoJob /\ UNCHANGED msgs
  BY DEF Apply, ApplyOne, NextPass, GiveUp, ApplyDeletes, PassIsOver
<1>3. /\ job \in Jobs /\ job.doc \in Clients /\ job.todo \subseteq Items
      /\ \A d \in job.todo : Authentic(d)
  BY <1>1, <1>2 DEF CallOK, Jobs, InFlightAuthentic
<1> DEFINE Good == Logged(job.doc) /\ (job' = NoJob \/ job'.ds = job.ds)
<1>4. Good
  <2>1. ASSUME NEW d \in job.todo, ApplyKnown(d) \/ ApplyDeferred(d) \/ ApplyRejected(d)
        PROVE  Good
    <3>1. UNCHANGED << store, ds >>
      BY <2>1 DEF ApplyKnown, ApplyDeferred, ApplyRejected, docVars
    <3>2. job'.ds = job.ds
      BY <1>3, <2>1 DEF ApplyKnown, ApplyDeferred, ApplyRejected, Done, Pending, Jobs
    <3> QED
      BY <1>1, <1>3, <3>1, <3>2, StillLogged
  <2>2. ASSUME NEW d \in job.todo, ApplyInstalled(d) PROVE Good
    <3>1. job' = NoJob \/ job'.ds = job.ds
      BY <1>3, <2>2 DEF ApplyInstalled, Done, Jobs
    <3>2. d \in Items /\ Authentic(d)
      BY <1>3
    <3>3. d.parent # NoParent => d.origin_left = NoId /\ d.origin_right = NoId
      BY <3>2 DEF Authentic
    <3>4. \E it : Extends(job.doc, it) /\ Core(it) = Core(d)
      BY <1>1, <1>3, <2>2, <3>2, <3>3, ApplyInstalledOK
    <3>5. PICK it : Extends(job.doc, it) /\ Core(it) = Core(d)
      BY <3>4
    <3>6. Emitted(it)
      BY <3>2, <3>5 DEF Authentic, Emitted, Core, Client
    <3>7. Grows(job.doc)
      BY <1>1, <1>3, <3>5, InstallGrows DEF Extends
    <3> QED
      BY <3>1, <3>5, <3>6, <3>7 DEF Logged
  <2>3. CASE NextPass \/ GiveUp
    <3>1. UNCHANGED << store, ds >>
      BY <2>3 DEF NextPass, GiveUp, docVars
    <3>2. job' = NoJob \/ job'.ds = job.ds
      BY <1>3, <2>3 DEF NextPass, GiveUp, Jobs
    <3> QED
      BY <1>1, <1>3, <3>1, <3>2, StillLogged
  <2>4. CASE ApplyDeletes
    <3>1. /\ UNCHANGED store /\ job' = NoJob
          /\ ds' = [ds EXCEPT ![job.doc] = @ \cup job.ds]
      BY <2>4 DEF ApplyDeletes
    <3>2. UNCHANGED << Written, Executed >>
      BY <3>1 DEF Written, Executed
    <3>3. ds'[job.doc] = ds[job.doc] \cup job.ds
      BY <1>1, <1>3, <3>1 DEF DocOK
    <3>4. Grows(job.doc)
      <4>1. job.ds \subseteq UNION { ds[q] : q \in Clients }
        BY <1>1, <1>2 DEF DeletesKnown
      <4>2. \A x \in ds'[job.doc] : \E q \in Clients : x \in ds[q]
        BY <1>3, <3>3, <4>1
      <4>3. ds' = [ds EXCEPT ![job.doc] = ds'[job.doc]]
        BY <3>1, <3>3
      <4> QED
        BY <3>3, <4>2, <4>3 DEF Grows
    <3> QED
      BY <3>1, <3>2, <3>4 DEF Logged
  <2> QED
    BY <2>1, <2>2, <2>3, <2>4 DEF Apply, ApplyOne
<1>5. DeletesKnown'
  BY <1>1, <1>2, <1>3, <1>4, KnownKept DEF Logged, DeletesKnown
<1> QED
  BY <1>3, <1>4, <1>5

\* The invariant holds at first, every step keeps it, and is a step of the
\* log or leaves it alone.
LEMMA InitLogged == Init => LInv /\ Log!Init
<1> SUFFICES ASSUME Init PROVE LInv /\ Log!Init
  OBVIOUS
<1>1. IInv /\ DocOK
  BY InitInvariant, InvariantParts
<1>2. DeletesKnown
  BY DEF Init, DeletesKnown
<1>3. \A p, c \in Clients : store[p][c] = << >>
  BY DEF Init
<1>4. ASSUME NEW c \in Clients PROVE Written[c] = << >>
  <2>1. Written[c] \in Seq(LogEntry) /\ Len(Written[c]) = 0
    BY <1>1, <1>3, WrittenShape
  <2> QED
    BY <2>1, EmptySeq
<1>5. Written = [c \in Clients |-> << >>]
  BY <1>4 DEF Written
<1>6. Executed = [p \in Clients |-> [c \in Clients |-> 0]]
  BY <1>3 DEF Executed
<1>7. ds = [p \in Clients |-> {}]
  BY DEF Init
<1> QED
  BY <1>1, <1>2, <1>5, <1>6, <1>7 DEF LInv, Log!Init

LEMMA NextLogged ==
  LInv /\ [Next]_vars => LInv' /\ [Log!Next]_<< Written, Executed, ds >>
<1> SUFFICES ASSUME LInv, [Next]_vars
             PROVE  LInv' /\ [Log!Next]_<< Written, Executed, ds >>
  OBVIOUS
<1>1. IInv' /\ DocOK /\ History
  BY NextInvariant, InvariantParts DEF LInv
<1>2. DocOK' /\ History'
  BY <1>1, InvariantParts, PTL
<1>3. ASSUME NEW p \in Clients, Logged(p), DeletesKnown'
      PROVE  LInv' /\ Log!Next
  BY <1>1, <1>2, <1>3, LoggedStep DEF LInv
<1>4. ASSUME NEW p \in Clients, LocalEdit(p) PROVE LInv' /\ Log!Next
  BY <1>3, <1>4, LocalEditLogged
<1>5. ASSUME NEW p \in Clients, Compact(p) PROVE LInv' /\ Log!Next
  BY <1>3, <1>5, CompactLogged
<1>6. ASSUME NEW p \in Clients,
             \/ \E q \in Clients : Pull(p, q)
             \/ Publish(p)
             \/ \E m \in msgs : Deliver(p, m)
      PROVE  LInv' /\ Log!Next
  BY <1>3, <1>6, ExchangeLogged
<1>7. ASSUME Apply PROVE LInv' /\ Log!Next
  BY <1>3, <1>7, ApplyLogged
<1>8. ASSUME UNCHANGED vars
      PROVE  LInv' /\ UNCHANGED << Written, Executed, ds >>
  <2>1. UNCHANGED << store, ds, job, msgs >>
    BY <1>8 DEF vars, docVars
  <2>2. UNCHANGED << Written, Executed, ds >>
    BY <2>1 DEF Written, Executed
  <2>3. DeletesKnown'
    BY <2>1 DEF LInv, DeletesKnown
  <2> QED
    BY <1>1, <2>2, <2>3 DEF LInv
<1> QED
  BY <1>4, <1>5, <1>6, <1>7, <1>8 DEF Next

\* Whatever is edited, exchanged, lost, repeated, reordered or compacted, a
\* net of documents is a log per client that nobody rewrites, of which each
\* document has executed a causally closed prefix, and deletions only of
\* what some document held (apply_one, StructStore::append, DeleteSet).
THEOREM DocumentsAreLogs == Spec => ImplementsLog
<1>1. Init => LInv /\ Log!Init
  BY InitLogged
<1>2. LInv /\ [Next]_vars => LInv' /\ [Log!Next]_<< Written, Executed, ds >>
  BY NextLogged
<1> QED
  BY <1>1, <1>2, PTL DEF Spec, ImplementsLog, Log!Spec
=============================================================================
