-------------------------- MODULE AwarenessProofs ---------------------------
(***************************************************************************)
(* That presence tables hold nothing but what was published, never go back *)
(* to an older state, and never replace what a peer that has not restarted *)
(* says of itself.                                                         *)
(***************************************************************************)
EXTENDS Awareness, SequenceTheorems, TLAPS

-----------------------------------------------------------------------------
(* The inductive invariant.                                                *)

\* The types the arguments need.  (The order of the clients is left out: it
\* decides which entries are reached, and that does not matter here.)
Typed ==
  /\ entries \in [ Peers -> Tables ]
  /\ \A m \in msgs : m.entries \in Tables
  /\ published \in [ Peers -> Seq(Entry) ]
  /\ restarts \in [ Peers -> Nat ]

\* The tables in flight are as truthful as those held.
TruthfulInFlight ==
  \A m \in msgs : \A c \in Peers :
    Carries(m, c) => m.entries[c] \in ToSet(published[c])

TInv == Typed /\ Truthful /\ TruthfulInFlight

\* What one step of each kind does to the tables: publishing replaces the
\* peer's own entry by one with a higher clock and records it.
LEMMA PublishStep ==
  ASSUME Typed, NEW p \in Peers, NEW s \in States, Publish(p, s)
  PROVE  \E e \in Entry :
           /\ entries' = [entries EXCEPT ![p][p] = e]
           /\ published' = [published EXCEPT ![p] = Append(@, e)]
           /\ Known(p, p) => e.clock > entries[p][p].clock
           /\ msgs' = msgs /\ restarts' = restarts
<1>1. entries[p] \in Tables /\ entries[p][p] \in Entry \cup {Unknown}
  BY DEF Typed, Tables
<1>2. CASE Known(p, p)
  <2> DEFINE e == [clock |-> entries[p][p].clock + 1, state |-> s]
  <2>1. entries[p][p] \in Entry
    BY <1>1, <1>2 DEF Known
  <2>2. e \in Entry /\ e.clock > entries[p][p].clock
    BY <2>1 DEF Entry
  <2>3. entries' = [entries EXCEPT ![p][p] = e]
    BY <1>2 DEF Publish
  <2>4. entries'[p][p] = e
    BY <1>1, <2>3 DEF Typed, Tables
  <2> QED
    BY <2>2, <2>3, <2>4 DEF Publish
<1>3. CASE ~Known(p, p)
  <2> DEFINE e == [clock |-> 1, state |-> s]
  <2>1. e \in Entry
    BY DEF Entry
  <2>2. entries' = [entries EXCEPT ![p][p] = e]
    BY <1>3 DEF Publish
  <2>3. entries'[p][p] = e
    BY <1>1, <2>2 DEF Typed, Tables
  <2> QED
    BY <1>3, <2>1, <2>2, <2>3 DEF Publish
<1> QED
  BY <1>2, <1>3

\* Merging leaves each entry alone or replaces it by the one carried, and a
\* known entry only by one with a higher clock.
LEMMA MergeStep ==
  ASSUME Typed, NEW p \in Peers, NEW m, m.entries \in Tables, Merge(p, m)
  PROVE  /\ entries' \in [ Peers -> Tables ]
         /\ \A q, c \in Peers :
              \/ entries'[q][c] = entries[q][c]
              \/ /\ q = p /\ Carries(m, c) /\ entries'[q][c] = m.entries[c]
                 /\ Known(p, c) => m.entries[c].clock > entries[p][c].clock
         /\ msgs' = msgs /\ published' = published /\ restarts' = restarts
<1>1. entries' = [entries EXCEPT ![p] = Merged(p, m)]
  BY DEF Merge
<1>2. \A c \in Peers :
        \/ Merged(p, m)[c] = entries[p][c]
        \/ /\ Carries(m, c) /\ Merged(p, m)[c] = m.entries[c]
           /\ Known(p, c) => m.entries[c].clock > entries[p][c].clock
  BY DEF Merged, Newer
<1>3. Merged(p, m) \in Tables
  <2>1. \A c \in Peers : Merged(p, m)[c] \in Entry \cup {Unknown}
    BY <1>2 DEF Typed, Tables
  <2>2. Merged(p, m) = [c \in Peers |-> Merged(p, m)[c]]
    BY DEF Merged
  <2> QED
    BY <2>1, <2>2 DEF Tables
<1>4. \A q \in Peers : entries'[q] = IF q = p THEN Merged(p, m) ELSE entries[q]
  BY <1>1 DEF Typed
<1>5. entries' \in [ Peers -> Tables ]
  BY <1>1, <1>3 DEF Typed
<1> QED
  BY <1>2, <1>4, <1>5 DEF Merge

\* Every table that is merged is one held or one in flight.
LEMMA MergedIsTable ==
  ASSUME Typed
  PROVE  /\ \A m \in msgs : m.entries \in Tables
         /\ \A q \in Peers : Table(q).entries = entries[q] /\ entries[q] \in Tables
BY DEF Typed, Table

\* What was published stays published.
LEMMA PublishedStays ==
  ASSUME Typed, NEW p \in Peers, NEW e \in Entry,
         published' = [published EXCEPT ![p] = Append(@, e)]
  PROVE  /\ published' \in [ Peers -> Seq(Entry) ]
         /\ \A c \in Peers : ToSet(published[c]) \subseteq ToSet(published'[c])
         /\ e \in ToSet(published'[p])
<1>1. published[p] \in Seq(Entry)
  BY DEF Typed
<1>2. /\ Append(published[p], e) \in Seq(Entry)
      /\ Len(Append(published[p], e)) = Len(published[p]) + 1
      /\ Append(published[p], e)[Len(published[p]) + 1] = e
      /\ \A i \in 1 .. Len(published[p]) :
           Append(published[p], e)[i] = published[p][i]
  BY <1>1, AppendProperties
<1>3. ToSet(published[p]) \subseteq ToSet(Append(published[p], e))
  BY <1>1, <1>2 DEF ToSet
<1>4. e \in ToSet(Append(published[p], e))
  BY <1>1, <1>2 DEF ToSet
<1>5. \A c \in Peers : published'[c] = IF c = p THEN Append(published[p], e)
                                       ELSE published[c]
  BY DEF Typed
<1>6. published' \in [ Peers -> Seq(Entry) ]
  BY <1>2 DEF Typed
<1> QED
  BY <1>3, <1>4, <1>5, <1>6

-----------------------------------------------------------------------------
(* Truthful tables.                                                        *)

LEMMA TInvInit == Init => TInv
<1> SUFFICES ASSUME Init PROVE TInv
  OBVIOUS
<1>1. Empty \in Tables /\ \A c \in Peers : Empty[c] = Unknown
  BY DEF Empty, Tables
<1>2. Typed
  BY <1>1 DEF Init, Typed
<1>3. Truthful
  BY <1>1 DEF Init, Truthful, Known
<1>4. TruthfulInFlight
  BY DEF Init, TruthfulInFlight
<1> QED
  BY <1>2, <1>3, <1>4 DEF TInv

\* Publishing keeps the tables truthful.
LEMMA TInvPublish ==
  ASSUME TInv, NEW p \in Peers, NEW s \in States, Publish(p, s)
  PROVE  TInv'
<1> USE DEF TInv
<1>1. PICK e \in Entry :
        /\ entries' = [entries EXCEPT ![p][p] = e]
        /\ published' = [published EXCEPT ![p] = Append(@, e)]
        /\ msgs' = msgs /\ restarts' = restarts
  BY PublishStep
<1>2. /\ published' \in [ Peers -> Seq(Entry) ]
      /\ \A c \in Peers : ToSet(published[c]) \subseteq ToSet(published'[c])
      /\ e \in ToSet(published'[p])
  BY <1>1, PublishedStays
<1>3. \A q, c \in Peers :
        entries'[q][c] = IF q = p /\ c = p THEN e ELSE entries[q][c]
  BY <1>1 DEF Typed, Tables
<1>4. Typed'
  <2>1. entries' \in [ Peers -> Tables ]
    BY <1>1 DEF Typed, Tables
  <2> QED
    BY <1>1, <1>2, <2>1 DEF Typed
<1>5. Truthful'
  BY <1>2, <1>3 DEF Truthful, Known
<1>6. TruthfulInFlight'
  BY <1>1, <1>2 DEF TruthfulInFlight, Carries
<1> QED
  BY <1>4, <1>5, <1>6

\* Merging a truthful table keeps the tables truthful.
LEMMA TInvMerge ==
  ASSUME TInv, NEW p \in Peers, NEW m, m.entries \in Tables, Merge(p, m),
         \A c \in Peers : Carries(m, c) => m.entries[c] \in ToSet(published[c])
  PROVE  TInv'
<1> USE DEF TInv
<1>1. /\ entries' \in [ Peers -> Tables ]
      /\ \A q, c \in Peers :
           \/ entries'[q][c] = entries[q][c]
           \/ q = p /\ Carries(m, c) /\ entries'[q][c] = m.entries[c]
      /\ msgs' = msgs /\ published' = published /\ restarts' = restarts
  BY MergeStep
<1>2. Typed'
  BY <1>1 DEF Typed
<1>3. Truthful'
  BY <1>1 DEF Truthful, Known
<1>4. TruthfulInFlight'
  BY <1>1 DEF TruthfulInFlight, Carries
<1> QED
  BY <1>2, <1>3, <1>4

LEMMA TInvNext == TInv /\ [Next]_vars => TInv'
<1> SUFFICES ASSUME TInv, [Next]_vars PROVE TInv'
  OBVIOUS
<1>1. ASSUME NEW p \in Peers, NEW s \in States, Publish(p, s) PROVE TInv'
  BY <1>1, TInvPublish
<1>2. ASSUME NEW p \in Peers, Send(p) PROVE TInv'
  <2>1. /\ msgs' = msgs \cup {Table(p)}
        /\ entries' = entries /\ published' = published /\ restarts' = restarts
    BY <1>2 DEF Send
  <2>2. Table(p).entries = entries[p] /\ entries[p] \in Tables
    BY MergedIsTable DEF TInv
  <2>3. Typed'
    BY <2>1, <2>2 DEF TInv, Typed
  <2>4. Truthful'
    BY <2>1 DEF TInv, Truthful, Known
  <2>5. TruthfulInFlight'
    BY <2>1, <2>2 DEF TInv, Truthful, Known, TruthfulInFlight, Carries
  <2> QED
    BY <2>3, <2>4, <2>5 DEF TInv
<1>3. ASSUME NEW p \in Peers, Apply(p) PROVE TInv'
  <2>1. PICK m \in msgs : Merge(p, m)
    BY <1>3 DEF Apply
  <2>2. m.entries \in Tables
    BY MergedIsTable DEF TInv
  <2> QED
    BY <2>1, <2>2, TInvMerge DEF TInv, TruthfulInFlight
<1>4. ASSUME NEW p \in Peers, NEW q \in Peers, Exchange(q, p) PROVE TInv'
  <2>1. Merge(p, Table(q))
    BY <1>4 DEF Exchange
  <2>2. Table(q).entries = entries[q] /\ entries[q] \in Tables
    BY MergedIsTable DEF TInv
  <2>3. \A c \in Peers :
          Carries(Table(q), c) => Table(q).entries[c] \in ToSet(published[c])
    BY <2>2 DEF TInv, Truthful, Known, Carries
  <2> QED
    BY <2>1, <2>2, <2>3, TInvMerge
<1>5. ASSUME NEW p \in Peers, Restart(p) PROVE TInv'
  <2>1. /\ entries' = [entries EXCEPT ![p] = Empty]
        /\ restarts' = [restarts EXCEPT ![p] = @ + 1]
        /\ msgs' = msgs /\ published' = published
    BY <1>5 DEF Restart
  <2>2. Empty \in Tables /\ \A c \in Peers : Empty[c] = Unknown
    BY DEF Empty, Tables
  <2>3. \A q \in Peers : entries'[q] = IF q = p THEN Empty ELSE entries[q]
    BY <2>1 DEF TInv, Typed
  <2>4. Typed'
    BY <2>1, <2>2 DEF TInv, Typed
  <2>5. Truthful'
    BY <2>1, <2>2, <2>3 DEF TInv, Truthful, Known
  <2>6. TruthfulInFlight'
    BY <2>1 DEF TInv, TruthfulInFlight, Carries
  <2> QED
    BY <2>4, <2>5, <2>6 DEF TInv
<1>6. CASE UNCHANGED vars
  BY <1>6 DEF vars, TInv, Typed, Truthful, TruthfulInFlight, Known, Carries
<1> QED
  BY <1>1, <1>2, <1>3, <1>4, <1>5, <1>6 DEF Next

\* No table holds a state its client never published (publish, apply).
THEOREM TablesTruthful == Spec => []Truthful
<1>1. TInv => Truthful
  BY DEF TInv
<1> QED
  BY <1>1, TInvInit, TInvNext, PTL DEF Spec

\* A late, repeated or relayed table never takes a table back to an older
\* state of a client (merge_remote).
THEOREM NoReturn == Spec => NeverBack
<1> DEFINE Step ==
      \A p, c \in Peers :
        restarts'[p] = restarts[p] /\ Known(p, c) =>
          /\ Known(p, c)'
          /\ entries'[p][c] # entries[p][c] =>
               entries'[p][c].clock > entries[p][c].clock
<1>1. TInv /\ [Next]_vars => [Step]_vars
  <2> SUFFICES ASSUME TInv, Next PROVE Step
    OBVIOUS
  <2> SUFFICES ASSUME NEW q \in Peers, NEW c \in Peers,
                      restarts'[q] = restarts[q], Known(q, c)
               PROVE  /\ Known(q, c)'
                      /\ entries'[q][c] # entries[q][c] =>
                           entries'[q][c].clock > entries[q][c].clock
    OBVIOUS
  <2> USE DEF TInv
  <2>1. ASSUME NEW p \in Peers, NEW s \in States, Publish(p, s)
        PROVE  /\ Known(q, c)'
               /\ entries'[q][c] # entries[q][c] =>
                    entries'[q][c].clock > entries[q][c].clock
    <3>1. PICK e \in Entry :
            /\ entries' = [entries EXCEPT ![p][p] = e]
            /\ Known(p, p) => e.clock > entries[p][p].clock
      BY <2>1, PublishStep
    <3>2. entries'[q][c] = IF q = p /\ c = p THEN e ELSE entries[q][c]
      BY <3>1 DEF Typed, Tables
    <3>3. e # Unknown
      BY UnknownAssumption DEF Entry
    <3> QED
      BY <3>1, <3>2, <3>3 DEF Known
  <2>2. ASSUME NEW p \in Peers, NEW m, m.entries \in Tables, Merge(p, m)
        PROVE  /\ Known(q, c)'
               /\ entries'[q][c] # entries[q][c] =>
                    entries'[q][c].clock > entries[q][c].clock
    <3>1. \/ entries'[q][c] = entries[q][c]
          \/ /\ q = p /\ Carries(m, c) /\ entries'[q][c] = m.entries[c]
             /\ Known(p, c) => m.entries[c].clock > entries[p][c].clock
      BY <2>2, MergeStep
    <3> QED
      BY <3>1 DEF Known, Carries
  <2>3. ASSUME NEW p \in Peers, Send(p)
        PROVE  /\ Known(q, c)'
               /\ entries'[q][c] # entries[q][c] =>
                    entries'[q][c].clock > entries[q][c].clock
    BY <2>3 DEF Send, Known
  <2>4. ASSUME NEW p \in Peers, Restart(p)
        PROVE  q # p /\ entries'[q] = entries[q]
    <3>1. restarts' = [restarts EXCEPT ![p] = @ + 1]
      BY <2>4 DEF Restart
    <3>2. q # p
      BY <3>1 DEF Typed
    <3> QED
      BY <2>4, <3>2 DEF Restart, Typed
  <2>5. ASSUME NEW p \in Peers, Apply(p)
        PROVE  \E m : m.entries \in Tables /\ Merge(p, m)
    BY <2>5, MergedIsTable DEF Apply
  <2>6. ASSUME NEW p \in Peers, NEW r \in Peers, Exchange(r, p)
        PROVE  \E m : m.entries \in Tables /\ Merge(p, m)
    BY <2>6, MergedIsTable DEF Exchange
  <2> QED
    BY <2>1, <2>2, <2>3, <2>4, <2>5, <2>6 DEF Next, Known
<1>2. Spec => [][Step]_vars
  <2> HIDE DEF Step
  <2> QED
    BY <1>1, TInvInit, TInvNext, PTL DEF Spec
<1> QED
  BY <1>2 DEF NeverBack

-----------------------------------------------------------------------------
(* What a peer says of itself.                                             *)

\* Of a peer that has not restarted, no table holds a state newer than the
\* peer's own.
OwnNewest ==
  \A c \in Peers : restarts[c] = 0 =>
    /\ \A p \in Peers :
         Known(p, c) => /\ Known(c, c)
                        /\ entries[p][c].clock <= entries[c][c].clock
    /\ \A m \in msgs :
         Carries(m, c) => /\ Known(c, c)
                          /\ m.entries[c].clock <= entries[c][c].clock

Older(t, c) ==
  t[c] # Unknown => Known(c, c) /\ t[c].clock <= entries[c][c].clock

\* A table that is not ahead of any peer's own state merges without touching
\* what a peer says of itself.
LEMMA OwnKept ==
  ASSUME Typed, NEW p \in Peers, NEW m, m.entries \in Tables, Merge(p, m),
         NEW c \in Peers, Older(m.entries, c)
  PROVE  entries'[c][c] = entries[c][c]
<1>1. \/ entries'[c][c] = entries[c][c]
      \/ /\ c = p /\ Carries(m, c)
         /\ Known(c, c) => m.entries[c].clock > entries[c][c].clock
  BY MergeStep
<1>2. SUFFICES ASSUME c = p, Carries(m, c), Known(c, c),
                      m.entries[c].clock > entries[c][c].clock
               PROVE  FALSE
  BY <1>1 DEF Older, Carries
<1>3. m.entries[c].clock \in Nat /\ entries[c][c].clock \in Nat
  <2>1. m.entries[c] \in Entry /\ entries[c][c] \in Entry
    BY <1>2 DEF Typed, Tables, Carries, Known
  <2> QED
    BY <2>1 DEF Entry
<1>4. m.entries[c].clock <= entries[c][c].clock
  BY <1>2 DEF Older, Carries
<1> QED
  BY <1>2, <1>3, <1>4

LEMMA OwnMerge ==
  ASSUME Typed, OwnNewest, NEW p \in Peers, NEW m, m.entries \in Tables,
         Merge(p, m), \A c \in Peers : restarts[c] = 0 => Older(m.entries, c)
  PROVE  /\ OwnNewest'
         /\ \A c \in Peers : restarts'[c] = 0 => entries'[c][c] = entries[c][c]
<1>1. /\ \A q, c \in Peers :
           \/ entries'[q][c] = entries[q][c]
           \/ Carries(m, c) /\ entries'[q][c] = m.entries[c]
      /\ msgs' = msgs /\ restarts' = restarts
  BY MergeStep
<1>2. \A c \in Peers : restarts[c] = 0 => entries'[c][c] = entries[c][c]
  BY OwnKept
<1>3. ASSUME NEW c \in Peers, restarts[c] = 0, NEW q \in Peers, Known(q, c)'
      PROVE  Known(c, c)' /\ entries'[q][c].clock <= entries'[c][c].clock
  BY <1>1, <1>2, <1>3 DEF OwnNewest, Older, Known, Carries
<1>4. ASSUME NEW c \in Peers, restarts[c] = 0, NEW n \in msgs, Carries(n, c)
      PROVE  Known(c, c)' /\ n.entries[c].clock <= entries'[c][c].clock
  BY <1>2, <1>4 DEF OwnNewest, Known
<1> QED
  BY <1>1, <1>2, <1>3, <1>4 DEF OwnNewest, Carries

LEMMA OwnPublish ==
  ASSUME Typed, OwnNewest, NEW p \in Peers, NEW s \in States, Publish(p, s)
  PROVE  OwnNewest'
<1>1. PICK e \in Entry :
        /\ entries' = [entries EXCEPT ![p][p] = e]
        /\ Known(p, p) => e.clock > entries[p][p].clock
        /\ msgs' = msgs /\ restarts' = restarts
  BY PublishStep
<1>2. \A q, c \in Peers :
        entries'[q][c] = IF q = p /\ c = p THEN e ELSE entries[q][c]
  BY <1>1 DEF Typed, Tables
<1>3. e # Unknown /\ e.clock \in Nat
  BY UnknownAssumption DEF Entry
<1>4. \A q, c \in Peers : Known(q, c) => entries[q][c].clock \in Nat
  BY DEF Typed, Tables, Known, Entry
<1>5. \A n \in msgs : \A c \in Peers : Carries(n, c) => n.entries[c].clock \in Nat
  BY DEF Typed, Tables, Carries, Entry
<1>6. \A c \in Peers : Known(c, c) =>
        Known(c, c)' /\ entries[c][c].clock <= entries'[c][c].clock
  BY <1>1, <1>2, <1>3, <1>4 DEF Known
<1>7. \A c \in Peers : Known(c, c)' => entries'[c][c].clock \in Nat
  BY <1>2, <1>3, <1>4 DEF Known
<1>8. ASSUME NEW c \in Peers, restarts[c] = 0, NEW q \in Peers, Known(q, c)'
      PROVE  Known(c, c)' /\ entries'[q][c].clock <= entries'[c][c].clock
  <2>1. CASE q = p /\ c = p
    BY <1>7, <1>8, <2>1
  <2>2. CASE ~(q = p /\ c = p)
    <3>1. entries'[q][c] = entries[q][c] /\ Known(q, c)
      BY <1>2, <1>8, <2>2 DEF Known
    <3>2. Known(c, c) /\ entries[q][c].clock <= entries[c][c].clock
      BY <1>8, <3>1 DEF OwnNewest
    <3> QED
      BY <1>4, <1>6, <1>7, <3>1, <3>2
  <2> QED
    BY <2>1, <2>2
<1>9. ASSUME NEW c \in Peers, restarts[c] = 0, NEW n \in msgs, Carries(n, c)
      PROVE  Known(c, c)' /\ n.entries[c].clock <= entries'[c][c].clock
  <2>1. Known(c, c) /\ n.entries[c].clock <= entries[c][c].clock
    BY <1>9 DEF OwnNewest
  <2> QED
    BY <1>4, <1>5, <1>6, <1>7, <1>9, <2>1
<1> QED
  BY <1>1, <1>8, <1>9 DEF OwnNewest, Carries

LEMMA OwnRestart ==
  ASSUME Typed, OwnNewest, NEW p \in Peers, Restart(p)
  PROVE  OwnNewest' /\ restarts'[p] # 0
<1>1. /\ entries' = [entries EXCEPT ![p] = Empty]
      /\ restarts' = [restarts EXCEPT ![p] = @ + 1]
      /\ msgs' = msgs
  BY DEF Restart
<1>2. \A q \in Peers : entries'[q] = IF q = p THEN Empty ELSE entries[q]
  BY <1>1 DEF Typed
<1>3. \A c \in Peers : Empty[c] = Unknown
  BY DEF Empty
<1>4. \A q \in Peers : restarts'[q] = IF q = p THEN restarts[p] + 1 ELSE restarts[q]
  BY <1>1 DEF Typed
<1>5. restarts'[p] # 0
  BY <1>4 DEF Typed
<1>6. ASSUME NEW c \in Peers, restarts'[c] = 0
      PROVE  c # p /\ restarts[c] = 0 /\ entries'[c][c] = entries[c][c]
  BY <1>2, <1>4, <1>5, <1>6
<1>7. ASSUME NEW c \in Peers, restarts'[c] = 0, NEW q \in Peers, Known(q, c)'
      PROVE  entries'[q][c] = entries[q][c]
  BY <1>2, <1>3, <1>7 DEF Known
<1> QED
  BY <1>1, <1>5, <1>6, <1>7 DEF OwnNewest, Known, Carries

\* What is merged, in whatever way, is no newer than its owner's own state.
LEMMA OwnSources ==
  ASSUME OwnNewest, NEW c \in Peers, restarts[c] = 0
  PROVE  /\ \A m \in msgs : Older(m.entries, c)
         /\ \A q \in Peers : Older(Table(q).entries, c)
BY DEF OwnNewest, Older, Known, Carries, Table

LEMMA OwnNewestNext == TInv /\ OwnNewest /\ [Next]_vars => OwnNewest'
<1> SUFFICES ASSUME TInv, OwnNewest, [Next]_vars PROVE OwnNewest'
  OBVIOUS
<1>0. Typed
  BY DEF TInv
<1>1. ASSUME NEW p \in Peers, NEW s \in States, Publish(p, s) PROVE OwnNewest'
  BY <1>0, <1>1, OwnPublish
<1>2. ASSUME NEW p \in Peers, Send(p) PROVE OwnNewest'
  BY <1>2 DEF Send, Table, OwnNewest, Known, Carries
<1>3. ASSUME NEW p \in Peers, Apply(p) PROVE OwnNewest'
  <2>1. PICK m \in msgs : Merge(p, m)
    BY <1>3 DEF Apply
  <2> QED
    BY <1>0, <2>1, MergedIsTable, OwnSources, OwnMerge
<1>4. ASSUME NEW p \in Peers, NEW q \in Peers, Exchange(q, p) PROVE OwnNewest'
  <2>1. Merge(p, Table(q))
    BY <1>4 DEF Exchange
  <2>2. Table(q).entries \in Tables
    BY <1>0, MergedIsTable
  <2>3. \A c \in Peers : restarts[c] = 0 => Older(Table(q).entries, c)
    BY OwnSources
  <2> QED
    BY <1>0, <2>1, <2>2, <2>3, OwnMerge
<1>5. ASSUME NEW p \in Peers, Restart(p) PROVE OwnNewest'
  BY <1>0, <1>5, OwnRestart
<1>6. CASE UNCHANGED vars
  BY <1>6 DEF vars, OwnNewest, Known, Carries
<1> QED
  BY <1>1, <1>2, <1>3, <1>4, <1>5, <1>6 DEF Next

\* As long as a peer has not restarted, only its own publish changes what its
\* table says of it, whatever comes back from others (publish, merge_remote).
THEOREM OwnStateKept == Spec => OwnStateStands
<1> DEFINE Step ==
      \A p \in Peers :
        Known(p, p) /\ restarts'[p] = 0 /\ entries'[p][p] # entries[p][p] =>
          published'[p] # published[p]
<1>1. Init => OwnNewest
  BY DEF Init, OwnNewest, Known, Carries, Empty
<1>2. TInv /\ OwnNewest /\ [Next]_vars => [Step]_vars
  <2> SUFFICES ASSUME TInv, OwnNewest, Next,
                      NEW c \in Peers, restarts'[c] = 0,
                      entries'[c][c] # entries[c][c]
               PROVE  published'[c] # published[c]
    OBVIOUS
  <2>0. Typed
    BY DEF TInv
  <2>1. ASSUME NEW p \in Peers, NEW s \in States, Publish(p, s)
        PROVE  published'[c] # published[c]
    <3>1. PICK e \in Entry :
            /\ entries' = [entries EXCEPT ![p][p] = e]
            /\ published' = [published EXCEPT ![p] = Append(@, e)]
      BY <2>0, <2>1, PublishStep
    <3>2. c = p
      BY <2>0, <3>1 DEF Typed, Tables
    <3>3. published'[p] = Append(published[p], e) /\ published[p] \in Seq(Entry)
      BY <2>0, <3>1 DEF Typed
    <3>4. Len(Append(published[p], e)) # Len(published[p])
      BY <3>3, AppendProperties, LenProperties
    <3> QED
      BY <3>2, <3>3, <3>4
  <2>2. ASSUME NEW p \in Peers, NEW m, m.entries \in Tables, Merge(p, m),
               \A d \in Peers : restarts[d] = 0 => Older(m.entries, d)
        PROVE  FALSE
    BY <2>0, <2>2, OwnMerge
  <2>3. ASSUME NEW p \in Peers, Restart(p) PROVE FALSE
    <3>1. c # p
      BY <2>0, <2>3, OwnRestart
    <3> QED
      BY <2>0, <2>3, <3>1 DEF Restart, Typed
  <2>4. ASSUME NEW p \in Peers, Send(p) PROVE FALSE
    BY <2>4 DEF Send
  <2>5. ASSUME NEW p \in Peers, Apply(p) PROVE FALSE
    <3>1. PICK m \in msgs : Merge(p, m)
      BY <2>5 DEF Apply
    <3> QED
      BY <2>0, <2>2, <3>1, MergedIsTable, OwnSources
  <2>6. ASSUME NEW p \in Peers, NEW q \in Peers, Exchange(q, p) PROVE FALSE
    <3>1. Merge(p, Table(q))
      BY <2>6 DEF Exchange
    <3>2. Table(q).entries \in Tables
      BY <2>0, MergedIsTable
    <3>3. \A d \in Peers : restarts[d] = 0 => Older(Table(q).entries, d)
      BY OwnSources
    <3> QED
      BY <2>2, <3>1, <3>2, <3>3
  <2> QED
    BY <2>1, <2>3, <2>4, <2>5, <2>6 DEF Next
<1>3. Spec => [][Step]_vars
  <2> HIDE DEF Step
  <2> QED
    BY <1>1, <1>2, OwnNewestNext, TInvInit, TInvNext, PTL DEF Spec
<1> QED
  BY <1>3 DEF OwnStateStands
=============================================================================
