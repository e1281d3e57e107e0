----------------------------- MODULE Awareness -----------------------------
(***************************************************************************)
(* The table of presence states (ycpp_awareness.h), one per peer.          *)
(*                                                                         *)
(* A peer publishes its own state, sends its whole table (encode_all) and  *)
(* applies tables it receives.  Tables are lost, repeated and overtaken at *)
(* will; a peer that restarts has lost its table, which is kept in memory  *)
(* only.  Left out: the bytes of a state and its size limit, running out   *)
(* of memory.                                                              *)
(***************************************************************************)
EXTENDS Naturals, FiniteSets, Sequences, SequencesExt

CONSTANTS
  Peers,
  States,       \* the payloads, that of a peer that went offline included
  Unknown,      \* the peer has no entry in the table
  MaxClients,   \* kMaxClients
  Links,        \* << q, p >>: p receives the current table of q
  Restarters,   \* peers that may restart
  Budget,       \* bound on the states each peer publishes
  MaxRestarts,  \* bound on the restarts of a peer
  MaxMessages   \* bound on the tables in flight

ASSUME UnknownAssumption == Unknown \notin [ clock : Nat, state : States ]

VARIABLES
  entries,        \* entries_, per peer
  client_order,   \* client_order_[0 .. client_order_size_)
  msgs,           \* every table sent so far
  published,      \* what each peer has published, in order
  restarts        \* how often each peer has restarted

vars == << entries, client_order, msgs, published, restarts >>

Entry == [ clock : Nat, state : States ]
Tables == [ Peers -> Entry \cup {Unknown} ]
Messages == [ order : Seq(Peers), entries : Tables ]

TypeOK ==
  /\ entries \in [ Peers -> Tables ]
  /\ client_order \in [ Peers -> Seq(Peers) ]
  /\ msgs \subseteq Messages
  /\ published \in [ Peers -> Seq(Entry) ]
  /\ restarts \in [ Peers -> Nat ]

Empty == [c \in Peers |-> Unknown]

Init ==
  /\ entries = [p \in Peers |-> Empty]
  /\ client_order = [p \in Peers |-> << >>]
  /\ msgs = {}
  /\ published = [p \in Peers |-> << >>]
  /\ restarts = [p \in Peers |-> 0]

Known(p, c) == entries[p][c] # Unknown

\* publish(client_id, state) by the peer that owns the client id.
KeepsClock(p, s) ==   \* mutant: the clock stands still
  /\ Len(published[p]) < Budget[p]
  /\ LET e == [clock |-> 1, state |-> s] IN
       /\ entries' = [entries EXCEPT ![p][p] = e]
       /\ published' = [published EXCEPT ![p] = Append(@, e)]
  /\ client_order' = [client_order EXCEPT ![p] = IF Known(p, p) THEN @ ELSE Append(@, p)]
  /\ UNCHANGED << msgs, restarts >>
Publish(p, s) ==
  /\ Len(published[p]) < Budget[p]
  /\ \/ /\ Known(p, p)
        /\ entries' = [entries EXCEPT
             ![p][p] = [clock |-> entries[p][p].clock + 1, state |-> s]]
        /\ UNCHANGED client_order
     \/ /\ ~Known(p, p)
        /\ Len(client_order[p]) < MaxClients
        /\ entries' = [entries EXCEPT ![p][p] = [clock |-> 1, state |-> s]]
        /\ client_order' = [client_order EXCEPT ![p] = Append(@, p)]
  /\ published' = [published EXCEPT ![p] = Append(@, entries'[p][p])]
  /\ UNCHANGED << msgs, restarts >>

\* encode_all()
Table(p) == [ order |-> client_order[p], entries |-> entries[p] ]

Send(p) ==
  /\ Cardinality(msgs) < MaxMessages
  /\ msgs' = msgs \cup {Table(p)}
  /\ UNCHANGED << entries, client_order, published, restarts >>

-----------------------------------------------------------------------------
(* apply(wire)                                                             *)

\* The clients the loop comes to: it returns an error at the first client
\* that has no entry yet when the table is full.
Reached(p, m) ==
  { m.order[i] : i \in { j \in DOMAIN m.order :
      Cardinality({ k \in 1 .. j : ~Known(p, m.order[k]) })
        <= MaxClients - Len(client_order[p]) } }

\* The message has an entry for c (then c is in its order).
Carries(m, c) == m.entries[c] # Unknown

\* merge_remote: a known client's entry gives way to a higher clock only.
LastComes(p, e, c) == e # Unknown   \* mutant: whatever arrives replaces
Newer(p, e, c) == ~Known(p, c) \/ e.clock > entries[p][c].clock

ClockOnly(p, m) ==   \* mutant: a known client's state is not copied
  [c \in Peers |->
     IF Carries(m, c) /\ c \in Reached(p, m) /\ Newer(p, m.entries[c], c)
     THEN IF Known(p, c) THEN [entries[p][c] EXCEPT !.clock = m.entries[c].clock]
          ELSE m.entries[c]
     ELSE entries[p][c]]
Merged(p, m) ==
  [c \in Peers |->
     IF Carries(m, c) /\ c \in Reached(p, m) /\ Newer(p, m.entries[c], c)
     THEN m.entries[c] ELSE entries[p][c]]

Merge(p, m) ==
  /\ entries' = [entries EXCEPT ![p] = Merged(p, m)]
  /\ client_order' = [client_order EXCEPT ![p] = @ \o
       SelectSeq(m.order, LAMBDA c : ~Known(p, c) /\ c \in Reached(p, m))]
  /\ UNCHANGED << msgs, published, restarts >>

\* A table sent at some time arrives.
Apply(p) == \E m \in msgs : Merge(p, m)

\* q answers with the table it has now, and the answer arrives.
Exchange(q, p) == << q, p >> \in Links /\ Merge(p, Table(q))

-----------------------------------------------------------------------------

\* The process comes back with the same client id and an empty table.
Restart(p) ==
  /\ p \in Restarters
  /\ restarts[p] < MaxRestarts
  /\ entries' = [entries EXCEPT ![p] = Empty]
  /\ client_order' = [client_order EXCEPT ![p] = << >>]
  /\ restarts' = [restarts EXCEPT ![p] = @ + 1]
  /\ UNCHANGED << msgs, published >>

Next ==
  \E p \in Peers :
    \/ \E s \in States : Publish(p, s)
    \/ Send(p)
    \/ Apply(p)
    \/ Restart(p)
    \/ \E q \in Peers : Exchange(q, p)

Spec == Init /\ [][Next]_vars

\* Peers keep exchanging tables with their neighbours.
FairSpec == Spec /\ \A p, q \in Peers : WF_vars(Exchange(q, p))

-----------------------------------------------------------------------------

\* No table holds a state its client never published at that clock, however
\* tables were lost, repeated and overtaken and whoever restarted.
Truthful ==
  \A p, c \in Peers : Known(p, c) => entries[p][c] \in ToSet(published[c])

\* A table never goes back to an older state of a client, unless its owner
\* restarts: a late table changes nothing (merge_remote, line 140).
NeverBack ==
  [][ \A p, c \in Peers :
        restarts'[p] = restarts[p] /\ Known(p, c) =>
          /\ Known(p, c)'
          /\ entries'[p][c] # entries[p][c] =>
               entries'[p][c].clock > entries[p][c].clock ]_vars

\* What the table of a peer that has not restarted says of the peer itself is
\* replaced by what the peer publishes and by nothing that comes back from
\* others, whoever else restarted.
OwnStateStands ==
  [][ \A p \in Peers :
        Known(p, p) /\ restarts'[p] = 0 /\ entries'[p][p] # entries[p][p] =>
          published'[p] # published[p] ]_vars

\* When peers stop publishing and go on exchanging, all tables come to hold
\* the same state of every client that has not restarted, even if the peers
\* that carried it to the others did restart.
EventuallyAgree ==
  <>[](\A p, q, c \in Peers :
         restarts[c] = 0 => entries[p][c] = entries[q][c])
=============================================================================
