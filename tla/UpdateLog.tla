----------------------------- MODULE UpdateLog ------------------------------
(***************************************************************************)
(* What a net of documents promises, whatever updates it loses, repeats or *)
(* reorders: every client writes a log, clock after clock, that nobody     *)
(* changes, and every document has executed a prefix of every log, closed  *)
(* under what the executed entries refer to.  Deletions are sets of clocks *)
(* that only grow, and each starts at a document that holds what is        *)
(* deleted.                                                                *)
(*                                                                         *)
(* An entry is << id, length, left origin, right origin >>.                *)
(***************************************************************************)
EXTENDS Naturals, Sequences

CONSTANTS Clients, Entries

VARIABLES
  log,    \* log[c]: what client c has written
  has,    \* has[p][c]: how much of it document p has executed
  dead    \* dead[p]: the clocks document p knows to be deleted

Init ==
  /\ log = [c \in Clients |-> << >>]
  /\ has = [p \in Clients |-> [c \in Clients |-> 0]]
  /\ dead = [p \in Clients |-> {}]

EndOf(e) == e[1][2] + e[2]
Clocks(e) == { e[1][1] } \X (e[1][2] .. (EndOf(e) - 1))
Needs(e) == { e[3], e[4] } \ { << >> }

\* The clocks of what a document has executed.
Held(p) ==
  UNION { UNION { Clocks(log[c][i]) : i \in 1 .. has[p][c] } : c \in Clients }

NextClock(c) == IF log[c] = << >> THEN 0 ELSE EndOf(log[c][Len(log[c])])

\* A client, having executed all of its own log, writes the next entry.
Emit(p) ==
  /\ has[p][p] = Len(log[p])
  /\ Len(log'[p]) = Len(log[p]) + 1
  /\ LET e == log'[p][Len(log[p]) + 1]
     IN  /\ e \in Entries
         /\ e[1] = << p, NextClock(p) >>
         /\ Needs(e) \subseteq Held(p)
         /\ log' = [log EXCEPT ![p] = Append(@, e)]
  /\ has' = [has EXCEPT ![p][p] = @ + 1]

\* A document executes the next entry of a log.
Execute(p, c) ==
  /\ has[p][c] < Len(log[c])
  /\ Needs(log[c][has[p][c] + 1]) \subseteq Held(p)
  /\ has' = [has EXCEPT ![p][c] = @ + 1]
  /\ UNCHANGED log

\* A document deletes some of what it holds, or learns of a deletion.
Delete(p) ==
  /\ dead' = [dead EXCEPT ![p] = dead'[p]]
  /\ dead[p] \subseteq dead'[p]
  /\ dead'[p] \subseteq Held(p)' \cup UNION { dead[q] : q \in Clients }

Next ==
  \E p \in Clients :
    /\ \/ Emit(p)
       \/ \E c \in Clients : Execute(p, c)
       \/ UNCHANGED << log, has >>
    /\ Delete(p)

Spec == Init /\ [][Next]_<< log, has, dead >>
=============================================================================
