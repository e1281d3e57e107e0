-------------------------------- MODULE Doc ---------------------------------
(***************************************************************************)
(* Documents that edit, exchange updates and compact (ycpp_doc.h).         *)
(*                                                                         *)
(* There is one Doc per client id.  A Doc is single-threaded and shares    *)
(* nothing with the others, so a local edit is one action.  apply_update   *)
(* is a loop over the structs of an update; each apply_one is an action,   *)
(* and job holds the local variables of the call in progress.  No other    *)
(* action interleaves with a call: every other action waits for NoJob,     *)
(* which loses nothing since no two documents share state.                 *)
(*                                                                         *)
(* Left out: payloads, running out of memory, and the content kinds that   *)
(* only travel through (format, move, embed, type, doc).                   *)
(***************************************************************************)
EXTENDS YArray, YMap

CONSTANTS
  NoJob,       \* no apply_update call in progress
  Budget,      \* Budget[c]: clocks client c may use (bounds the model)
  Deleters,    \* documents that delete list elements
  Compacters,  \* documents that call compact()
  Links,       \* << from, to >>: to pulls from by state-vector exchange
  Publishers,  \* documents that broadcast their changes
  MaxMessages  \* bound on the number of broadcasts

ASSUME BudgetAssumption == Budget \in [Clients -> Nat]

VARIABLES
  store,   \* store_: StructStore, per document
  order,   \* the store's clients in order of first registration
  ds,      \* deletes_: the clocks in the document's delete set
  del,     \* the items whose kFlagDeleted is set
  list,    \* arrays_: the integrated items of each root array, in order
  head,    \* roots_: the head item of each map key
  clock,   \* next_clock_
  job,     \* the apply_update_v1 call in progress
  msgs,    \* every update broadcast so far: any may arrive, late or never
  sent     \* the state vector of the document's previous broadcast

docVars == << store, order, ds, del, list, head, clock >>
vars == << docVars, job, msgs, sent >>

\* An update: structs by client in the sender's client order, and within a
\* client by clock; then the delete set.
Updates == [ order : Seq(Clients), structs : SUBSET Items, ds : SUBSET Ids ]

\* A call: the document, the structs not yet done, those that came back
\* pending in this pass, whether this pass made progress.
Jobs == [ doc : Clients, order : Seq(Clients), todo : SUBSET Items,
          tried : SUBSET Items, progress : BOOLEAN, ds : SUBSET Ids ]

ASSUME NoJobAssumption == NoJob \notin Jobs

\* Every variable has its type.
TypeOK ==
  /\ store \in [Clients -> [Clients -> Seq(Items)]]
  /\ order \in [Clients -> Seq(Clients)]
  /\ ds \in [Clients -> SUBSET Ids]
  /\ del \in [Clients -> SUBSET Ids]
  /\ list \in [Clients -> [Texts -> Seq(Ids)]]
  /\ head \in [Clients -> [Keys -> OptIds]]
  /\ clock \in [Clients -> Nat]
  /\ job \in Jobs \cup {NoJob}
  /\ msgs \subseteq Updates
  /\ sent \in [Clients -> [Clients -> Nat]]

Init ==
  /\ store = [p \in Clients |-> [c \in Clients |-> << >>]]
  /\ order = [p \in Clients |-> << >>]
  /\ ds = [p \in Clients |-> {}]
  /\ del = [p \in Clients |-> {}]
  /\ list = [p \in Clients |-> [t \in Texts |-> << >>]]
  /\ head = [p \in Clients |-> [k \in Keys |-> NoId]]
  /\ clock = [p \in Clients |-> 0]
  /\ job = NoJob
  /\ msgs = {}
  /\ sent = [p \in Clients |-> [c \in Clients |-> 0]]

-----------------------------------------------------------------------------
(* Installing an item that the store accepts.                              *)

\* bump_clock_for(item)
BumpedByAny(p, it) ==   \* mutant: also for another client's item
  IF End(it) > clock[p] THEN [clock EXCEPT ![p] = End(it)] ELSE clock
Bumped(p, it) ==
  IF Client(it) = p /\ End(it) > clock[p]
  THEN [clock EXCEPT ![p] = End(it)] ELSE clock

StoreItem(p, it) ==
  /\ store' = [store EXCEPT ![p] = Appended(store[p], it)]
  /\ order' = [order EXCEPT ![p] = Registered(order[p], Client(it))]

\* install_into_array: the item is spliced into its root's list, or linked
\* behind a detached origin.
InstallIntoArray(p, it) ==
  LET t == it.parent
      l == list[p][t]
      st == Appended(store[p], it)
  IN  /\ ~Overflows(l, st, it)
      /\ StoreItem(p, it)
      /\ \/ /\ Detached(l, st, it)
            /\ UNCHANGED list
         \/ /\ ~Detached(l, st, it)
            /\ \E at \in 0 .. Len(l) :
                 /\ at = SplicePoint(l, st, it)
                 /\ list' = [list EXCEPT ![p][t] = InsertAt(l, at + 1, it.id)]
      /\ clock' = Bumped(p, it)
      /\ UNCHANGED << ds, del, head >>

\* install_into_array when integrate returns kIntegrationFailed: the item is
\* in the store already, but not in the list, and the clock is not bumped.
FailToIntegrate(p, it) ==
  /\ Overflows(list[p][it.parent], Appended(store[p], it), it)
  /\ StoreItem(p, it)
  /\ UNCHANGED << ds, del, list, head, clock >>

\* install_into_map: the loser, if any, is flagged and joins the delete set.
ForgetsLoser(p, it) ==   \* mutant: the value overwritten is not flagged
  LET prior == head[p][it.parent]
      itemWins == SortsRightOf(Appended(store[p], it), prior, it.id)
  IN  /\ StoreItem(p, it)
      /\ head' = IF prior = NoId THEN [head EXCEPT ![p][it.parent] = it.id]
                 ELSE IF itemWins THEN [head EXCEPT ![p][it.parent] = it.id]
                 ELSE head
      /\ clock' = Bumped(p, it)
      /\ UNCHANGED << list, ds, del >>
InstallIntoMap(p, it) ==
  LET k == it.parent
      prior == head[p][k]
      itemWins == SortsRightOf(Appended(store[p], it), prior, it.id)
  IN  /\ StoreItem(p, it)
      /\ \/ /\ prior = NoId
            /\ head' = [head EXCEPT ![p][k] = it.id]
            /\ UNCHANGED << ds, del >>
         \/ /\ prior # NoId /\ itemWins
            /\ head' = [head EXCEPT ![p][k] = it.id]
            /\ del' = [del EXCEPT ![p] = @ \cup {prior}]
            /\ ds' = [ds EXCEPT ![p] = @ \cup ClocksOf(Find(store[p], prior))]
         \/ /\ prior # NoId /\ ~itemWins
            /\ del' = [del EXCEPT ![p] = @ \cup {it.id}]
            /\ ds' = [ds EXCEPT ![p] = @ \cup ClocksOf(it)]
            /\ UNCHANGED head
      /\ clock' = Bumped(p, it)
      /\ UNCHANGED list

\* install_bare: a placeholder, or an item that found no parent.
InstallBare(p, it) ==
  /\ StoreItem(p, it)
  /\ clock' = Bumped(p, it)
  /\ UNCHANGED << ds, del, list, head >>

IsMapValue(it) == it.content_kind = "string" /\ it.parent \in Keys
IsArrayItem(it) == it.content_kind = "string" /\ it.parent \in Texts

-----------------------------------------------------------------------------
(* Local edits.  An edit whose item the store would reject returns an error *)
(* and changes nothing: that is the guard CanAppend.                        *)

MayEmit(p, n) == job = NoJob /\ clock[p] + n <= Budget[p]

\* map_set_string(root, key, value): k stands for root and key.
MapSet(p, k, n) ==
  LET prior == head[p][k]
      it == [ id |-> << p, clock[p] >>, length |-> n,
              origin_left |-> IF prior = NoId THEN NoId
                              ELSE LastId(Find(store[p], prior)),
              origin_right |-> NoId,
              parent |-> k, content_kind |-> "string" ]
  IN  /\ MayEmit(p, n)
      /\ CanAppend(store[p], it)
      /\ InstallIntoMap(p, it)
      /\ UNCHANGED << job, msgs, sent >>

\* emit_array_item: left and right are the live neighbours' ids.
EmitArrayItem(p, t, n, left, right) ==
  LET it == [ id |-> << p, clock[p] >>, length |-> n,
              origin_left |-> IF left = NoId THEN NoId
                              ELSE LastId(Find(store[p], left)),
              origin_right |-> right,
              parent |-> t, content_kind |-> "string" ]
  IN  /\ MayEmit(p, n)
      /\ CanAppend(store[p], it)
      /\ InstallIntoArray(p, it) \/ FailToIntegrate(p, it)
      /\ UNCHANGED << job, msgs, sent >>

\* The indices array_insert_at accepts: its past-the-end test counts the
\* predecessor twice when the list is not empty.
AcceptedIndices(live) == 0 .. (IF live = << >> THEN 0 ELSE Len(live) + 1)

\* array_insert_at(root, index, value)
CountsTombstones(p, t, index, n) ==   \* mutant: deleted elements count too
  LET l == list[p][t] IN
  /\ index \in 0 .. Len(l)
  /\ EmitArrayItem(p, t, n, IF index = 0 THEN NoId ELSE l[index],
                            IF index = Len(l) THEN NoId ELSE l[index + 1])
ArrayInsertAt(p, t, index, n) ==
  LET live == Live(list[p][t], del[p]) IN
  /\ index \in AcceptedIndices(live)
  /\ \E left, right \in ToSet(list[p][t]) \cup {NoId} :
       /\ left = IF index = 0 THEN NoId
                 ELSE IF index <= Len(live) THEN live[index]
                 ELSE live[Len(live)]
       /\ right = IF index < Len(live) THEN live[index + 1] ELSE NoId
       /\ EmitArrayItem(p, t, n, left, right)

\* text_append(root, value)
TextAppend(p, t, n) ==
  LET live == Live(list[p][t], del[p]) IN
  \E left \in ToSet(list[p][t]) \cup {NoId} :
    /\ left = IF live = << >> THEN NoId ELSE live[Len(live)]
    /\ EmitArrayItem(p, t, n, left, NoId)

\* array_delete_at(root, index)
FlagsOnly(p, t, index) ==   \* mutant: the delete set is not told
  /\ job = NoJob
  /\ p \in Deleters
  /\ index < Len(Live(list[p][t], del[p]))
  /\ del' = [del EXCEPT ![p] = @ \cup {Live(list[p][t], del[p])[index + 1]}]
  /\ UNCHANGED << store, order, ds, list, head, clock, job, msgs, sent >>
ArrayDeleteAt(p, t, index) ==
  LET live == Live(list[p][t], del[p]) IN
  /\ job = NoJob
  /\ p \in Deleters
  /\ index < Len(live)
  /\ \E x \in ToSet(list[p][t]) :
       /\ x = live[index + 1]
       /\ del' = [del EXCEPT ![p] = @ \cup {x}]
       /\ ds' = [ds EXCEPT ![p] = @ \cup ClocksOf(Find(store[p], x))]
  /\ UNCHANGED << store, order, list, head, clock, job, msgs, sent >>

\* is_origin_referent(target): some stored item has an origin inside it.
StartClockOnly(p, it) ==   \* mutant: an origin inside the item is overlooked
  \E o \in Stored(store[p]) : it.id \in {o.origin_left, o.origin_right}
IsOriginReferent(p, it) ==
  \E o \in Stored(store[p]) :
    Covers(it, o.origin_left) \/ Covers(it, o.origin_right)

Compactable(p, it) ==
  /\ it.id \in del[p]
  /\ it.content_kind # "skip"
  /\ ~IsOriginReferent(p, it)

\* compact(): flagged items nothing refers to become placeholders.
CompactToGc(p) ==   \* mutant: another placeholder kind
  /\ job = NoJob
  /\ \E c \in Clients : \E i \in DOMAIN store[p][c] :
       /\ Compactable(p, store[p][c][i])
       /\ store' = [store EXCEPT ![p][c][i].content_kind = "gc"]
  /\ UNCHANGED << order, ds, del, list, head, clock, job, msgs, sent >>
Compact(p) ==
  /\ job = NoJob
  /\ p \in Compacters
  /\ \E it \in Stored(store[p]) : Compactable(p, it)
  /\ store' = [store EXCEPT ![p] =
       [c \in Clients |-> [i \in DOMAIN store[p][c] |->
          IF Compactable(p, store[p][c][i])
          THEN [store[p][c][i] EXCEPT !.content_kind = "skip"]
          ELSE store[p][c][i]]]]
  /\ UNCHANGED << order, ds, del, list, head, clock, job, msgs, sent >>

-----------------------------------------------------------------------------
(* Updates.                                                                *)

\* write_struct: the parent is on the wire only for an item without origins
\* that is not a placeholder.
KeepsParent(it) == it   \* mutant: the parent travels with origins too
Wire(it) ==
  IF it.origin_left # NoId \/ it.origin_right # NoId \/ it.content_kind = "skip"
  THEN [it EXCEPT !.parent = NoParent] ELSE it

\* encode_diff_v1(doc, since): the structs that start at or after since, and
\* the whole delete set.  (A client without such structs stays in order,
\* where it has no effect.)
NothingNewIsEmpty(p, since) ==   \* mutant: no structs, hence no delete set
  LET new == { s \in Stored(store[p]) : s.id[2] >= since[Client(s)] }
  IN  [ order |-> order[p], structs |-> { Wire(it) : it \in new },
        ds |-> IF new = {} THEN {} ELSE ds[p] ]
Diff(p, since) ==
  [ order |-> order[p],
    structs |-> { Wire(it) : it \in { s \in Stored(store[p]) :
                                        s.id[2] >= since[Client(s)] } },
    ds |-> ds[p] ]

\* The call apply_update_v1(m) begins on document p.
Begin(p, m) ==
  job' = [ doc |-> p, order |-> m.order, todo |-> m.structs,
           tried |-> {}, progress |-> FALSE, ds |-> m.ds ]

\* A state-vector exchange: to asks with its state vector, from answers
\* with the difference, to applies it.
Pull(from, to) ==
  /\ job = NoJob
  /\ << from, to >> \in Links
  /\ Begin(to, Diff(from, StateVector(store[to])))
  /\ UNCHANGED << docVars, msgs, sent >>

\* A broadcast of what changed since the document's previous broadcast.
Publish(p) ==
  /\ job = NoJob
  /\ p \in Publishers
  /\ Cardinality(msgs) < MaxMessages
  /\ msgs' = msgs \cup {Diff(p, sent[p])}
  /\ sent' = [sent EXCEPT ![p] = StateVector(store[p])]
  /\ UNCHANGED << docVars, job >>

\* Any broadcast reaches any document, in any order and any number of times.
Deliver(p, m) ==
  /\ job = NoJob
  /\ Begin(p, m)
  /\ UNCHANGED << docVars, msgs, sent >>

\* The struct the loop of the running pass comes to next.
Earlier(ord, a, b) ==
  IF Client(a) = Client(b) THEN a.id[2] < b.id[2]
  ELSE \E i, j \in DOMAIN ord :
         i < j /\ ord[i] = Client(a) /\ ord[j] = Client(b)

IsNext(d) ==
  /\ d \in job.todo \ job.tried
  /\ \A e \in job.todo \ job.tried : e = d \/ Earlier(job.order, d, e)

Done(d) == job' = [job EXCEPT !.todo = @ \ {d}, !.progress = TRUE]
Pending(d) == job' = [job EXCEPT !.tried = @ \cup {d}]

\* apply_one returns kPendingReference at once: the parent is to be taken
\* from an origin that has not arrived.
MissesSource(st, d) ==   \* mutant: only the origin the parent comes from is awaited
  LET from == IF d.origin_left # NoId THEN d.origin_left ELSE d.origin_right
  IN  d.parent = NoParent /\ from # NoId /\ ~Has(st, from)
MissesOrigin(st, d) ==
  /\ d.parent = NoParent
  /\ \/ d.origin_left # NoId /\ ~Has(st, d.origin_left)
     \/ d.origin_right # NoId /\ ~Has(st, d.origin_right)

\* inherit_parent_from_origin.  One hop is enough: a stored item without a
\* parent had none to inherit when it was installed, and never gains one.
Inherited(st, d) ==
  LET from == IF d.origin_left # NoId THEN d.origin_left ELSE d.origin_right
  IN  IF d.parent # NoParent \/ from = NoId THEN d
      ELSE [d EXCEPT !.parent = Find(st, from).parent]

\* apply_one, the item is already in the store.
ApplyKnown(d) ==
  /\ Has(store[job.doc], d.id)
  /\ Done(d)
  /\ UNCHANGED docVars

\* apply_one, an origin is missing.
ApplyDeferred(d) ==
  /\ ~Has(store[job.doc], d.id)
  /\ MissesOrigin(store[job.doc], d)
  /\ Pending(d)
  /\ UNCHANGED docVars

\* apply_one, the store rejects the item: its client's earlier items have
\* not arrived.  The client is registered all the same.
ApplyRejected(d) ==
  /\ ~Has(store[job.doc], d.id)
  /\ ~MissesOrigin(store[job.doc], d)
  /\ ~CanAppend(store[job.doc], d)
  /\ Pending(d)
  /\ order' = [order EXCEPT ![job.doc] = Registered(@, Client(d))]
  /\ UNCHANGED << store, ds, del, list, head, clock >>

\* apply_one, the item is installed; when integration fails the whole call
\* returns and drops the rest of the update.
ApplyInstalled(d) ==
  LET p == job.doc
      it == Inherited(store[p], d)
  IN  /\ ~Has(store[p], d.id)
      /\ ~MissesOrigin(store[p], d)
      /\ CanAppend(store[p], d)
      /\ \/ IsMapValue(it) /\ InstallIntoMap(p, it) /\ Done(d)
         \/ IsArrayItem(it) /\ InstallIntoArray(p, it) /\ Done(d)
         \/ IsArrayItem(it) /\ FailToIntegrate(p, it) /\ job' = NoJob
         \/ ~IsMapValue(it) /\ ~IsArrayItem(it) /\ InstallBare(p, it) /\ Done(d)

ApplyOne ==
  /\ job # NoJob
  /\ \E d \in job.todo :
       /\ IsNext(d)
       /\ ApplyKnown(d) \/ ApplyDeferred(d) \/ ApplyRejected(d) \/ ApplyInstalled(d)
  /\ UNCHANGED << msgs, sent >>

PassIsOver == job # NoJob /\ job.todo \subseteq job.tried

\* Structs are left and this pass made progress: another pass.  (The cap of
\* one pass per struct is never what ends the loop.)
NextPass ==
  /\ PassIsOver /\ job.todo # {} /\ job.progress
  /\ job' = [job EXCEPT !.tried = {}, !.progress = FALSE]
  /\ UNCHANGED << docVars, msgs, sent >>

\* Structs are left and nothing moved: kPendingReference.  The structs and
\* the delete set of the update are dropped.
OnePassOnly ==   \* mutant: pending structs get no second pass
  PassIsOver /\ job.todo # {} /\ job' = NoJob /\ UNCHANGED << docVars, msgs, sent >>
GiveUp ==
  /\ PassIsOver /\ job.todo # {} /\ ~job.progress
  /\ job' = NoJob
  /\ UNCHANGED << docVars, msgs, sent >>

\* All structs are in: every range of the update's delete set is added to
\* the document's, and the stored items it touches are flagged.
RecordsOnly ==   \* mutant: the deleted items are not flagged
  /\ PassIsOver /\ job.todo = {}
  /\ ds' = [ds EXCEPT ![job.doc] = @ \cup job.ds]
  /\ job' = NoJob
  /\ UNCHANGED << store, order, del, list, head, clock, msgs, sent >>
ApplyDeletes ==
  /\ PassIsOver /\ job.todo = {}
  /\ ds' = [ds EXCEPT ![job.doc] = @ \cup job.ds]
  /\ del' = [del EXCEPT ![job.doc] = @ \cup
       { it.id : it \in { s \in Stored(store[job.doc]) :
                            ClocksOf(s) \cap job.ds # {} } }]
  /\ job' = NoJob
  /\ UNCHANGED << store, order, list, head, clock, msgs, sent >>

-----------------------------------------------------------------------------

LocalEdit(p) ==
  \/ \E n \in Lens, k \in Keys : MapSet(p, k, n)
  \/ \E n \in Lens, t \in Texts :
       \/ TextAppend(p, t, n)
       \/ \E i \in 0 .. Len(list[p][t]) + 1 : ArrayInsertAt(p, t, i, n)
  \/ \E t \in Texts : \E i \in 0 .. Len(list[p][t]) : ArrayDeleteAt(p, t, i)

Apply == ApplyOne \/ NextPass \/ GiveUp \/ ApplyDeletes

Next ==
  \/ \E p \in Clients : LocalEdit(p) \/ Compact(p) \/ Publish(p)
  \/ \E p, q \in Clients : Pull(p, q)
  \/ \E p \in Clients : \E m \in msgs : Deliver(p, m)
  \/ Apply

Spec == Init /\ [][Next]_vars
=============================================================================
