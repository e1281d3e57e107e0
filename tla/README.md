# ycpp: a TLA+ development

ycpp is a single-header C++ implementation of the Yjs document model: shared texts and
maps that every replica edits on its own and that converge once the replicas have
exchanged their changes. This directory holds TLA+ modules translated from the headers
under `include/ycpp/`, TLC configurations that check them on small instances, and
TLAPS proofs of the facts the rest relies on for every number of clients, every budget
of edits, every loss, repetition or reordering of messages, and every size of memory.

All paths below are relative to the repository root; `ycpp_x.h` is
`include/ycpp/ycpp_x.h`.

## 1. Inventory

### The parts and how they interact

| part | state it keeps | operations | who calls it |
|---|---|---|---|
| `Id`, `Item` (`ycpp_id.h`, `ycpp_item.h`) | an item: id, length, left and right origin, parent, content, flags | comparison | everyone |
| `StructStore` (`ycpp_struct_store.h`) | one gapless vector of items per client | `append`, `find_by_id`, `state`, `get_or_create` | `Doc` |
| `YArray` (`ycpp_yarray.h`) | the linked list of one root, tombstones included | `integrate`, `at`, `length`, `for_each` | `Doc` |
| `YMap` (`ycpp_ymap.h`) | the head item of every key | `integrate`, `get`, `sorts_right_of` | `Doc` |
| `Doc` (`ycpp_doc.h`) | a store, the roots, the delete set, `next_clock_` | local edits, `apply_update_v1`, `encode_diff_v1`, `state_vector`, `compact` | the application, the undo manager, the sync protocol |
| `DeleteSet` (`ycpp_delete_set.h`) | per client, sorted disjoint clock ranges | `add`, `contains`, `encode`, `decode` | `Doc`, `UndoManager` |
| `StateVector` (`ycpp_state_vector.h`) | client to next clock | `set`, `get`, `encode`, `decode` | `Doc`, sync protocol |
| update decoder and encoder (`ycpp_update.h`, `ycpp_doc.h`) | a cursor, the next clock of a client's run | decode a struct of any content kind, write a struct | `Doc` |
| sync protocol, envelope (`ycpp_protocol.h`, `ycpp_envelope.h`) | none; a staging buffer of 16 KiB | step 1 (a state vector), step 2 (a diff), update | the application |
| `UndoManager` (`ycpp_undo.h`) | two stacks of captured ranges | `capture_begin`, `capture_end`, `undo`, `redo` | the application, on top of `Doc` |
| `Awareness` (`ycpp_awareness.h`) | per client: clock and state | `publish`, `apply`, `encode_all` | the application |
| `Y.Move` (`ycpp_move.h`) | none, relinks the items of a list | `apply_move` | `Doc::install_into_array` |
| `SubDocRegistry` (`ycpp_subdoc.h`) | a table by guid | register, find | `Doc::apply_one` |
| `YText` (`ycpp_ytext.h`) | none, reads the list | `to_string`, `to_delta` | the application |
| `SpscRing` (`ycpp_ring.h`) | two atomic counters, slots | `try_push`, `try_pop` | two threads |
| `HashMap` (`ycpp_hashmap.h`) | a probe table | insert, find, erase, reserve | every container |
| `Pool` (`ycpp_pool.h`) | slabs, a free list threaded through them | acquire, release | `Doc`, for items |
| `Arena` (`ycpp_arena.h`) | a list of blocks, a bump pointer in each | allocate | every container |
| `Reader`, `Writer`, varint (`ycpp_varint.h`), Unicode | a cursor | byte-level conversion | encoders and decoders |
| V2 stubs, command line, interop test | none | return an error; file I/O | the user |

A local edit makes an item at `next_clock_`, stores it, integrates it into its list or
key and advances `next_clock_`. `encode_diff_v1(since)` writes the structs at or after
a state vector and the whole delete set. `apply_update_v1` installs the structs of an
update in passes: a struct whose origins or predecessors are missing stays pending for
the next pass, the loop ends when nothing is left or nothing moves, and the delete set
is applied only when nothing is left. Documents never share memory; they interact
through diffs that applications carry. The only component written for two threads is
`SpscRing`.

### What is hard

- Structs arrive in another order than they were made, and lists and keys are decided
  item by item in arrival order: the order of arrival must not show.
- Updates may be lost, repeated or overtaken. What does not fit is dropped after part
  of the update was installed.
- A deletion and the item it deletes travel separately.
- `compact()` replaces items that others may still refer to, from any clock inside the
  item, or from items not yet received.
- Fixed limits (conflict zone, origin chain, capacity of tables) turn into errors in
  the middle of an operation.
- Deletions travel only because every diff carries the whole delete set, through
  documents that know nothing else of the deletion.
- An answer of the sync protocol is made from a state vector that may be old by then,
  and is applied to a document that has gone on in the meantime.
- An update carries no clocks but the first of a run and no parents where origins tell
  them: the decoder infers them, and one wrong length shifts all that follows.
- A move relinks items through their neighbours' pointers, and the head of the list is
  kept in another object.
- Memory may run out at any of several allocations of one operation; what was taken
  before must go back, once.
- The two counters of the ring are read and written by different threads.

The properties that make each part correct: the store is gapless and every replica of
a client's vector is a prefix of the original; an item never precedes its origins;
lists order shared items alike; a key has one live value, the rightmost of its forest;
flags and delete set agree; equal knowledge gives equal content; exchanges that go on
bring all documents to equal content; a clock is used once; an answer fits whenever it
arrives; the bytes say what the encoder meant; a move changes the order and nothing
else; allocations never overlap and a slot is handed out once. The hazards, each at
its line and with the properties that cover it, are listed in `PROJECT.json`.

## 2. Modules

| module | what it is | extends |
|---|---|---|
| `StructStore` | ids, items, the store's vectors: `append`, `find_by_id`, `state` | - |
| `YArray` | the splice rule of a list | `StructStore` |
| `YMap` | which of two items of a key is its head | `StructStore` |
| `Doc` | the documents: local edits, updates applied struct by struct, compaction, exchanges and broadcasts | `YArray`, `YMap` |
| `UpdateLog` | abstract specification of a net of documents: logs and how much of them each document has executed | - |
| `DocProperties` | what a net of documents promises, the inductive invariant, the mapping to `UpdateLog` | `Doc`; instantiates `UpdateLog` |
| `MCDoc` | bounds for TLC | `DocProperties` |
| `DocProofs` | theorems about `Doc` | `DocProperties` |
| `KeyProofs` | theorems about the order of the items of a key and of a list | `DocProofs` |
| `UpdateCodec` | the update format: writing and reading structs, runs, delete sets | `StructStore` |
| `Varint` | the bytes of a number | - |
| `Sync`, `MCSync` | the sync protocol message by message, over documents and the format; bounds | `DocProperties`, `UpdateCodec`, `Varint` |
| `SyncProofs` | theorems about `Sync` | `DocProofs`, `Sync` |
| `UndoManager`, `MCUndo` | an undo manager on one of the documents; bounds | `DocProperties` |
| `UndoProofs` | theorems about `UndoManager` | `DocProofs`, `UndoManager` |
| `Move` | the pointers of one list and the move of a range | - |
| `Arena`, `Pool` | the bump allocator and the free list, as values with sets of outcomes | -; `Arena` |
| `ClockSet` | abstract specification of a delete set | - |
| `DeleteSet` | the ranges of one client: search, merge, lookup | - |
| `DocMemory` | a document on its pool, its vectors and its arena; its delete set implements `ClockSet` | `Pool`, `DeleteSet` |
| `MemoryProofs` | theorems about `DocMemory`; its delete set implements `ClockSet` | `DocMemory` |
| `BoundedQueue` | abstract specification of the ring | - |
| `SpscRing` | the ring, access by access; implements `BoundedQueue` | - |
| `RingProofs` | theorems about `SpscRing` | `SpscRing` |
| `Awareness`, `MCAwareness` | presence tables; bounds | - |
| `AwarenessProofs` | theorems about `Awareness` | `Awareness` |
| `FiniteMap` | abstract specification of the hash table | - |
| `HashMap`, `MCHashMap` | probing, tombstones, growth; implements `FiniteMap`; hashes | - |
| `HashMapProofs` | theorems about `HashMap` | `HashMap` |

An operator marked `mutant` is a deliberately wrong variant of the definition that
follows it. No specification uses it. It documents which mistake in the code the
property named with it in `PROJECT.json` would reveal.

### Documents

There is one `Doc` object per client id, and `Doc` is single-threaded, so a call could
be one step. A local edit is. `apply_update_v1` is not: each `apply_one` is a step,
`job` holds the locals of the call, and every other action waits for `NoJob`. This
loses no behaviour, since documents share no memory, and it lets invariants look at a
document in the middle of an update.

| variable | code |
|---|---|
| `store[p][c]` | the vector of client `c` in document `p`'s `store_` |
| `order[p]` | the order in which `store_` registered clients, which is the order of an encoded update |
| `ds[p]` | the clocks covered by `deletes_` |
| `del[p]` | the items with `kFlagDeleted` |
| `list[p][t]` | the linked list of root `t`, tombstones included, as a sequence of ids |
| `head[p][k]` | the head item of a map key; `k` stands for a root and a key of it |
| `clock[p]` | `next_clock_` |
| `job` | the running `apply_update_v1`: structs to do, structs pending in this pass, whether the pass made progress |
| `msgs`, `sent` | the application's network: broadcasts so far, and up to where each document has broadcast |

| action | code |
|---|---|
| `MapSet`, `ArrayInsertAt`, `TextAppend`, `ArrayDeleteAt` | the local edits, with `emit_array_item`, `install_into_array`, `install_into_map`, `bump_clock_for` |
| `Compact` | `compact()` with `is_origin_referent` |
| `Pull(q, p)` | `p` sends its state vector, `q` answers with `encode_diff_v1`, `p` begins to apply it |
| `Publish`, `Deliver` | an incremental update is broadcast; any broadcast arrives anywhere, any number of times, or never |
| `ApplyOne` | one turn of the loop over the structs: known, an origin is missing, rejected by the store, installed |
| `NextPass`, `GiveUp`, `ApplyDeletes` | the end of a pass: retry, `kPendingReference`, apply the delete set |
| `FailToIntegrate` | `YArray::integrate` reports that the conflict zone is too long: the item stays in the store, outside the list |

Abstracted: payloads (an item has a length in clocks), the bytes of an update (what is
on the wire and what the receiver has to infer is kept: `Wire` drops the parent
exactly where `write_struct` does), and the kinds that only travel through. A pull is
atomic up to `Begin`: the state vector is not stale when the answer arrives. Stale
answers are the subject of `Sync`.

### The log behind the documents

`UpdateLog` has three variables: `log[c]`, what client `c` has written; `has[p][c]`,
how much of it document `p` has executed; `dead[p]`, the deletions `p` knows. A step
emits an entry, executes the next entry of a log once all it refers to is executed, or
learns of deletions of clocks that somebody holds. `DocProperties` maps `log[c]` to
the cores of `store[c][c]`, `has[p][c]` to the length of `store[p][c]` and `dead` to
`ds`. Lists, heads, flags, calls, messages and compaction do not show: that is the
claim.

### The update format

`UpdateCodec` treats a stream as a sequence of numbers, one per byte of a payload and
one per varint, and reads it with a position that becomes 0 when a read fails, as the
code's `Reader` returns a status. `Struct` is `decode_one_struct` with
`read_content_payload` for all twelve kinds, `PastMany` the recursion of `skip_any`
with its limits on depth and counts, `Run` the loop in which each struct starts at the
clock where the one before it ends, `WriteStruct` and `InfoByte` the encoder.
`ForeignStructs` is a set of structs written from the grammar and not by the encoder:
all kinds, empty strings and lists, values whose bytes look like tags. `Varint` has
the bytes of one number with the sizes as constants; 7, 64 and 10 are related as the
assumption `SizesAssumption` says, and so are the 2, 5 and 3 of the run, for which all
streams of up to four bytes are tried.

### Sync protocol

`wire[<< from, to >>]` is the last envelope under way in a session. `Ask` is
`emit_sync_step1`, `Answer` is `apply_sync_message` of step 1 with `emit_sync_step2`,
`Fail` the same when the difference exceeds the staging buffer, `Receive` is
`apply_sync_message` of step 2. Between any two of them both documents go on with all
actions of `Doc`. An answer stays on the wire after it was received, so it may come
again, and is overwritten, hence lost, by the next question. `Bytes` writes the
difference in the update format, and its length decides between `Answer` and `Fail`;
`WireFaithful` decodes it again and compares with what `Diff` meant.

### Moves

`Move` keeps what a sequence hides: `start_` and the left and right pointers. `Insert`
is a local insert between two neighbours; `InstallMove` stores a move item, splices it
like any other and calls `apply_move`, whose assignments are `Detached`, `Wired` and
`Closed` in the code's order. `Document` is what `for_each` visits.

### Memory

An arena is its list of blocks and, as history, all it has handed out; a pool is its
slabs and free slots. Each operation is the set of its outcomes, because every
`malloc` may fail. `DocMemory` composes them along the two paths of a document that
take memory and may have to give it back: an item (slot, clone of the name, clone of
the value, room in the store's vector) and a range of the delete set (room in its
vector).

| variable | code |
|---|---|
| `arena`, `pool` | `alloc_`, `item_pool_` |
| `items`, `room` | the slots of the items in the client's vector of `store_`, its capacity |
| `flagged` | the items with `kFlagDeleted` |
| `data`, `width` | the client's ranges in `deletes_`, the capacity of their vector |

`AddItem` is `emit_array_item`, or `apply_one` for a struct that fits; `RejectItem` is
`apply_one` for a struct the store turns away; `DeleteItem` is `array_delete_at`;
`LearnRange` is one range of an update's delete set.

### Undo manager

The actions `Track`, `CaptureBegin`, `CaptureEnd`, `Undo`, `Redo` are the methods of
the same names. They interleave with all actions of `Doc`. A frame is the pair of
clocks of the code. The origin tag of a frame is stored by the code and never read.

### Ring

Each call is split where the other thread can interfere: the loads, the slot access,
the store. An acquire load of the other thread's counter returns any value from the
one last seen to the current one. Counters are kept modulo `Width`, a multiple of the
capacity as 2^64 is.

### Presence tables

`Publish`, `Send` (`encode_all`), `Apply` (a table that was sent at any time arrives),
`Exchange` (a fresh table arrives), `Restart`. `published` and `restarts` are history
variables that only properties read.

### Delete set and hash table

`DeleteSet` is `insert_range` with its binary search and `merge_forward`, and
`contains`, as operators that `DocMemory` uses. `HashMap` writes each probing loop as
the first step of a walk with some property. Growth, reuse of tombstones and the
refusal at the largest capacity are as in the code.

## 3. Runs

| run | bounds | what it shows |
|---|---|---|
| `text_sync` | 3 clients, one text, budgets 1, 1, 2; 2 pulls from 3 and 1 from 2, 2 broadcasts twice | no deletion: items keep their relative order in all documents at all times (`ConsistentOrder`), a struct is left out only for want of one that has not arrived (`NothingDropped`), origins are stored (`OriginsStored`), the next clock is free (`NextClockFree`) |
| `relay` | budgets 2, 0, 1, client 1 deletes, all exchange through document 2 | `BetweenOrigins`, `DeletedIsFlagged`, `Converged`, `EventuallyConverged`; a local insert lands at the index asked for (`InsertsWhereAsked`) |
| `map_compact` | 3 clients, one key, items two clocks long, budgets 4, 2, 2, all compact | `TypeOK`, `HeadIsRightmost`, `OneLiveValue`, `HeadsAgree`, `Converged` |
| `sync` | 3 clients, a text and a key, items two clocks long, budgets 4, 2, 0; 1 broadcasts twice, 3 asks 2, both compact, a conflict zone of 1, a buffer of 25 numbers | `Dense`, `SameHistory`, the inductive invariant `IInv`, `ImplementsLog`; answers fit whenever they arrive (`AnswersFit`); the format (`WireFaithful`, `EchoesForeign`, `CutIsSeen`, `VarintExact`) |
| `undo` | 3 edits of the managed document, 1 of the other, two frames per stack | `FramesKept`, `FramesInOrder` |
| `ring` | capacity 4, counters modulo 8, two values | `NoRace`, `Implements` (the bounded queue), `Drains` |
| `presence` | 3 peers in a chain, the middle one restarts, 2 states from each end, 2 old tables | `Truthful`, `NeverBack`, `OwnStateStands`, `EventuallyAgree` |
| `memory` | blocks of 10 bytes, 4 of them, slabs of 2 slots, vectors for 2 items and 3 ranges, clocks below 6 | `NoOverlap`, `SlotOnce`, and the delete set's `Compact`, `ContainsCovered`, `Implements` (the set of clocks) |
| `hash_map` | 8 keys, capacities 8 and 16 | `FindsAll`, `SomeEmpty`, `Implements` (the finite map) |
| `tombstone` | 3 clients, one deletes | expected violation of `Converged`, see section 6 |
| `redo` | 2 clients, one edit each | expected violation of `Converged`, see section 6 |
| `move` | 5 items | expected violation of `OrderOnly`, see section 6 |

Why the bounds are enough to be interesting. The splice rule and the head rule compare
two items at a time. Three concurrent authors give every arrival order of three items
at one place, and an author with two items gives items that depend on concurrent ones,
which is where wrong tie-breaks first show. In `text_sync` the second document hears
the third and broadcasts, so updates come to the others early, late and twice, and the
author of two items can put one in front of the other while the first and the second
write at the same place. Items of two clocks make origins that point inside an item. A
conflict zone of 1 makes integration fail with two items. In `sync` the buffer holds
the difference for a document that lacks one item and not the whole document, so both
`Answer` and `Fail` happen, and the broadcasts make both ends of the session know
things that the question did not say. In `undo`, three windows overflow a stack of
two. In `ring`, counters modulo 8 wrap with capacity 4, so every slot is used at both
parities. In `memory` a slab is larger than a block and a name is a byte, so there are
allocations from the head, from fresh blocks and from blocks behind the head, with and
without padding, and the number of blocks and the room in both vectors run out, as
`malloc` may at any time. A second slab is used; its limit is not reached, because the
vector of items is full before. In `hash_map` the hashes make keys share a home before
and after growth and run over the end of the table; eight keys fill the smallest
table. Each property is broken in its run by at least one mutant of the code.

Deadlock is not checked where editing is bounded: when the budgets are used up a net
without links has nothing left to do. The ring and the hash table never stop, and
there it is checked.

## 4. Fairness

- `relay`: strong fairness of each `Pull` along a link, because the application keeps
  exchanging along it; strong, because a call in progress anywhere disables pulls.
  Weak fairness of `Apply`: a call that has begun runs to its end. Editing is not
  fair: nobody has to edit.
- `ring`: weak fairness of the consumer's steps with a load of the current head: the
  consumer polls, and C++ guarantees that stores become visible in finite time. The
  producer is not fair.
- `presence`: weak fairness of each `Exchange` between neighbours. Old tables, sends,
  publishing and restarts are not fair.

## 5. Proofs

What is proved holds for every value of the constants that satisfies the assumptions
named in the modules: finitely many clients, budgets and lengths that are numbers,
`Texts` and `Keys` apart (`BudgetAssumption`, `LensAssumption`, `ParentAssumption`,
...), sessions between clients (`SessionsAssumption`), blocks, capacities and counters
of positive size (`ArenaAssumption`, `CapAssumption`, `CapacityAssumption`,
`WidthAssumption`, `ClockBoundAssumption`), and markers that are no values
(`NoJobAssumption`, `NullAssumption`, `NothingAssumption`, `CtrlAssumption`,
`TagAssumption`). Some theorems have a further condition, which is part of their
statement: `NextClockIsFree` and `NothingIsDropped` speak of behaviours without a
failed integration, `DeletionsAreFlagged` and `NoCallGivesUp` of documents that do not
broadcast, `HeadsAreRightmost` of behaviours in which no chain of overwrites reaches the
limit of the walk, `HeadsSettle` of such behaviours without compaction, `OneValueLives`
and `HeadsAlwaysAgree` of documents that do not broadcast, fail no integration and
reach no such limit (compaction is allowed), `NoElementIsHidden` of behaviours without
compaction and failed integration, `DocumentsOrderAlike` and `ElementsStandBetween` of
such behaviours in which nobody inserts next to a deleted element (`BesideTombstone`),
and `DocumentsConverge` of those where also nobody broadcasts and no chain reaches the
limit.
Section 6 says where the code breaks its promise when a condition is not met.

Induction over a number of steps (a binary search, a chain of probes, the growth of a
table, the passes over a vector) is done with sets: if a statement fails anywhere, the
library's theorem on well-founded relations gives the least number at which it fails.
`SetInduction` states that once for each module that needs it.

### Documents (`DocProofs`)

`Invariance` proves, for every set of clients, texts and keys, every budget, every set
of links and publishers and any number of messages, that `IInv` is an invariant, and
from it `TypeOK`, `Dense`, `SameHistory` and `OriginsStored`.

None of the four is inductive. `SameHistory` says that document `p`'s copy of client
`c`'s vector is a prefix of `c`'s own. A struct reaches `p` through messages, relays,
replays and earlier documents, so the invariant must say that what is on its way is
authentic: the struct is one that its author emitted, and it carries a parent only if
it has no origins (`InFlightAuthentic`, for messages and for the call in progress).
The key lemma is `NextOfAuthor`: if the store accepts an authentic struct
(`CanAppend`, its clock is the end of the client's vector), then the struct is the
very next one of its author's vector. It needs `Dense` at both ends and `Ascending`,
which is carried along as a conjunct. `ListStored` and `HeadStored` say that lists and
heads name stored items: without them the origins of a new local item need not exist.
Compaction changes the kind of an item and never its `Core`, which is why
`SameHistory` speaks of cores. The proof has one lemma per operation (`LocalEditStep`,
`CompactStep`, `ExchangeStep`, `ApplyStep`), built on lemmas about a store to which
one item is appended (`ExtendDense`, `ExtendSameHistory`, `ExtendOrigins`, ...).

`StepKinds` says of every step what it does to the stores: one item more in one of
them, or a compaction of one, or nothing. From it:

- `DocumentsNeverForget`: an id that can be looked up can be looked up for ever. All
  that is said of stale questions and repeated messages rests on it.
- `ClockIsNeverAhead`, and `NextClockIsFree` (`NextClockFree`) for behaviours in which
  no integration fails: `FailToIntegrate` is the only step that leaves the next clock
  behind the store, as section 6 describes.
- `NothingIsDropped` (`NothingDropped`). A struct stays pending when an origin or its
  predecessor is missing at the time it is looked at; the call may install what is
  missing later in the same pass. `TriedInVain` says that in a pass without progress
  nothing was installed since, so what is pending still does not fit when the pass
  ends; `BelowIsKnown` then follows the missing ids down to one that nobody sent. A
  failed integration is excluded because the code counts it as no progress although
  the store has grown.
- `DeletionsAreFlagged` (`DeletedIsFlagged`, both directions), `EveryFlagTravels`
  (flagged implies deleted, in every net) and `AtMostOneValue` (of the values of a key
  at most the head is alive: the upper half of `OneLiveValue`). The invariant is
  `Flagging` with `Deleted`: a flag has a clock in the delete set (`FlagsOK`), flags
  and heads stand for stored items exactly, not for a clock inside one (`KeysOK`,
  `ListsOK`), and each clock in the delete set belongs to a flagged item (`DeadOK`).
  For the last one, when a call takes over a delete set all its items must be there:
  `CallCovers` says that each clock an update deletes is had already or comes with it.
  A pull guarantees that (`HeldOrSent`); a broadcast does not, since it carries
  the whole delete set and only the newest structs. That is the disagreement at
  `ycpp_doc.h:447` (section 6) and the reason for the condition `Publishers = {}`.

### The log (`DocProofs`)

`DocumentsAreLogs`: `Spec` implements `UpdateLog`, that is `ImplementsLog`. Every step
maps to one step of the log or to none. A step that stores an item of the document's
own client is `Emit` (`EmitsOwn`), one that stores another's is `Execute`
(`ExecutesOthers`, which needs `NextOfAuthor` to know that it is the next entry of the
log and `OriginsStored` to know that what it refers to is executed); both may flag and
record deletions at the same time, as overwriting a key does. A step that only learns
deletions is `Delete`. For that, a deletion that a document learns must already be
known somewhere: `IInv` is strengthened by `DeletesKnown`, which says so of messages
and of the call in progress. All other steps leave the mapped variables alone,
compaction by `SameLog`.

### The order of a key (`KeyProofs`)

`HeadsAreRightmost` (`HeadIsRightmost`), in behaviours in which no value's chain of left
origins reaches the limit of the walk (`ChainsFit`; beyond the limit the property is
false, section 6). The line of an item is the item, its origin, the origin of that, and
so on; `LeftOf` says that one item is on the line of the other or that somewhere above
them the lines part with the smaller id on the left. In a store in which all chains fit,
`SortsIs` shows that `sorts_right_of` decides `LeftOf`, and `LeftIrreflexive` and
`LeftTransitive` that `LeftOf` is an order. The invariant is `HeadTop`: every value of
the key is the head or left of it. It survives an install because the code compares the
new item with the head only and the order is transitive (`TopInstall`), and compaction
because the order depends on ids and origins, not on payloads (`CompactHead`), so the
head may itself be a placeholder. `LineageIs` ties the lines, walked with a limit, to
`Lineage`, the closure under origins that the property speaks of: by induction over the
natural numbers, as a set, and over the length of a walk that ends since the store is
finite (`StoredFinite`).

`ItemsStayRooted`: no document files an item under another list or key than the one its
author made it for (`RootsAgree`), with compaction and without a condition. The wire
leaves out the parent of an item that has an origin, and a placeholder has none, so a
document often infers it. The invariant `AllRooted` says that whatever is stored or
under way either keeps its author's parent or has none, that an item has the root of
its origins, and that what a list or a head shows is not a placeholder of another root.

`HeadsSettle` (`HeadsAgree`), for chains that fit and behaviours without compaction:
then every stored item keeps its payload and its parent (`AllWhole`), two documents
with the same vectors have the same stores up to flags and delivered origins
(`SameStores`), and both heads are the rightmost value of the same set, of which there
is only one (`OneTop`).

`NoCallGivesUp`: where documents ask each other for what they lack, `GiveUp` never
happens, so `apply_update_v1` never returns `kPendingReference` and never drops a delete
set; a failed integration does not change that. A call that gives up has tried all that
is left of the update in vain (`TriedInVain`), so each struct that is left is in want of
its predecessor or of an origin. `CallFits` says that what it is in want of comes with
the same update (`Prior` names it; a pull guarantees it because stores are causally
closed and a state vector ends where an item ends, `HeldOrSent`). The invariant `Ranked`
gives the ids a rank in which every item comes behind all that it refers to; of the
structs that are left one has the least rank, and what it wants has a smaller one.

`OneValueLives` (`OneLiveValue`) and `HeadsAlwaysAgree` (`HeadsAgree`) allow compaction.
A value that was compacted before it reached a document is no value of the key there,
and items whose origin lost its parent find none themselves, so the head no longer
stands for the order of the values alone. The order is that of what the authors hold
(`Authors`), in which nothing ever moves (`WrittenOrderly`, `SidesKept`). A rival for a
key is its head, or a value for it that the call in progress still brings. `KeyOK` says
of a key of a document that its head is a value, that what is flagged is left of the
head, and that an item of the key which is no value here stands beside a rival: their
lines part, since nobody writes on top of what is compacted (`NotOnTop`, from
`is_origin_referent`). A call that begins must explain what it skips and what it deletes
in the same way (`CallSkips`, `CallDeletes`): the answering document held it left of its
own head, which the asking one has, gets, or has surpassed (`HeadPassed`). `Yields` is
what each step then owes: every rival stays one or gives way to one on its right. Where
the call ends the head is the only rival left. Two documents with the same items each
hold the other's head or have it surpassed, so the heads are the same (`Surpassed`,
`SameHeads`); a head that were flagged would be left of itself (`LiveOne`). A call that
is cut short would drop rivals: hence the conditions on failed integrations, and
`NoCallGivesUp`.

### The order of a list (`KeyProofs`)

Lists stay sequences of distinct ids that only grow (`ListsOnlyGrow`): the splice point
that the walk over the conflict zone finds lies in the zone (`SpliceWithin`, from the
equation the walk solves, `Walks`), the zone lies in the list (`ZoneIs`), and an item
that comes is not listed yet, because the store takes a clock once. So once an element
stands before another it does so for ever, in every net, through deletion and
compaction. `ElementsStandBehindTheirOrigins`: the zone begins behind the left origin
(`ZoneStartIs`), and an element whose left origin is not in the list is left out of it,
so each listed element stands behind its left origin (`BehindOrigins`), again without a
condition.

`InsertsLandWhereAsked` (`InsertsWhereAsked`), also in every net: the live elements of
the new list are those of the old one with the new element at the index asked for,
for every index up to the length, and behind them all for an append. (The code takes
index length + 1 too, section 6; the property says nothing of it.)
`Live` is a recursive function; `LiveOf` is the equation it solves, `LiveSpliced` says
what an insert anywhere in the list does to the live elements, and `PlaceBetween` why
the insert lands right: the live neighbour on the left is the left origin, so the zone
begins behind it; the one on the right ends the zone; and between the two stand only
tombstones, which do not count, wherever among them the item is spliced (`EditPlace`,
`EditInserts`). It needs `ListsOK` of `Flagging` and `Distinct`.

A right origin is different: the zone ends at it only if it is in the list and behind
the left origin. In the list of the element's author it is, since it was the live
neighbour, and no element moves: `OwnElementsStandBetween`, without a condition
(`OwnInFront`). In other documents it is so if they order what they share as the author
does, which the run `tombstone` shows not to be so in every net. `NoElementIsHidden`
(`AllListed`) says that a stored item of a list is in the list, since its left origin
has the same parent (`LeftIsHome`) and is therefore listed before it; a compacted
origin has lost its parent, which is why compaction is excluded.

`DocumentsOrderAlike` (`ConsistentOrder`) is the theorem on concurrent inserts. That two
documents agree on what they share is not inductive: which of two orders a third element
causes depends on elements that one of them lacks. The invariant `Lined` says that there
is one strict order of all elements of a text that any document shows, in which every
list is sorted, and that it is a `Weave` of what each element was inserted between:

- `Apt`: an element stands behind its left origin and in front of its right one;
- `Nested`: what stands between an element and its left origin does not hang off
  anything in front of that origin, so subtrees of left origins do not interleave;
- `Hung`: the right origin hangs off the left one or off an element before it;
- `InTurn`: of two elements with one left origin the one of the smaller client comes
  first, unless its author had put it in front of such an element.

Two facts make it inductive. An element that is written has two neighbours between which
its author's list has nothing; `WeaveGrows` gives it a place among the elements that the
author lacks, between those two, such that the order remains a weave. An element that
arrives elsewhere has its place already; `SpliceAlong` shows that the walk over the
conflict zone ends right there: what the walk passes (`Precedes`) stands in front of that
place, and what stops it (`Stops`) or it does not take stands behind it, whichever
elements the document lacks. `LinedEdit` and `LinedCopy` apply them; the sides of an
element are the same in every document (`Sided`), also when a left origin names the last
clock of a long item (`Ended`). The one step that is not of this form is an insert next
to a deleted element: its origins are the live neighbours and not the neighbours in the
list (`EditBetween` needs the difference), and `ycpp_doc.h:213` is the finding of
`tombstone`. So the condition `BesideTombstone` is excluded, and deletions at any other
place and time are not. With it as a constraint on steps, the net of `tombstone`
satisfies the property.

`ElementsStandBetween` (`BetweenOrigins`) follows: the author's list has the element in
front of its right origin and every list that has both has them in that order
(`BetweenIs`).

`DocumentsConverge` (`Converged`) puts the pieces together: documents with the same
vectors have the same stores (`SameStores`), so the same elements in each list
(`AllListed`) in the same order (`DocumentsOrderAlike`); two sequences of the same
elements without repetition and in the same order are equal (`SameOrder`, by induction
along the sequence); the same deletions flag the same items (`DeletionsAreFlagged`), so
the same elements are live (`LiveSame`); and the heads are the same (`HeadsSettle`).

### Sync protocol (`SyncProofs`)

`AnswersAlwaysFit`: an answer can be applied whole whenever it arrives. Its invariant
`WInv` says of what is on the wire that a question still tells the truth
(`QuestionsHonest`: where it says that client `c` ends, an item of `c` ends in the
asking document, and more may have come since), and that an answer is authentic and
fits (`Fitting`: predecessor and origins of each struct are in the document or come
with it). Questions and answers stay so while both documents go on, because documents
never forget; an answer fits when it is made, because the difference to a vector that
is reached holds everything above it (`AnswerFits`). `SyncKeepsDocuments` and
`SyncImplementsLog` carry the theorems of the documents over to this way of exchange.

### Undo manager (`UndoProofs`)

`FramesNeverOverlap` and `NoFrameIsLost`, from `UInv`: the frames of the undo stack,
then those of the redo stack read backwards, then the open window, ascend without
overlap and end at or below the next clock (`ManagerInv`), which is itself never ahead
of the store (`ClockNotAhead`). `UndoOrder`, `RedoOrder`, `CaptureOrder` and
`OldestDropped` are the four ways the stacks change. `UndoKeepsHistories` adds that
types, gapless vectors, common histories and stored origins survive undo and redo at
any time: both work on flags and on the delete set only.

### Ring (`RingProofs`)

`SlotsNeverShared` (`NoRace`) and `RingIsQueue` (`Implements`), for every capacity,
every width of the counters that the capacity divides, and every stale value that a
relaxed or acquire load may return. The invariant says that the views are cautious:
the tail the producer has seen lies between the real tail and its own head, the head
the consumer has seen lies between its own tail and the real head, as distances modulo
the word (`ProducerCautious`, `ConsumerCautious`), and a slot that is being written or
read is the one the counter names (`Carried`). `Nearer` and `Farther` are the
arithmetic of such distances, `SlotsApart` says that distances below the capacity give
different slots. The queue changes when a counter is published (`PublishHeadPushes`,
`ReleaseTailPops`) and at no other step.

### Memory (`MemoryProofs`)

`NeverOverlaps`: `NoOverlap`, for every size of block, slab, slot, name, value and
vector, every alignment, and whichever calls of `malloc` fail. It is not inductive: a
new allocation avoids an old one only because what was handed out of a block lies
below that block's `off`, and because blocks put in front of or behind the head are
not confused with others. `Layout` says both. The chain is `PadAligns` (arithmetic),
`LayoutBumped` and `LayoutFresh` (one allocation, one block), `AllocOK`, then
`AcquireOK`, `NewItemOK`, `EnsureCapOK` and `AddRangeOK` for the composite operations.

`DocumentInv` adds the ranges (sorted, apart) and the slots. `SlotsAreKept`
(`SlotOnce`) follows the free list and the store through every path on which an item
is given back. `RangesStayCompact`, `LookupIsExact` and `RangesAreClockSet`: the
binary search of `DeleteSet` is a recursive function, `HalvesFinds` proves it right by
induction on its window, `InsertedIs` and `MergeForwardIs` what insertion and merging
leave, and `AddRangeIs` that the covered clocks are the union.

### Hash table (`HashMapProofs`)

`TableInvariance` with `WalksEnd`, `FindReachesAll` and `TableIsMap`, for every hash
function, every tag and all capacities of 5 slots or more (below 5 the load limit would
not keep a slot empty; the code starts at 16). `TableOK` says that no
key is in two slots (`Once`), that from the home of each key its slot is reached
without passing an empty slot (`Reached`), and that the counters are right
(`Counted`), so that by the load limit an empty slot remains (`EmptyLeft`) and every
walk ends (`WalkEnds`). `PutOK` is the one lemma about changing a slot. Growth reads
the old slots in order (`Runs`, `MovedOn`): by induction over the slots read, the new
table holds exactly what was read.

### Awareness (`AwarenessProofs`)

`Truthful`, `NeverBack` and `OwnStateStands`, for any number of peers, restarts and
messages. The invariant for the first two is `TInv`: what is in flight is as truthful
as what is held. The third needs `OwnNewest`: of a peer that has not restarted, no
table, held or in flight, has a higher clock than the peer's own.

## 6. Known disagreements

Three places where the code does not do what its comments say are kept as runs whose
property is expected to fail:

- `tombstone` (`ycpp_doc.h:213`): `array_insert_at` takes the origins of a new item
  from the live neighbours and skips tombstones between them. The conflict zone then
  starts at an item that is not the neighbour in the list, and two documents that
  receive the item and a concurrent insert in different orders place them differently
  for good. `README.md:22-23` promises convergence. An insert next to a deleted element
  (`BesideTombstone`) is the only way to it: without one, documents are proved to agree
  (`DocumentsOrderAlike`, where nobody compacts and no zone overflows). Of the passing
  runs that check the order of lists, `text_sync` has no deletion, and `relay`, which
  has such inserts, has too few items for the disagreement.
- `redo` (`ycpp_undo.h:132`): redo clears flags locally, the delete set keeps the
  range, and nothing travels.
- `move` (`ycpp_move.h:78`): when the range begins the list, `start_` keeps pointing
  at its first item, which now stands behind the move, and `for_each`, `at` and
  `length` no longer reach what stood between. Items 2, 1 and a move of 2 to the end
  are enough. `ycpp_move.h:13-14` says that a move changes the order only. With
  `start_` set to the item behind the range in that case, the same run holds.

These were met too. Each is in the model as the code has it, and shows in TLC with the
change of bounds given:

| where | what | how to see it |
|---|---|---|
| `ycpp_doc.h:221` | `array_insert_at` accepts index length + 1 in a list that is not empty and appends, against its comment at line 197 | the definition `AcceptedIndices` |
| `ycpp_doc.h:447` | an item that arrives after the deletion that covers it stays alive | `Converged` with two clients, no links, one publisher that deletes, two messages |
| `ycpp_doc.h:336` | an update that arrives before its predecessor is dropped, nothing queues it, against `ycpp_struct_store.h:48-50` | `NothingDropped` without its first disjunct, which is this case, in `text_sync` |
| `ycpp_doc.h:554` | after an insert that exceeds the conflict zone (256 items in the code) the next clock stays behind the stored item, and the store rejects every later local edit | `NextClockFree` with `MaxConflict = 1`, one author of three items that deletes |
| `ycpp_doc.h:377` | a compacted element travels without parent, and a later element that inherits its parent from it never reaches the list of a new peer | `Converged` with three clients, one text, budgets 2, 2, 0, one author deletes and compacts |
| `ycpp_ymap.h:171` | overwrite chains longer than the walk (256 items in the code) are compared at the deepest items reached: documents pick different winners and a key can lose all values | `OneLiveValue` with `MaxOriginChain = 2`, budgets 2, 1, 1 |
| `ycpp_awareness.h:76` | a peer that restarted publishes at clock 1 again; others drop that as stale, and their tables bring its old state back to it | `OwnStateStands` without its condition on restarts |
| `ycpp_awareness.h:96` | at the client limit `apply` returns at the first unknown client, and newer states of known clients behind it are lost | the definition `Reached` |
| `ycpp_protocol.h:76` | a document whose difference exceeds 16 KiB can never be sent to a new peer: the same question fails again each time | the definition `Fail` |
| `ycpp_doc.h:276` | `array_delete_at` flags the item before the delete set may refuse the range: the deletion then never travels | the definition `DeleteItem` |
| `ycpp_doc.h:299` | every update is decoded, and every struct that is turned away is cloned, into memory that is given back only with the document | `RejectItem`: `arena` grows, `pool` does not |
| `ycpp_doc.h:563` | a move whose range has not arrived is stored all the same, and no later pass retries it, against the comment at 561-562 | by reading; `Move` takes ranges that are stored |
| `ycpp_move.h:15-16` | the header says that the priority of concurrent moves is honoured; `apply_move` does not read it, and each document applies moves as they arrive (`LIMITATIONS.md:59-62`) | by reading |

## 7. Only model-checked

- Liveness (`EventuallyConverged`, `Drains`, `EventuallyAgree`): proofs of liveness
  under fairness need `ENABLED`, which the prover used here does not support.
- `WireFaithful`, `EchoesForeign`, `CutIsSeen` and `VarintExact`: what recursive
  functions compute on a stream and on a number; `VarintExact` rests on powers of two
  with a variable exponent, for which the provers have no arithmetic.

## 8. Not modelled

- Sub-documents: a table by guid that `apply_one` fills and nothing else reads. Its
  one hazard, a registration that outlives a rejected struct, is listed in
  `PROJECT.json`.
- `YText` is a read of the list; its delta is formatting.
- The V2 stubs return an error; the command line tool is file I/O around `Doc`.
- Unicode conversion of lengths: text is counted in the items' clocks.
- Request ids and the framing of envelopes: carried, never looked at.
- In `Move`: deleted items, a range that is not stored yet, the priority (the code
  does not read it), and concurrent moves in several documents.
- In `DocMemory`: the memory of the hash tables, of the roots and of a running
  decoder, and the release of the whole arena at its end.
- The table of clients inside a delete set and inside the store, and its limit.
- A peer that cuts items in two, as other implementations of the format do.
- The wrap-around of clock + length in a 64-bit word. `DeleteSet` and `UpdateCodec` add
  without a bound where the code adds without a check (`ycpp_delete_set.h:38`, `:185`),
  also for ranges that come from the wire (`ycpp_delete_set.h:116-121`).
- In `UpdateCodec`: the limits on the counts of clients and of ranges at which the
  decoder of a delete set returns `kCapacityExceeded` (`ycpp_delete_set.h:109`, `:115`);
  and structs with an origin whose info byte has the parent-sub bit as well, which
  `build_info_byte` may write and the decoder skips as `Struct` does without the bit.
- `YArray.Overflows` speaks of an item that is not detached, while `ycpp_yarray.h:138`
  tests the length of the zone first; a left origin that is in no list has no right
  neighbour there, so the zone of a detached item is empty.

## 9. Plan

In this order:

1. Splitting peers: items of another implementation that cut a range in two, for
   `encode_diff_v1` at clocks inside an item.
2. Moves inside `Doc`: concurrent moves in several documents, a range that arrives
   later.
3. `SubDocRegistry`; the table of clients of a delete set.
