-------------------------------- MODULE Sync --------------------------------
(***************************************************************************)
(* The sync protocol, message by message (ycpp_protocol.h,                 *)
(* ycpp_envelope.h), over the documents of module Doc.                     *)
(*                                                                         *)
(* A session << from, to >> brings to what from has: to asks with its      *)
(* state vector, from answers with a difference, to applies it.  Each      *)
(* session holds the last envelope under way.  It may wait there while     *)
(* both documents go on editing, compacting and talking to others; it may  *)
(* arrive any number of times; and it is lost when to asks again.  Request *)
(* ids are carried and never looked at by the code, and left out.  Updates *)
(* broadcast with kSyncUpdate are the actions Publish and Deliver of Doc.  *)
(***************************************************************************)
EXTENDS DocProperties, UpdateCodec, Varint

CONSTANTS
  Sessions,     \* << from, to >>
  Staging,      \* the size of emit_sync_step2's buffer
  NoEnvelope

ASSUME SessionsAssumption == Sessions \subseteq Clients \X Clients

VARIABLE wire   \* wire[s]: the envelope under way in session s

syncVars == << vars, wire >>

-----------------------------------------------------------------------------
(* The bytes of an update.                                                 *)

NameOf(parent) ==
  CHOOSE i \in DOMAIN SetToSeq(Texts \cup Keys) : SetToSeq(Texts \cup Keys)[i] = parent

\* An item as write_struct sees it.  Its content is as long as its clocks.
AsStruct(it) ==
  [ id |-> it.id, length |-> it.length,
    origin_left |-> it.origin_left, origin_right |-> it.origin_right,
    parent_id |-> NoId,
    parent_name |-> IF it.parent = NoParent THEN << >> ELSE << NameOf(it.parent) >>,
    parent_sub |-> IF it.parent \in Keys THEN << NameOf(it.parent) >> ELSE << >>,
    kind |-> IF it.content_kind = "skip" THEN kSkip ELSE kString,
    view |-> IF it.content_kind = "skip" THEN << >> ELSE [i \in 1 .. it.length |-> 0] ]

\* A decoded struct as apply_one sees it.
AsItem(s) ==
  [ id |-> s.id, length |-> s.length,
    origin_left |-> s.origin_left, origin_right |-> s.origin_right,
    parent |-> IF s.parent_name = << >> THEN NoParent
               ELSE SetToSeq(Texts \cup Keys)[s.parent_name[1]],
    content_kind |-> IF s.kind = kSkip THEN "skip" ELSE "string" ]

\* The ranges of a delete set for one client: maximal and in order.
RangesOf(clocks, c) ==
  LET mine == { x[2] : x \in { y \in clocks : y[1] = c } }
      starts == { n \in mine : n = 0 \/ n - 1 \notin mine }
      length(n) == CHOOSE k \in 1 .. Cardinality(mine) :
                     n + k \notin mine /\ n .. (n + k - 1) \subseteq mine
  IN  [ i \in DOMAIN SetToSortSeq(starts, <) |->
          << SetToSortSeq(starts, <)[i], length(SetToSortSeq(starts, <)[i]) >> ]

\* encode_diff_v1(doc, since)
Bytes(p, since) ==
  LET new(c) == SelectSeq(store[p][c], LAMBDA it : it.id[2] >= since[c])
      senders == SelectSeq(order[p], LAMBDA c : new(c) # << >>)
      block(c) == WriteBlock(c, [ i \in DOMAIN new(c) |-> AsStruct(new(c)[i]) ])
      deleters == SetToSeq({ x[1] : x \in ds[p] })
  IN  << Len(senders) >>
      \o FlattenSeq([ i \in DOMAIN senders |-> block(senders[i]) ])
      \o WriteDeletes(deleters, [ i \in DOMAIN deleters |-> RangesOf(ds[p], deleters[i]) ])

-----------------------------------------------------------------------------

SyncInit == Init /\ wire = [s \in Sessions |-> NoEnvelope]

\* emit_sync_step1
Ask(from, to) ==
  /\ job = NoJob
  /\ wire' = [wire EXCEPT ![<< from, to >>] =
                [ kind |-> "kSyncStep1", sv |-> StateVector(store[to]) ]]
  /\ UNCHANGED vars

\* apply_sync_message of step 1, emit_sync_step2
Fits(p, since) == Len(Bytes(p, since)) <= Staging
AnswersPast(from, to) ==   \* mutant: leaves out the struct at the asked clock
  LET asked == wire[<< from, to >>] IN
  /\ job = NoJob
  /\ asked # NoEnvelope /\ asked.kind = "kSyncStep1"
  /\ Fits(from, asked.sv)
  /\ wire' = [wire EXCEPT ![<< from, to >>] =
                [ kind |-> "kSyncStep2",
                  update |-> Diff(from, [c \in Clients |-> asked.sv[c] + 1]) ]]
  /\ UNCHANGED vars
Answer(from, to) ==
  LET asked == wire[<< from, to >>] IN
  /\ job = NoJob
  /\ asked # NoEnvelope /\ asked.kind = "kSyncStep1"
  /\ Fits(from, asked.sv)
  /\ wire' = [wire EXCEPT ![<< from, to >>] =
                [ kind |-> "kSyncStep2", update |-> Diff(from, asked.sv) ]]
  /\ UNCHANGED vars

\* emit_sync_step2 fails when the difference does not fit its buffer, and
\* there is no answer.
Fail(from, to) ==
  LET asked == wire[<< from, to >>] IN
  /\ job = NoJob
  /\ asked # NoEnvelope /\ asked.kind = "kSyncStep1"
  /\ ~Fits(from, asked.sv)
  /\ wire' = [wire EXCEPT ![<< from, to >>] = NoEnvelope]
  /\ UNCHANGED vars

\* apply_sync_message of step 2
Receive(from, to) ==
  LET answer == wire[<< from, to >>] IN
  /\ job = NoJob
  /\ answer # NoEnvelope /\ answer.kind = "kSyncStep2"
  /\ Begin(to, answer.update)
  /\ UNCHANGED << docVars, msgs, sent, wire >>

SyncNext ==
  \/ Next /\ UNCHANGED wire
  \/ \E s \in Sessions : \/ Ask(s[1], s[2]) \/ Answer(s[1], s[2])
                         \/ Fail(s[1], s[2]) \/ Receive(s[1], s[2])

SyncSpec == SyncInit /\ [][SyncNext]_syncVars

-----------------------------------------------------------------------------

\* An answer can be applied whole whenever it arrives, however much both
\* documents have changed since it was asked for and given: each struct's
\* predecessor and origins are in the update or in the document, which has
\* not lost what it said it had (encode_diff_v1, apply_update_v1).
AnswersFit ==
  \A s \in Sessions :
    wire[s] # NoEnvelope /\ wire[s].kind = "kSyncStep2" =>
      LET up == wire[s].update.structs
          reachable(x) == Has(store[s[2]], x) \/ \E e \in up : Covers(e, x)
      IN  \A d \in up :
            /\ d.id[2] > 0 => reachable(<< d.id[1], d.id[2] - 1 >>)
            /\ \A x \in { d.origin_left, d.origin_right } \ { NoId } : reachable(x)

\* What the decoder infers from the bytes is what the encoder meant: clocks,
\* lengths, origins, parents, the clients' order and the delete set, of
\* every whole document and of every difference that was asked for
\* (encode_diff_v1, decode_update_v1).
Everything == [c \in Clients |-> 0]
AskedOf(p) ==
  {Everything} \cup
  { wire[s].sv : s \in { r \in Sessions : /\ r[1] = p /\ wire[r] # NoEnvelope
                                          /\ wire[r].kind = "kSyncStep1" } }
Tells(bytes, got, meant) ==
  /\ Whole(bytes, got)
  /\ { AsItem(got.structs[i]) : i \in DOMAIN got.structs } = meant.structs
  /\ \A i, j \in DOMAIN got.structs : i < j =>
       Earlier(meant.order, AsItem(got.structs[i]), AsItem(got.structs[j]))
  /\ Deletes(bytes, got.at).clocks = meant.ds
WireFaithful ==
  \A p \in Clients : \A since \in AskedOf(p) : \A bytes \in {Bytes(p, since)} :
    Tells(bytes, Blocks(bytes), Diff(p, since))

-----------------------------------------------------------------------------
(* While an update is decoded, whoever wrote it.                           *)

\* A struct of any kind, also one that only travels through a document,
\* counts for the clocks it has and leaves the document as it came
\* (decode_one_struct, read_content_payload, write_struct).
EchoesForeign == job # NoJob => Garbled = {}

\* A struct cut short anywhere, or nested too deep, is never taken for a
\* whole one (Reader, skip_any).
CutIsSeen == job # NoJob => Mistaken = {}

\* Every stream of bytes decodes to the number it holds, or is refused when
\* that number is no word or its end is missing; every word and every signed
\* integer comes back as it was written (varint_decode_u64, varint_encode_u64,
\* zigzag_encode_i64).
VarintExact == job # NoJob => Misread \cup Lossy = {}
=============================================================================
