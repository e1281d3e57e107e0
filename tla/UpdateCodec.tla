---------------------------- MODULE UpdateCodec -----------------------------
(***************************************************************************)
(* The updateV1 format (ycpp_update.h, the encoder in ycpp_doc.h).         *)
(*                                                                         *)
(* A stream is a sequence of numbers: one per byte of a payload, one per   *)
(* varint (module Varint has their bytes), and a character is one byte.    *)
(* It carries no types and no clocks but the first of a client's run: the  *)
(* reader infers where each field ends and which clock comes next from     *)
(* what it has read.                                                       *)
(*                                                                         *)
(* A reader is a position in the stream, 0 once a read has failed.  The    *)
(* encoder writes to a buffer that is large enough.                        *)
(***************************************************************************)
EXTENDS StructStore

\* ContentKind
kGc == 0
kDeleted == 1
kJson == 2
kBinary == 3
kString == 4
kEmbed == 5
kFormat == 6
kType == 7
kAny == 8
kDoc == 9
kSkip == 10
kMove == 11

kMaxAnyDepth == 64
kMaxCount == 65536
kMaxStructs == 16777216
kMaxClientsPerUpdate == 4096

-----------------------------------------------------------------------------
(* Writing.  A struct has the fields of DecodedStruct and Item; parent_name *)
(* and parent_sub are sequences of bytes, view is what content_view holds.  *)

WriteId(x) == << x[1], x[2] >>
WriteString(v) == << Len(v) >> \o v

Bit(b) == IF b THEN 1 ELSE 0
KindOf(info) == info % 32
HasSub(info) == (info \div 32) % 2 = 1
HasRight(info) == (info \div 64) % 2 = 1
HasLeft(info) == (info \div 128) % 2 = 1
HasParentInfo(info) ==
  ~HasLeft(info) /\ ~HasRight(info) /\ KindOf(info) \notin {kGc, kSkip}

\* build_info_byte
ByLeftOnly(s) ==   \* mutant: the right origin is forgotten
  s.kind + 32 * Bit(s.parent_sub # << >> /\ s.kind \notin {kGc, kSkip})
         + 128 * Bit(s.origin_left # NoId)
InfoByte(s) ==
  s.kind + 32 * Bit(s.parent_sub # << >> /\ s.kind \notin {kGc, kSkip})
         + 64 * Bit(s.origin_right # NoId) + 128 * Bit(s.origin_left # NoId)

\* write_content_payload: what the reader captured is echoed.
WritePayload(s) ==
  CASE s.kind \in {kGc, kSkip, kDeleted}     -> << s.length >>
    [] s.kind \in {kString, kBinary, kEmbed} -> WriteString(s.view)
    [] OTHER                              -> s.view

\* write_struct.  (Where parent info is due and there is no parent it fails
\* with kInternal; no stored item is like that.)
WriteStruct(s) ==
  LET info == InfoByte(s)
  IN  << info >>
      \o (IF HasLeft(info) THEN WriteId(s.origin_left) ELSE << >>)
      \o (IF HasRight(info) THEN WriteId(s.origin_right) ELSE << >>)
      \o (IF ~HasParentInfo(info) THEN << >>
          ELSE IF s.parent_id # NoId THEN << 0 >> \o WriteId(s.parent_id)
          ELSE << 1 >> \o WriteString(s.parent_name))
      \o (IF HasSub(info) /\ HasParentInfo(info) THEN WriteString(s.parent_sub) ELSE << >>)
      \o WritePayload(s)

\* The body of encode_diff_v1: for every client with something new, the
\* number of structs, the client, the first clock, the structs.
WriteBlock(client, structs) ==
  IF structs = << >> THEN << >>
  ELSE << Len(structs), client, structs[1].id[2] >>
       \o FlattenSeq([i \in DOMAIN structs |-> WriteStruct(structs[i])])

\* DeleteSet::encode: ranges[i] holds the ranges of the i-th client.
WriteDeletes(clients, ranges) ==
  << Len(clients) >>
  \o FlattenSeq([i \in DOMAIN clients |->
       << clients[i], Len(ranges[i]) >> \o FlattenSeq(ranges[i])])

-----------------------------------------------------------------------------
(* Reading one field; the result is the position behind it.                 *)

\* u8, varint_u64 and skip(n)
Past(s, i, n) == IF i # 0 /\ i + n <= Len(s) + 1 THEN i + n ELSE 0

\* length_prefixed
TakesWhatIsLeft(s, i) ==   \* mutant: a string may run over the end
  IF i \notin DOMAIN s THEN 0
  ELSE IF s[i] <= Len(s) - i THEN i + 1 + s[i] ELSE Len(s) + 1
PastString(s, i) ==
  IF i \in DOMAIN s /\ s[i] <= Len(s) - i THEN i + 1 + s[i] ELSE 0
StringAt(s, i) == SubSeq(s, i + 1, PastString(s, i) - 1)

\* skip_any and the loops around it: n strings, values, or members of an
\* object, at nesting depth d.
PastMany(s, what, from, count, depth) ==
  LET past[w \in {"string", "value", "member"}, i \in Nat, n \in Nat, d \in Nat] ==
        LET several(elem) ==
              IF i + 1 \in DOMAIN s /\ s[i + 1] <= kMaxCount
              THEN past[elem, i + 2, s[i + 1], d + 1] ELSE 0
            value ==
              IF d >= kMaxAnyDepth \/ i \notin DOMAIN s THEN 0
              ELSE CASE s[i] \in {120, 121, 126, 127} -> i + 1
                     [] s[i] = 125         -> Past(s, i + 1, 1)
                     [] s[i] = 124         -> Past(s, i + 1, 4)
                     [] s[i] \in {122, 123} -> Past(s, i + 1, 8)
                     [] s[i] \in {116, 119} -> PastString(s, i + 1)
                     [] s[i] = 118         -> several("member")
                     [] s[i] = 117         -> several("value")
                     [] OTHER              -> 0
            one == CASE w = "string" -> PastString(s, i)
                     [] w = "value"  -> value
                     [] w = "member" -> past["value", PastString(s, i), 1, d]
        IN  IF i = 0 \/ n = 0 THEN i ELSE past[w, one, n - 1, d]
  IN  past[what, from, count, depth]

\* read_any_array, read_json_array
PastList(s, i, elem) ==
  IF i \in DOMAIN s /\ s[i] <= kMaxCount THEN PastMany(s, elem, i + 1, s[i], 0) ELSE 0

\* read_content_payload: the payload's end, the clocks it stands for, and
\* what content_view captures.  An empty string or list still takes a clock.
AtLeastOne(n) == IF n = 0 THEN 1 ELSE n
Payload(s, i, kind) ==
  LET captured(end, n) ==
        [ at |-> end, length |-> n, view |-> IF end = 0 THEN << >> ELSE SubSeq(s, i, end - 1) ]
      count == IF i \in DOMAIN s THEN s[i] ELSE 0
  IN  CASE kind \in {kGc, kSkip, kDeleted} ->
             [ at |-> IF count = 0 THEN 0 ELSE i + 1, length |-> count, view |-> << >> ]
        [] kind = kString ->
             [ at |-> PastString(s, i), length |-> AtLeastOne(count), view |-> StringAt(s, i) ]
        [] kind \in {kBinary, kEmbed} ->
             [ at |-> PastString(s, i), length |-> 1, view |-> StringAt(s, i) ]
        [] kind = kJson   -> captured(PastList(s, i, "string"), AtLeastOne(count))
        [] kind = kAny    -> captured(PastList(s, i, "value"), AtLeastOne(count))
        [] kind = kFormat -> captured(PastMany(s, "string", i, 2, 0), 1)
        [] kind = kType   -> captured(Past(s, i, 1), 1)
        [] kind = kDoc    -> captured(PastMany(s, "member", i, 1, 0), 1)
        [] kind = kMove   -> captured(Past(s, i, 5), 1)
        [] OTHER          -> captured(0, 1)

-----------------------------------------------------------------------------
(* Reading structs.                                                         *)

\* decode_one_struct: the struct and the position behind it.
Struct(s, i, client, at) ==
  LET info == IF i \in DOMAIN s THEN s[i] ELSE 0
      left == Past(s, i, 1)
      right == IF HasLeft(info) THEN Past(s, left, 2) ELSE left
      tag == IF HasRight(info) THEN Past(s, right, 2) ELSE right
      byName == HasParentInfo(info) /\ tag \in DOMAIN s /\ s[tag] = 1
      byItem == HasParentInfo(info) /\ tag \in DOMAIN s /\ s[tag] = 0
      sub == IF ~HasParentInfo(info) THEN tag
             ELSE IF byName THEN PastString(s, tag + 1)
             ELSE IF byItem THEN Past(s, tag + 1, 2) ELSE 0
      hasSub == HasSub(info) /\ HasParentInfo(info)
      payload == IF hasSub THEN PastString(s, sub) ELSE sub
      content == Payload(s, payload, KindOf(info))
      idAt(has, p) == IF has /\ Past(s, p, 2) # 0 THEN << s[p], s[p + 1] >> ELSE NoId
  IN  [ at |-> IF left = 0 \/ KindOf(info) > kMove \/ payload = 0 THEN 0 ELSE content.at,
        struct |->
          [ id |-> << client, at >>, length |-> content.length,
            origin_left |-> idAt(HasLeft(info), left),
            origin_right |-> idAt(HasRight(info), right),
            parent_name |-> IF byName THEN StringAt(s, tag + 1) ELSE << >>,
            parent_id |-> idAt(byItem, tag + 1),
            parent_sub |-> IF hasSub THEN StringAt(s, sub) ELSE << >>,
            kind |-> KindOf(info), view |-> content.view ] ]

\* What has been read so far, and the struct or the block that comes behind
\* it; at is 0 for good once one of them is broken.
Broken == [ at |-> 0, clock |-> 0, structs |-> << >>, clients |-> << >> ]
WithStruct(prev, one) ==
  IF prev.at = 0 \/ one.at = 0 THEN Broken
  ELSE [ at |-> one.at, clock |-> prev.clock + one.struct.length,
         structs |-> Append(prev.structs, one.struct) ]
WithBlock(prev, client, run) ==
  IF run.at = 0 THEN Broken
  ELSE [ at |-> run.at, clients |-> Append(prev.clients, client),
         structs |-> prev.structs \o run.structs ]

\* The loop over the structs of one client: each starts at the clock where
\* the one before it ends.
OneClockEach(s, i, n, client, first) ==   \* mutant: lengths are not counted
  LET run[k \in 0 .. n] ==
        IF k = 0 THEN [ at |-> i, clock |-> first, structs |-> << >> ]
        ELSE WithStruct(run[k - 1], Struct(s, run[k - 1].at, client, first + k - 1))
  IN  run[n]
Run(s, i, n, client, first) ==
  LET run[k \in 0 .. n] ==
        IF k = 0 THEN [ at |-> i, clock |-> first, structs |-> << >> ]
        ELSE WithStruct(run[k - 1], Struct(s, run[k - 1].at, client, run[k - 1].clock))
  IN  run[n]

\* decode_update_v1 up to the delete set: the clients in the order of their
\* blocks and the structs of all blocks.
Blocks(s) ==
  LET behind(prev) ==
        IF prev.at = 0 \/ Past(s, prev.at, 3) = 0 \/ s[prev.at] > kMaxStructs THEN Broken
        ELSE WithBlock(prev, s[prev.at + 1],
                       Run(s, prev.at + 3, s[prev.at], s[prev.at + 1], s[prev.at + 2]))
      block[k \in 0 .. s[1]] ==
        IF k = 0 THEN [ at |-> 2, clients |-> << >>, structs |-> << >> ]
        ELSE behind(block[k - 1])
  IN  IF s = << >> \/ s[1] > kMaxClientsPerUpdate THEN Broken ELSE block[s[1]]

\* DeleteSet::decode: the clocks of all ranges.  An empty range is corrupt.
Deletes(s, i) ==
  LET ranges(c, at, n) ==
        LET range[k \in 0 .. n] ==
              IF k = 0 THEN [ at |-> at, clocks |-> {} ]
              ELSE LET prev == range[k - 1]
                   IN  IF Past(s, prev.at, 2) = 0 \/ s[prev.at + 1] = 0
                       THEN [ at |-> 0, clocks |-> {} ]
                       ELSE [ at |-> prev.at + 2,
                              clocks |-> prev.clocks \cup
                                ({c} \X (s[prev.at] .. (s[prev.at] + s[prev.at + 1] - 1))) ]
        IN  range[n]
      client[k \in 0 .. s[i]] ==
        IF k = 0 THEN [ at |-> i + 1, clocks |-> {} ]
        ELSE LET prev == client[k - 1]
                 its == ranges(s[prev.at], prev.at + 2, s[prev.at + 1])
             IN  IF Past(s, prev.at, 2) = 0 THEN [ at |-> 0, clocks |-> {} ]
                 ELSE [ at |-> its.at, clocks |-> prev.clocks \cup its.clocks ]
  IN  IF i \notin DOMAIN s THEN [ at |-> 0, clocks |-> {} ] ELSE client[s[i]]

\* decode_update_v1: nothing of the stream may be left over.
Whole(s, got) == got.at # 0 /\ Deletes(s, got.at).at = Len(s) + 1

-----------------------------------------------------------------------------
(* Foreign structs: what another implementation may send, of every kind,   *)
(* written by the grammar of the format rather than by the encoder above.  *)

\* lib0/any values, some of whose bytes look like tags, lengths or counts.
FlatValues == { << 127 >>, << 125, 117 >>, << 124, 118, 1, 1, 119 >>, << 116, 0 >>,
                << 119, 2, 117, 118 >>, << 123, 1, 2, 3, 4, 5, 6, 7, 8 >> }
DeepValues == { << 117, 2 >> \o v \o w : v, w \in FlatValues }
              \cup { << 118, 1, 1, 119 >> \o v : v \in FlatValues }

\* d arrays around nothing.
Nested(d) == [ i \in 1 .. 2 * d |-> IF i % 2 = 1 THEN 117 ELSE IF i = 2 * d THEN 0 ELSE 1 ]

\* Kind, the clocks it takes, the payload.
Contents ==
  { << k, 3, << 3 >> >> : k \in {kGc, kDeleted, kSkip} }
  \cup { << k, 1, << 2, 7, 8 >> >> : k \in {kBinary, kEmbed} }
  \cup { << kString, 2, << 2, 4, 4 >> >>, << kString, 1, << 0 >> >>,
         << kJson, 2, << 2, 1, 9, 0 >> >>, << kJson, 1, << 0 >> >>,
         << kFormat, 1, << 1, 5, 2, 6, 6 >> >>, << kType, 1, << 3 >> >>,
         << kMove, 1, << 1, 0, 1, 2, 0 >> >>, << kAny, 1, << 0 >> >>,
         << kAny, 1, << 1 >> \o Nested(kMaxAnyDepth) >> }
  \cup { << kAny, 1, << 1 >> \o v >> : v \in FlatValues \cup DeepValues }
  \cup { << kAny, 2, << 2 >> \o v \o w >> : v, w \in FlatValues }
  \cup { << kDoc, 1, << 2, 3, 3 >> \o v >> : v \in FlatValues \cup DeepValues }

\* Origins and parent of a struct as they are written, with the info byte.
Placements(kind) ==
  { << kind + 128, 1, 4 >>, << kind + 64, 2, 5 >>, << kind + 192, 1, 4, 2, 5 >> }
  \cup IF kind \in {kGc, kSkip} THEN { << kind >> }
       ELSE { << kind, 1, 1, 6 >>, << kind, 0, 2, 3 >>, << kind + 32, 1, 1, 6, 1, 7 >> }

ForeignStructs ==
  UNION { { << p \o c[3], c[2] >> : p \in Placements(c[1]) } : c \in Contents }

-----------------------------------------------------------------------------

\* The foreign structs that are not read to their end and no further, that
\* count for other clocks than they have, or that come out changed.
Garbled ==
  { f \in ForeignStructs :
      LET got == Struct(f[1] \o << 4, 0 >>, 1, 3, 10)
      IN  \/ got.at # Len(f[1]) + 1
          \/ got.struct.length # f[2]
          \/ WriteStruct(got.struct) # f[1] }

\* Structs cut short, and a value nested too deep, that are read as whole.
Cut == UNION { { SubSeq(f[1], 1, n) : n \in 0 .. (Len(f[1]) - 1) } : f \in ForeignStructs }
TooDeep == << kAny + 128, 1, 4, 1 >> \o Nested(kMaxAnyDepth + 1)
Mistaken == { s \in Cut \cup {TooDeep} : Struct(s, 1, 3, 10).at # 0 }
=============================================================================
