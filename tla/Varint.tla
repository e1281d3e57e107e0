------------------------------- MODULE Varint -------------------------------
(***************************************************************************)
(* Variable-length integers (ycpp_varint.h): groups of 7 bits, the lowest  *)
(* first, each in a byte whose top bit says that more follow; signed       *)
(* integers are folded onto the unsigned ones.  The code's sizes are       *)
(* GroupBits = 7, WordBits = 64 and kMaxVarintBytes = 10, so that the last *)
(* byte has room for one bit of a word; smaller ones keep that relation.   *)
(***************************************************************************)
EXTENDS Integers, Sequences, SequencesExt

CONSTANTS GroupBits, WordBits, kMaxVarintBytes

ASSUME SizesAssumption ==
  /\ {GroupBits, WordBits, kMaxVarintBytes} \subseteq Nat \ {0}
  /\ WordBits = GroupBits * (kMaxVarintBytes - 1) + 1

Group == 2 ^ GroupBits
Words == 0 .. (2 ^ WordBits - 1)
Signed == (-(2 ^ (WordBits - 1))) .. (2 ^ (WordBits - 1) - 1)
Octets == 0 .. (2 * Group - 1)

\* b & 0x7F, and b & 0x80
Data(b) == b % Group
More(b) == b >= Group

\* varint_encode_u64, into a buffer that is large enough.
Encode(v) ==
  LET from[x \in Words] ==
        IF x < Group THEN << x >> ELSE << (x % Group) + Group >> \o from[x \div Group]
  IN  from[v]

\* varint_size_u64
Size(v) ==
  LET bytes[x \in Words] == IF x < Group THEN 1 ELSE 1 + bytes[x \div Group]
  IN  bytes[v]

\* varint_decode_u64
DropsHighBits(s) ==   \* mutant: the last byte is not looked at
  LET try[i \in 0 .. kMaxVarintBytes, acc \in Words] ==
        IF i = kMaxVarintBytes THEN [ status |-> "kCorruptInput" ]
        ELSE IF i >= Len(s) THEN [ status |-> "kOutOfBounds" ]
        ELSE LET sum == (acc + Data(s[i + 1]) * Group ^ i) % (2 ^ WordBits)
             IN  IF More(s[i + 1]) THEN try[i + 1, sum]
                 ELSE [ status |-> "kOk", value |-> sum, consumed |-> i + 1 ]
  IN  try[0, 0]
Decode(s) ==
  LET try[i \in 0 .. kMaxVarintBytes, acc \in Words] ==
        IF i = kMaxVarintBytes THEN [ status |-> "kCorruptInput" ]
        ELSE IF i >= Len(s) THEN [ status |-> "kOutOfBounds" ]
        ELSE LET b == s[i + 1]
                 sum == (acc + Data(b) * Group ^ i) % (2 ^ WordBits)
             IN  IF i = kMaxVarintBytes - 1 /\ Data(b) > 1 THEN [ status |-> "kCorruptInput" ]
                 ELSE IF More(b) THEN try[i + 1, sum]
                 ELSE [ status |-> "kOk", value |-> sum, consumed |-> i + 1 ]
  IN  try[0, 0]

\* x ^ -1 on a word, and the word as a signed integer.
Flipped(x) == 2 ^ WordBits - 1 - x
AsSigned(x) == IF x \in Signed THEN x ELSE x - 2 ^ WordBits

\* zigzag_encode_i64, zigzag_decode_i64
ZigZag(v) ==
  LET shifted == (2 * v) % (2 ^ WordBits) IN IF v < 0 THEN Flipped(shifted) ELSE shifted
UnZigZag(x) == AsSigned(IF x % 2 = 1 THEN Flipped(x \div 2) ELSE x \div 2)

-----------------------------------------------------------------------------

\* The number the bytes of s up to the first without continuation stand for,
\* without the limits of a word.
Ends(s) == { i \in DOMAIN s : ~More(s[i]) }
FirstEnd(s) == CHOOSE i \in Ends(s) : \A j \in Ends(s) : i <= j
Meant(s) == FoldLeft(LAMBDA sum, i : sum + Data(s[i]) * Group ^ (i - 1), 0,
                     [ i \in 1 .. FirstEnd(s) |-> i ])

\* Streams that are decoded although they hold no word, or to something else
\* than they hold, or to an end that is not theirs; words and integers that
\* do not survive a round trip.
Misread ==
  { s \in UNION { [1 .. n -> Octets] : n \in 0 .. (kMaxVarintBytes + 1) } :
      LET got == Decode(s)
          wellFormed == /\ Ends(s) # {} /\ FirstEnd(s) <= kMaxVarintBytes
                        /\ Meant(s) \in Words
      IN  got # IF wellFormed
                THEN [ status |-> "kOk", value |-> Meant(s), consumed |-> FirstEnd(s) ]
                ELSE [ status |-> IF Len(s) < kMaxVarintBytes /\ Ends(s) = {}
                                  THEN "kOutOfBounds" ELSE "kCorruptInput" ] }
Lossy ==
  { v \in Words : LET got == Decode(Encode(v) \o << Group >>)
                  IN  got # [ status |-> "kOk", value |-> v, consumed |-> Size(v) ] }
  \cup { v \in Signed : ZigZag(v) \notin Words \/ UnZigZag(ZigZag(v)) # v }
=============================================================================
