-------------------------------- MODULE Lzjb --------------------------------
(***************************************************************************)
(* lzjb_compress and lzjb_decompress (zfs/lzjb.py), one item per step: a   *)
(* literal byte, or a match in a word of two bytes, each with its bit in   *)
(* the copy map in front of its group.                                     *)
(*                                                                         *)
(* A byte has ByteBits bits (8 in the code), MatchBits of a word (6) are   *)
(* the length of a match.  Hash stands for the hash of three bytes, of     *)
(* which compression takes no more than that it is an index of lempel.     *)
(***************************************************************************)
EXTENDS Integers, Sequences, SequencesExt, FiniteSetsExt

CONSTANTS ByteBits, MatchBits, LempelSize, Hash(_, _, _)

ASSUME LzjbAssumption ==
  /\ ByteBits \in Nat /\ MatchBits \in Nat
  /\ MatchBits < ByteBits
  /\ LempelSize \in Nat \ {0}

ByteValues == 2^ByteBits
MatchMin == 3
MatchMax == 2^MatchBits + (MatchMin - 1)
LengthUnit == 2^(ByteBits - MatchBits)
OffsetValues == 2^(2 * ByteBits - MatchBits)     \* OFFSET_MASK + 1

VARIABLES
  plain,    \* the block
  packed,   \* what the decompressor is given
  z,        \* lzjb_compress: [at, pos, dst, map, bit, lempel]
  u         \* lzjb_decompress: [at, pos, dst, map, bit]; map is the byte itself

lzjbvars == <<plain, packed, z, u>>

\* Either a block is compressed first, or packed is given (stored).
LzjbInit(block, stored) ==
  /\ plain = block
  /\ packed = stored
  /\ z = [at |-> IF stored = <<>> THEN "loop" ELSE "ok", pos |-> 0, dst |-> <<>>, map |-> 0,
          bit |-> ByteBits - 1, lempel |-> [h \in 0..(LempelSize - 1) |-> 0]]
  /\ u = [at |-> "loop", pos |-> 0, dst |-> <<>>, map |-> 0, bit |-> ByteBits - 1]

\* The bit of the copy map an item has, and whether it begins a new map.
NextBit(bit) == (bit + 1) % ByteBits
NewMap(bit) == NextBit(bit) = 0

----------------------------------------------------------------------------
\* lzjb_compress

Source(i) == plain[i + 1]

\* The output and the place of the map when an item is written.
OutSoFar == z.dst \o (IF NewMap(z.bit) THEN <<0>> ELSE <<>>)
MapAt == IF NewMap(z.bit) THEN Len(z.dst) ELSE z.map

NearEnd == z.pos > Len(plain) - MatchMax

HashAt == Hash(Source(z.pos), Source(z.pos + 1), Source(z.pos + 2))

Distance == (z.pos - z.lempel[HashAt]) % OffsetValues

Matches ==
  LET cpy == z.pos - Distance IN
  /\ Distance # 0
  /\ \A i \in 0..(MatchMin - 1) : Source(z.pos + i) = Source(cpy + i)

\* The lengths the loop over MATCH_RANGE compares: up to the first difference.
Differs(m) == Source(z.pos + m) # Source(z.pos - Distance + m)
FirstDifference ==
  LET inside == {m \in MatchMin..MatchMax : z.pos + m < Len(plain) /\ Differs(m)} IN
  IF inside = {} THEN MatchMax ELSE Min(inside)

\* src[pos + MATCH_MAX] is behind the end when the match reaches it.
CompareRaises == FirstDifference = MatchMax /\ z.pos + MatchMax = Len(plain)

LiteralOut ==
  z' = [z EXCEPT !.pos = @ + 1, !.dst = Append(OutSoFar, Source(z.pos)),
                 !.map = MapAt, !.bit = NextBit(@)]

CompressTail ==
  /\ z.at = "loop" /\ z.pos < Len(plain) /\ NearEnd
  /\ LiteralOut

CompressLiteral ==
  /\ z.at = "loop" /\ z.pos < Len(plain) /\ ~NearEnd /\ ~Matches
  /\ z' = [z EXCEPT !.pos = @ + 1, !.dst = Append(OutSoFar, Source(z.pos)),
                    !.map = MapAt, !.bit = NextBit(@), !.lempel[HashAt] = z.pos]

CompressMatch ==
  /\ z.at = "loop" /\ z.pos < Len(plain) /\ ~NearEnd /\ Matches /\ ~CompareRaises
  /\ LET flagged == [OutSoFar EXCEPT ![MapAt + 1] = @ + 2^NextBit(z.bit)]
         word == << (FirstDifference - MatchMin) * LengthUnit + Distance \div ByteValues,
                    Distance % ByteValues >> IN
     z' = [z EXCEPT !.pos = @ + FirstDifference, !.dst = flagged \o word,
                    !.map = MapAt, !.bit = NextBit(@), !.lempel[HashAt] = z.pos]

CompressRaises ==
  /\ z.at = "loop" /\ z.pos < Len(plain) /\ ~NearEnd /\ Matches /\ CompareRaises
  /\ z' = [z EXCEPT !.at = "raised"]

CompressEnds ==
  /\ z.at = "loop" /\ z.pos >= Len(plain)
  /\ z' = [z EXCEPT !.at = "ok"]

Compress ==
  \/ CompressTail \/ CompressLiteral \/ CompressMatch \/ CompressRaises \/ CompressEnds

\* What stores the block: the compressed bytes in a buffer with room behind them.
Store(pad) ==
  /\ z.at = "ok" /\ packed = <<>>
  /\ packed' = z.dst \o [i \in 1..pad |-> 0]

----------------------------------------------------------------------------
\* lzjb_decompress

\* The map of the item and the place of the item.
Map == IF NewMap(u.bit) THEN packed[u.pos + 1] ELSE u.map
ItemAt == IF NewMap(u.bit) THEN u.pos + 1 ELSE u.pos
IsMatch == (Map \div 2^NextBit(u.bit)) % 2 = 1

Stored(i) == packed[i + 1]
MatchLength == Stored(ItemAt) \div LengthUnit + MatchMin
MatchOffset == (Stored(ItemAt) * ByteValues + Stored(ItemAt + 1)) % OffsetValues

\* n bytes from cpy on, byte by byte.
CopyFrom(dst, cpy, n) ==
  LET after[k \in 0..n] ==
        IF k = 0 THEN dst ELSE LET d == after[k-1] IN Append(d, d[cpy + k]) IN
  after[n]

Decompressing == packed # <<>> /\ u.at = "loop" /\ u.pos < Len(packed)
ReadsMatch == Decompressing /\ ItemAt < Len(packed) /\ IsMatch

\* A map is the last byte, and says that a match, or a literal, follows.
DecompressRaises ==
  /\ Decompressing
  /\ \/ IsMatch /\ ItemAt + 1 >= Len(packed)
     \/ ~IsMatch /\ ItemAt >= Len(packed) /\ Len(u.dst) < Len(plain)
     \/ /\ ReadsMatch /\ ItemAt + 1 < Len(packed)
        /\ MatchOffset = 0 /\ Len(u.dst) < Len(plain)
  /\ u' = [u EXCEPT !.at = "raised"]

\* The match lies before the output.
DecompressNone ==
  /\ ReadsMatch /\ ItemAt + 1 < Len(packed)
  /\ MatchOffset > Len(u.dst)
  /\ u' = [u EXCEPT !.at = "None"]

DecompressMatch ==
  /\ ReadsMatch /\ ItemAt + 1 < Len(packed)
  /\ MatchOffset <= Len(u.dst)
  /\ MatchOffset > 0 \/ Len(u.dst) = Len(plain)
  /\ LET room == Len(plain) - Len(u.dst) IN
     u' = [u EXCEPT !.pos = ItemAt + 2, !.map = Map, !.bit = NextBit(@),
                    !.dst = CopyFrom(@, Len(@) - MatchOffset, Min({MatchLength, room}))]

DecompressLiteral ==
  /\ Decompressing /\ ~IsMatch /\ ItemAt < Len(packed)
  /\ Len(u.dst) < Len(plain)
  /\ u' = [u EXCEPT !.pos = ItemAt + 1, !.map = Map, !.bit = NextBit(@),
                    !.dst = Append(@, Stored(ItemAt))]

\* The output is full: the bit is passed over, the byte is not.
DecompressSkip ==
  /\ Decompressing /\ ~IsMatch
  /\ Len(u.dst) = Len(plain)
  /\ u' = [u EXCEPT !.pos = ItemAt, !.map = Map, !.bit = NextBit(@)]

DecompressEnds ==
  /\ packed # <<>> /\ u.at = "loop" /\ u.pos >= Len(packed)
  /\ u' = [u EXCEPT !.at = "ok"]

Decompress ==
  \/ DecompressRaises \/ DecompressNone \/ DecompressMatch
  \/ DecompressLiteral \/ DecompressSkip \/ DecompressEnds
=============================================================================
