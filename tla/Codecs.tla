------------------------------- MODULE Codecs -------------------------------
(***************************************************************************)
(* A compressed block from the disk to the caller of read_block            *)
(* (zfs/zio.py 109-142): the decompressor its pointer names, and the       *)
(* answer cut or padded to the logical size.  LZJB blocks are packed by    *)
(* the repository's lzjb_compress, LZ4 blocks by ZFS; the disk may have    *)
(* changed a byte, or the size in front of an LZ4 stream.                  *)
(***************************************************************************)
EXTENDS Lz4, Lzjb

CONSTANTS
  Plans,        \* what ZFS packs with LZ4: [seqs: of [lit, off, match], last]
  Blocks,       \* what is packed with LZJB
  Pads,         \* the zeros behind a stream, up to the end of its sector
  FragilePlans, FragileBlocks,     \* those of them the disk may damage
  NewBytes,     \* what a damaged byte may become
  NewSizes,     \* what a damaged size may become
  None, Pending

ASSUME CodecsAssumption ==
  /\ \A p \in Plans : /\ p.last \in Nat
                      /\ \A i \in DOMAIN p.seqs : p.seqs[i].off > 0 /\ p.seqs[i].match >= MinMatch
  /\ <<>> \notin Blocks
  /\ Pads \subseteq Nat
  /\ NewBytes \subseteq 0..Full /\ NewSizes \subseteq Nat

VARIABLES
  block,   \* [alg, data, pad, fragile, sound]: the first sound bytes are undamaged
  answer   \* what read_block returns

vars == <<lz4vars, lzjbvars, block, answer>>

----------------------------------------------------------------------------
\* The LZ4 format, written from the side of the compressor

Literals(n, from) == [i \in 1..n |-> (3 * (from + i)) % (Full + 1)]
Digit(n) == Min({n, RunMask})
RunBytes(n) ==
  IF n < RunMask THEN <<>>
  ELSE [k \in 1..((n - RunMask) \div Full) |-> Full] \o <<(n - RunMask) % Full>>

\* What has been written, and the stream, after one more sequence: byte n of a
\* match is byte n - off of the block.
Sequence(w, s) ==
  LET lits == Literals(s.lit, Len(w.data))
      so == w.data \o lits
      long == s.match - MinMatch
      at[n \in 1..(Len(so) + s.match)] == IF n <= Len(so) THEN so[n] ELSE at[n - s.off] IN
  [data |-> [n \in 1..(Len(so) + s.match) |-> at[n]],
   body |-> w.body \o <<Digit(s.lit) * Base + Digit(long)>> \o RunBytes(s.lit) \o lits
              \o <<s.off % (Full + 1), s.off \div (Full + 1)>> \o RunBytes(long)]

Lz4Written(p) ==
  LET after[k \in 0..Len(p.seqs)] ==
        IF k = 0 THEN [data |-> <<>>, body |-> <<>>] ELSE Sequence(after[k-1], p.seqs[k])
      w == after[Len(p.seqs)]
      lits == Literals(p.last, Len(w.data)) IN
  [data |-> w.data \o lits,
   body |-> w.body \o <<Digit(p.last) * Base>> \o RunBytes(p.last) \o lits]

\* A plan is a compressor's: it writes bytes, its matches are of what it wrote.
ASSUME PlansAssumption ==
  \A p \in Plans :
    LET w == Lz4Written(p) IN w.data \in Seq(0..Full) /\ w.body \in Seq(0..Full)

----------------------------------------------------------------------------
InitLz4 ==
  \E p \in Plans, pad \in Pads :
    LET w == Lz4Written(p)
        body == w.body \o [i \in 1..pad |-> 0] IN
    /\ Lz4Init([size |-> Len(w.body), body |-> body, room |-> Len(w.data)])
    /\ LzjbInit(<<>>, <<>>)
    /\ block = [alg |-> "lz4", data |-> w.data, pad |-> pad, fragile |-> p \in FragilePlans,
                sound |-> Len(body)]

InitLzjb ==
  \E b \in Blocks, pad \in Pads :
    /\ Lz4Init([size |-> 0, body |-> <<>>, room |-> 0])
    /\ LzjbInit(b, <<>>)
    /\ block = [alg |-> "lzjb", data |-> b, pad |-> pad, fragile |-> b \in FragileBlocks,
                sound |-> 0]

Init == (InitLz4 \/ InitLzjb) /\ answer = Pending

\* The disk, before the block is read.
DamageByte ==
  /\ block.fragile /\ c.at = "call" /\ u.pos = 0 /\ answer = Pending
  /\ \/ /\ block.alg = "lz4"
        /\ \E i \in 1..Len(stream.body), v \in NewBytes :
             /\ stream' = [stream EXCEPT !.body[i] = v]
             /\ block' = [block EXCEPT !.fragile = FALSE, !.sound = i - 1]
        /\ UNCHANGED packed
     \/ /\ block.alg = "lzjb"
        /\ \E i \in 1..Len(packed), v \in NewBytes :
             /\ packed' = [packed EXCEPT ![i] = v]
             /\ block' = [block EXCEPT !.fragile = FALSE, !.sound = i - 1]
        /\ UNCHANGED stream
  /\ UNCHANGED <<c, reach, py, plain, z, u, answer>>

DamageSize ==
  /\ block.fragile /\ block.alg = "lz4" /\ c.at = "call"
  /\ \E n \in NewSizes : stream' = [stream EXCEPT !.size = n]
  /\ block' = [block EXCEPT !.fragile = FALSE, !.sound = 0]
  /\ UNCHANGED <<c, reach, py, lzjbvars, answer>>

\* The block is packed with LZJB and written.
Pack ==
  /\ block.alg = "lzjb"
  /\ \/ Compress /\ UNCHANGED <<packed, block>>
     \/ Store(block.pad) /\ block' = [block EXCEPT !.sound = Len(packed')] /\ UNCHANGED z
  /\ UNCHANGED <<lz4vars, plain, u, answer>>

Lz4Reads ==
  /\ block.alg = "lz4"
  /\ Lz4Step
  /\ UNCHANGED <<lzjbvars, block, answer>>

LzjbReads ==
  /\ block.alg = "lzjb" /\ Decompress
  /\ UNCHANGED <<lz4vars, plain, packed, z, block, answer>>

\* The block has lsize bytes, whatever was decompressed.
Fit(data, lsize) ==
  SubSeq(data \o [i \in 1..Max({0, lsize - Len(data)}) |-> 0], 1, lsize)

\* A decompressor that raises or returns None makes read_block return None.
ReadBlockEnds ==
  /\ answer = Pending
  /\ LET d == IF block.alg = "lz4" THEN py ELSE u IN
     /\ d.at # "loop"
     /\ answer' = IF d.at = "ok" THEN Fit(d.dst, Len(block.data)) ELSE None
  /\ UNCHANGED <<lz4vars, lzjbvars, block>>

Next == DamageByte \/ DamageSize \/ Pack \/ Lz4Reads \/ LzjbReads \/ ReadBlockEnds
Spec == Init /\ [][Next]_vars

----------------------------------------------------------------------------
\* Properties

Undamaged ==
  CASE block.alg = "lz4"  -> block.sound = Len(stream.body)
    [] block.alg = "lzjb" -> block.sound = Len(packed)

\* lzjb_compress raises nothing but the IndexError of a match of full length
\* that ends with the block.
RaisesAtTheEndOnly ==
  z.at = "raised" =>
    \E off \in 1..Len(plain) : \A i \in 0..(MatchMax - 1) :
      LET at == Len(plain) - i IN at > off /\ plain[at] = plain[at - off]

\* read_block gives back the block that was compressed: the LZ4 stream when two
\* bytes follow it in its buffer (Lz4's match offset is read after the last
\* literals too), the LZJB stream always. A damaged stream is right up to the
\* damage.
BlockIsRestored ==
  /\ (answer # Pending /\ Undamaged /\ (block.alg = "lz4" => block.pad >= 2)) =>
       answer = block.data
  /\ py.ip <= block.sound => IsPrefix(py.dst, block.data)
  /\ u.pos <= block.sound => IsPrefix(u.dst, block.data)
  /\ RaisesAtTheEndOnly

\* The Python decoder gives what the C decoder gives, on damaged streams too,
\* if the stream ends as the format has it (the last literals, then two zeros)
\* and no offset is 0. A size that is larger than the buffer fails the C decoder;
\* lz4zfs.py does not compare them (and stops four bytes early), so it fails for
\* certain only when the size leads more than four bytes behind the buffer.
COutput == [i \in 1..c.op |-> c.dst[i - 1]]
EndsAsLz4 ==
  /\ c.ip < stream.size /\ CLit.len >= 5
  /\ \A i \in {0, 1} : stream.size + i < Len(stream.body) /\ Byte(stream.size + i) = 0
DecodersAgree ==
  (block.alg = "lz4" /\ c.at \in {"ok", "error"} /\ py.at # "loop") =>
    /\ (c.at = "ok" /\ EndsAsLz4 /\ ~reach.zero) => (py.at = "ok" /\ py.dst = COutput)
    /\ stream.size > Len(stream.body) => c.at = "error"
    /\ stream.size > Len(stream.body) + SizeField => py.at = "None"

\* The C decoder neither writes behind its output nor reads behind its input
\* (de.c 389-398), though it copies by packets of eight bytes.
NothingOutside ==
  /\ reach.out <= stream.room
  /\ reach.in <= stream.size /\ (reach.in > 0 => stream.size <= Len(stream.body))
=============================================================================
