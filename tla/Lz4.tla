-------------------------------- MODULE Lz4 ---------------------------------
(***************************************************************************)
(* The two LZ4 decoders of the repository on one compressed block: the C   *)
(* one (de.c, the same text in extractor/lz4.cpp), which the ZFS kernel    *)
(* uses, and the Python one that recovers the blocks (zfs/lz4zfs.py).  A   *)
(* step is one sequence: token, literals, match offset, match.             *)
(*                                                                         *)
(* A token has two digits of base RunMask + 1 (16 in the code), a byte has *)
(* as many values as a token.  Positions in the stream count from the byte *)
(* behind the four of the size, so bufsiz is the end for the C decoder;    *)
(* lz4zfs.py compares absolute positions with it and stops 4 bytes before. *)
(***************************************************************************)
EXTENDS Integers, Sequences, SequencesExt, FiniteSetsExt

CONSTANTS RunMask      \* RUN_MASK and ML_MASK

ASSUME Lz4Assumption == RunMask \in Nat \ {0}

CopyLength == 8
StepSize == 8          \* LZ4_ARCH64
MinMatch == 4
SizeField == 4         \* sizeof (bufsiz)
Dec32 == <<0, 3, 2, 3, 0, 0, 0, 0>>
Dec64 == <<0, 0, 0, -1, 0, 1, 2, 3>>

Base == RunMask + 1
Full == Base * Base - 1

VARIABLES
  stream,   \* [size: bufsiz, body: the bytes behind it, room: d_len]
  c,        \* the C decoder: [at: "call"|"loop"|"ok"|"error", ip, op, dst]
  reach,  \* how far the C decoder has read and written: [in, out]
  py        \* the Python decoder: [at: "loop"|"ok"|"None", ip, dst]

lz4vars == <<stream, c, reach, py>>

\* The bytes of the stream. What is behind the buffer counts as a full byte, so
\* that a run that leaves the buffer ends outside of it.
Byte(i) == IF i < Len(stream.body) THEN stream.body[i + 1] ELSE Full

\* The dst of a decoder starts with nothing written; de.c's main clears it.
Lz4Init(s) ==
  /\ stream = s
  /\ c = [at |-> "call", ip |-> 0, op |-> 0, dst |-> [i \in 0..(s.room + 2 * CopyLength) |-> 0]]
  /\ reach = [in |-> 0, out |-> 0, zero |-> FALSE]
  /\ py = [at |-> "loop", ip |-> 0, dst |-> <<>>]

\* The length a digit of the token stands for, and where the bytes that
\* continue it end: after the first that is not full, or at end.
Run(digit, at, end) ==
  LET stop == Min({i \in at + 1..end : i = end \/ Byte(i - 1) # Full}) IN
  IF digit # RunMask \/ at >= end THEN [len |-> digit, ip |-> at]
  ELSE [len |-> digit + (stop - at - 1) * Full + Byte(stop - 1), ip |-> stop]

\* The parts of the sequence at ip; each decoder has its own end of the runs.
LiteralRun(ip, end) == Run(Byte(ip) \div Base, ip + 1, end)
Offset(ip) == Byte(ip) + (Full + 1) * Byte(ip + 1)
MatchRun(token, ip, end) == Run(token % Base, ip + 2, end)

----------------------------------------------------------------------------
\* LZ4_uncompress_unknownOutputSize

Packets(d, e) == (e - d + CopyLength - 1) \div CopyLength

\* LZ4_WILDCOPY copies whole packets, at least one.
WildLength(d, e) == CopyLength * (IF e > d THEN Packets(d, e) ELSE 1)

\* A packet of w bytes of dst, all read before one is written.
CopyPacket(dst, s, d, w) ==
  [i \in DOMAIN dst |->
     IF i \in d..(d + w - 1) /\ (s + i - d) \in DOMAIN dst THEN dst[s + i - d] ELSE dst[i]]

\* n packets of w bytes, one after the other.
CopyPackets(dst, s, d, w, n) ==
  LET after[k \in 0..n] ==
        IF k = 0 THEN dst ELSE CopyPacket(after[k-1], s + w * (k-1), d + w * (k-1), w) IN
  after[n]

\* Mutant: the head of a match as one packet.
CopyHeadAtOnce(dst, ref, op) ==
  [dst |-> CopyPacket(dst, ref, op, StepSize), ref |-> ref + StepSize]
\* The first eight bytes of a match and where its source then is. With an
\* offset below 8 the source steps back so that the rest can go by packets.
CopyHead(dst, ref, op) ==
  LET off == op - ref
      r == ref + 4 - Dec32[off + 1] IN
  IF off < StepSize
    THEN [dst |-> CopyPacket(CopyPackets(dst, ref, op, 1, 4), r, op + 4, 4),
          ref |-> r - Dec64[off + 1]]
    ELSE [dst |-> CopyPacket(dst, ref, op, StepSize), ref |-> ref + StepSize]

CLit == LiteralRun(c.ip, stream.size)
CLitEnd == c.op + CLit.len
CInEnd == CLit.ip + CLit.len

\* Mutant: only the output decides how the literals are copied.
NearOutputEnd == CLitEnd > stream.room - CopyLength
\* The literals must be the last ones: too near to an end for packets.
NearAnEnd ==
  \/ CLitEnd > stream.room - CopyLength
  \/ CInEnd > stream.size - CopyLength

CFails == c' = [c EXCEPT !.at = "error"]

\* lz4_decompress_zfs: the size must fit the buffer.
CCall ==
  /\ c.at = "call"
  /\ IF stream.size > Len(stream.body)
       THEN CFails ELSE c' = [c EXCEPT !.at = "loop"]
  /\ UNCHANGED reach

CReturn ==
  /\ c.at = "loop" /\ c.ip >= stream.size
  /\ c' = [c EXCEPT !.at = "ok"]
  /\ UNCHANGED reach

CLiteralsFail ==
  /\ c.at = "loop" /\ c.ip < stream.size
  /\ NearAnEnd
  /\ CLitEnd > stream.room \/ CInEnd # stream.size
  /\ CFails
  /\ reach' = [reach EXCEPT !.in = Max({@, CLit.ip})]

\* The memcpy of the last literals.
CLastLiterals ==
  /\ c.at = "loop" /\ c.ip < stream.size
  /\ NearAnEnd
  /\ CLitEnd <= stream.room /\ CInEnd = stream.size
  /\ c' = [at |-> "ok", ip |-> c.ip, op |-> CLitEnd,
           dst |-> [i \in DOMAIN c.dst |->
                      IF i \in c.op..(CLitEnd - 1) THEN Byte(CLit.ip + i - c.op) ELSE c.dst[i]]]
  /\ reach' = [reach EXCEPT !.in = Max({@, CInEnd}), !.out = Max({@, CLitEnd})]

CopiesLiterals ==
  /\ c.at = "loop" /\ c.ip < stream.size
  /\ ~NearAnEnd

\* LZ4_WILDCOPY of the literals: what follows them is overwritten as well.
AfterLiterals ==
  [i \in DOMAIN c.dst |->
     IF i \in c.op..(c.op + WildLength(c.op, CLitEnd) - 1)
       THEN Byte(CLit.ip + i - c.op) ELSE c.dst[i]]

CRef == CLitEnd - Offset(CInEnd)
CMatch == MatchRun(Byte(c.ip), CInEnd, stream.size)
CMatchEnd == CLitEnd + MinMatch + CMatch.len

\* How far the packets of a match may start; its last bytes go one by one.
PacketsEnd == Min({CMatchEnd, stream.room - CopyLength})
MatchPackets ==
  IF CLitEnd + StepSize < PacketsEnd THEN Packets(CLitEnd + StepSize, PacketsEnd) ELSE 0

AfterMatch ==
  LET head == CopyHead(AfterLiterals, CRef, CLitEnd)
      n == CopyLength * MatchPackets
      op == CLitEnd + StepSize IN
  CopyPackets(CopyPackets(head.dst, head.ref, op, CopyLength, MatchPackets),
              head.ref + n, op + n, 1, Max({0, CMatchEnd - op - n}))

\* The reach of a sequence, with its match as far as it was copied.
Touches(out) ==
  reach' = [in |-> Max({reach.in, CLit.ip + WildLength(c.op, CLitEnd), CMatch.ip}),
            out |-> Max({reach.out, c.op + WildLength(c.op, CLitEnd), out}),
            zero |-> reach.zero \/ CRef = CLitEnd]
MatchReach == Max({CLitEnd + StepSize * (1 + MatchPackets), CMatchEnd})

\* The offset leads to before the output.
COffsetFails ==
  /\ CopiesLiterals /\ CRef < 0
  /\ CFails
  /\ Touches(0)

\* The match ends behind the output, or with it.
CMatchFails ==
  /\ CopiesLiterals /\ CRef >= 0 /\ CMatchEnd >= stream.room
  /\ CFails
  /\ Touches(IF CMatchEnd = stream.room THEN MatchReach ELSE CLitEnd + StepSize)

CSequence ==
  /\ CopiesLiterals /\ CRef >= 0 /\ CMatchEnd < stream.room
  /\ c' = [c EXCEPT !.ip = CMatch.ip, !.op = CMatchEnd, !.dst = AfterMatch]
  /\ Touches(MatchReach)

CStep ==
  \/ CCall \/ CReturn \/ CLiteralsFail \/ CLastLiterals
  \/ COffsetFails \/ CMatchFails \/ CSequence

----------------------------------------------------------------------------
\* lz4zfs_decompress. Its loop ends at the absolute position bufsiz.

PyEnd == stream.size - SizeField
PyLit == LiteralRun(py.ip, PyEnd)
PyInEnd == PyLit.ip + PyLit.len
PyMatch == MatchRun(Byte(py.ip), PyInEnd, PyEnd)

\* dst[len(dst)-off : len(dst)-off+1], where an index below 0 counts from the
\* end and a slice that ends at index 0 or begins at the end is empty.
SliceAt(dst, off) ==
  LET n == Len(dst)
      s == n - off IN
  IF off > 0 /\ s >= 0 THEN <<dst[s + 1]>>
  ELSE IF s < -1 /\ n + s >= 0 THEN <<dst[n + s + 1]>>
  ELSE <<>>

\* Mutant: the match is cut out of what was there before it.
PyExpandAtOnce(dst, off, len) ==
  LET s == Max({0, Len(dst) - off}) IN dst \o SubSeq(dst, s + 1, Min({Len(dst), s + len}))
\* The match, byte by byte.
PyExpand(dst, off, len) ==
  LET after[k \in 0..len] ==
        IF k = 0 THEN dst ELSE LET d == after[k-1] IN d \o SliceAt(d, off) IN
  after[len]

PyRunning == c.at \in {"ok", "error"} /\ py.at = "loop"

PyReturn ==
  /\ PyRunning /\ py.ip >= PyEnd
  /\ py' = [py EXCEPT !.at = "ok"]

\* src[ip] is an IndexError, the unpacking of a short slice a struct.error.
PyRaises ==
  /\ PyRunning /\ py.ip < PyEnd
  /\ PyMatch.ip > Len(stream.body)
  /\ py' = [py EXCEPT !.at = "None"]

PySequence ==
  /\ PyRunning /\ py.ip < PyEnd
  /\ PyMatch.ip <= Len(stream.body)
  /\ py' = [py EXCEPT
              !.ip = PyMatch.ip,
              !.dst = PyExpand(@ \o SubSeq(stream.body, PyLit.ip + 1, PyInEnd),
                               Offset(PyInEnd), MinMatch + PyMatch.len)]

PyStep == PyReturn \/ PyRaises \/ PySequence

Lz4Step ==
  \/ CStep /\ UNCHANGED <<stream, py>>
  \/ PyStep /\ UNCHANGED <<stream, c, reach>>
=============================================================================
