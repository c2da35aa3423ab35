---------------------------- MODULE CodecProofs -----------------------------
(***************************************************************************)
(* Proofs about the two decoders of LZ4 (Lz4). The C one copies by packets *)
(* of eight bytes: it stays within its buffers, for any stream of bytes,   *)
(* any size in front of it and any room for the output.  The Python one    *)
(* copies a match byte by byte, and gives what the C one gives.            *)
(***************************************************************************)
EXTENDS Codecs, DataInduction

(***************************************************************************)
(* The invariant.                                                          *)
(***************************************************************************)

StreamType == stream \in [size : Nat, body : Seq(0..Full), room : Nat]

\* Where the C decoder is.
PlaceInv ==
  /\ c = [at |-> c.at, ip |-> c.ip, op |-> c.op, dst |-> c.dst]
  /\ c.ip \in Nat /\ c.op \in Nat
  /\ c.at = "loop" => stream.size <= Len(stream.body)

ReachInv ==
  /\ reach = [in |-> reach.in, out |-> reach.out, zero |-> reach.zero]
  /\ reach.in \in Nat /\ reach.out \in Nat
  /\ c.at = "call" => reach.in = 0 /\ reach.out = 0

Inv == StreamType /\ PlaceInv /\ ReachInv /\ NothingOutside

(***************************************************************************)
(* Greatest, least, quotients.                                             *)
(***************************************************************************)

LEMMA MaxOfTwo ==
  ASSUME NEW a \in Int, NEW b \in Int
  PROVE  Max({a, b}) \in {a, b} /\ a <= Max({a, b}) /\ b <= Max({a, b})
<1>1. \E x \in {a, b} : \A y \in {a, b} : x >= y
  <2>1. CASE a >= b
    BY <2>1
  <2>2. CASE b >= a
    BY <2>2
  <2> QED BY <2>1, <2>2
<1> QED BY <1>1 DEF Max

LEMMA MaxOfThree ==
  ASSUME NEW a \in Int, NEW b \in Int, NEW d \in Int
  PROVE  /\ Max({a, b, d}) \in {a, b, d}
         /\ a <= Max({a, b, d}) /\ b <= Max({a, b, d}) /\ d <= Max({a, b, d})
<1>1. \E x \in {a, b, d} : \A y \in {a, b, d} : x >= y
  <2>1. CASE a >= b /\ a >= d
    BY <2>1
  <2>2. CASE b >= a /\ b >= d
    BY <2>2
  <2>3. CASE d >= a /\ d >= b
    BY <2>3
  <2> QED BY <2>1, <2>2, <2>3
<1> QED BY <1>1 DEF Max

LEMMA MinOfTwo ==
  ASSUME NEW a \in Int, NEW b \in Int
  PROVE  Min({a, b}) \in {a, b} /\ Min({a, b}) <= a /\ Min({a, b}) <= b
<1>1. \E x \in {a, b} : \A y \in {a, b} : x <= y
  <2>1. CASE a <= b
    BY <2>1
  <2>2. CASE b <= a
    BY <2>2
  <2> QED BY <2>1, <2>2
<1> QED BY <1>1 DEF Min

LEMMA LeastIsIn ==
  ASSUME NEW T, T \subseteq Nat, T # {}
  PROVE  Min(T) \in T
<1>1. \E x \in T : \A y \in T : x <= y
  BY NatLeast
<1> QED BY <1>1 DEF Min

LEMMA Products ==
  ASSUME NEW a \in Nat, NEW b \in Nat
  PROVE  a * b \in Nat
OBVIOUS

LEMMA BaseType == Base \in Nat \ {0} /\ Full \in Nat /\ RunMask \in Nat
<1>1. RunMask \in Nat /\ RunMask >= 1
  BY Lz4Assumption
<1>2. Base \in Nat /\ Base >= 1
  BY <1>1 DEF Base
<1>3. Base * Base \in Nat /\ Base * Base >= 1
  <2> HIDE DEF Base
  <2> QED BY <1>2
<1> QED BY <1>1, <1>2, <1>3 DEF Full

LEMMA Digits ==
  ASSUME NEW x \in Nat
  PROVE  x \div Base \in Nat /\ x % Base \in Nat
<1> HIDE DEF Base
<1> QED BY BaseType

(***************************************************************************)
(* The parts of a sequence.                                                *)
(***************************************************************************)

LEMMA ElementType ==
  ASSUME NEW T, NEW s \in Seq(T), NEW i \in 1..Len(s)
  PROVE  s[i] \in T
OBVIOUS

LEMMA ByteType ==
  ASSUME StreamType, NEW i \in Nat
  PROVE  Byte(i) \in Nat
<1>1. CASE i < Len(stream.body)
  <2>1. stream.body \in Seq(0..Full) /\ i + 1 \in 1..Len(stream.body)
    BY <1>1 DEF StreamType
  <2>2. stream.body[i + 1] \in 0..Full
    BY <2>1, ElementType
  <2> QED BY <1>1, <2>2, BaseType DEF Byte
<1>2. CASE ~(i < Len(stream.body))
  BY <1>2, BaseType DEF Byte
<1> QED BY <1>1, <1>2

\* A run ends behind its digit and not behind the end it is given.
LEMMA RunEnds ==
  ASSUME StreamType, NEW digit \in Nat, NEW at \in Nat, NEW end \in Nat, at <= end
  PROVE  /\ Run(digit, at, end).len \in Nat
         /\ Run(digit, at, end).ip \in Nat
         /\ at <= Run(digit, at, end).ip /\ Run(digit, at, end).ip <= end
<1> DEFINE T == {i \in at + 1..end : i = end \/ Byte(i - 1) # Full}
           stop == Min(T)
<1>1. CASE digit # RunMask \/ at >= end
  BY <1>1 DEF Run
<1>2. CASE digit = RunMask /\ at < end
  <2>1. stop \in at + 1..end
    <3>1. T \subseteq Nat /\ end \in T
      BY <1>2
    <3>2. stop \in T
      <4> HIDE DEF T
      <4> QED BY <3>1, LeastIsIn
    <3> QED BY <3>2
  <2>2. Byte(stop - 1) \in Nat
    <3>1. stop - 1 \in Nat
      <4> HIDE DEF stop
      <4> QED BY <2>1
    <3> QED BY <3>1, ByteType
  <2>3. Run(digit, at, end) = [len |-> digit + (stop - at - 1) * Full + Byte(stop - 1), ip |-> stop]
    BY <1>2 DEF Run
  <2>4. (stop - at - 1) * Full \in Nat
    <3> DEFINE n == stop - at - 1
    <3>1. n \in Nat
      <4> HIDE DEF stop
      <4> QED BY <2>1
    <3>2. n * Full \in Nat
      <4> HIDE DEF n
      <4> QED BY <3>1, BaseType, Products
    <3> QED BY <3>2
  <2> HIDE DEF stop
  <2> QED BY <2>1, <2>2, <2>3, <2>4
<1> QED BY <1>1, <1>2

\* The literals of the sequence the C decoder is at.
LEMMA LiteralsAt ==
  ASSUME StreamType, PlaceInv, c.ip < stream.size
  PROVE  /\ CLit.len \in Nat /\ CLit.ip \in Nat /\ CLit.ip <= stream.size
         /\ CLitEnd \in Nat /\ CLitEnd = c.op + CLit.len
         /\ CInEnd \in Nat /\ CInEnd = CLit.ip + CLit.len
<1>1. c.ip + 1 \in Nat /\ stream.size \in Nat /\ c.ip + 1 <= stream.size /\ c.op \in Nat
  BY DEF StreamType, PlaceInv
<1>2. Byte(c.ip) \div Base \in Nat
  BY ByteType, Digits DEF PlaceInv
<1>3. CLit.len \in Nat /\ CLit.ip \in Nat /\ CLit.ip <= stream.size
  BY <1>1, <1>2, RunEnds DEF CLit, LiteralRun
<1> QED BY <1>1, <1>3 DEF CLitEnd, CInEnd

\* What is copied of a sequence whose literals are not too near to an end.
LEMMA Copied ==
  ASSUME StreamType, PlaceInv, CopiesLiterals
  PROVE  /\ CLit.ip + WildLength(c.op, CLitEnd) \in Nat
         /\ CLit.ip + WildLength(c.op, CLitEnd) <= stream.size
         /\ c.op + WildLength(c.op, CLitEnd) \in Nat
         /\ c.op + WildLength(c.op, CLitEnd) <= stream.room
         /\ CMatch.ip \in Nat /\ CMatch.ip <= stream.size
         /\ CMatchEnd \in Nat
         /\ CLitEnd + StepSize \in Nat /\ CLitEnd + StepSize <= stream.room
         /\ MatchReach \in Nat
         /\ CMatchEnd <= stream.room => MatchReach <= stream.room
<1> DEFINE a == CLit.ip
           n == CLit.len
           e == CLitEnd
           i == CInEnd
           m == CMatchEnd
           r == stream.room
           s == stream.size
           w == WildLength(c.op, CLitEnd)
           o == c.op
<1>1. /\ c.ip < stream.size /\ e <= r - 8 /\ i <= s - 8
      /\ n \in Nat /\ a \in Nat /\ e \in Nat /\ i \in Nat /\ e = o + n /\ i = a + n
      /\ r \in Nat /\ s \in Nat /\ o \in Nat /\ c.ip \in Nat
  <2>1. c.ip < stream.size /\ r \in Nat /\ s \in Nat /\ o \in Nat /\ c.ip \in Nat
    BY DEF CopiesLiterals, StreamType, PlaceInv
  <2>2. /\ n \in Nat /\ a \in Nat /\ e \in Nat /\ i \in Nat /\ e = o + n /\ i = a + n
    BY <2>1, LiteralsAt
  <2>3. ~(e > r - 8) /\ ~(i > s - 8)
    BY DEF CopiesLiterals, NearAnEnd, CopyLength
  <2> HIDE DEF e, r, i, s, n, a, o
  <2> QED BY <2>1, <2>2, <2>3 DEF s
<1>2. w \in Nat /\ o + w <= r /\ a + w <= s
  <2>1. w = 8 * (IF e > o THEN (e - o + 7) \div 8 ELSE 1)
    BY DEF WildLength, Packets, CopyLength
  <2> HIDE DEF a, n, e, i, r, s, w, o
  <2>2. w \in Nat /\ w <= n + 8
    BY <1>1, <2>1
  <2> QED BY <1>1, <2>2
<1>3. CMatch.len \in Nat /\ CMatch.ip \in Nat /\ CMatch.ip <= s
  <2>1. Byte(c.ip) % Base \in Nat
    BY <1>1, ByteType, Digits
  <2>2. i + 2 \in Nat /\ i + 2 <= s
    <3> HIDE DEF i, s, e, r
    <3> QED BY <1>1
  <2> QED BY <1>1, <2>1, <2>2, RunEnds DEF CMatch, MatchRun
<1>4. m \in Nat
  <2> DEFINE l == CMatch.len
  <2>1. m = e + 4 + l
    BY DEF CMatchEnd, MinMatch
  <2> HIDE DEF m, e, l
  <2> QED BY <1>1, <1>3, <2>1 DEF l
<1> DEFINE p == PacketsEnd
           k == MatchPackets
<1>5. p \in {m, r - 8} /\ p <= r - 8
  <2>1. p = Min({m, r - 8})
    BY DEF PacketsEnd, CopyLength
  <2> HIDE DEF p, m, r
  <2>2. r - 8 \in Int /\ m \in Int
    BY <1>1, <1>4
  <2> QED BY <2>1, <2>2, MinOfTwo
<1>6. k = IF e + 8 < p THEN (p - (e + 8) + 7) \div 8 ELSE 0
  BY DEF MatchPackets, Packets, CopyLength, StepSize
<1>7. k \in Nat /\ e + 8 * (1 + k) \in Nat /\ e + 8 * (1 + k) <= r
  <2> HIDE DEF k, e, p, r, m
  <2> QED BY <1>1, <1>4, <1>5, <1>6
<1>8. MatchReach \in Nat /\ (m <= r => MatchReach <= r)
  <2>1. MatchReach = Max({e + 8 * (1 + k), m})
    BY DEF MatchReach, StepSize
  <2> DEFINE x == e + 8 * (1 + k)
  <2>2. x \in Nat /\ x <= r
    BY <1>7
  <2> HIDE DEF x, k, e, m, r
  <2>3. x \in Int /\ m \in Int
    BY <1>4, <2>2
  <2>4. Max({x, m}) \in {x, m}
    BY <2>3, MaxOfTwo
  <2>5. MatchReach = Max({x, m})
    BY <2>1 DEF x
  <2> QED BY <1>1, <1>4, <2>2, <2>4, <2>5
<1>9. a + w \in Nat /\ o + w \in Nat /\ e + 8 \in Nat /\ e + 8 <= r
  <2> HIDE DEF a, w, o, e, r, n, i, s
  <2> QED BY <1>1, <1>2
<1> QED BY <1>2, <1>3, <1>4, <1>8, <1>9 DEF StepSize

(***************************************************************************)
(* The steps.                                                              *)
(***************************************************************************)

\* A sequence reaches no further than its literals and its match.
LEMMA TouchesWithin ==
  ASSUME Inv, CopiesLiterals, NEW out \in Nat, out <= stream.room, Touches(out)
  PROVE  /\ reach' = [in |-> reach'.in, out |-> reach'.out, zero |-> reach'.zero]
         /\ reach'.in \in Nat /\ reach'.out \in Nat
         /\ reach'.in <= stream.size /\ reach'.out <= stream.room
<1> DEFINE x == CLit.ip + WildLength(c.op, CLitEnd)
           y == c.op + WildLength(c.op, CLitEnd)
           v == CMatch.ip
<1>1. reach' = [in |-> Max({reach.in, x, v}), out |-> Max({reach.out, y, out}),
                zero |-> reach.zero \/ CRef = CLitEnd]
  BY DEF Touches
<1>2. x \in Nat /\ x <= stream.size /\ y \in Nat /\ y <= stream.room /\ v \in Nat /\ v <= stream.size
  BY Copied DEF Inv
<1>3. reach.in \in Nat /\ reach.out \in Nat /\ reach.in <= stream.size /\ reach.out <= stream.room
  BY DEF Inv, ReachInv, NothingOutside
<1> DEFINE h == reach.in
           q == reach.out
           mi == Max({h, x, v})
           mo == Max({q, y, out})
<1>4. mi \in {h, x, v}
  <2>1. h \in Int /\ x \in Int /\ v \in Int
    BY <1>2, <1>3
  <2> HIDE DEF h, x, v
  <2> QED BY <2>1, MaxOfThree
<1>5. mo \in {q, y, out}
  <2>1. q \in Int /\ y \in Int /\ out \in Int
    BY <1>2, <1>3
  <2> HIDE DEF q, y
  <2> QED BY <2>1, MaxOfThree
<1>6. mi \in Nat /\ mi <= stream.size /\ mo \in Nat /\ mo <= stream.room
  <2>1. /\ h \in Nat /\ h <= stream.size /\ x \in Nat /\ x <= stream.size /\ v \in Nat /\ v <= stream.size
        /\ q \in Nat /\ q <= stream.room /\ y \in Nat /\ y <= stream.room
    BY <1>2, <1>3
  <2> HIDE DEF h, x, v, q, y, mi, mo
  <2> QED BY <1>4, <1>5, <2>1
<1>7. reach'.in = mi /\ reach'.out = mo /\ reach' = [in |-> reach'.in, out |-> reach'.out, zero |-> reach'.zero]
  BY <1>1
<1> HIDE DEF mi, mo
<1> QED BY <1>6, <1>7

LEMMA CStepInv ==
  ASSUME Inv, CStep, UNCHANGED <<stream, py>>
  PROVE  Inv'
<1> USE DEF Inv
<1>1. /\ stream' = stream /\ StreamType' /\ c = [at |-> c.at, ip |-> c.ip, op |-> c.op, dst |-> c.dst]
      /\ c.ip \in Nat /\ c.op \in Nat /\ stream.size \in Nat /\ stream.room \in Nat
  BY DEF StreamType, PlaceInv
<1>2. ASSUME c.at = "loop" PROVE stream.size <= Len(stream.body)
  BY <1>2 DEF PlaceInv
<1>3. CASE CCall
  <2>1. /\ reach' = reach /\ reach.in = 0 /\ reach.out = 0
        /\ c' = [c EXCEPT !.at = IF stream.size > Len(stream.body) THEN "error" ELSE "loop"]
    BY <1>3 DEF CCall, CFails, ReachInv
  <2>2. PlaceInv'
    <3>1. Len(stream.body) \in Nat
      BY DEF StreamType
    <3> QED BY <1>1, <2>1, <3>1 DEF PlaceInv
  <2>3. c'.at # "call"
    BY <1>1, <2>1
  <2> QED BY <1>1, <2>1, <2>2, <2>3 DEF ReachInv, NothingOutside
<1>4. CASE CReturn
  <2>1. reach' = reach /\ c' = [c EXCEPT !.at = "ok"]
    BY <1>4 DEF CReturn
  <2> QED BY <1>1, <2>1 DEF PlaceInv, ReachInv, NothingOutside
<1>5. CASE CLiteralsFail
  <2>1. /\ c.at = "loop" /\ c.ip < stream.size /\ c' = [c EXCEPT !.at = "error"]
        /\ reach' = [reach EXCEPT !.in = Max({reach.in, CLit.ip})]
    BY <1>5 DEF CLiteralsFail, CFails
  <2>2. CLit.ip \in Nat /\ CLit.ip <= stream.size
    BY <2>1, LiteralsAt
  <2>3. Max({reach.in, CLit.ip}) \in {reach.in, CLit.ip}
    BY <2>2, MaxOfTwo DEF ReachInv
  <2> QED BY <1>1, <1>2, <2>1, <2>2, <2>3 DEF PlaceInv, ReachInv, NothingOutside
<1>6. CASE CLastLiterals
  <2>1. /\ c.at = "loop" /\ c.ip < stream.size /\ CLitEnd <= stream.room /\ CInEnd = stream.size
        /\ reach' = [reach EXCEPT !.in = Max({reach.in, CInEnd}), !.out = Max({reach.out, CLitEnd})]
        /\ c'.at = "ok" /\ c'.ip = c.ip /\ c'.op = CLitEnd
        /\ c' = [at |-> c'.at, ip |-> c'.ip, op |-> c'.op, dst |-> c'.dst]
    BY <1>6 DEF CLastLiterals
  <2>2. CLitEnd \in Nat
    BY <2>1, LiteralsAt
  <2>3. Max({reach.in, CInEnd}) \in {reach.in, CInEnd} /\ Max({reach.out, CLitEnd}) \in {reach.out, CLitEnd}
    <3>1. reach.in \in Int /\ reach.out \in Int /\ CInEnd \in Int /\ CLitEnd \in Int
      BY <1>1, <2>1, <2>2 DEF ReachInv
    <3> QED BY <3>1, MaxOfTwo
  <2>4. PlaceInv'
    BY <1>1, <2>1, <2>2 DEF PlaceInv
  <2>5. reach'.in \in {reach.in, stream.size} /\ reach'.out \in {reach.out, CLitEnd}
        /\ reach' = [in |-> reach'.in, out |-> reach'.out, zero |-> reach'.zero]
    BY <2>1, <2>3 DEF ReachInv
  <2>6. stream.size <= Len(stream.body)
    BY <1>2, <2>1
  <2>7. ReachInv'
    BY <1>1, <2>1, <2>2, <2>5 DEF ReachInv
  <2>8. NothingOutside'
    BY <1>1, <2>1, <2>2, <2>5, <2>6 DEF ReachInv, NothingOutside
  <2> QED BY <1>1, <2>4, <2>7, <2>8
<1>7. CASE COffsetFails \/ CMatchFails \/ CSequence
  <2>1. CopiesLiterals /\ c.at = "loop"
    BY <1>7 DEF COffsetFails, CMatchFails, CSequence, CopiesLiterals
  <2>2. /\ CMatch.ip \in Nat /\ CMatchEnd \in Nat
        /\ CLitEnd + StepSize \in Nat /\ CLitEnd + StepSize <= stream.room
        /\ MatchReach \in Nat /\ (CMatchEnd <= stream.room => MatchReach <= stream.room)
    BY <2>1, Copied
  <2>3. /\ reach' = [in |-> reach'.in, out |-> reach'.out, zero |-> reach'.zero]
        /\ reach'.in \in Nat /\ reach'.out \in Nat
        /\ reach'.in <= stream.size /\ reach'.out <= stream.room
    <3>1. CASE COffsetFails
      BY <1>1, <2>1, <3>1, TouchesWithin DEF COffsetFails
    <3>2. CASE CMatchFails
      BY <1>1, <2>1, <2>2, <3>2, TouchesWithin DEF CMatchFails
    <3>3. CASE CSequence
      BY <1>1, <2>1, <2>2, <3>3, TouchesWithin DEF CSequence
    <3> QED BY <1>7, <3>1, <3>2, <3>3
  <2>4. PlaceInv' /\ c'.at # "call"
    <3>1. CASE c' = [c EXCEPT !.at = "error"]
      BY <1>1, <3>1 DEF PlaceInv
    <3>2. CASE CSequence
      BY <1>1, <1>2, <2>1, <2>2, <3>2 DEF CSequence, PlaceInv
    <3> QED BY <1>7, <3>1, <3>2 DEF COffsetFails, CMatchFails, CFails
  <2> QED BY <1>1, <1>2, <2>1, <2>3, <2>4 DEF ReachInv, NothingOutside
<1> QED BY <1>3, <1>4, <1>5, <1>6, <1>7 DEF CStep

\* The disk changes a byte, or the size, before the decoder is called.
LEMMA DamageInv ==
  ASSUME Inv, DamageByte \/ DamageSize
  PROVE  Inv'
<1>1. c.at = "call" /\ c' = c /\ reach' = reach
  BY DEF DamageByte, DamageSize
<1>2. stream.size \in Nat /\ stream.body \in Seq(0..Full) /\ stream.room \in Nat
  BY DEF Inv, StreamType
<1>3. StreamType'
  <2>1. CASE stream' = stream
    BY <2>1 DEF Inv, StreamType
  <2>2. ASSUME NEW i \in 1..Len(stream.body), NEW v \in NewBytes, stream' = [stream EXCEPT !.body[i] = v]
        PROVE  StreamType'
    <3>1. v \in 0..Full
      BY CodecsAssumption
    <3>2. [stream.body EXCEPT ![i] = v] \in Seq(0..Full)
      <4> HIDE DEF Full
      <4> QED BY <1>2, <3>1
    <3> QED BY <1>2, <2>2, <3>2 DEF Inv, StreamType
  <2>3. ASSUME NEW n \in NewSizes, stream' = [stream EXCEPT !.size = n]
        PROVE  StreamType'
    <3>1. n \in Nat
      BY CodecsAssumption
    <3> QED BY <2>3, <3>1 DEF Inv, StreamType
  <2> QED BY <2>1, <2>2, <2>3 DEF DamageByte, DamageSize
<1>4. stream'.size \in Nat /\ stream'.room \in Nat
  BY <1>3 DEF StreamType
<1> QED BY <1>1, <1>3, <1>4 DEF Inv, PlaceInv, ReachInv, NothingOutside

LEMMA InitInv == Init => Inv
<1> SUFFICES ASSUME Init PROVE Inv
  OBVIOUS
<1>1. ASSUME NEW s \in [size : Nat, body : Seq(0..Full), room : Nat], Lz4Init(s) PROVE Inv
  BY <1>1 DEF Lz4Init, Inv, StreamType, PlaceInv, ReachInv, NothingOutside
<1>2. CASE InitLz4
  <2>1. PICK p \in Plans, pad \in Pads :
          Lz4Init([size |-> Len(Lz4Written(p).body),
                   body |-> Lz4Written(p).body \o [i \in 1..pad |-> 0],
                   room |-> Len(Lz4Written(p).data)])
    BY <1>2 DEF InitLz4
  <2> DEFINE w == Lz4Written(p)
  <2>2. w.data \in Seq(0..Full) /\ w.body \in Seq(0..Full)
    BY PlansAssumption
  <2>3. [i \in 1..pad |-> 0] \in Seq(0..Full)
    <3>1. pad \in Nat
      BY CodecsAssumption
    <3>2. 0 \in 0..Full
      BY BaseType
    <3> HIDE DEF Full
    <3> QED BY <3>1, <3>2
  <2> HIDE DEF w
  <2>4. [size |-> Len(w.body), body |-> w.body \o [i \in 1..pad |-> 0], room |-> Len(w.data)]
           \in [size : Nat, body : Seq(0..Full), room : Nat]
    <3> HIDE DEF Full
    <3> QED BY <2>2, <2>3
  <2> QED BY <1>1, <2>1, <2>4 DEF w
<1>3. CASE InitLzjb
  <2>1. Lz4Init([size |-> 0, body |-> <<>>, room |-> 0])
    BY <1>3 DEF InitLzjb
  <2>2. [size |-> 0, body |-> <<>>, room |-> 0] \in [size : Nat, body : Seq(0..Full), room : Nat]
    <3> HIDE DEF Full
    <3> QED OBVIOUS
  <2> QED BY <1>1, <2>1, <2>2
<1> QED BY <1>2, <1>3 DEF Init

LEMMA InvStep == Inv /\ [Next]_vars => Inv'
<1> SUFFICES ASSUME Inv, [Next]_vars PROVE Inv'
  OBVIOUS
<1>1. ASSUME UNCHANGED <<stream, c, reach>> PROVE Inv'
  BY <1>1 DEF Inv, StreamType, PlaceInv, ReachInv, NothingOutside
<1>2. CASE DamageByte \/ DamageSize
  BY <1>2, DamageInv
<1>3. CASE Lz4Reads
  BY <1>1, <1>3, CStepInv DEF Lz4Reads, Lz4Step
<1>4. CASE Pack \/ LzjbReads \/ ReadBlockEnds \/ UNCHANGED vars
  BY <1>1, <1>4 DEF Pack, LzjbReads, ReadBlockEnds, vars, lz4vars
<1> QED BY <1>2, <1>3, <1>4 DEF Next

\* LZ4_uncompress_unknownOutputSize, whose matches and literals are copied by
\* packets of eight bytes, writes nothing behind its output and reads nothing
\* behind its input, and lz4_decompress_zfs lets it read only as much as the
\* buffer has.
THEOREM DecoderStaysInside == Spec => []NothingOutside
<1>1. Inv => NothingOutside
  BY DEF Inv
<1> QED BY <1>1, InitInv, InvStep, PTL DEF Spec

(***************************************************************************)
(* The match of the Python decoder, byte by byte.                          *)
(***************************************************************************)

LEMMA SliceIs ==
  ASSUME NEW S, NEW dst \in Seq(S), NEW off \in Nat
  PROVE  /\ SliceAt(dst, off) \in Seq(S)
         /\ off \in 1..Len(dst) => SliceAt(dst, off) = <<dst[Len(dst) - off + 1]>>
<1> DEFINE n == Len(dst)
           s == n - off
<1>1. n \in Nat /\ s \in Int
  OBVIOUS
<1>2. CASE off > 0 /\ s >= 0
  <2>1. s + 1 \in 1..n /\ SliceAt(dst, off) = <<dst[s + 1]>>
    BY <1>1, <1>2 DEF SliceAt
  <2>2. dst[s + 1] \in S
    BY <2>1, ElementType
  <2> QED BY <2>1, <2>2
<1>3. CASE ~(off > 0 /\ s >= 0) /\ s < -1 /\ n + s >= 0
  <2>1. n + s + 1 \in 1..n /\ SliceAt(dst, off) = <<dst[n + s + 1]>>
    BY <1>1, <1>3 DEF SliceAt
  <2>2. dst[n + s + 1] \in S
    BY <2>1, ElementType
  <2> QED BY <1>3, <2>1, <2>2
<1>4. CASE ~(off > 0 /\ s >= 0) /\ ~(s < -1 /\ n + s >= 0)
  <2>1. SliceAt(dst, off) = <<>>
    BY <1>4 DEF SliceAt
  <2> QED BY <1>4, <2>1
<1> QED BY <1>2, <1>3, <1>4

\* f is the output after each byte of the match.
Expands(f, S, dst, off, len) ==
  /\ f \in [0..len -> Seq(S)]
  /\ f[0] = dst
  /\ \A k \in 1..len : f[k] = f[k - 1] \o SliceAt(f[k - 1], off)
  /\ PyExpand(dst, off, len) = f[len]

\* The bytes of a match come one after the other.
LEMMA ExpandSteps ==
  ASSUME NEW S, NEW dst \in Seq(S), NEW off \in Nat, NEW len \in Nat
  PROVE  \E f : Expands(f, S, dst, off, len)
<1> DEFINE D == Seq(S)
           G == [n \in Nat |-> [d \in D |-> d \o SliceAt(d, off)]]
           Steps(at) == [k \in 0..len |->
                          IF k = 0 THEN dst ELSE LET d == at[k - 1] IN d \o SliceAt(d, off)]
           after == CHOOSE at : at = Steps(at)
<1>1. \A d \in D : d \o SliceAt(d, off) \in D
  BY SliceIs
<1>2. G \in [Nat -> [D -> D]]
  <2> HIDE DEF D
  <2> QED BY <1>1
<1>3. PICK f \in [0..len -> D] : Solves(f, len, dst, G)
  <2> HIDE DEF G
  <2> QED BY <1>2, RecursionUpTo
<1>4. \A k \in 1..len : f[k] = f[k - 1] \o SliceAt(f[k - 1], off)
  <2>1. ASSUME NEW k \in 1..len PROVE f[k] = f[k - 1] \o SliceAt(f[k - 1], off)
    <3>1. k \in Nat /\ f[k - 1] \in D /\ f[k] = G[k][f[k - 1]]
      <4> HIDE DEF G, D
      <4> QED BY <1>3 DEF Solves
    <3> HIDE DEF D
    <3> QED BY <3>1
  <2> QED BY <2>1
<1>5. f[0] = dst
  BY <1>3 DEF Solves
<1>6. f = Steps(f)
  <2>1. \A k \in 0..len : f[k] = Steps(f)[k]
    <3> HIDE DEF D, G
    <3> QED BY <1>4, <1>5
  <2> HIDE DEF D
  <2> QED BY <1>3, <2>1
<1>7. after = Steps(after)
  <2> HIDE DEF Steps
  <2> QED BY <1>6
<1>8. PyExpand(dst, off, len) = after[len]
  BY DEF PyExpand
<1> HIDE DEF after
<1>9. after[0] = dst /\ \A k \in 1..len : after[k] = after[k - 1] \o SliceAt(after[k - 1], off)
  <2>1. \A k \in 0..len : after[k] = IF k = 0 THEN dst ELSE after[k - 1] \o SliceAt(after[k - 1], off)
    BY <1>7
  <2>2. 0 \in 0..len /\ \A k \in 1..len : k \in 0..len /\ k # 0
    OBVIOUS
  <2> QED BY <2>1, <2>2
<1> DEFINE T == {k \in Nat : k <= len => after[k] = f[k]}
<1>10. 0 \in T
  BY <1>5, <1>9
<1>11. ASSUME NEW k \in Nat, k < len /\ k \in T PROVE k + 1 \in T
  <2>1. k + 1 \in 1..len /\ (k + 1) - 1 = k /\ after[k] = f[k]
    BY <1>11
  <2>2. after[k + 1] = f[k + 1]
    BY <1>4, <1>9, <2>1
  <2> QED BY <2>2
<1>12. len \in T
  <2>1. 0..len \subseteq T
    <3> HIDE DEF T
    <3> QED BY <1>10, <1>11, UpToInduction
  <2> QED BY <2>1
<1>13. PyExpand(dst, off, len) = f[len]
  BY <1>8, <1>12
<1>14. Expands(f, S, dst, off, len)
  <2> HIDE DEF G, T
  <2> QED BY <1>3, <1>4, <1>5, <1>13 DEF Expands
<1> QED BY <1>14

LEMMA OneMore ==
  ASSUME NEW S, NEW d \in Seq(S), NEW x \in S
  PROVE  /\ d \o <<x>> \in Seq(S) /\ Len(d \o <<x>>) = Len(d) + 1
         /\ \A i \in 1..Len(d) : (d \o <<x>>)[i] = d[i]
         /\ (d \o <<x>>)[Len(d) + 1] = x
OBVIOUS

\* What was there stays, and every byte behind it is the one off before it.
Repetition(e, S, dst, off, len) ==
  /\ e \in Seq(S) /\ Len(e) = Len(dst) + len
  /\ \A i \in 1..Len(dst) : e[i] = dst[i]
  /\ \A i \in (Len(dst) + 1)..(Len(dst) + len) : e[i] = e[i - off]

LEMMA ExpandIs ==
  ASSUME NEW S, NEW dst \in Seq(S), NEW off \in 1..Len(dst), NEW len \in Nat
  PROVE  Repetition(PyExpand(dst, off, len), S, dst, off, len)
<1> DEFINE n == Len(dst)
           Right(d, k) == /\ d \in Seq(S) /\ Len(d) = n + k
                          /\ \A i \in 1..n : d[i] = dst[i]
                          /\ \A i \in (n + 1)..(n + k) : d[i] = d[i - off]
<1>1. n \in Nat /\ off \in 1..n /\ off \in Nat
  OBVIOUS
<1>2a. PICK f : Expands(f, S, dst, off, len)
  BY <1>1, ExpandSteps
<1>2. /\ f[0] = dst
      /\ \A k \in 1..len : f[k] = f[k - 1] \o SliceAt(f[k - 1], off)
      /\ PyExpand(dst, off, len) = f[len]
  BY <1>2a DEF Expands
<1> DEFINE T == {k \in Nat : k <= len => Right(f[k], k)}
<1>3. 0 \in T
  BY <1>2
<1>4. ASSUME NEW k \in Nat, k < len /\ k \in T PROVE k + 1 \in T
  <2> DEFINE d == f[k]
             e == f[k + 1]
  <2>1. k + 1 \in 1..len /\ (k + 1) - 1 = k
    <3> HIDE DEF T
    <3> QED BY <1>4
  <2>2. Right(d, k)
    BY <1>4
  <2>3. e = d \o SliceAt(d, off)
    BY <1>2, <2>1
  <2> HIDE DEF d, e
  <2>4. off \in 1..Len(d) /\ d \in Seq(S)
    BY <1>1, <2>2
  <2>5. e = d \o <<d[n + k - off + 1]>> /\ d[n + k - off + 1] \in S
    <3>1. SliceAt(d, off) = <<d[Len(d) - off + 1]>>
      BY <1>1, <2>4, SliceIs
    <3>2. Len(d) - off + 1 \in 1..Len(d) /\ Len(d) = n + k
      BY <1>1, <2>2, <2>4
    <3>3. d[Len(d) - off + 1] \in S
      BY <2>4, <3>2, ElementType
    <3> QED BY <2>3, <3>1, <3>2, <3>3
  <2>6. e \in Seq(S) /\ Len(e) = n + k + 1 /\ (\A i \in 1..(n + k) : e[i] = d[i])
        /\ e[n + k + 1] = d[n + k - off + 1]
    <3>1. Len(d) = n + k /\ d \in Seq(S)
      BY <2>2
    <3> HIDE DEF n, Right
    <3> QED BY <1>1, <2>5, <3>1, OneMore
  <2>7. Right(e, k + 1)
    <3>1. \A i \in 1..n : e[i] = dst[i]
      <4> HIDE DEF n
      <4> QED BY <1>1, <2>2, <2>6
    <3>2. ASSUME NEW i \in (n + 1)..(n + (k + 1)) PROVE e[i] = e[i - off]
      <4> HIDE DEF n
      <4>1. i - off \in 1..(n + k) /\ e[i - off] = d[i - off]
        BY <1>1, <2>6
      <4>2. CASE i = n + k + 1
        BY <1>1, <2>6, <4>1, <4>2
      <4>3. CASE i # n + k + 1
        BY <1>1, <2>2, <2>6, <4>1, <4>3
      <4> QED BY <4>2, <4>3
    <3> QED BY <1>1, <2>6, <3>1, <3>2
  <2> QED BY <2>7 DEF e
<1>5. len \in T
  <2>1. 0..len \subseteq T
    <3> HIDE DEF T
    <3> QED BY <1>3, <1>4, UpToInduction
  <2> QED BY <2>1
<1> QED BY <1>2, <1>5 DEF Repetition

\* A match at distance 0 is nothing.
LEMMA ExpandNothing ==
  ASSUME NEW S, NEW dst \in Seq(S), NEW len \in Nat
  PROVE  PyExpand(dst, 0, len) = dst
<1>1a. PICK f : Expands(f, S, dst, 0, len)
  BY ExpandSteps
<1>1. /\ f[0] = dst
      /\ \A k \in 1..len : f[k] = f[k - 1] \o SliceAt(f[k - 1], 0)
      /\ PyExpand(dst, 0, len) = f[len]
  BY <1>1a DEF Expands
<1>2. \A d \in Seq(S) : d \o SliceAt(d, 0) = d
  BY DEF SliceAt
<1> DEFINE T == {k \in Nat : k <= len => f[k] = dst}
<1>3. 0 \in T
  BY <1>1
<1>4. ASSUME NEW k \in Nat, k < len /\ k \in T PROVE k + 1 \in T
  <2>1. k + 1 \in 1..len /\ (k + 1) - 1 = k /\ f[k] = dst
    BY <1>4
  <2>2. f[k + 1] = dst
    BY <1>1, <1>2, <2>1
  <2> QED BY <2>2
<1>5. len \in T
  <2>1. 0..len \subseteq T
    <3> HIDE DEF T
    <3> QED BY <1>3, <1>4, UpToInduction
  <2> QED BY <2>1
<1> QED BY <1>1, <1>5

\* Two that begin alike and repeat at the same distance are alike.
SameUpTo(e, f, n) == \A i \in 1..n : e[i] = f[i]
BothRepeat(e, f, off, n, top) ==
  \A i \in (n + 1)..top : e[i] = e[i - off] /\ f[i] = f[i - off]

LEMMA SameRepetition ==
  ASSUME NEW e, NEW f, NEW n \in Nat, NEW off \in 1..n, NEW top \in Nat,
         SameUpTo(e, f, n), BothRepeat(e, f, off, n, top)
  PROVE  SameUpTo(e, f, top)
<1>a. \A i \in 1..n : e[i] = f[i]
  BY DEF SameUpTo
<1>b. \A i \in (n + 1)..top : e[i] = e[i - off] /\ f[i] = f[i - off]
  BY DEF BothRepeat
<1> DEFINE T == {k \in Nat : \A i \in 1..k : i <= top => e[i] = f[i]}
<1>1. 0 \in T
  OBVIOUS
<1>2. ASSUME NEW k \in Nat, k < top /\ k \in T PROVE k + 1 \in T
  <2>1. ASSUME k + 1 > n PROVE e[k + 1] = f[k + 1]
    <3>1. k + 1 \in (n + 1)..top /\ (k + 1) - off \in 1..k /\ (k + 1) - off <= top
      BY <1>2, <2>1
    <3>2. e[(k + 1) - off] = f[(k + 1) - off]
      BY <1>2, <3>1
    <3> QED BY <1>b, <3>1, <3>2
  <2>2. ASSUME k + 1 <= n PROVE e[k + 1] = f[k + 1]
    <3>1. k + 1 \in 1..n
      BY <2>2
    <3> QED BY <1>a, <3>1
  <2>3. \A i \in 1..(k + 1) : i \in 1..k \/ i = k + 1
    OBVIOUS
  <2> QED BY <1>2, <2>1, <2>2, <2>3
<1>3. top \in T
  <2>1. 0..top \subseteq T
    <3> HIDE DEF T
    <3> QED BY <1>1, <1>2, UpToInduction
  <2> QED BY <2>1
<1> QED BY <1>3 DEF SameUpTo

(***************************************************************************)
(* Packets.                                                                *)
(***************************************************************************)

\* The first k bytes of x and w are the same.
Alike(x, w, top, k) == \A i \in 0..top : i < k => x[i] = w[i]

\* w repeats at the distance gap from k on.
Repeats(w, top, gap, k) == \A i \in 0..top : i >= k => w[i] = w[i - gap]

LEMMA PacketType ==
  ASSUME NEW V, NEW top \in Nat, NEW dst \in [0..top -> V],
         NEW s \in Int, NEW d \in Nat, NEW w \in Nat
  PROVE  CopyPacket(dst, s, d, w) \in [0..top -> V]
BY DEF CopyPacket

\* A packet that is no longer than its distance copies what it should.
LEMMA PacketAlong ==
  ASSUME NEW V, NEW top \in Nat, NEW dst \in [0..top -> V], NEW x,
         NEW s \in Nat, NEW d \in Nat, NEW w \in Nat, s < d, w <= d - s,
         Alike(dst, x, top, d), Repeats(x, top, d - s, d)
  PROVE  Alike(CopyPacket(dst, s, d, w), x, top, d + w)
<1> DEFINE p == CopyPacket(dst, s, d, w)
<1>1. \A i \in 0..top :
        p[i] = IF i \in d..(d + w - 1) /\ (s + i - d) \in 0..top THEN dst[s + i - d] ELSE dst[i]
  BY DEF CopyPacket
<1> HIDE DEF p
<1>2. ASSUME NEW i \in 0..top, i < d + w PROVE p[i] = x[i]
  <2>1. CASE i < d
    <3>1. p[i] = dst[i]
      BY <1>1, <2>1
    <3> QED BY <2>1, <3>1 DEF Alike
  <2>2. CASE i >= d
    <3>1. i \in d..(d + w - 1) /\ (s + i - d) \in 0..top /\ s + i - d < d /\ s + i - d = i - (d - s)
      BY <1>2, <2>2
    <3>2. p[i] = dst[s + i - d]
      BY <1>1, <3>1
    <3>3. dst[s + i - d] = x[s + i - d]
      BY <3>1 DEF Alike
    <3>4. x[i] = x[i - (d - s)]
      BY <2>2 DEF Repeats
    <3> QED BY <3>1, <3>2, <3>3, <3>4
  <2> QED BY <2>1, <2>2
<1> QED BY <1>2 DEF Alike, p

\* f is the output after each packet.
Copies(f, top, V, dst, s, d, w, n) ==
  /\ f \in [0..n -> [0..top -> V]]
  /\ f[0] = dst
  /\ \A k \in 1..n : f[k] = CopyPacket(f[k - 1], s + w * (k - 1), d + w * (k - 1), w)
  /\ CopyPackets(dst, s, d, w, n) = f[n]

LEMMA CopySteps ==
  ASSUME NEW V, NEW top \in Nat, NEW dst \in [0..top -> V],
         NEW s \in Int, NEW d \in Nat, NEW w \in Nat, NEW n \in Nat
  PROVE  \E f : Copies(f, top, V, dst, s, d, w, n)
<1> DEFINE D == [0..top -> V]
           P(x, k) == CopyPacket(x, s + w * (k - 1), d + w * (k - 1), w)
           G == [k \in Nat |-> [x \in D |-> IF k \in 1..n THEN P(x, k) ELSE x]]
           Steps(at) == [k \in 0..n |->
                          IF k = 0 THEN dst ELSE P(at[k - 1], k)]
           after == CHOOSE at : at = Steps(at)
<1>1. \A x \in D, k \in 1..n : P(x, k) \in D
  <2>1. ASSUME NEW x \in D, NEW k \in 1..n PROVE P(x, k) \in D
    <3>1. k - 1 \in Nat
      OBVIOUS
    <3>2. w * (k - 1) \in Nat
      BY <3>1, Products
    <3>3. s + w * (k - 1) \in Int /\ d + w * (k - 1) \in Nat
      BY <3>2
    <3> QED BY <3>3, PacketType
  <2> QED BY <2>1
<1>2. G \in [Nat -> [D -> D]]
  <2> HIDE DEF D, P
  <2> QED BY <1>1
<1>3. PICK f \in [0..n -> D] : Solves(f, n, dst, G)
  <2>1. dst \in D
    OBVIOUS
  <2> HIDE DEF G, D
  <2> QED BY <1>2, <2>1, RecursionUpTo
<1>4. \A k \in 1..n : f[k] = P(f[k - 1], k)
  <2>1. ASSUME NEW k \in 1..n PROVE f[k] = P(f[k - 1], k)
    <3>1. k \in Nat /\ f[k - 1] \in D /\ f[k] = G[k][f[k - 1]]
      <4> HIDE DEF G, D
      <4> QED BY <1>3 DEF Solves
    <3> HIDE DEF D, P
    <3> QED BY <3>1
  <2> QED BY <2>1
<1>5. f[0] = dst
  BY <1>3 DEF Solves
<1>6. f = Steps(f)
  <2>1. \A k \in 0..n : f[k] = Steps(f)[k]
    <3> HIDE DEF D, G, P
    <3> QED BY <1>4, <1>5
  <2> HIDE DEF D, P
  <2> QED BY <1>3, <2>1
<1>7. after = Steps(after)
  <2> HIDE DEF Steps
  <2> QED BY <1>6
<1>8. CopyPackets(dst, s, d, w, n) = after[n]
  BY DEF CopyPackets
<1> HIDE DEF after
<1>9. after[0] = dst /\ \A k \in 1..n : after[k] = P(after[k - 1], k)
  <2>1. \A k \in 0..n : after[k] = IF k = 0 THEN dst ELSE P(after[k - 1], k)
    <3> HIDE DEF P
    <3> QED BY <1>7
  <2>2. 0 \in 0..n /\ \A k \in 1..n : k \in 0..n /\ k # 0
    OBVIOUS
  <2> HIDE DEF P
  <2> QED BY <2>1, <2>2
<1> DEFINE T == {k \in Nat : k <= n => after[k] = f[k]}
<1>10. 0 \in T
  BY <1>5, <1>9
<1>11. ASSUME NEW k \in Nat, k < n /\ k \in T PROVE k + 1 \in T
  <2>1. k + 1 \in 1..n /\ (k + 1) - 1 = k /\ after[k] = f[k]
    BY <1>11
  <2>2. after[k + 1] = f[k + 1]
    <3> HIDE DEF P
    <3> QED BY <1>4, <1>9, <2>1
  <2> QED BY <2>2
<1>12. n \in T
  <2>1. 0..n \subseteq T
    <3> HIDE DEF T
    <3> QED BY <1>10, <1>11, UpToInduction
  <2> QED BY <2>1
<1>13. CopyPackets(dst, s, d, w, n) = f[n]
  BY <1>8, <1>12
<1>14. Copies(f, top, V, dst, s, d, w, n)
  <2> HIDE DEF G, T
  <2> QED BY <1>3, <1>4, <1>5, <1>13 DEF Copies
<1> QED BY <1>14

\* So do the packets after it, at the same distance.
LEMMA PacketsAlong ==
  ASSUME NEW V, NEW top \in Nat, NEW dst \in [0..top -> V], NEW x,
         NEW s \in Nat, NEW d \in Nat, NEW w \in Nat, NEW n \in Nat, s < d, w <= d - s,
         Alike(dst, x, top, d), Repeats(x, top, d - s, d)
  PROVE  /\ CopyPackets(dst, s, d, w, n) \in [0..top -> V]
         /\ Alike(CopyPackets(dst, s, d, w, n), x, top, d + w * n)
<1>1. PICK f : Copies(f, top, V, dst, s, d, w, n)
  <2>1. s \in Int
    OBVIOUS
  <2> QED BY <2>1, CopySteps
<1>2. /\ f \in [0..n -> [0..top -> V]]
      /\ f[0] = dst
      /\ \A k \in 1..n : f[k] = CopyPacket(f[k - 1], s + w * (k - 1), d + w * (k - 1), w)
      /\ CopyPackets(dst, s, d, w, n) = f[n]
  BY <1>1 DEF Copies
<1> DEFINE T == {k \in Nat : k <= n => Alike(f[k], x, top, d + w * k)}
<1>3. 0 \in T
  <2>1. d + w * 0 = d
    OBVIOUS
  <2> QED BY <1>2, <2>1
<1>4. ASSUME NEW k \in Nat, k < n /\ k \in T PROVE k + 1 \in T
  <2> DEFINE a == w * k
  <2>1. k + 1 \in 1..n /\ (k + 1) - 1 = k /\ k \in 0..n
    <3> HIDE DEF T
    <3> QED BY <1>4
  <2>2. f[k] \in [0..top -> V] /\ Alike(f[k], x, top, d + a)
    <3>1. f[k] \in [0..top -> V]
      BY <1>2, <2>1
    <3> QED BY <1>4, <3>1
  <2>3. a \in Nat /\ w * (k + 1) = a + w
    BY Products
  <2>4. f[k + 1] = CopyPacket(f[k], s + a, d + a, w)
    BY <1>2, <2>1
  <2> HIDE DEF a
  <2>5. /\ s + a \in Nat /\ d + a \in Nat /\ s + a < d + a /\ (d + a) - (s + a) = d - s
    BY <2>3
  <2>6. Repeats(x, top, (d + a) - (s + a), d + a)
    BY <2>3, <2>5 DEF Repeats
  <2>7. Alike(f[k + 1], x, top, (d + a) + w)
    BY <2>2, <2>4, <2>5, <2>6, PacketAlong
  <2>8. (d + a) + w = d + w * (k + 1)
    BY <2>3
  <2> QED BY <2>7, <2>8
<1>5. n \in T
  <2>1. 0..n \subseteq T
    <3> HIDE DEF T
    <3> QED BY <1>3, <1>4, UpToInduction
  <2> QED BY <2>1
<1>6. f[n] \in [0..top -> V]
  BY <1>2
<1> QED BY <1>2, <1>5, <1>6

(***************************************************************************)
(* The head of a match.                                                    *)
(***************************************************************************)

LEMMA RepeatsMore ==
  ASSUME NEW x, NEW top \in Nat, NEW a \in Nat, NEW b \in Nat, NEW k \in Nat, NEW l \in Nat,
         Repeats(x, top, a, k), Repeats(x, top, b, k), l >= k + a
  PROVE  Repeats(x, top, a + b, l)
<1>1. ASSUME NEW i \in 0..top, i >= l PROVE x[i] = x[i - (a + b)]
  <2>1. i >= k /\ i - a \in 0..top /\ i - a >= k /\ (i - a) - b = i - (a + b)
    BY <1>1
  <2>2. x[i] = x[i - a]
    BY <2>1 DEF Repeats
  <2>3. x[i - a] = x[(i - a) - b]
    BY <2>1 DEF Repeats
  <2> QED BY <2>1, <2>2, <2>3
<1> QED BY <1>1 DEF Repeats

LEMMA RepeatsLater ==
  ASSUME NEW x, NEW top \in Nat, NEW a, NEW k \in Nat, NEW l \in Nat,
         Repeats(x, top, a, k), l >= k
  PROVE  Repeats(x, top, a, l)
BY DEF Repeats

\* The two distances the tables of the decoder make of one below eight.
Near(off) == off + Dec32[off + 1]
Far(off) == off + 4 + Dec32[off + 1] + Dec64[off + 1]

\* They are multiples of it that leave room for a packet of four, and of eight.
LEMMA TableDistances ==
  ASSUME NEW x, NEW top \in Nat, NEW op \in Nat, NEW off \in 1..7, off <= op,
         Repeats(x, top, off, op)
  PROVE  /\ Near(off) \in Nat /\ Near(off) >= 4 /\ Near(off) <= op + 4
         /\ Far(off) \in Nat /\ Far(off) >= 8 /\ Far(off) <= op + 8
         /\ Repeats(x, top, Near(off), op + 4) /\ Repeats(x, top, Far(off), op + 8)
<1>1. CASE off = 1
  <2>1. Near(off) = 4 /\ Far(off) = 8
    BY <1>1 DEF Near, Far, Dec32, Dec64
  <2>2. Repeats(x, top, 1 + 1, op + 1)
    BY <1>1, RepeatsMore
  <2>3. Repeats(x, top, 2 + 2, op + 3)
    <3>1. Repeats(x, top, 2, op + 1) /\ op + 1 \in Nat /\ op + 3 \in Nat /\ op + 3 >= (op + 1) + 2
      BY <2>2
    <3> QED BY <3>1, RepeatsMore
  <2>4. Repeats(x, top, 4 + 4, op + 7)
    <3>1. Repeats(x, top, 4, op + 3) /\ op + 3 \in Nat /\ op + 7 \in Nat /\ op + 7 >= (op + 3) + 4
      BY <2>3
    <3> QED BY <3>1, RepeatsMore
  <2>5. Repeats(x, top, 4, op + 4) /\ Repeats(x, top, 8, op + 8)
    <3>1. Repeats(x, top, 4, op + 3) /\ Repeats(x, top, 8, op + 7) /\ op + 3 \in Nat /\ op + 7 \in Nat
          /\ op + 4 \in Nat /\ op + 8 \in Nat /\ op + 4 >= op + 3 /\ op + 8 >= op + 7
      BY <2>3, <2>4
    <3> QED BY <3>1, RepeatsLater
  <2> QED BY <2>1, <2>5
<1>2. CASE off = 2
  <2>1. Near(off) = 4 /\ Far(off) = 8
    BY <1>2 DEF Near, Far, Dec32, Dec64
  <2>2. Repeats(x, top, 2 + 2, op + 2)
    BY <1>2, RepeatsMore
  <2>3. Repeats(x, top, 4 + 4, op + 6)
    <3>1. Repeats(x, top, 4, op + 2) /\ op + 2 \in Nat /\ op + 6 \in Nat /\ op + 6 >= (op + 2) + 4
      BY <2>2
    <3> QED BY <3>1, RepeatsMore
  <2>4. Repeats(x, top, 4, op + 4) /\ Repeats(x, top, 8, op + 8)
    <3>1. Repeats(x, top, 4, op + 2) /\ Repeats(x, top, 8, op + 6) /\ op + 2 \in Nat /\ op + 6 \in Nat
          /\ op + 4 \in Nat /\ op + 8 \in Nat /\ op + 4 >= op + 2 /\ op + 8 >= op + 6
      BY <2>2, <2>3
    <3> QED BY <3>1, RepeatsLater
  <2> QED BY <2>1, <2>4
<1>3. CASE off = 3
  <2>1. Near(off) = 6 /\ Far(off) = 9
    BY <1>3 DEF Near, Far, Dec32, Dec64
  <2>2. Repeats(x, top, 3 + 3, op + 3)
    BY <1>3, RepeatsMore
  <2>3. Repeats(x, top, 3 + 6, op + 6)
    <3>1. Repeats(x, top, 6, op + 3) /\ Repeats(x, top, 3, op) /\ op + 3 \in Nat /\ op + 6 \in Nat
          /\ op + 6 >= (op + 3) + 3 /\ op + 3 >= op
      BY <1>3, <2>2
    <3>2. Repeats(x, top, 3, op + 3)
      BY <3>1, RepeatsLater
    <3> QED BY <3>1, <3>2, RepeatsMore
  <2>4. Repeats(x, top, 6, op + 4) /\ Repeats(x, top, 9, op + 8)
    <3>1. Repeats(x, top, 6, op + 3) /\ Repeats(x, top, 9, op + 6) /\ op + 3 \in Nat /\ op + 6 \in Nat
          /\ op + 4 \in Nat /\ op + 8 \in Nat /\ op + 4 >= op + 3 /\ op + 8 >= op + 6
      BY <2>2, <2>3
    <3> QED BY <3>1, RepeatsLater
  <2> QED BY <1>3, <2>1, <2>4
<1>4. CASE off \in 4..7
  <2>1. Near(off) = off /\ Far(off) = off + off
    <3>1. off = 4 \/ off = 5 \/ off = 6 \/ off = 7
      BY <1>4
    <3> QED BY <3>1 DEF Near, Far, Dec32, Dec64
  <2>2. off \in Nat /\ op + 4 \in Nat /\ op + 8 \in Nat /\ op + off \in Nat
        /\ op + 4 >= op /\ op + 8 >= op + off /\ op + off >= op + off
    BY <1>4
  <2>3. Repeats(x, top, off + off, op + off)
    BY <2>2, RepeatsMore
  <2>4. Repeats(x, top, off, op + 4) /\ Repeats(x, top, off + off, op + 8)
    BY <2>2, <2>3, RepeatsLater
  <2> QED BY <1>4, <2>1, <2>4
<1> QED BY <1>1, <1>2, <1>3, <1>4

\* The first eight bytes of a match, and a source for the rest that is at least
\* eight bytes behind.
LEMMA HeadAlong ==
  ASSUME NEW V, NEW top \in Nat, NEW dst \in [0..top -> V], NEW x,
         NEW ref \in Nat, NEW op \in Nat, ref < op,
         Alike(dst, x, top, op), Repeats(x, top, op - ref, op)
  PROVE  LET h == CopyHead(dst, ref, op) IN
         /\ h.dst \in [0..top -> V] /\ Alike(h.dst, x, top, op + 8)
         /\ h.ref \in Nat /\ h.ref <= op
         /\ Repeats(x, top, (op + 8) - h.ref, op + 8)
<1> DEFINE off == op - ref
           h == CopyHead(dst, ref, op)
<1>1. off \in Nat /\ off >= 1 /\ off <= op /\ ref = op - off
  OBVIOUS
<1>2. CASE off >= 8
  <2>1. h.dst = CopyPacket(dst, ref, op, 8) /\ h.ref = ref + 8
    BY <1>1, <1>2 DEF CopyHead, StepSize
  <2> HIDE DEF h
  <2>2. 8 \in Nat /\ 8 <= op - ref /\ ref \in Int
    BY <1>2
  <2>3. h.dst \in [0..top -> V]
    <3>1. CopyPacket(dst, ref, op, 8) \in [0..top -> V]
      BY <2>2, PacketType
    <3> QED BY <2>1, <3>1
  <2>4. Alike(h.dst, x, top, op + 8)
    BY <2>1, <2>2, PacketAlong
  <2>5. (op + 8) - h.ref = op - ref /\ h.ref \in Nat /\ h.ref <= op
    BY <1>2, <2>1
  <2>6. Repeats(x, top, op - ref, op + 8)
    BY RepeatsLater, <1>1
  <2> QED BY <2>3, <2>4, <2>5, <2>6 DEF h
<1>3. CASE off < 8
  <2> DEFINE r == ref + 4 - Dec32[off + 1]
             four == CopyPackets(dst, ref, op, 1, 4)
  <2>1. h.dst = CopyPacket(four, r, op + 4, 4) /\ h.ref = r - Dec64[off + 1]
    BY <1>3 DEF CopyHead, StepSize
  <2>2. off \in 1..7 /\ Repeats(x, top, off, op)
    BY <1>1, <1>3
  <2>3. /\ Near(off) \in Nat /\ Near(off) >= 4 /\ Near(off) <= op + 4
        /\ Far(off) \in Nat /\ Far(off) >= 8 /\ Far(off) <= op + 8
        /\ Repeats(x, top, Near(off), op + 4) /\ Repeats(x, top, Far(off), op + 8)
    <3> HIDE DEF off
    <3> QED BY <1>1, <2>2, TableDistances
  <2>4. Dec32[off + 1] \in Int /\ Dec64[off + 1] \in Int
    <3> HIDE DEF off
    <3>1. off = 1 \/ off = 2 \/ off = 3 \/ off = 4 \/ off = 5 \/ off = 6 \/ off = 7
      BY <2>2
    <3> QED BY <3>1 DEF Dec32, Dec64
  <2>5. r = op + 4 - Near(off) /\ r - Dec64[off + 1] = op + 8 - Far(off)
    <3>1. Near(off) = off + Dec32[off + 1] /\ Far(off) = off + 4 + Dec32[off + 1] + Dec64[off + 1]
      BY DEF Near, Far
    <3> DEFINE p == Dec32[off + 1]
               q == Dec64[off + 1]
    <3>2. p \in Int /\ q \in Int /\ Near(off) = off + p /\ Far(off) = off + 4 + p + q
          /\ r = ref + 4 - p
      BY <2>4, <3>1
    <3> HIDE DEF p, q, r, off
    <3> QED BY <1>1, <3>2 DEF q
  <2>6. four \in [0..top -> V] /\ Alike(four, x, top, op + 1 * 4)
    <3>1. 1 \in Nat /\ 4 \in Nat /\ 1 <= op - ref
      OBVIOUS
    <3> QED BY <3>1, PacketsAlong
  <2>7. r \in Nat /\ r < op + 4 /\ 4 <= (op + 4) - r /\ (op + 4) - r = Near(off) /\ op + 4 \in Nat
        /\ r \in Int /\ 4 \in Nat
    <3> HIDE DEF r, off
    <3> QED BY <2>3, <2>5
  <2> HIDE DEF h, r, four
  <2>8. h.dst \in [0..top -> V]
    <3>1. CopyPacket(four, r, op + 4, 4) \in [0..top -> V]
      BY <2>6, <2>7, PacketType
    <3> QED BY <2>1, <3>1
  <2>9. Alike(h.dst, x, top, (op + 4) + 4)
    <3>1. Alike(four, x, top, op + 4) /\ Repeats(x, top, (op + 4) - r, op + 4)
      BY <2>3, <2>6, <2>7
    <3> QED BY <2>1, <2>6, <2>7, <3>1, PacketAlong
  <2>10. h.ref \in Nat /\ h.ref <= op /\ (op + 8) - h.ref = Far(off)
    <3> HIDE DEF off
    <3> QED BY <2>1, <2>3, <2>5
  <2>11. (op + 4) + 4 = op + 8
    OBVIOUS
  <2> QED BY <2>3, <2>8, <2>9, <2>10, <2>11 DEF h
<1> QED BY <1>1, <1>2, <1>3

(***************************************************************************)
(* A sequence, as C decodes it and byte by byte.                           *)
(***************************************************************************)

\* Where a decoder is before a sequence: in the stream, with its output.
Place == [ip : Nat, out : Seq(0..Full)]

Lits(x) == LiteralRun(x.ip, stream.size)
LitsEnd(x) == Lits(x).ip + Lits(x).len
Match(x) == MatchRun(Byte(x.ip), LitsEnd(x), stream.size)
WithLits(x) == x.out \o SubSeq(stream.body, Lits(x).ip + 1, LitsEnd(x))

\* The place after it.
Decoded(x) ==
  [ip |-> Match(x).ip,
   out |-> PyExpand(WithLits(x), Offset(LitsEnd(x)), MinMatch + Match(x).len)]

Here == [ip |-> c.ip, out |-> COutput]

DstInv ==
  /\ c.dst \in [0..(stream.room + 16) -> 0..Full]
  /\ c.op <= stream.room

LEMMA ConcatIs ==
  ASSUME NEW S, NEW s \in Seq(S), NEW t \in Seq(S)
  PROVE  /\ s \o t \in Seq(S) /\ Len(s \o t) = Len(s) + Len(t)
         /\ \A i \in 1..Len(s) : (s \o t)[i] = s[i]
         /\ \A i \in 1..Len(t) : (s \o t)[Len(s) + i] = t[i]
OBVIOUS

LEMMA PieceIs ==
  ASSUME NEW S, NEW s \in Seq(S), NEW m \in Nat, NEW n \in Nat, m + n <= Len(s)
  PROVE  /\ SubSeq(s, m + 1, m + n) \in Seq(S) /\ Len(SubSeq(s, m + 1, m + n)) = n
         /\ \A i \in 1..n : SubSeq(s, m + 1, m + n)[i] = s[m + i]
BY SMTT(30)

LEMMA ListIs ==
  ASSUME NEW S, NEW n \in Nat, NEW f \in [1..n -> S]
  PROVE  f \in Seq(S) /\ Len(f) = n
OBVIOUS

LEMMA ByteIs ==
  ASSUME StreamType, NEW i \in Nat
  PROVE  /\ Byte(i) \in 0..Full
         /\ i < Len(stream.body) => Byte(i) = stream.body[i + 1]
<1>1. CASE i < Len(stream.body)
  <2>1. stream.body \in Seq(0..Full) /\ i + 1 \in 1..Len(stream.body)
    BY <1>1 DEF StreamType
  <2>2. stream.body[i + 1] \in 0..Full
    BY <2>1, ElementType
  <2> QED BY <1>1, <2>2 DEF Byte
<1>2. CASE ~(i < Len(stream.body))
  <2>1. Full \in 0..Full
    BY BaseType
  <2> QED BY <1>2, <2>1 DEF Byte
<1> QED BY <1>1, <1>2

LEMMA OutputIs ==
  ASSUME StreamType, PlaceInv, DstInv
  PROVE  /\ Here \in Place /\ Len(COutput) = c.op
         /\ \A i \in 1..c.op : COutput[i] = c.dst[i - 1]
<1>1. c.op \in Nat /\ c.ip \in Nat /\ stream.room \in Nat /\ c.op <= stream.room
  BY DEF PlaceInv, StreamType, DstInv
<1>2. \A i \in 1..c.op : c.dst[i - 1] \in 0..Full
  <2>1. \A i \in 1..c.op : i - 1 \in 0..(stream.room + 16)
    BY <1>1
  <2> HIDE DEF Full
  <2> QED BY <2>1 DEF DstInv
<1>3. COutput \in Seq(0..Full) /\ Len(COutput) = c.op
  <2>1. COutput \in [1..c.op -> 0..Full]
    <3> HIDE DEF Full
    <3> QED BY <1>2 DEF COutput
  <2> HIDE DEF COutput, Full
  <2> QED BY <1>1, <2>1, ListIs
<1> QED BY <1>1, <1>3 DEF Here, Place, COutput

\* The literals are there byte by byte, and some of what follows them.
LEMMA LiteralsCopied ==
  ASSUME StreamType, PlaceInv, DstInv, CopiesLiterals, stream.size <= Len(stream.body)
  PROVE  /\ AfterLiterals \in [0..(stream.room + 16) -> 0..Full]
         /\ WithLits(Here) \in Seq(0..Full) /\ Len(WithLits(Here)) = CLitEnd
         /\ \A i \in 1..CLitEnd : WithLits(Here)[i] = AfterLiterals[i - 1]
<1> DEFINE o == c.op
           a == CLit.ip
           n == CLit.len
           e == CLitEnd
           w == WildLength(c.op, CLitEnd)
           L == Len(stream.body)
           t == SubSeq(stream.body, a + 1, a + n)
<1>1. /\ o \in Nat /\ a \in Nat /\ n \in Nat /\ e = o + n /\ CInEnd = a + n
      /\ stream.room \in Nat /\ stream.size \in Nat /\ L \in Nat /\ stream.body \in Seq(0..Full)
  <2>1. c.ip < stream.size
    BY DEF CopiesLiterals
  <2> QED BY <2>1, LiteralsAt DEF StreamType, PlaceInv
<1>2. a + n <= L /\ e <= stream.room /\ o <= e
  <2>1. ~(e > stream.room - 8) /\ ~(CInEnd > stream.size - 8)
    BY DEF CopiesLiterals, NearAnEnd, CopyLength
  <2> HIDE DEF a, n, e, o, L
  <2> QED BY <1>1, <2>1 DEF L
<1>3. w \in Nat /\ n <= w
  <2>1. w = 8 * (IF e > o THEN (e - o + 7) \div 8 ELSE 1)
    BY DEF WildLength, Packets, CopyLength
  <2> HIDE DEF a, n, e, w, o
  <2> QED BY <1>1, <2>1
<1>4. DOMAIN c.dst = 0..(stream.room + 16) /\ \A i \in DOMAIN c.dst : c.dst[i] \in 0..Full
  <2> HIDE DEF Full
  <2> QED BY DEF DstInv
<1>5. AfterLiterals \in [0..(stream.room + 16) -> 0..Full]
  <2>1. \A i \in o..(o + w - 1) : Byte(a + i - o) \in 0..Full
    <3>1. ASSUME NEW i \in o..(o + w - 1) PROVE a + i - o \in Nat
      <4> HIDE DEF a, o, w
      <4> QED BY <1>1, <1>3
    <3> QED BY <3>1, ByteIs
  <2> HIDE DEF Full
  <2> QED BY <1>4, <2>1 DEF AfterLiterals
<1>6. /\ \A i \in 0..(stream.room + 16) : i < o => AfterLiterals[i] = c.dst[i]
      /\ \A i \in 0..(stream.room + 16) : o <= i /\ i < e => AfterLiterals[i] = Byte(a + i - o)
  <2>1. \A i \in 0..(stream.room + 16) :
          AfterLiterals[i] = IF i \in o..(o + w - 1) THEN Byte(a + i - o) ELSE c.dst[i]
    BY <1>4 DEF AfterLiterals
  <2>2. \A i \in 0..(stream.room + 16) : i < o => i \notin o..(o + w - 1)
    BY <1>1
  <2>3. \A i \in 0..(stream.room + 16) : o <= i /\ i < e => i \in o..(o + w - 1)
    <3> HIDE DEF a, n, e, w, o
    <3> QED BY <1>1, <1>3
  <2> QED BY <2>1, <2>2, <2>3
<1>7. Lits(Here) = CLit /\ LitsEnd(Here) = a + n /\ WithLits(Here) = COutput \o t
  <2>1. Here.ip = c.ip /\ Here.out = COutput
    BY DEF Here
  <2>2. Lits(Here) = CLit
    BY <2>1 DEF Lits, CLit
  <2> QED BY <2>1, <2>2 DEF LitsEnd, WithLits
<1>8. t \in Seq(0..Full) /\ Len(t) = n /\ \A i \in 1..n : t[i] = stream.body[a + i]
  <2>1. stream.body \in Seq(0..Full) /\ a \in Nat /\ n \in Nat /\ a + n <= Len(stream.body)
    BY <1>1, <1>2
  <2> HIDE DEF Full, a, n
  <2> QED BY <2>1, PieceIs
<1>9. COutput \in Seq(0..Full) /\ Len(COutput) = o /\ \A i \in 1..o : COutput[i] = c.dst[i - 1]
  BY OutputIs DEF Place, Here
<1>10. WithLits(Here) \in Seq(0..Full) /\ Len(WithLits(Here)) = e
  <2>1. COutput \o t \in Seq(0..Full) /\ Len(COutput \o t) = Len(COutput) + Len(t)
    <3> HIDE DEF Full, t, COutput
    <3> QED BY <1>8, <1>9, ConcatIs
  <2> HIDE DEF Full, t, o, e, n, COutput
  <2> QED BY <1>1, <1>7, <1>8, <1>9, <2>1
<1>11. ASSUME NEW i \in 1..e PROVE WithLits(Here)[i] = AfterLiterals[i - 1]
  <2>1. i - 1 \in 0..(stream.room + 16)
    <3> HIDE DEF e
    <3> QED BY <1>1, <1>2, <1>11
  <2>2. CASE i <= o
    <3>1. (COutput \o t)[i] = COutput[i] /\ i \in 1..o /\ i - 1 < o
      <4> HIDE DEF Full, t, o, e, n, COutput
      <4>1. i \in 1..Len(COutput)
        BY <1>1, <1>9, <2>2
      <4> QED BY <1>1, <1>8, <1>9, <2>2, <4>1, ConcatIs
    <3>2. AfterLiterals[i - 1] = c.dst[i - 1]
      BY <1>6, <2>1, <3>1
    <3> QED BY <1>7, <1>9, <3>1, <3>2
  <2>3. CASE i > o
    <3>1. (COutput \o t)[i] = t[i - o] /\ i - o \in 1..n
      <4> HIDE DEF Full, t, o, e, n, COutput
      <4>1. i - o \in 1..n /\ o + (i - o) = i
        BY <1>1, <2>3
      <4>2. (COutput \o t)[Len(COutput) + (i - o)] = t[i - o]
        BY <1>8, <1>9, <4>1, ConcatIs
      <4> QED BY <1>9, <4>1, <4>2
    <3>2. AfterLiterals[i - 1] = Byte(a + (i - 1) - o)
      <4>1. o <= i - 1 /\ i - 1 < e
        <5> HIDE DEF o, e
        <5> QED BY <1>1, <2>3
      <4> QED BY <1>6, <2>1, <4>1
    <3>3. a + (i - 1) - o \in Nat /\ a + (i - 1) - o < L /\ (a + (i - 1) - o) + 1 = a + (i - o)
      <4> HIDE DEF o, e, a, n, L
      <4> QED BY <1>1, <1>2, <3>1
    <3>4. Byte(a + (i - 1) - o) = stream.body[a + (i - o)]
      BY <3>3, ByteIs
    <3>5. t[i - o] = stream.body[a + (i - o)]
      BY <1>8, <3>1
    <3> QED BY <1>7, <3>1, <3>2, <3>4, <3>5
  <2> HIDE DEF o
  <2>4. i <= o \/ i > o
    BY <1>1
  <2> QED BY <2>2, <2>3, <2>4
<1> QED BY <1>5, <1>10, <1>11

\* The output after the match of a sequence, from the one before it.
MatchOut(dst, n, off, packets, rest) ==
  LET head == CopyHead(dst, n - off, n)
      mid == CopyPackets(head.dst, head.ref, n + 8, 8, packets) IN
  CopyPackets(mid, head.ref + 8 * packets, (n + 8) + 8 * packets, 1, rest)

\* It is the match byte by byte.
IsExpanded(x, top, b, off, len) ==
  /\ x \in [0..top -> 0..Full]
  /\ [i \in 1..(Len(b) + len) |-> x[i - 1]] = PyExpand(b, off, len)

\* dst begins with b.
Holding(dst, b) == \A i \in 1..Len(b) : b[i] = dst[i - 1]

\* What C copies of a match, by its head, its packets and its last bytes, is the
\* match byte by byte.
LEMMA MatchCopied ==
  ASSUME NEW top \in Nat, NEW dst \in [0..top -> 0..Full],
         NEW b \in Seq(0..Full), NEW off \in 1..Len(b), Len(b) <= top,
         Holding(dst, b),
         NEW len \in Nat, Len(b) + len <= top + 1,
         NEW packets \in Nat, NEW rest \in Nat, len <= 8 + 8 * packets + rest
  PROVE  IsExpanded(MatchOut(dst, Len(b), off, packets, rest), top, b, off, len)
<1> DEFINE n == Len(b)
           big == PyExpand(b, off, top + 1 - n)
           e == PyExpand(b, off, len)
           x == [i \in 0..top |-> big[i + 1]]
           head == CopyHead(dst, n - off, n)
           mid == CopyPackets(head.dst, head.ref, n + 8, 8, packets)
           res == CopyPackets(mid, head.ref + 8 * packets, (n + 8) + 8 * packets, 1, rest)
<1>1. /\ n \in Nat /\ n <= top /\ off \in 1..n /\ off \in Nat /\ n - off \in Nat /\ n - off < n
      /\ n - (n - off) = off /\ top + 1 - n \in Nat /\ n + (top + 1 - n) = top + 1
  OBVIOUS
<1>2. /\ \A i \in 1..n : big[i] = b[i]
      /\ \A i \in (n + 1)..(top + 1) : big[i] = big[i - off]
  <2> DEFINE l == top + 1 - n
  <2>1. Repetition(PyExpand(b, off, l), 0..Full, b, off, l)
    <3>1. l \in Nat /\ off \in 1..Len(b)
      BY <1>1
    <3> HIDE DEF l, Full
    <3> QED BY <3>1, ExpandIs
  <2>2. Len(b) + l = top + 1 /\ big = PyExpand(b, off, l)
    BY <1>1
  <2> HIDE DEF l, big, n
  <2> QED BY <2>1, <2>2 DEF Repetition, n
<1>3. /\ e \in Seq(0..Full) /\ Len(e) = n + len
      /\ \A i \in 1..n : e[i] = b[i]
      /\ \A i \in (n + 1)..(n + len) : e[i] = e[i - off]
  <2>1. Repetition(e, 0..Full, b, off, len)
    <3> HIDE DEF Full
    <3> QED BY ExpandIs
  <2> HIDE DEF e
  <2> QED BY <2>1 DEF Repetition
<1> HIDE DEF big, e
<1>4. Alike(dst, x, top, n)
  <2>1. ASSUME NEW i \in 0..top, i < n PROVE dst[i] = x[i]
    <3>1. i + 1 \in 1..n /\ (i + 1) - 1 = i
      BY <1>1, <2>1
    <3>2. b[i + 1] = dst[i] /\ big[i + 1] = b[i + 1]
      BY <1>2, <3>1 DEF Holding
    <3> QED BY <3>2
  <2> HIDE DEF x
  <2> QED BY <2>1 DEF Alike
<1>5. Repeats(x, top, off, n)
  <2>1. ASSUME NEW i \in 0..top, i >= n PROVE x[i] = x[i - off]
    <3>1. i + 1 \in (n + 1)..(top + 1) /\ i - off \in 0..top /\ (i + 1) - off = (i - off) + 1
      BY <1>1, <2>1
    <3>2. big[i + 1] = big[(i - off) + 1]
      BY <1>2, <3>1
    <3> QED BY <3>1, <3>2
  <2> HIDE DEF x
  <2> QED BY <2>1 DEF Repeats
<1> HIDE DEF x
<1>6. /\ head.dst \in [0..top -> 0..Full] /\ Alike(head.dst, x, top, n + 8)
      /\ head.ref \in Nat /\ head.ref <= n
      /\ Repeats(x, top, (n + 8) - head.ref, n + 8)
  <2> DEFINE r == n - off
  <2>1. r \in Nat /\ r < n /\ Repeats(x, top, n - r, n)
    BY <1>1, <1>5
  <2> HIDE DEF r, n
  <2> QED BY <1>1, <1>4, <2>1, HeadAlong DEF r
<1> DEFINE s == head.ref
           k == 8 * packets
           op == n + 8
<1>7. k \in Nat /\ op \in Nat /\ s \in Nat /\ 8 <= op - s /\ s < op /\ 8 \in Nat
      /\ s + k \in Nat /\ op + k \in Nat /\ s + k < op + k /\ 1 <= (op + k) - (s + k) /\ 1 \in Nat
      /\ (op + k) - (s + k) = op - s
  <2>1. s \in Nat /\ s <= n /\ n \in Nat /\ k \in Nat
    BY <1>1, <1>6
  <2> HIDE DEF s, k, n
  <2> QED BY <2>1
<1>8. mid \in [0..top -> 0..Full] /\ Alike(mid, x, top, op + 8 * packets)
  <2>1. head.dst \in [0..top -> 0..Full] /\ Alike(head.dst, x, top, op) /\ Repeats(x, top, op - s, op)
    BY <1>6
  <2> HIDE DEF head, op, s
  <2> QED BY <1>7, <2>1, PacketsAlong DEF s, op
<1>9. res \in [0..top -> 0..Full] /\ Alike(res, x, top, (op + k) + 1 * rest)
  <2>1. Repeats(x, top, (op + k) - (s + k), op + k)
    <3>1. Repeats(x, top, op - s, op)
      BY <1>6
    <3> HIDE DEF op, k, s
    <3> QED BY <1>7, <3>1 DEF Repeats
  <2>2. Alike(mid, x, top, op + k)
    BY <1>8
  <2>3. res = CopyPackets(mid, s + k, op + k, 1, rest)
    OBVIOUS
  <2> HIDE DEF mid, op, s, k, res
  <2> QED BY <1>7, <1>8, <2>1, <2>2, <2>3, PacketsAlong
<1> HIDE DEF res
<1>10. ASSUME NEW i \in 1..(n + len) PROVE res[i - 1] = e[i]
  <2>1. i - 1 \in 0..top /\ i - 1 < (op + k) + 1 * rest /\ (i - 1) + 1 = i
    BY <1>1, <1>10
  <2>2. res[i - 1] = x[i - 1]
    BY <1>9, <2>1 DEF Alike
  <2>3. x[i - 1] = big[i]
    BY <2>1 DEF x
  <2>4. e[i] = big[i]
    <3>1. \A j \in 1..n : e[j] = big[j]
      BY <1>2, <1>3
    <3>2. \A j \in (n + 1)..(n + len) : e[j] = e[j - off] /\ big[j] = big[j - off]
      <4>1. \A j \in (n + 1)..(n + len) : j \in (n + 1)..(top + 1)
        BY <1>1
      <4> QED BY <1>2, <1>3, <4>1
    <3>3. n + len \in Nat
      BY <1>1
    <3> DEFINE t == n + len
    <3>4. t \in Nat /\ \A j \in (n + 1)..t : e[j] = e[j - off] /\ big[j] = big[j - off]
      BY <3>2, <3>3
    <3>5. SameUpTo(e, big, n) /\ BothRepeat(e, big, off, n, t)
      <4> HIDE DEF t, n
      <4> QED BY <3>1, <3>4 DEF SameUpTo, BothRepeat
    <3>6. SameUpTo(e, big, t)
      <4> HIDE DEF t, n
      <4> QED BY <1>1, <3>4, <3>5, SameRepetition
    <3> QED BY <3>6, <1>10 DEF SameUpTo
  <2> QED BY <2>2, <2>3, <2>4
<1>11. [i \in 1..(n + len) |-> res[i - 1]] = e
  <2>1. e = [i \in 1..(n + len) |-> e[i]]
    <3> HIDE DEF n, Full
    <3> QED BY <1>1, <1>3
  <2> HIDE DEF n
  <2> QED BY <1>10, <2>1
<1>12. /\ res \in [0..top -> 0..Full]
       /\ [i \in 1..(n + len) |-> res[i - 1]] = PyExpand(b, off, len)
  BY <1>9, <1>11 DEF e
<1>13. MatchOut(dst, Len(b), off, packets, rest) = res
  BY DEF MatchOut, res
<1> QED BY <1>12, <1>13 DEF IsExpanded

\* The sequence at x is one that C decodes and goes on from.
Sequenced(x) ==
  /\ x.ip < stream.size
  /\ LitsEnd(x) <= stream.size - CopyLength
  /\ Offset(LitsEnd(x)) \in 1..Len(WithLits(x))

LEMMA OffsetType ==
  ASSUME StreamType, NEW i \in Nat
  PROVE  Offset(i) \in Nat
<1>1. Byte(i) \in Nat /\ Byte(i + 1) \in Nat
  BY ByteType
<1>2. (Full + 1) * Byte(i + 1) \in Nat
  <2>1. Full + 1 \in Nat
    BY BaseType
  <2> HIDE DEF Full
  <2> QED BY <1>1, <2>1, Products
<1> QED BY <1>1, <1>2 DEF Offset

\* A sequence that C decodes is decoded byte by byte.
LEMMA SequenceDecoded ==
  ASSUME StreamType, PlaceInv, DstInv, stream.size <= Len(stream.body),
         CSequence, stream' = stream, CRef # CLitEnd
  PROVE  /\ DstInv'
         /\ Sequenced(Here) /\ Decoded(Here) = Here' /\ c.ip <= c'.ip
<1> DEFINE top == stream.room + 16
           b == WithLits(Here)
           off == Offset(CInEnd)
           len == MinMatch + CMatch.len
           rest == Max({0, CMatchEnd - (CLitEnd + 8) - 8 * MatchPackets})
           res == MatchOut(AfterLiterals, Len(b), off, MatchPackets, rest)
<1>1. /\ CopiesLiterals /\ CRef >= 0 /\ CMatchEnd < stream.room
      /\ c' = [c EXCEPT !.ip = CMatch.ip, !.op = CMatchEnd, !.dst = AfterMatch]
  BY DEF CSequence
<1>2. /\ AfterLiterals \in [0..top -> 0..Full]
      /\ b \in Seq(0..Full) /\ Len(b) = CLitEnd
      /\ Holding(AfterLiterals, b)
  BY <1>1, LiteralsCopied DEF Holding
<1>3. /\ stream.room \in Nat /\ stream.size \in Nat /\ CLitEnd \in Nat /\ CInEnd \in Nat
      /\ CLit.ip \in Nat /\ CLit.ip <= CInEnd /\ c.ip \in Nat /\ c.op \in Nat
  <2>1. c.ip < stream.size
    BY <1>1 DEF CopiesLiterals
  <2>2. CLit.len \in Nat /\ CLit.ip \in Nat /\ CInEnd = CLit.ip + CLit.len /\ CLitEnd \in Nat /\ CInEnd \in Nat
    BY <2>1, LiteralsAt
  <2>3. stream.room \in Nat /\ stream.size \in Nat /\ c.ip \in Nat /\ c.op \in Nat
    BY DEF StreamType, PlaceInv
  <2> HIDE DEF CInEnd
  <2> QED BY <2>2, <2>3
<1>4. /\ CInEnd <= stream.size - 8 /\ CLitEnd <= stream.room - 8 /\ c.ip < stream.size
  <2>1. ~(CLitEnd > stream.room - 8) /\ ~(CInEnd > stream.size - 8) /\ c.ip < stream.size
    BY <1>1 DEF CopiesLiterals, NearAnEnd, CopyLength
  <2> HIDE DEF CInEnd, CLitEnd
  <2> QED BY <1>3, <2>1
<1>5. off \in 1..CLitEnd /\ CRef = CLitEnd - off
  <2>1. off \in Nat
    BY <1>3, OffsetType
  <2>2. CRef = CLitEnd - off
    BY DEF CRef
  <2> HIDE DEF off, CLitEnd, CRef
  <2> QED BY <1>1, <1>3, <2>1, <2>2
<1>6. /\ CMatch.len \in Nat /\ CMatch.ip \in Nat /\ CMatch.ip >= CInEnd /\ CMatchEnd = CLitEnd + len
      /\ len \in Nat /\ CMatchEnd \in Nat
  <2>1. Byte(c.ip) % Base \in Nat
    BY <1>3, ByteType, Digits
  <2>2. CInEnd + 2 \in Nat /\ CInEnd + 2 <= stream.size
    <3> HIDE DEF CInEnd
    <3> QED BY <1>3, <1>4
  <2>3. CMatch.len \in Nat /\ CMatch.ip \in Nat /\ CMatch.ip >= CInEnd + 2
    BY <1>3, <2>1, <2>2, RunEnds DEF CMatch, MatchRun
  <2>4. CMatchEnd = CLitEnd + 4 + CMatch.len /\ len = 4 + CMatch.len
    BY DEF CMatchEnd, MinMatch
  <2> DEFINE l == CMatch.len
             p == CMatch.ip
  <2>5. CLitEnd \in Nat /\ CInEnd \in Nat /\ l \in Nat /\ p \in Nat /\ p >= CInEnd + 2
        /\ CMatchEnd = CLitEnd + 4 + l /\ len = 4 + l
    BY <1>3, <2>3, <2>4
  <2>6. p >= CInEnd /\ CMatchEnd = CLitEnd + len /\ len \in Nat /\ CMatchEnd \in Nat
    <3> HIDE DEF CInEnd, CLitEnd, len, CMatchEnd, l, p
    <3> QED BY <2>5
  <2> QED BY <2>3, <2>6
<1>7. MatchPackets \in Nat
  <2>1. MatchPackets = IF CLitEnd + 8 < PacketsEnd THEN (PacketsEnd - (CLitEnd + 8) + 7) \div 8 ELSE 0
    BY DEF MatchPackets, Packets, CopyLength, StepSize
  <2>2. PacketsEnd \in Int
    <3>1. PacketsEnd = Min({CMatchEnd, stream.room - 8})
      BY DEF PacketsEnd, CopyLength
    <3>2. stream.room - 8 \in Int /\ CMatchEnd \in Int
      BY <1>3, <1>6
    <3> HIDE DEF CMatchEnd, PacketsEnd
    <3>3. Min({CMatchEnd, stream.room - 8}) \in {CMatchEnd, stream.room - 8}
      BY <3>2, MinOfTwo
    <3> QED BY <3>1, <3>2, <3>3
  <2> HIDE DEF PacketsEnd, CLitEnd, MatchPackets
  <2> QED BY <1>3, <2>1, <2>2
<1>8. rest \in Nat /\ len <= 8 + 8 * MatchPackets + rest
  <2> DEFINE v == CMatchEnd - (CLitEnd + 8) - 8 * MatchPackets
  <2>1. v \in Int
    <3> HIDE DEF CMatchEnd, CLitEnd, MatchPackets
    <3> QED BY <1>3, <1>6, <1>7
  <2>2. rest \in {0, v} /\ 0 <= rest /\ v <= rest
    <3> HIDE DEF v
    <3> QED BY <2>1, MaxOfTwo DEF v
  <2> HIDE DEF rest
  <2>3. rest \in Int
    <3> HIDE DEF v
    <3> QED BY <2>1, <2>2
  <2> HIDE DEF CMatchEnd, CLitEnd, MatchPackets, len
  <2> QED BY <1>3, <1>6, <1>7, <2>2, <2>3
<1>9. AfterMatch = res
  <2>1. Len(b) = CLitEnd /\ Len(b) - off = CRef
    BY <1>2, <1>5
  <2> HIDE DEF b
  <2> QED BY <2>1 DEF AfterMatch, MatchOut, CopyLength, StepSize
<1>10. /\ res \in [0..top -> 0..Full]
       /\ [i \in 1..(Len(b) + len) |-> res[i - 1]] = PyExpand(b, off, len)
  <2>1. /\ top \in Nat /\ off \in 1..Len(b) /\ Len(b) <= top /\ Len(b) + len <= top + 1
    <3>1. Len(b) + len < stream.room /\ Len(b) <= stream.room - 8 /\ Len(b) \in Nat
      BY <1>1, <1>2, <1>3, <1>4, <1>6
    <3>2. off \in 1..Len(b)
      BY <1>2, <1>5
    <3> DEFINE n == Len(b)
    <3>3. n \in Nat /\ n <= stream.room - 8 /\ n + len < stream.room /\ len \in Nat /\ stream.room \in Nat
      BY <1>3, <1>6, <3>1
    <3>4. top \in Nat /\ n <= top /\ n + len <= top + 1
      <4> HIDE DEF n, len
      <4> QED BY <3>3
    <3> QED BY <3>2, <3>4
  <2>2. /\ AfterLiterals \in [0..top -> 0..Full] /\ b \in Seq(0..Full) /\ Holding(AfterLiterals, b)
        /\ len \in Nat /\ MatchPackets \in Nat /\ rest \in Nat /\ len <= 8 + 8 * MatchPackets + rest
    BY <1>2, <1>6, <1>7, <1>8
  <2>3. IsExpanded(res, top, b, off, len)
    <3> HIDE DEF top, b, off, len, rest, Full
    <3> QED BY <2>1, <2>2, MatchCopied
  <2> HIDE DEF top, b, off, len, res
  <2> QED BY <2>3 DEF IsExpanded
<1> HIDE DEF res
<1>11. c'.ip = CMatch.ip /\ c'.op = CMatchEnd /\ c'.dst = AfterMatch
  BY <1>1 DEF PlaceInv
<1>12. DstInv'
  <2>1. c'.op <= stream.room
    <3> HIDE DEF CMatchEnd
    <3> QED BY <1>1, <1>3, <1>6, <1>11
  <2>2. c'.dst \in [0..(stream.room + 16) -> 0..Full]
    BY <1>9, <1>10, <1>11
  <2>3. stream'.room = stream.room
    OBVIOUS
  <2>4. Full' = Full
    BY DEF Full, Base
  <2> QED BY <2>1, <2>2, <2>3, <2>4 DEF DstInv
<1>13. Here.ip = c.ip /\ Lits(Here) = CLit /\ LitsEnd(Here) = CInEnd /\ Match(Here) = CMatch
  BY DEF Here, Lits, CLit, LitsEnd, CInEnd, Match, CMatch
<1>14. Sequenced(Here)
  BY <1>2, <1>4, <1>5, <1>13 DEF Sequenced, CopyLength
<1>15. Decoded(Here) = Here'
  <2>1. Decoded(Here) = [ip |-> CMatch.ip, out |-> PyExpand(b, off, len)]
    BY <1>13 DEF Decoded
  <2>2. COutput' = [i \in 1..CMatchEnd |-> AfterMatch[i - 1]]
    BY <1>11 DEF COutput
  <2>3. COutput' = PyExpand(b, off, len)
    <3>1. CMatchEnd = Len(b) + len
      BY <1>2, <1>6
    <3> HIDE DEF b, off, len, COutput
    <3> QED BY <1>9, <1>10, <2>2, <3>1
  <2>4. Here' = [ip |-> CMatch.ip, out |-> COutput']
    BY <1>11 DEF Here
  <2> HIDE DEF b, off, len, COutput
  <2> QED BY <2>1, <2>3, <2>4
<1>16. c.ip <= c'.ip
  <2>1. c.ip < CLit.ip
    <3>1a. Byte(c.ip) \div Base \in Nat
      BY <1>3, ByteType, Digits
    <3>1b. c.ip \in Nat /\ stream.size \in Nat /\ c.ip < stream.size
      BY <1>3, <1>4
    <3>1. c.ip + 1 \in Nat /\ c.ip + 1 <= stream.size /\ Byte(c.ip) \div Base \in Nat
      BY <3>1a, <3>1b
    <3>2. c.ip + 1 <= CLit.ip
      BY <1>3, <3>1, RunEnds DEF CLit, LiteralRun
    <3> HIDE DEF CLit
    <3> QED BY <1>3, <3>2
  <2> HIDE DEF CLit, CMatch, CInEnd
  <2> QED BY <1>3, <1>6, <1>11, <2>1
<1> QED BY <1>12, <1>14, <1>15, <1>16

(***************************************************************************)
(* The way of the two decoders through the stream.                         *)
(***************************************************************************)

\* A run that ends before a nearer end is the same with that end.
LEMMA RunsAlike ==
  ASSUME StreamType, NEW digit \in Nat, NEW at \in Nat, NEW end \in Nat, NEW e \in Nat,
         e <= end, Run(digit, at, end).ip < e
  PROVE  Run(digit, at, e) = Run(digit, at, end)
<1>1. CASE digit # RunMask
  BY <1>1 DEF Run
<1>2. CASE digit = RunMask /\ at >= end
  <2>1. Run(digit, at, end).ip = at
    BY <1>2 DEF Run
  <2> QED BY <1>2, <2>1
<1>3. CASE digit = RunMask /\ at < end
  <2> DEFINE T == {i \in at + 1..end : i = end \/ Byte(i - 1) # Full}
             U == {i \in at + 1..e : i = e \/ Byte(i - 1) # Full}
             stop == Min(T)
  <2>1. Run(digit, at, end) = [len |-> digit + (stop - at - 1) * Full + Byte(stop - 1), ip |-> stop]
    BY <1>3 DEF Run
  <2>2. stop \in T /\ \A j \in T : stop <= j
    <3>1. T \subseteq Nat /\ end \in T
      BY <1>3
    <3>2. PICK x \in T : \A y \in T : x <= y
      <4> HIDE DEF T
      <4> QED BY <3>1, NatLeast
    <3> HIDE DEF T
    <3> QED BY <3>2 DEF Min
  <2> HIDE DEF stop
  <2>3. stop < e /\ stop \in Nat
    BY <2>1, <2>2
  <2>4. stop \in U
    BY <2>2, <2>3
  <2>5. \A j \in U : stop <= j
    <3>1. ASSUME NEW j \in U PROVE stop <= j
      <4>1. CASE j = e
        BY <2>3, <4>1
      <4>2. CASE j # e
        <5>1. j \in T
          BY <4>2
        <5> QED BY <2>2, <5>1
      <4> QED BY <4>1, <4>2
    <3> QED BY <3>1
  <2>6. Min(U) = stop
    <3>1. \A x \in U : (\A y \in U : x <= y) => x = stop
      <4>1. \A x \in U : x \in Nat
        OBVIOUS
      <4> HIDE DEF U
      <4> QED BY <2>3, <2>4, <2>5, <4>1
    <3> HIDE DEF U
    <3> QED BY <2>4, <2>5, <3>1 DEF Min
  <2>7. at < e
    BY <2>3, <2>4
  <2>8. Run(digit, at, e) = [len |-> digit + (Min(U) - at - 1) * Full + Byte(Min(U) - 1), ip |-> Min(U)]
    BY <1>3, <2>7 DEF Run
  <2> HIDE DEF U
  <2> QED BY <2>1, <2>6, <2>8
<1> QED BY <1>1, <1>2, <1>3

Start == [ip |-> 0, out |-> <<>>]

\* T holds the places before the sequences that C decodes on its way to y.
Trail(T, y) ==
  /\ T \subseteq Place
  /\ Start \in T /\ y \in T
  /\ \A x \in T : x.ip <= y.ip /\ (x # y => Sequenced(x) /\ Decoded(x) \in T)

LEMMA TrailGrows ==
  ASSUME NEW T, NEW y, Trail(T, y), Sequenced(y), Decoded(y) \in Place, y.ip <= Decoded(y).ip
  PROVE  Trail(T \union {Decoded(y)}, Decoded(y))
<1> DEFINE w == Decoded(y)
           U == T \union {w}
<1>1. w \in Place /\ y \in T /\ T \subseteq Place
  BY DEF Trail
<1> HIDE DEF w
<1>2. U \subseteq Place /\ Start \in U /\ w \in U
  BY <1>1 DEF Trail
<1>3. ASSUME NEW x \in U PROVE x.ip <= w.ip /\ (x # w => Sequenced(x) /\ Decoded(x) \in U)
  <2>1. CASE x = w
    BY <1>1, <2>1 DEF Place
  <2>2. CASE x # w /\ x = y
    BY <2>2 DEF w
  <2>3. CASE x # w /\ x # y
    <3>1. x \in T /\ x.ip <= y.ip /\ Sequenced(x) /\ Decoded(x) \in T
      BY <2>3 DEF Trail
    <3>2. x.ip \in Nat /\ y.ip \in Nat /\ w.ip \in Nat /\ y.ip <= w.ip
      BY <1>1, <3>1 DEF Place, w
    <3> QED BY <3>1, <3>2
  <2> QED BY <2>1, <2>2, <2>3
<1> QED BY <1>2, <1>3 DEF Trail, w

\* The parts of a sequence of which something is right of the end for Python
\* are the same for it: its literals ...
LEMMA LiteralsAlike ==
  ASSUME StreamType, NEW ip \in Nat, ip < PyEnd, LiteralRun(ip, stream.size).ip < PyEnd
  PROVE  LiteralRun(ip, PyEnd) = LiteralRun(ip, stream.size)
<1>1. stream.size \in Nat /\ PyEnd = stream.size - 4
  BY DEF StreamType, PyEnd, SizeField
<1>2. PyEnd \in Nat /\ PyEnd <= stream.size /\ ip + 1 \in Nat
  BY <1>1
<1>3. Byte(ip) \div Base \in Nat
  BY ByteType, Digits
<1> HIDE DEF PyEnd
<1> QED BY <1>1, <1>2, <1>3, RunsAlike DEF LiteralRun

\* ... and its match.
LEMMA MatchesAlike ==
  ASSUME StreamType, NEW ip \in Nat, NEW p \in Nat, ip < PyEnd,
         MatchRun(Byte(ip), p, stream.size).ip < PyEnd
  PROVE  MatchRun(Byte(ip), p, PyEnd) = MatchRun(Byte(ip), p, stream.size)
<1>1. stream.size \in Nat /\ PyEnd = stream.size - 4
  BY DEF StreamType, PyEnd, SizeField
<1>2. PyEnd \in Nat /\ PyEnd <= stream.size /\ p + 2 \in Nat
  BY <1>1
<1>3. Byte(ip) % Base \in Nat
  BY ByteType, Digits
<1> HIDE DEF PyEnd
<1> QED BY <1>1, <1>2, <1>3, RunsAlike DEF MatchRun

\* How far C's literals and matches lead from a place.
LEMMA PartsOf ==
  ASSUME StreamType, NEW x \in Place, x.ip < stream.size
  PROVE  /\ Lits(x).ip \in Nat /\ Lits(x).len \in Nat /\ x.ip < Lits(x).ip
         /\ LitsEnd(x) \in Nat /\ Lits(x).ip <= LitsEnd(x)
         /\ LitsEnd(x) + 2 <= stream.size =>
              Match(x).ip \in Nat /\ Match(x).len \in Nat /\ Match(x).ip <= stream.size
<1>1. x.ip \in Nat /\ x.ip + 1 \in Nat /\ stream.size \in Nat /\ x.ip + 1 <= stream.size
  BY DEF Place, StreamType
<1>2. Byte(x.ip) \div Base \in Nat /\ Byte(x.ip) % Base \in Nat
  BY <1>1, ByteType, Digits
<1>3. Lits(x).ip \in Nat /\ Lits(x).len \in Nat /\ x.ip + 1 <= Lits(x).ip
  BY <1>1, <1>2, RunEnds DEF Lits, LiteralRun
<1>4. LitsEnd(x) \in Nat /\ Lits(x).ip <= LitsEnd(x)
  BY <1>3 DEF LitsEnd
<1>5. ASSUME LitsEnd(x) + 2 <= stream.size
      PROVE  Match(x).ip \in Nat /\ Match(x).len \in Nat /\ Match(x).ip <= stream.size
  <2>1. LitsEnd(x) + 2 \in Nat
    BY <1>4
  <2> QED BY <1>1, <1>2, <1>5, <2>1, RunEnds DEF Match, MatchRun
<1> HIDE DEF Lits, LitsEnd, Match
<1>6. x.ip < Lits(x).ip
  <2> DEFINE l == Lits(x).ip
  <2>1. l \in Nat /\ x.ip + 1 <= l
    BY <1>3
  <2> HIDE DEF l
  <2>2. x.ip < l
    BY <1>1, <2>1
  <2> QED BY <2>2 DEF l
<1> QED BY <1>3, <1>4, <1>5, <1>6

PyPlace == [ip |-> py.ip, out |-> py.dst]

PyType ==
  /\ py = [at |-> py.at, ip |-> py.ip, dst |-> py.dst]
  /\ py.ip \in Nat

\* Python decodes the sequence at a place on the way as C did.
LEMMA PyOnTheWay ==
  ASSUME StreamType, PyType, stream.size <= Len(stream.body), py.at = "loop",
         NEW T, NEW y, Trail(T, y), y.ip <= stream.size - 6, PyPlace \in T, PyPlace # y,
         PyReturn \/ PyRaises \/ PySequence
  PROVE  PyPlace' \in T /\ py'.at = "loop"
<1> DEFINE x == PyPlace
           p == LitsEnd(x)
<1>1. /\ x \in Place /\ x.ip = py.ip /\ x.out = py.dst /\ y \in Place
      /\ Sequenced(x) /\ Decoded(x) \in T
      /\ Decoded(x) \in Place /\ Decoded(x).ip <= y.ip /\ x.ip <= y.ip
  <2>1. x \in T /\ x # y /\ x.ip = py.ip /\ x.out = py.dst
    BY DEF PyPlace
  <2> HIDE DEF x
  <2> QED BY <2>1 DEF Trail
<1> HIDE DEF x
<1>2. /\ stream.size \in Nat /\ PyEnd = stream.size - 4 /\ Len(stream.body) \in Nat
      /\ stream.body \in Seq(0..Full)
  BY DEF StreamType, PyEnd, SizeField
<1>3. /\ x.ip \in Nat /\ x.ip < stream.size /\ p <= stream.size - 8
      /\ Decoded(x).ip = Match(x).ip /\ Match(x).ip <= stream.size - 6
      /\ x.ip <= stream.size - 6
  <2>1. x.ip \in Nat /\ y.ip \in Nat /\ Decoded(x).ip \in Nat
    BY <1>1 DEF Place
  <2>2. Decoded(x).ip = Match(x).ip
    BY DEF Decoded
  <2>3. x.ip < stream.size /\ p <= stream.size - 8
    BY <1>1 DEF Sequenced, CopyLength
  <2>4. Match(x).ip <= stream.size - 6 /\ x.ip <= stream.size - 6
    <3>1. x.ip <= y.ip /\ Decoded(x).ip <= y.ip /\ y.ip <= stream.size - 6
      BY <1>1
    <3>2. Decoded(x).ip <= stream.size - 6 /\ x.ip <= stream.size - 6
      BY <1>2, <2>1, <3>1
    <3> QED BY <2>2, <3>2
  <2> QED BY <2>1, <2>2, <2>3, <2>4
<1>4. /\ Lits(x).ip \in Nat /\ Lits(x).len \in Nat
      /\ p \in Nat /\ Lits(x).ip <= p /\ Match(x).ip \in Nat
  <2>1. Lits(x).ip \in Nat /\ Lits(x).len \in Nat /\ LitsEnd(x) \in Nat /\ Lits(x).ip <= LitsEnd(x)
        /\ (LitsEnd(x) + 2 <= stream.size => Match(x).ip \in Nat)
    BY <1>1, <1>3, PartsOf
  <2>2. p + 2 <= stream.size
    <3>1. p \in Nat
      BY <2>1
    <3> HIDE DEF p
    <3> QED BY <1>2, <1>3, <3>1
  <2> QED BY <2>1, <2>2
<1>5. PyLit = Lits(x) /\ PyInEnd = p /\ py.ip < PyEnd
  <2>1. py.ip \in Nat /\ py.ip < PyEnd /\ LiteralRun(py.ip, stream.size) = Lits(x)
    <3>1. LiteralRun(py.ip, stream.size) = Lits(x)
      BY <1>1 DEF Lits
    <3> QED BY <1>1, <1>2, <1>3, <3>1
  <2>2. Lits(x).ip < PyEnd
    <3> DEFINE l == Lits(x).ip
    <3>1. l \in Nat /\ l <= p /\ p \in Nat /\ p <= stream.size - 8
      BY <1>3, <1>4
    <3> HIDE DEF l, p
    <3>2. l < PyEnd
      BY <1>2, <3>1
    <3> QED BY <3>2 DEF l
  <2>3. PyLit = Lits(x)
    BY <2>1, <2>2, LiteralsAlike DEF PyLit
  <2> QED BY <2>1, <2>3 DEF PyInEnd, LitsEnd
<1>6. PyMatch = Match(x)
  <2>1. MatchRun(Byte(py.ip), p, stream.size) = Match(x)
    BY <1>1 DEF Match
  <2>2. Match(x).ip < PyEnd
    <3> DEFINE l == Match(x).ip
    <3>1. l \in Nat /\ l <= stream.size - 6
      BY <1>3, <1>4
    <3> HIDE DEF l
    <3>2. l < PyEnd
      BY <1>2, <3>1
    <3> QED BY <3>2 DEF l
  <2>3. py.ip \in Nat /\ p \in Nat
    BY <1>1, <1>3, <1>4
  <2> HIDE DEF p
  <2>4. MatchRun(Byte(py.ip), p, PyEnd) = Match(x)
    BY <1>5, <2>1, <2>2, <2>3, MatchesAlike
  <2> QED BY <1>5, <2>4 DEF PyMatch
<1>7. ~PyReturn /\ ~PyRaises
  <2>1. ~(py.ip >= PyEnd)
    BY <1>1, <1>2, <1>3, <1>5
  <2>2. ~(PyMatch.ip > Len(stream.body))
    <3> DEFINE l == Match(x).ip
    <3>1. l \in Nat /\ l <= stream.size - 6
      BY <1>3, <1>4
    <3> HIDE DEF l
    <3>2. ~(l > Len(stream.body))
      BY <1>2, <3>1
    <3> QED BY <1>6, <3>2 DEF l
  <2> QED BY <2>1, <2>2 DEF PyReturn, PyRaises
<1>8. py' = [py EXCEPT !.ip = PyMatch.ip,
                       !.dst = PyExpand(@ \o SubSeq(stream.body, PyLit.ip + 1, PyInEnd),
                                        Offset(PyInEnd), MinMatch + PyMatch.len)]
  BY <1>7 DEF PySequence
<1>9. /\ py'.at = "loop" /\ py'.ip = Match(x).ip
      /\ py'.dst = PyExpand(py.dst \o SubSeq(stream.body, Lits(x).ip + 1, p),
                            Offset(p), MinMatch + Match(x).len)
  <2> HIDE DEF p
  <2> QED BY <1>5, <1>6, <1>8 DEF PyType
<1>10. PyPlace' = Decoded(x)
  BY <1>1, <1>9 DEF PyPlace, Decoded, WithLits
<1> QED BY <1>1, <1>9, <1>10

\* The stream ends as the format has it: Python takes the last literals, and the
\* zeros behind them for a match of nothing.
LEMMA PyAtTheEnd ==
  ASSUME StreamType, PyType, stream.size <= Len(stream.body), py.at = "loop",
         PyPlace \in Place, py.ip = c.ip, LitsEnd(PyPlace) = stream.size, EndsAsLz4,
         WithLits(PyPlace) \in Seq(0..Full),
         PyReturn \/ PyRaises \/ PySequence
  PROVE  py'.at = "loop" /\ py'.ip >= PyEnd /\ py'.dst = WithLits(PyPlace)
<1> DEFINE x == PyPlace
           l == Lits(x).ip
           n == Lits(x).len
<1>1. x.ip = py.ip /\ x.out = py.dst /\ x.ip = c.ip
  BY DEF PyPlace
<1> HIDE DEF x
<1>2. /\ stream.size \in Nat /\ PyEnd = stream.size - 4 /\ Len(stream.body) \in Nat
  BY DEF StreamType, PyEnd, SizeField
<1>3. Lits(x) = CLit /\ c.ip < stream.size /\ n >= 5
  BY <1>1 DEF Lits, CLit, EndsAsLz4
<1>4. /\ l \in Nat /\ n \in Nat /\ py.ip < l /\ l + n = stream.size /\ py.ip \in Nat
  <2>1. x \in Place /\ x.ip < stream.size /\ LitsEnd(x) = stream.size
    BY <1>1, <1>3 DEF x
  <2>2. Lits(x).ip \in Nat /\ Lits(x).len \in Nat /\ x.ip < Lits(x).ip
    BY <2>1, PartsOf
  <2> QED BY <1>1, <2>1, <2>2 DEF LitsEnd, PyType
<1>5. l < PyEnd /\ py.ip < PyEnd
  <2> HIDE DEF l, n
  <2> QED BY <1>2, <1>3, <1>4
<1>6. PyLit = Lits(x) /\ PyInEnd = stream.size
  <2>1. LiteralRun(py.ip, stream.size) = Lits(x)
    BY <1>1 DEF Lits
  <2>2. PyLit = Lits(x)
    BY <1>4, <1>5, <2>1, LiteralsAlike DEF PyLit
  <2>3. PyInEnd = l + n
    BY <2>2 DEF PyInEnd
  <2> QED BY <1>4, <2>2, <2>3
<1>7. /\ stream.size + 1 < Len(stream.body)
      /\ Byte(stream.size) = 0 /\ Byte(stream.size + 1) = 0
  <2>1. \A i \in {0, 1} : stream.size + i < Len(stream.body) /\ Byte(stream.size + i) = 0
    BY DEF EndsAsLz4
  <2>2. stream.size + 0 = stream.size
    BY <1>2
  <2> QED BY <2>1, <2>2
<1>8. Offset(stream.size) = 0
  <2>1. Full + 1 \in Nat
    BY BaseType
  <2> HIDE DEF Full
  <2> QED BY <1>7, <2>1 DEF Offset
<1>9. PyMatch.ip = stream.size + 2 /\ PyMatch.len \in Nat
  <2>1. stream.size + 2 >= PyEnd
    BY <1>2
  <2>2. PyMatch = [len |-> Byte(py.ip) % Base, ip |-> stream.size + 2]
    BY <1>6, <2>1 DEF PyMatch, MatchRun, Run
  <2>3. Byte(py.ip) % Base \in Nat
    BY <1>4, ByteType, Digits
  <2> QED BY <2>2, <2>3
<1>10. ~PyReturn /\ ~PyRaises
  <2>1. ~(py.ip >= PyEnd)
    BY <1>2, <1>4, <1>5
  <2>2. ~(PyMatch.ip > Len(stream.body))
    BY <1>2, <1>7, <1>9
  <2> QED BY <2>1, <2>2 DEF PyReturn, PyRaises
<1>11. py' = [py EXCEPT !.ip = PyMatch.ip,
                        !.dst = PyExpand(@ \o SubSeq(stream.body, PyLit.ip + 1, PyInEnd),
                                         Offset(PyInEnd), MinMatch + PyMatch.len)]
  BY <1>10 DEF PySequence
<1>12. WithLits(x) = py.dst \o SubSeq(stream.body, l + 1, stream.size)
  <2>1. LitsEnd(x) = stream.size
    BY DEF x
  <2> QED BY <1>1, <2>1 DEF WithLits
<1>13. py'.dst = PyExpand(WithLits(x), 0, MinMatch + PyMatch.len)
       /\ py'.at = "loop" /\ py'.ip = stream.size + 2
  BY <1>6, <1>8, <1>9, <1>11, <1>12 DEF PyType
<1>14. py'.dst = WithLits(x)
  <2>1. MinMatch + PyMatch.len \in Nat /\ WithLits(x) \in Seq(0..Full)
    BY <1>9 DEF MinMatch, x
  <2> HIDE DEF Full
  <2>2. PyExpand(WithLits(x), 0, MinMatch + PyMatch.len) = WithLits(x)
    BY <2>1, ExpandNothing
  <2> QED BY <1>13, <2>2
<1> QED BY <1>2, <1>13, <1>14 DEF x

(***************************************************************************)
(* The invariant of the two decoders.                                      *)
(***************************************************************************)

\* What the C decoder has left when it took its last literals.
Ended(T, y) ==
  /\ Trail(T, y)
  /\ y.ip = c.ip /\ LitsEnd(y) = stream.size
  /\ WithLits(y) = COutput /\ COutput \in Seq(0..Full)

\* Python is on the way of C, or it is through with all of its output.
PyOn(T) ==
  \/ py.at = "loop" /\ PyPlace \in T
  \/ py.at \in {"loop", "ok"} /\ py.ip >= PyEnd /\ py.dst = COutput

CInv ==
  /\ c.at \in {"call", "loop", "ok", "error"}
  /\ c.at = "call" => c.ip = 0 /\ c.op = 0 /\ DstInv
  /\ c.at = "ok" => stream.size <= Len(stream.body)

LoopInv == c.at = "loop" /\ ~reach.zero => DstInv /\ \E T : Trail(T, Here)

EndInv ==
  c.at = "ok" /\ c.ip < stream.size /\ ~reach.zero =>
    \E T, y : Ended(T, y) /\ (EndsAsLz4 => PyOn(T))

PyInv ==
  /\ PyType
  /\ py.at \in {"loop", "ok", "None"}
  /\ py.ip <= Len(stream.body)
  /\ c.at \in {"call", "loop"} => py.at = "loop" /\ PyPlace = Start
  /\ py.at = "ok" => py.ip >= PyEnd

Agreement == Inv /\ CInv /\ LoopInv /\ EndInv /\ PyInv

LEMMA StartIs ==
  ASSUME StreamType, PlaceInv, DstInv, c.ip = 0, c.op = 0
  PROVE  Here = Start /\ Trail({Start}, Start)
<1>1. COutput = <<>>
  <2>1. COutput \in Seq(0..Full) /\ Len(COutput) = 0
    BY OutputIs DEF Here, Place
  <2> HIDE DEF COutput, Full
  <2> QED BY <2>1
<1>2. Here = Start
  BY <1>1 DEF Here, Start
<1>3. Start \in Place
  BY OutputIs, <1>2
<1>4. Start.ip <= Start.ip
  BY DEF Start
<1> QED BY <1>2, <1>3, <1>4 DEF Trail

\* The way depends on the stream alone.
LEMMA SameWay ==
  ASSUME stream' = stream, NEW T, NEW y
  PROVE  /\ Trail(T, y) => Trail(T, y)'
         /\ LitsEnd(y)' = LitsEnd(y) /\ WithLits(y)' = WithLits(y) /\ Lits(y)' = Lits(y)
<1>1. \A i : Byte(i)' = Byte(i)
  BY DEF Byte, Full, Base
<1>2. \A digit, at, end : Run(digit, at, end)' = Run(digit, at, end)
  <2>1. ASSUME NEW digit, NEW at, NEW end PROVE Run(digit, at, end)' = Run(digit, at, end)
    <3>1. stream'.body = stream.body
      OBVIOUS
    <3> QED BY <3>1 DEF Run, Byte, Full, Base
  <2> QED BY <2>1
<1>3. \A x : Lits(x)' = Lits(x)
  BY <1>1, <1>2 DEF Lits, LiteralRun, Base
<1>4. \A x : LitsEnd(x)' = LitsEnd(x)
  BY <1>3 DEF LitsEnd
<1>5. \A x : WithLits(x)' = WithLits(x)
  BY <1>3, <1>4 DEF WithLits
<1>6. \A x : Match(x)' = Match(x)
  BY <1>1, <1>2, <1>4 DEF Match, MatchRun, Base
<1>7. \A i : Offset(i)' = Offset(i)
  BY <1>1 DEF Offset, Full, Base
<1>8. \A x : Decoded(x)' = Decoded(x)
  <2>1. ASSUME NEW x PROVE Decoded(x)' = Decoded(x)
    <3>1. Offset(LitsEnd(x))' = Offset(LitsEnd(x))
      BY <1>1, <1>4 DEF Offset, Full, Base
    <3> QED BY <1>5, <1>6, <3>1 DEF Decoded
  <2> QED BY <2>1
<1>9. \A x : Sequenced(x) => Sequenced(x)'
  <2>1. ASSUME NEW x, Sequenced(x) PROVE Sequenced(x)'
    <3>1. Offset(LitsEnd(x))' = Offset(LitsEnd(x))
      BY <1>1, <1>4 DEF Offset, Full, Base
    <3> QED BY <1>4, <1>5, <2>1, <3>1 DEF Sequenced
  <2> QED BY <2>1
<1>10. Place' = Place
  BY DEF Place, Full, Base
<1>11. Trail(T, y) => Trail(T, y)'
  BY <1>8, <1>9, <1>10 DEF Trail, Start
<1> QED BY <1>3, <1>4, <1>5, <1>11

LEMMA DecodedPlace ==
  ASSUME StreamType, NEW x \in Place, WithLits(x) \in Seq(0..Full), Sequenced(x)
  PROVE  Decoded(x) \in Place
<1>1. stream.size \in Nat /\ x.ip < stream.size /\ LitsEnd(x) <= stream.size - 8
      /\ Offset(LitsEnd(x)) \in 1..Len(WithLits(x))
  BY DEF StreamType, Sequenced, CopyLength
<1>2. LitsEnd(x) \in Nat
  BY <1>1, PartsOf
<1>3. LitsEnd(x) + 2 <= stream.size
  <2> HIDE DEF LitsEnd
  <2> QED BY <1>1, <1>2
<1>4. Match(x).ip \in Nat /\ Match(x).len \in Nat
  BY <1>1, <1>3, PartsOf
<1> DEFINE len == MinMatch + Match(x).len
           off == Offset(LitsEnd(x))
           b == WithLits(x)
<1>5. len \in Nat
  BY <1>4 DEF MinMatch
<1>6. PyExpand(b, off, len) \in Seq(0..Full)
  <2>1. off \in 1..Len(b)
    BY <1>1
  <2> HIDE DEF len, off, b, Full
  <2>2. b \in Seq(0..Full)
    BY DEF b
  <2> QED BY <1>5, <2>1, <2>2, ExpandIs DEF Repetition
<1> QED BY <1>4, <1>6 DEF Decoded, Place

(***************************************************************************)
(* Its steps.                                                              *)
(***************************************************************************)

LEMMA CallAgrees ==
  ASSUME Agreement, CCall, stream' = stream, py' = py
  PROVE  Agreement'
<1>1. /\ c.at = "call" /\ reach' = reach /\ c.ip = 0 /\ c.op = 0 /\ DstInv /\ StreamType /\ PlaceInv
  BY DEF CCall, Agreement, CInv, Inv
<1>2. /\ c'.ip = c.ip /\ c'.op = c.op /\ c'.dst = c.dst
      /\ c'.at = IF stream.size > Len(stream.body) THEN "error" ELSE "loop"
  BY <1>1 DEF CCall, CFails, PlaceInv
<1>3. Inv'
  BY CStepInv DEF Agreement, CStep
<1>4. Here = Start /\ Trail({Start}, Start)
  BY <1>1, StartIs
<1>5. Here' = Here /\ DstInv'
  BY <1>1, <1>2 DEF Here, COutput, DstInv, Full, Base
<1>6. Start' = Start
  BY DEF Start
<1>7. Trail({Start}, Start)'
  <2>1. Trail({Start}, Start) => Trail({Start}, Start)'
    <3>1. \A T, y : Trail(T, y) => Trail(T, y)'
      BY SameWay
    <3> QED BY <3>1 DEF Start
  <2> QED BY <1>4, <2>1
<1>8. LoopInv'
  BY <1>4, <1>5, <1>6, <1>7 DEF LoopInv
<1>9. CInv' /\ EndInv'
  BY <1>2 DEF CInv, EndInv
<1>10. PyInv'
  BY <1>1, <1>2 DEF Agreement, PyInv, PyType, PyPlace, Start, PyEnd
<1> QED BY <1>3, <1>8, <1>9, <1>10 DEF Agreement

\* C ends with an error, or where no last literals are left.
LEMMA EndAgrees ==
  ASSUME Agreement, CStep, c.at = "loop", stream' = stream, py' = py,
         \/ c'.at = "error"
         \/ CReturn
  PROVE  Agreement'
<1>1. Inv' /\ PlaceInv /\ stream.size <= Len(stream.body)
  BY CStepInv DEF Agreement, Inv, PlaceInv
<1>2. c'.at \in {"ok", "error"} /\ (c'.at = "ok" => ~(c'.ip < stream.size))
  <2>1. CASE c'.at = "error"
    BY <2>1
  <2>2. CASE CReturn
    <3>1. c'.at = "ok" /\ c'.ip = c.ip /\ c.ip >= stream.size /\ c.ip \in Nat /\ stream.size \in Nat
      BY <1>1, <2>2 DEF CReturn, PlaceInv, Agreement, Inv, StreamType
    <3> QED BY <3>1
  <2> QED BY <2>1, <2>2
<1>3. CInv' /\ LoopInv' /\ EndInv'
  BY <1>1, <1>2 DEF CInv, LoopInv, EndInv
<1>4. PyInv'
  BY <1>2 DEF Agreement, PyInv, PyType, PyPlace, Start, PyEnd
<1> QED BY <1>1, <1>3, <1>4 DEF Agreement

LEMMA SequenceAgrees ==
  ASSUME Agreement, CSequence, stream' = stream, py' = py
  PROVE  Agreement'
<1>1. /\ c.at = "loop" /\ StreamType /\ PlaceInv /\ stream.size <= Len(stream.body)
      /\ Inv' /\ CopiesLiterals /\ Touches(MatchReach)
      /\ c' = [c EXCEPT !.ip = CMatch.ip, !.op = CMatchEnd, !.dst = AfterMatch]
  BY CStepInv DEF Agreement, Inv, PlaceInv, CSequence, CopiesLiterals, CStep
<1>2. c'.at = "loop"
  BY <1>1 DEF PlaceInv
<1>3. reach'.zero = (reach.zero \/ CRef = CLitEnd)
  BY <1>1 DEF Touches
<1>4. ASSUME ~reach'.zero PROVE DstInv' /\ \E T : Trail(T, Here)'
  <2>1. ~reach.zero /\ CRef # CLitEnd
    BY <1>3, <1>4
  <2>2. PICK T : Trail(T, Here)
    BY <1>1, <2>1 DEF Agreement, LoopInv
  <2>3. DstInv
    BY <1>1, <2>1 DEF Agreement, LoopInv
  <2>4. DstInv' /\ Sequenced(Here) /\ Decoded(Here) = Here' /\ c.ip <= c'.ip
    BY <1>1, <2>1, <2>3, SequenceDecoded
  <2>5. WithLits(Here) \in Seq(0..Full) /\ Here \in Place
    BY <1>1, <2>3, LiteralsCopied, OutputIs
  <2>6. Decoded(Here) \in Place
    BY <1>1, <2>4, <2>5, DecodedPlace
  <2>7. Here.ip <= Decoded(Here).ip
    <3>1. Here.ip = c.ip /\ (Here').ip = c'.ip
      BY DEF Here
    <3> QED BY <2>4, <3>1
  <2> DEFINE y == Decoded(Here)
             U == T \union {y}
  <2>8. Trail(U, y)
    BY <2>2, <2>4, <2>6, <2>7, TrailGrows
  <2>9. \E V : Trail(V, Here)'
    <3>1. ASSUME NEW V, NEW w, Trail(V, w), w = Here' PROVE Trail(V, Here)'
      <4>1. Trail(V, w)'
        BY <3>1, SameWay
      <4> QED BY <3>1, <4>1
    <3> HIDE DEF U, y
    <3>2. y = Here'
      BY <2>4 DEF y
    <3> QED BY <2>8, <3>1, <3>2
  <2> QED BY <2>4, <2>9
<1>5. LoopInv'
  BY <1>4 DEF LoopInv
<1>6. CInv' /\ EndInv'
  BY <1>2 DEF CInv, EndInv
<1>7. PyInv'
  BY <1>1, <1>2 DEF Agreement, PyInv, PyType, PyPlace, Start, PyEnd
<1> QED BY <1>1, <1>5, <1>6, <1>7 DEF Agreement

\* The last literals of C are those of the place it is at.
LEMMA LastLiteralsAre ==
  ASSUME StreamType, PlaceInv, DstInv, CLastLiterals, stream.size <= Len(stream.body)
  PROVE  WithLits(Here) = COutput' /\ WithLits(Here) \in Seq(0..Full) /\ LitsEnd(Here) = stream.size
<1> DEFINE o == c.op
           a == CLit.ip
           n == CLit.len
           e == CLitEnd
           L == Len(stream.body)
           t == SubSeq(stream.body, a + 1, a + n)
<1>1. /\ o \in Nat /\ a \in Nat /\ n \in Nat /\ e = o + n /\ CInEnd = a + n
      /\ stream.room \in Nat /\ stream.size \in Nat /\ L \in Nat /\ stream.body \in Seq(0..Full)
      /\ e <= stream.room /\ a + n = stream.size
  <2>1. c.ip < stream.size /\ CLitEnd <= stream.room /\ CInEnd = stream.size
    BY DEF CLastLiterals
  <2> QED BY <2>1, LiteralsAt DEF StreamType, PlaceInv
<1>2. /\ c'.op = e
      /\ c'.dst = [i \in DOMAIN c.dst |->
                     IF i \in o..(e - 1) THEN Byte(a + i - o) ELSE c.dst[i]]
  BY DEF CLastLiterals
<1>3. /\ \A i \in 0..(stream.room + 16) : i < o => c'.dst[i] = c.dst[i]
      /\ \A i \in 0..(stream.room + 16) : o <= i /\ i < e => c'.dst[i] = Byte(a + i - o)
  <2>1. \A i \in 0..(stream.room + 16) :
          c'.dst[i] = IF i \in o..(e - 1) THEN Byte(a + i - o) ELSE c.dst[i]
    <3>1. DOMAIN c.dst = 0..(stream.room + 16)
      BY DEF DstInv
    <3> QED BY <1>2, <3>1
  <2>2. \A i \in 0..(stream.room + 16) : i < o => i \notin o..(e - 1)
    BY <1>1
  <2>3. \A i \in 0..(stream.room + 16) : o <= i /\ i < e => i \in o..(e - 1)
    <3> HIDE DEF o, e
    <3> QED BY <1>1
  <2> QED BY <2>1, <2>2, <2>3
<1>4. Lits(Here) = CLit /\ LitsEnd(Here) = stream.size /\ WithLits(Here) = COutput \o t
  <2>1. Here.ip = c.ip /\ Here.out = COutput
    BY DEF Here
  <2>2. Lits(Here) = CLit
    BY <2>1 DEF Lits, CLit
  <2> QED BY <1>1, <2>1, <2>2 DEF LitsEnd, WithLits
<1>5. t \in Seq(0..Full) /\ Len(t) = n /\ \A i \in 1..n : t[i] = stream.body[a + i]
  <2>1. stream.body \in Seq(0..Full) /\ a \in Nat /\ n \in Nat /\ a + n <= Len(stream.body)
    BY <1>1
  <2> HIDE DEF Full, a, n
  <2> QED BY <2>1, PieceIs
<1>6. COutput \in Seq(0..Full) /\ Len(COutput) = o /\ \A i \in 1..o : COutput[i] = c.dst[i - 1]
  BY OutputIs DEF Place, Here
<1>7. WithLits(Here) \in Seq(0..Full) /\ Len(WithLits(Here)) = e
  <2>1. COutput \o t \in Seq(0..Full) /\ Len(COutput \o t) = Len(COutput) + Len(t)
    <3> HIDE DEF Full, t, COutput
    <3> QED BY <1>5, <1>6, ConcatIs
  <2> HIDE DEF Full, t, o, e, n, COutput
  <2> QED BY <1>1, <1>4, <1>5, <1>6, <2>1
<1>8. ASSUME NEW i \in 1..e PROVE WithLits(Here)[i] = c'.dst[i - 1]
  <2>1. i - 1 \in 0..(stream.room + 16)
    <3> HIDE DEF e
    <3> QED BY <1>1, <1>8
  <2>2. CASE i <= o
    <3>1. (COutput \o t)[i] = COutput[i] /\ i \in 1..o /\ i - 1 < o
      <4> HIDE DEF Full, t, o, e, n, COutput
      <4>1. i \in 1..Len(COutput)
        BY <1>1, <1>6, <2>2
      <4> QED BY <1>1, <1>5, <1>6, <2>2, <4>1, ConcatIs
    <3>2. c'.dst[i - 1] = c.dst[i - 1]
      BY <1>3, <2>1, <3>1
    <3> QED BY <1>4, <1>6, <3>1, <3>2
  <2>3. CASE i > o
    <3>1. (COutput \o t)[i] = t[i - o] /\ i - o \in 1..n
      <4> HIDE DEF Full, t, o, e, n, COutput
      <4>1. i - o \in 1..n /\ o + (i - o) = i
        BY <1>1, <2>3
      <4>2. (COutput \o t)[Len(COutput) + (i - o)] = t[i - o]
        BY <1>5, <1>6, <4>1, ConcatIs
      <4> QED BY <1>6, <4>1, <4>2
    <3>2. c'.dst[i - 1] = Byte(a + (i - 1) - o)
      <4>1. o <= i - 1 /\ i - 1 < e
        <5> HIDE DEF o, e
        <5> QED BY <1>1, <2>3
      <4> QED BY <1>3, <2>1, <4>1
    <3>3. a + (i - 1) - o \in Nat /\ a + (i - 1) - o < L /\ (a + (i - 1) - o) + 1 = a + (i - o)
      <4> HIDE DEF o, e, a, n
      <4> QED BY <1>1, <3>1
    <3>4. Byte(a + (i - 1) - o) = stream.body[a + (i - o)]
      BY <3>3, ByteIs
    <3>5. t[i - o] = stream.body[a + (i - o)]
      BY <1>5, <3>1
    <3> QED BY <1>4, <3>1, <3>2, <3>4, <3>5
  <2> HIDE DEF o
  <2>4. i <= o \/ i > o
    BY <1>1
  <2> QED BY <2>2, <2>3, <2>4
<1>9. WithLits(Here) = COutput'
  <2>1. COutput' = [i \in 1..e |-> c'.dst[i - 1]]
    BY <1>2 DEF COutput
  <2>2. WithLits(Here) = [i \in 1..e |-> WithLits(Here)[i]]
    <3> HIDE DEF e, Full
    <3> QED BY <1>7
  <2> HIDE DEF e, COutput
  <2> QED BY <1>8, <2>1, <2>2
<1> QED BY <1>4, <1>7, <1>9

LEMMA LastAgrees ==
  ASSUME Agreement, CLastLiterals, stream' = stream, py' = py
  PROVE  Agreement'
<1>1. /\ c.at = "loop" /\ StreamType /\ PlaceInv /\ stream.size <= Len(stream.body) /\ Inv'
  BY CStepInv DEF Agreement, Inv, PlaceInv, CLastLiterals, CStep
<1>2. c'.at = "ok" /\ c'.ip = c.ip /\ reach'.zero = reach.zero
  <2>1. reach = [in |-> reach.in, out |-> reach.out, zero |-> reach.zero]
    BY DEF Agreement, Inv, ReachInv
  <2> QED BY <2>1 DEF CLastLiterals
<1>3. py.at = "loop" /\ PyPlace = Start
  BY <1>1 DEF Agreement, PyInv
<1>4. ASSUME ~reach.zero PROVE \E T, y : Ended(T, y)' /\ PyOn(T)'
  <2>1. PICK T : DstInv /\ Trail(T, Here)
    BY <1>1, <1>4 DEF Agreement, LoopInv
  <2>2. WithLits(Here) = COutput' /\ WithLits(Here) \in Seq(0..Full) /\ LitsEnd(Here) = stream.size
    BY <1>1, <2>1, LastLiteralsAre
  <2>3. Here.ip = c.ip
    BY DEF Here
  <2>4. PICK y : y = Here
    OBVIOUS
  <2>5. Trail(T, y)' /\ LitsEnd(y)' = LitsEnd(y) /\ WithLits(y)' = WithLits(y)
    BY <2>1, <2>4, SameWay
  <2>6. Ended(T, y)'
    <3>1. (0..Full)' = 0..Full
      BY DEF Full, Base
    <3> HIDE DEF Full
    <3> QED BY <1>2, <2>2, <2>3, <2>4, <2>5, <3>1 DEF Ended
  <2>7. PyOn(T)'
    <3>1. Start \in T /\ PyPlace' = PyPlace
      BY <2>1 DEF Trail, PyPlace
    <3> QED BY <1>3, <3>1 DEF PyOn
  <2> QED BY <2>6, <2>7
<1>5. EndInv'
  BY <1>2, <1>4 DEF EndInv
<1>6. CInv' /\ LoopInv'
  BY <1>1, <1>2 DEF CInv, LoopInv
<1>7. PyInv'
  BY <1>1, <1>2 DEF Agreement, PyInv, PyType, PyPlace, Start, PyEnd
<1> QED BY <1>1, <1>5, <1>6, <1>7 DEF Agreement

LEMMA CAgrees ==
  ASSUME Agreement, CStep, UNCHANGED <<stream, py>>
  PROVE  Agreement'
<1>1. stream' = stream /\ py' = py /\ PlaceInv
  BY DEF Agreement, Inv
<1>2. CASE CCall
  BY <1>1, <1>2, CallAgrees
<1>3. CASE CReturn
  BY <1>1, <1>3, EndAgrees DEF CReturn
<1>4. CASE CLiteralsFail \/ COffsetFails \/ CMatchFails
  <2>1. c.at = "loop" /\ c'.at = "error"
    BY <1>1, <1>4 DEF CLiteralsFail, COffsetFails, CMatchFails, CopiesLiterals, CFails, PlaceInv
  <2> QED BY <1>1, <2>1, EndAgrees
<1>5. CASE CLastLiterals
  BY <1>1, <1>5, LastAgrees
<1>6. CASE CSequence
  BY <1>1, <1>6, SequenceAgrees
<1> QED BY <1>2, <1>3, <1>4, <1>5, <1>6 DEF CStep

LEMMA PyMatchType ==
  ASSUME StreamType, PyType, py.ip < PyEnd
  PROVE  PyMatch.ip \in Nat
<1>1. py.ip \in Nat /\ py.ip + 1 \in Nat /\ PyEnd \in Nat /\ py.ip + 1 <= PyEnd
  <2>1. py.ip \in Nat /\ stream.size \in Nat /\ PyEnd = stream.size - 4
    BY DEF StreamType, PyType, PyEnd, SizeField
  <2> HIDE DEF PyEnd
  <2> QED BY <2>1
<1>2. Byte(py.ip) \div Base \in Nat /\ Byte(py.ip) % Base \in Nat
  BY <1>1, ByteType, Digits
<1>3. PyLit.ip \in Nat /\ PyLit.len \in Nat
  <2> HIDE DEF PyEnd
  <2> QED BY <1>1, <1>2, RunEnds DEF PyLit, LiteralRun
<1>4. PyInEnd + 2 \in Nat
  <2>1. PyInEnd = PyLit.ip + PyLit.len
    BY DEF PyInEnd
  <2> DEFINE a == PyLit.ip
             n == PyLit.len
  <2>2. a \in Nat /\ n \in Nat /\ PyInEnd = a + n
    BY <1>3, <2>1
  <2> HIDE DEF a, n, PyInEnd
  <2> QED BY <2>2
<1>5. PyMatch = Run(Byte(py.ip) % Base, PyInEnd + 2, PyEnd)
  BY DEF PyMatch, MatchRun
<1>6. CASE PyInEnd + 2 <= PyEnd
  <2> HIDE DEF PyEnd, PyInEnd, PyMatch
  <2> QED BY <1>1, <1>2, <1>4, <1>5, <1>6, RunEnds
<1>7. CASE ~(PyInEnd + 2 <= PyEnd)
  <2>1. PyInEnd + 2 >= PyEnd
    BY <1>1, <1>4, <1>7
  <2>2. PyMatch.ip = PyInEnd + 2
    BY <1>5, <2>1 DEF Run
  <2> QED BY <1>4, <2>2
<1> QED BY <1>6, <1>7

\* A step of Python stays on the way, if the stream ends as the format has it.
LEMMA PyStaysOn ==
  ASSUME StreamType, PyType, stream.size <= Len(stream.body), EndsAsLz4,
         UNCHANGED <<stream, c>>, PyStep,
         NEW T, NEW y, Ended(T, y), PyOn(T)
  PROVE  PyOn(T)'
<1>1. py.at = "loop" /\ (PyReturn \/ PyRaises \/ PySequence)
  BY DEF PyStep, PyReturn, PyRaises, PySequence, PyRunning
<1>2. y \in Place /\ y.ip = c.ip /\ T \subseteq Place /\ LitsEnd(y) = stream.size
      /\ WithLits(y) = COutput /\ COutput \in Seq(0..Full) /\ Trail(T, y)
  BY DEF Ended, Trail
<1>3. PyEnd' = PyEnd /\ COutput' = COutput
  BY DEF PyEnd, COutput
<1>4. CASE PyPlace \in T /\ PyPlace # y
  <2>1. y.ip <= stream.size - 6
    <3>1. c.ip < stream.size /\ CLit.len >= 5
      BY DEF EndsAsLz4
    <3>2. Lits(y) = CLit
      BY <1>2 DEF Lits, CLit
    <3>3. Lits(y).ip \in Nat /\ Lits(y).len \in Nat /\ y.ip < Lits(y).ip
          /\ LitsEnd(y) = Lits(y).ip + Lits(y).len
      <4>1. y.ip < stream.size
        BY <1>2, <3>1
      <4> QED BY <1>2, <4>1, PartsOf DEF LitsEnd
    <3>4. y.ip \in Nat /\ stream.size \in Nat
      BY <1>2 DEF Place, StreamType
    <3> DEFINE a == Lits(y).ip
               n == Lits(y).len
    <3>5. a \in Nat /\ n \in Nat /\ y.ip < a /\ stream.size = a + n /\ n >= 5
      BY <1>2, <3>1, <3>2, <3>3
    <3> HIDE DEF a, n
    <3> QED BY <3>4, <3>5
  <2>2. PyPlace' \in T /\ py'.at = "loop"
    BY <1>1, <1>2, <1>4, <2>1, PyOnTheWay
  <2> QED BY <2>2 DEF PyOn
<1>5. CASE PyPlace \in T /\ PyPlace = y
  <2>1. PyPlace \in Place /\ py.ip = c.ip /\ LitsEnd(PyPlace) = stream.size
        /\ WithLits(PyPlace) \in Seq(0..Full) /\ WithLits(PyPlace) = COutput
    <3>1. PyPlace.ip = py.ip
      BY DEF PyPlace
    <3> QED BY <1>2, <1>5, <3>1
  <2>2. py'.at = "loop" /\ py'.ip >= PyEnd /\ py'.dst = COutput
    BY <1>1, <2>1, PyAtTheEnd
  <2> QED BY <1>3, <2>2 DEF PyOn
<1>6. CASE py.ip >= PyEnd /\ py.dst = COutput
  <2>1. PyReturn
    <3>1. ~(py.ip < PyEnd)
      <4>1. py.ip \in Nat /\ stream.size \in Nat /\ PyEnd = stream.size - 4
        BY DEF StreamType, PyType, PyEnd, SizeField
      <4> QED BY <1>6, <4>1
    <3> QED BY <1>1, <3>1 DEF PyRaises, PySequence
  <2>2. py'.at = "ok" /\ py'.ip = py.ip /\ py'.dst = py.dst
    BY <2>1 DEF PyReturn, PyType
  <2> QED BY <1>3, <1>6, <2>2 DEF PyOn
<1> QED BY <1>4, <1>5, <1>6 DEF PyOn

LEMMA PyAgrees ==
  ASSUME Agreement, PyStep, UNCHANGED <<stream, c, reach>>
  PROVE  Agreement'
<1>1. /\ stream' = stream /\ c' = c /\ reach' = reach /\ c.at \in {"ok", "error"}
      /\ py.at = "loop" /\ StreamType /\ PyType /\ PyInv /\ Len(stream.body) \in Nat
  BY DEF Agreement, Inv, StreamType, PyInv, PyStep, PyReturn, PyRaises, PySequence, PyRunning
<1>2. Inv'
  BY <1>1 DEF Agreement, Inv, StreamType, PlaceInv, ReachInv, NothingOutside, Full, Base
<1>3. CInv' /\ LoopInv'
  BY <1>1 DEF Agreement, CInv, LoopInv
<1>4. PyInv'
  <2>1. CASE PyReturn
    <3>1. py'.at = "ok" /\ py'.ip = py.ip /\ py.ip >= PyEnd
          /\ py' = [at |-> py'.at, ip |-> py'.ip, dst |-> py'.dst]
      BY <1>1, <2>1 DEF PyReturn, PyType
    <3> QED BY <1>1, <3>1 DEF PyInv, PyType, PyEnd
  <2>2. CASE PyRaises
    <3>1. py'.at = "None" /\ py'.ip = py.ip
          /\ py' = [at |-> py'.at, ip |-> py'.ip, dst |-> py'.dst]
      BY <1>1, <2>2 DEF PyRaises, PyType
    <3> QED BY <1>1, <3>1 DEF PyInv, PyType, PyEnd
  <2>3. CASE PySequence
    <3>1. py'.at = "loop" /\ py'.ip = PyMatch.ip
          /\ py' = [at |-> py'.at, ip |-> py'.ip, dst |-> py'.dst]
      BY <1>1, <2>3 DEF PySequence, PyType
    <3>2. PyMatch.ip \in Nat /\ PyMatch.ip <= Len(stream.body)
      BY <1>1, <2>3, PyMatchType DEF PySequence
    <3> QED BY <1>1, <3>1, <3>2 DEF PyInv, PyType, PyEnd
  <2> QED BY <2>1, <2>2, <2>3 DEF PyStep
<1>5. EndInv'
  <2>1. ASSUME c.at = "ok", c.ip < stream.size, ~reach.zero
        PROVE  \E T, y : Ended(T, y)' /\ (EndsAsLz4' => PyOn(T)')
    <3>1. PICK T, y : Ended(T, y) /\ (EndsAsLz4 => PyOn(T))
      BY <2>1 DEF Agreement, EndInv
    <3>2. Ended(T, y)'
      <4>1. Trail(T, y)' /\ LitsEnd(y)' = LitsEnd(y) /\ WithLits(y)' = WithLits(y)
        BY <1>1, <3>1, SameWay DEF Ended
      <4>2. COutput' = COutput /\ (0..Full)' = 0..Full
        BY <1>1 DEF COutput, Full, Base
      <4> HIDE DEF Full, COutput
      <4> QED BY <1>1, <3>1, <4>1, <4>2 DEF Ended
    <3>3. EndsAsLz4' = EndsAsLz4
      BY <1>1 DEF EndsAsLz4, CLit, LiteralRun, Run, Byte, Full, Base
    <3>4. ASSUME EndsAsLz4 PROVE PyOn(T)'
      <4>1. stream.size <= Len(stream.body)
        BY <2>1 DEF Agreement, CInv
      <4> QED BY <1>1, <3>1, <3>4, <4>1, PyStaysOn
    <3> QED BY <3>2, <3>3, <3>4
  <2> QED BY <1>1, <2>1 DEF EndInv
<1> QED BY <1>2, <1>3, <1>4, <1>5 DEF Agreement

LEMMA DamageAgrees ==
  ASSUME Agreement, DamageByte \/ DamageSize
  PROVE  Agreement'
<1>1. c.at = "call" /\ c' = c /\ reach' = reach /\ py' = py
  BY DEF DamageByte, DamageSize
<1>2. Inv'
  BY DamageInv DEF Agreement
<1>3. stream'.room = stream.room
  <2>1. stream \in [size : Nat, body : Seq(0..Full), room : Nat]
    BY DEF Agreement, Inv, StreamType
  <2> QED BY <2>1 DEF DamageByte, DamageSize
<1>4. CInv' /\ LoopInv' /\ EndInv'
  BY <1>1, <1>3 DEF Agreement, CInv, LoopInv, EndInv, DstInv, Full, Base
<1>5. PyInv'
  <2>1. py.at = "loop" /\ py.ip = 0 /\ PyType
    BY <1>1 DEF Agreement, PyInv, PyPlace, Start
  <2>2. Len(stream'.body) \in Nat
    BY <1>2 DEF Inv, StreamType
  <2> QED BY <1>1, <2>1, <2>2 DEF Agreement, PyInv, PyType, PyPlace, Start
<1> QED BY <1>2, <1>4, <1>5 DEF Agreement

LEMMA InitAgrees == Init => Agreement
<1> SUFFICES ASSUME Init PROVE Agreement
  OBVIOUS
<1>1. Inv
  BY InitInv
<1>2. PICK s : Lz4Init(s)
  BY DEF Init, InitLz4, InitLzjb
<1>3. /\ stream = s /\ c.at = "call" /\ c.ip = 0 /\ c.op = 0
      /\ c.dst = [i \in 0..(stream.room + 16) |-> 0]
      /\ py = [at |-> "loop", ip |-> 0, dst |-> <<>>]
  <2>1. 2 * CopyLength = 16
    BY DEF CopyLength
  <2> HIDE DEF CopyLength
  <2> QED BY <1>2, <2>1 DEF Lz4Init
<1>4. stream.room \in Nat /\ Len(stream.body) \in Nat
  BY <1>1 DEF Inv, StreamType
<1>5. DstInv
  <2>1. 0 \in 0..Full
    BY BaseType
  <2> HIDE DEF Full
  <2> QED BY <1>3, <1>4, <2>1 DEF DstInv
<1>6. CInv /\ LoopInv /\ EndInv
  BY <1>3, <1>5 DEF CInv, LoopInv, EndInv
<1>7. PyInv
  BY <1>3, <1>4 DEF PyInv, PyType, PyPlace, Start
<1> QED BY <1>1, <1>6, <1>7 DEF Agreement

LEMMA AgreementStep == Agreement /\ [Next]_vars => Agreement'
<1> SUFFICES ASSUME Agreement, [Next]_vars PROVE Agreement'
  OBVIOUS
<1>1. ASSUME UNCHANGED lz4vars PROVE Agreement'
  <2>1. stream' = stream /\ c' = c /\ reach' = reach /\ py' = py
    BY <1>1 DEF lz4vars
  <2>2. Inv'
    BY <2>1 DEF Agreement, Inv, StreamType, PlaceInv, ReachInv, NothingOutside, Full, Base
  <2>3. CInv' /\ LoopInv' /\ PyInv'
    <3>1. DstInv' = DstInv /\ Here' = Here
      BY <2>1 DEF DstInv, Here, COutput, Full, Base
    <3>2. CInv' /\ PyInv'
      BY <2>1, <3>1 DEF Agreement, CInv, PyInv, PyType, PyPlace, Start, PyEnd
    <3>3. LoopInv'
      <4>1. ASSUME c.at = "loop", ~reach.zero PROVE DstInv' /\ \E T : Trail(T, Here)'
        <5>1. PICK T : DstInv /\ Trail(T, Here)
          BY <4>1 DEF Agreement, LoopInv
        <5>2. PICK y : y = Here
          OBVIOUS
        <5>3. Trail(T, y)'
          BY <2>1, <5>1, <5>2, SameWay
        <5> QED BY <3>1, <5>1, <5>2, <5>3
      <4> QED BY <2>1, <4>1 DEF LoopInv
    <3> QED BY <3>2, <3>3
  <2>4. EndInv'
    <3>1. ASSUME c.at = "ok", c.ip < stream.size, ~reach.zero
          PROVE  \E T, y : Ended(T, y)' /\ (EndsAsLz4' => PyOn(T)')
      <4>1. PICK T, y : Ended(T, y) /\ (EndsAsLz4 => PyOn(T))
        BY <3>1 DEF Agreement, EndInv
      <4>2. Trail(T, y)' /\ LitsEnd(y)' = LitsEnd(y) /\ WithLits(y)' = WithLits(y)
        BY <2>1, <4>1, SameWay DEF Ended
      <4>3. COutput' = COutput /\ (0..Full)' = 0..Full
        BY <2>1 DEF COutput, Full, Base
      <4>4. Ended(T, y)'
        <5> HIDE DEF Full, COutput
        <5> QED BY <2>1, <4>1, <4>2, <4>3 DEF Ended
      <4>5. EndsAsLz4' = EndsAsLz4
        BY <2>1 DEF EndsAsLz4, CLit, LiteralRun, Run, Byte, Full, Base
      <4>6. PyOn(T) => PyOn(T)'
        BY <2>1, <4>3 DEF PyOn, PyPlace, PyEnd
      <4> QED BY <4>1, <4>4, <4>5, <4>6
    <3> QED BY <2>1, <3>1 DEF EndInv
  <2> QED BY <2>2, <2>3, <2>4 DEF Agreement
<1>2. CASE DamageByte \/ DamageSize
  BY <1>2, DamageAgrees
<1>3. CASE Lz4Reads
  BY <1>3, CAgrees, PyAgrees DEF Lz4Reads, Lz4Step
<1>4. CASE Pack \/ LzjbReads \/ ReadBlockEnds \/ UNCHANGED vars
  BY <1>1, <1>4 DEF Pack, LzjbReads, ReadBlockEnds, vars
<1> QED BY <1>2, <1>3, <1>4 DEF Next

LEMMA AgreementShows == Agreement => DecodersAgree
<1> SUFFICES ASSUME Agreement, c.at \in {"ok", "error"}, py.at # "loop"
             PROVE  /\ (c.at = "ok" /\ EndsAsLz4 /\ ~reach.zero) => (py.at = "ok" /\ py.dst = COutput)
                    /\ stream.size > Len(stream.body) => c.at = "error"
                    /\ stream.size > Len(stream.body) + SizeField => py.at = "None"
  BY DEF DecodersAgree
<1>1. stream.size \in Nat /\ Len(stream.body) \in Nat /\ py.ip \in Nat /\ PyEnd = stream.size - 4
      /\ SizeField = 4
  BY DEF Agreement, Inv, StreamType, PyInv, PyType, PyEnd, SizeField
<1>2. ASSUME c.at = "ok", EndsAsLz4, ~reach.zero PROVE py.at = "ok" /\ py.dst = COutput
  <2>1. c.ip < stream.size
    BY <1>2 DEF EndsAsLz4
  <2> QED BY <1>2, <2>1 DEF Agreement, EndInv, PyOn
<1>3. ASSUME stream.size > Len(stream.body) PROVE c.at = "error"
  BY <1>1, <1>3 DEF Agreement, CInv
<1>4. ASSUME stream.size > Len(stream.body) + SizeField PROVE py.at = "None"
  <2>1. ~(py.ip >= PyEnd)
    <3>1. py.ip <= Len(stream.body)
      BY DEF Agreement, PyInv
    <3> QED BY <1>1, <1>4, <3>1
  <2> QED BY <2>1 DEF Agreement, PyInv
<1> QED BY <1>2, <1>3, <1>4

\* The Python decoder gives what the C decoder of the kernel gives, for every
\* stream of bytes that ends as the format has it, with two zeros behind, and has
\* no offset 0: C's copies by packets, with sources that its tables put back, are
\* the copy byte by byte, and the end of the stream that lz4zfs.py has four bytes
\* early cuts no run. A size that leads behind the buffer fails C, and Python from
\* five bytes on.
THEOREM PythonDecodesAsC == Spec => []DecodersAgree
<1> QED BY InitAgrees, AgreementStep, AgreementShows, PTL DEF Spec
=============================================================================
